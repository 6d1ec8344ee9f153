-------------------------- MODULE WsSessionProofs ---------------------------
(***************************************************************************)
(* What holds of a WebSocket connection of the daemon for every timeout,   *)
(* any messages and any number of frames: the handler and keepAlive() use  *)
(* the connection as WsWriter has it, so that what is proved of it holds   *)
(* of them too, and keepAlive() does what it is for.                       *)
(***************************************************************************)
EXTENDS WsSession, WsWriterProofs

-----------------------------------------------------------------------------
(***************************************************************************)
(* The session is a use of the connection.                                 *)
(***************************************************************************)

LEMMA SessionThreads ==
  /\ "handler" \in Threads /\ "keeper" \in Threads /\ "handler" # "keeper"
  /\ \A t \in Threads : t = "handler" \/ t = "keeper"
BY SessionAssumption

\* The messages of the daemon are of one frame.
LEMMA OneFrame ==
  ASSUME WriterTypeOK, NEW t \in Threads
  PROVE  frame[t].final
<1>1. frame[t] \in CallFrame /\ MaxParts = 1
  BY SessionAssumption DEF WriterTypeOK
<1> QED
  BY <1>1 DEF CallFrame, Frame, NoCall

LEMMA StepIsPlainStep ==
  ASSUME WriterTypeOK, [Next]_vars
  PROVE  [PlainNext]_writerVars
<1>1. ASSUME NEW words \in Messages, ReadText(words)
      PROVE  [PlainNext]_writerVars
  BY <1>1, SessionThreads DEF ReadText, PlainNext, Op
<1>2. ASSUME CntlEnds
      PROVE  [PlainNext]_writerVars
  BY <1>2, SessionThreads DEF CntlEnds, PlainNext, Op
<1>3. ASSUME NEW op \in {"ping", "close", "bad"}, ReadControl(op)
      PROVE  [PlainNext]_writerVars
  BY <1>3, SessionThreads DEF ReadControl, PlainNext, Op
<1>4. ASSUME Ping
      PROVE  [PlainNext]_writerVars
  BY <1>4, SessionThreads DEF Ping, PlainNext, Op
<1>5. ASSUME Writes
      PROVE  [PlainNext]_writerVars
  BY <1>5 DEF Writes, PlainNext
<1>6. ASSUME Wake \/ KeeperPanics
      PROVE  [PlainNext]_writerVars
  <2>1. UNCHANGED <<callVars, mu, writeErr, isWriting, writeBuf, wire>>
        /\ (net' = "down" \/ net' = net)
    BY <1>6 DEF Wake, KeeperPanics
  <2>2. net \in {"up", "down"}
    BY DEF WriterTypeOK
  <2>3. CASE net = "up" /\ net' = "down"
    BY <2>1, <2>3 DEF NetDown, PlainNext
  <2>4. CASE net' = net
    BY <2>1, <2>4 DEF callVars, writerVars
  <2> QED
    BY <2>1, <2>2, <2>3, <2>4
<1>7. ASSUME Network
      PROVE  [PlainNext]_writerVars
  BY <1>7 DEF Network, PlainNext
<1>8. ASSUME \/ ReadPong \/ HandlerWrote \/ ReadFails \/ HandlerPanics
             \/ Start \/ Pinged \/ (\E f \in Incoming : Peer(f)) \/ Tick
      PROVE  [PlainNext]_writerVars
  BY <1>8 DEF ReadPong, HandlerWrote, ReadFails, HandlerPanics, Start, Pinged, Peer, Tick
<1>9. ASSUME UNCHANGED vars
      PROVE  [PlainNext]_writerVars
  BY <1>9 DEF vars, writerVars
<1> QED
  BY <1>1, <1>2, <1>3, <1>4, <1>5, <1>6, <1>7, <1>8, <1>9 DEF Next

LEMMA StepIsWriterStep ==
  ASSUME WriterTypeOK, [Next]_vars
  PROVE  [WriterNext]_writerVars
BY StepIsPlainStep DEF PlainNext, WriterNext

\* ws_handler(), keepAlive() and the peer do nothing to the writing side of the
\* connection but call it and take the network down.
THEOREM SessionUsesWriter == Spec => WriterSpec
<1>1. Init => WriterInit /\ WriterTypeOK
  BY WriterTypeInit DEF Init
<1>2. WriterTypeOK /\ [Next]_vars => WriterTypeOK' /\ [WriterNext]_writerVars
  BY StepIsWriterStep, WriterTypeStep
<1> QED
  BY <1>1, <1>2, PTL DEF Spec, WriterSpec

\* The daemon sends close frames with WriteControl() only, so nothing it writes
\* follows a close frame or a torn one although its pings and its answers race.
THEOREM SessionEndsCleanly == Spec => []LastFrameIsLast
<1>1. Init => LastInv
  BY LastInit DEF Init
<1>2. LastInv /\ [Next]_vars => LastInv'
  BY StepIsPlainStep, LastStep DEF LastInv, EndInv
<1>3. LastInv => LastFrameIsLast
  BY DEF LastInv, EndInv
<1> QED
  BY <1>1, <1>2, <1>3, PTL DEF Spec

-----------------------------------------------------------------------------
(***************************************************************************)
(* Type correctness.                                                       *)
(***************************************************************************)

LEMMA TypeStep ==
  ASSUME TypeOK, [Next]_vars
  PROVE  TypeOK'
<1>0. WriterTypeOK'
  BY StepIsWriterStep, WriterTypeStep DEF TypeOK
<1>1. /\ inbox \in Seq(Incoming) /\ now \in Nat /\ Half \in Nat /\ MaxTime \in Nat
      /\ MaxFrames \in Nat
  BY SessionAssumption DEF TypeOK
<1>2. ASSUME NEW words \in Messages, ReadText(words)
      PROVE  TypeOK'
  <2>1. inbox' \in Seq(Incoming)
    BY <1>1, <1>2 DEF ReadText, Reads
  <2> QED
    BY <1>0, <1>2, <2>1 DEF ReadText, TypeOK
<1>3. ASSUME ReadPong
      PROVE  TypeOK'
  <2>1. inbox' \in Seq(Incoming)
    BY <1>1, <1>3 DEF ReadPong, Reads
  <2> QED
    BY <1>0, <1>1, <1>3, <2>1 DEF ReadPong, TypeOK
<1>4. ASSUME NEW op \in {"ping", "close", "bad"}, ReadControl(op)
      PROVE  TypeOK'
  <2>1. inbox' \in Seq(Incoming)
    BY <1>1, <1>4 DEF ReadControl, Reads
  <2> QED
    BY <1>0, <1>4, <2>1 DEF ReadControl, TypeOK
<1>5. ASSUME CntlEnds \/ HandlerWrote \/ ReadFails \/ HandlerPanics \/ KeeperPanics
             \/ Writes \/ Network \/ UNCHANGED vars
      PROVE  TypeOK'
  BY <1>0, <1>5 DEF CntlEnds, HandlerWrote, ReadFails, HandlerPanics, KeeperPanics,
                    Writes, Network, sessionVars, vars, TypeOK
<1>6. ASSUME Start \/ Ping \/ Wake
      PROVE  TypeOK'
  BY <1>0, <1>1, <1>6 DEF Start, Ping, Wake, TypeOK
<1>7. ASSUME Pinged
      PROVE  TypeOK'
  <2>1. wake' \in 0..(MaxTime + Half)
    BY <1>1, <1>7 DEF Pinged, TypeOK
  <2> QED
    BY <1>0, <1>7, <2>1 DEF Pinged, TypeOK
<1>8. ASSUME NEW f \in Incoming, Peer(f)
      PROVE  TypeOK'
  <2>1. inbox' \in Seq(Incoming)
    BY <1>1, <1>8 DEF Peer
  <2>2. sent' \in 0..MaxFrames
    BY <1>1, <1>8 DEF Peer, TypeOK
  <2>3. heard' \in 0..now
    BY <1>1, <1>8 DEF Peer, TypeOK
  <2> QED
    BY <1>0, <1>8, <2>1, <2>2, <2>3 DEF Peer, TypeOK
<1>9. ASSUME Tick
      PROVE  TypeOK'
  <2>1. /\ now' \in 0..MaxTime /\ lastResponse' \in 0..now' /\ heard' \in 0..now'
        /\ held' \in 0..now'
    BY <1>1, <1>9 DEF Tick, TypeOK
  <2> QED
    BY <1>0, <1>9, <2>1 DEF Tick, TypeOK
<1> QED
  BY <1>2, <1>3, <1>4, <1>5, <1>6, <1>7, <1>8, <1>9 DEF Next

LEMMA TypeInit ==
  ASSUME Init
  PROVE  TypeOK
<1>1. inbox \in Seq(Incoming)
  BY DEF Init
<1>2. {Half, MaxTime, Window, MaxFrames} \subseteq Nat
  BY SessionAssumption
<1> QED
  BY <1>1, <1>2, WriterTypeInit DEF Init, TypeOK

\* Neither the handler nor keepAlive() is ever in a state of its own making, and
\* no time of either is in the future.
THEOREM SessionTypeCorrectness == Spec => []TypeOK
<1> QED
  BY TypeInit, TypeStep, PTL DEF Spec

-----------------------------------------------------------------------------
(***************************************************************************)
(* A silent peer is closed in time.  A Sleep() begins when the ping before *)
(* it has been written, and the check before that ping has found           *)
(* lastResponse to be no older than the timeout.                           *)
(***************************************************************************)

KeepsTime ==
  /\ keeper \in {"ping", "pinging"} => now <= lastResponse + 2 * Half + held
  /\ keeper = "sleep" => now <= wake /\ wake <= lastResponse + 3 * Half + held

LEMMA KeepsTimeStep ==
  ASSUME TypeOK, KeepsTime, [Next]_vars
  PROVE  KeepsTime'
<1>1. now \in Nat /\ lastResponse \in 0..now /\ wake \in Nat /\ held \in Nat /\ Half \in Nat
  BY SessionAssumption DEF TypeOK
<1>2. CASE ReadPong
  BY <1>1, <1>2 DEF ReadPong, KeepsTime
<1>3. CASE Start \/ Ping \/ Pinged
  BY <1>1, <1>3 DEF Start, Ping, Pinged, KeepsTime
<1>4. CASE Wake
  BY <1>1, <1>4 DEF Wake, SoonEnough, KeepsTime
<1>5. CASE Tick
  BY <1>1, <1>5 DEF Tick, KeepsTime
<1>6. ASSUME UNCHANGED <<keeper, now, lastResponse, wake, held>>
      PROVE  KeepsTime'
  BY <1>6 DEF KeepsTime
<1>7. CASE \/ \E words \in Messages : ReadText(words)
           \/ \E op \in {"ping", "close", "bad"} : ReadControl(op)
           \/ \E f \in Incoming : Peer(f)
  BY <1>6, <1>7 DEF ReadText, ReadControl, Peer
<1>8. CASE CntlEnds \/ HandlerWrote \/ ReadFails \/ HandlerPanics \/ KeeperPanics
           \/ Writes \/ Network \/ UNCHANGED vars
  BY <1>6, <1>8 DEF CntlEnds, HandlerWrote, ReadFails, HandlerPanics, KeeperPanics,
                    Writes, Network, sessionVars, vars
<1> QED
  BY <1>2, <1>3, <1>4, <1>5, <1>7, <1>8 DEF Next

\* Whatever the timeout and whatever the peer sends, keepAlive() has closed the
\* connection, or is about to, one and a half timeouts after the last pong and
\* the time its pings had to wait.
THEOREM SilentPeersAreNoticed == Spec => []SilentPeersAreClosed
<1>1. Init => TypeOK /\ KeepsTime
  BY TypeInit DEF Init, KeepsTime
<1>2. TypeOK /\ KeepsTime /\ [Next]_vars => TypeOK' /\ KeepsTime'
  BY TypeStep, KeepsTimeStep
<1>3. TypeOK /\ KeepsTime => SilentPeersAreClosed
  <2>1. TypeOK => {now, lastResponse, wake, held, Half} \subseteq Nat
    BY SessionAssumption DEF TypeOK
  <2> QED
    BY <2>1 DEF KeepsTime, SilentPeersAreClosed
<1> QED
  BY <1>1, <1>2, <1>3, PTL DEF Spec

-----------------------------------------------------------------------------
(***************************************************************************)
(* Close() is deserved.  lastResponse is never older than the last pong    *)
(* the peer has sent, unless that pong has not been read.  No pong is      *)
(* lost for want of a handler: the peer has none to send before a ping is  *)
(* out, and no ping is before keepAlive() has set the handler.             *)
(***************************************************************************)

NoPingYet ==
  keeper = "start" =>
    /\ \A t \in Threads : frame[t].op # "ping"
    /\ writeBuf.head.op # "ping"
    /\ \A k \in DOMAIN wire : wire[k].head.op # "ping"
    /\ heard = 0

HearsPongs == NoPingYet /\ (heard > lastResponse => PongWaits)

LEMMA NoPingYetStep ==
  ASSUME TypeOK, NoPingYet, [Next]_vars
  PROVE  NoPingYet'
<1> SUFFICES ASSUME keeper' = "start"
             PROVE  NoPingYet'
  BY DEF NoPingYet
<1>1. CASE UNCHANGED <<frame, writeBuf, wire, heard, keeper>>
  BY <1>1 DEF NoPingYet
<1>2. ASSUME NEW t \in Threads, NEW op \in Op, NEW via, NEW final, NEW first,
             Call(t, op, via, final, first), op # "ping", keeper' = keeper, heard' = heard
      PROVE  NoPingYet'
  BY <1>2 DEF Call, connVars, NoPingYet, TypeOK, WriterTypeOK
<1>3. ASSUME NEW words \in Messages, ReadText(words)
      PROVE  NoPingYet'
  BY <1>1, <1>2, <1>3, SessionThreads DEF ReadText, WriteMessage, Op, writerVars
<1>4. ASSUME NEW op \in {"ping", "close", "bad"}, ReadControl(op)
      PROVE  NoPingYet'
  BY <1>2, <1>4, SessionThreads DEF ReadControl, WriteControl, Op
<1>5. CASE CntlEnds
  BY <1>2, <1>5, SessionThreads DEF CntlEnds, WriteMessage, Op
<1>6. ASSUME NEW f \in Incoming, Peer(f)
      PROVE  NoPingYet'
  BY <1>6 DEF Peer, NoPingYet, writerVars
<1>7. ASSUME NEW t \in Threads, WriteStep(t), UNCHANGED sessionVars
      PROVE  NoPingYet'
  <2>0. keeper = "start" /\ heard' = heard /\ frame[t].op # "ping"
        /\ writeBuf.head.op # "ping"
    BY <1>7 DEF sessionVars, NoPingYet
  <2>1. \A s \in Threads : frame'[s].op # "ping"
    <3>1. \A s \in Threads : frame'[s] \in {frame[s], NoCall}
      BY <1>7, OneFrame DEF Refuse,  WriteStep, BeginMessage, Refuse, Fill, Test, Mark, Clear, Lock, GiveUp, Send,
                  Wrote, Unlock, Returns, TypeOK, WriterTypeOK
    <3> QED
      BY <2>0, <3>1 DEF NoPingYet, NoCall
  <2>2. writeBuf'.head.op # "ping"
    <3>1. writeBuf'.head \in {writeBuf.head, frame[t]}
      BY <1>7 DEF WriteStep, BeginMessage, Refuse, Fill, Test, Mark, Clear, Lock, GiveUp, Send,
                  Wrote, Unlock, connVars, TypeOK, WriterTypeOK
    <3> QED
      BY <2>0, <3>1
  <2>3. \A k \in DOMAIN wire' : wire'[k].head.op # "ping"
    <3>1. wire' = wire \/ \E b \in BOOLEAN : wire' = Append(wire, Bytes(t, b))
      BY <1>7 DEF WriteStep, BeginMessage, Refuse, Fill, Test, Mark, Clear, Lock, GiveUp, Send,
                  Wrote, Unlock, connVars
    <3>2. CASE wire' = wire
      BY <2>0, <3>2 DEF NoPingYet
    <3>3. ASSUME NEW b \in BOOLEAN, wire' = Append(wire, Bytes(t, b))
          PROVE  \A k \in DOMAIN wire' : wire'[k].head.op # "ping"
      <4>1. wire \in Seq(Bit) /\ Bytes(t, b) \in Bit
        BY BytesType DEF TypeOK, WriterTypeOK, Bit
      <4>2. Bytes(t, b).head.op # "ping"
        BY <2>0 DEF Bytes
      <4>3. \A k \in DOMAIN wire' : wire'[k] = Bytes(t, b) \/ (k \in DOMAIN wire /\ wire'[k] = wire[k])
        BY <3>3, <4>1
      <4> QED
        BY <2>0, <4>2, <4>3 DEF NoPingYet
    <3> QED
      BY <3>1, <3>2, <3>3
  <2> QED
    BY <2>0, <2>1, <2>2, <2>3 DEF NoPingYet
<1>8. CASE ReadPong \/ HandlerWrote \/ ReadFails \/ HandlerPanics \/ KeeperPanics
           \/ Network \/ Tick \/ UNCHANGED vars
  BY <1>1, <1>8 DEF ReadPong, HandlerWrote, ReadFails, HandlerPanics, KeeperPanics,
                    Network, NetDown, Tick, sessionVars, callVars, vars, writerVars
<1>9. CASE Start \/ Ping \/ Pinged \/ Wake
  BY <1>9 DEF Start, Ping, Pinged, Wake
<1> QED
  BY <1>3, <1>4, <1>5, <1>6, <1>7, <1>8, <1>9 DEF Next, Writes

\* Reading a frame that is no pong leaves the pongs where they are.
LEMMA PongsStay ==
  ASSUME TypeOK, PongWaits, NEW f, Reads(f), f.op # "pong"
  PROVE  PongWaits'
<1>1. PICK k \in DOMAIN inbox : inbox[k].op = "pong"
  BY DEF PongWaits
<1>2. inbox \in Seq(Incoming) /\ inbox # <<>> /\ Head(inbox).op # "pong" /\ inbox' = Tail(inbox)
  BY DEF TypeOK, Reads
<1>3. k \in 2..Len(inbox)
  BY <1>1, <1>2
<1>4. k - 1 \in DOMAIN inbox' /\ inbox'[k - 1] = inbox[k]
  BY <1>2, <1>3
<1> QED
  BY <1>1, <1>4 DEF PongWaits

LEMMA HearsPongsStep ==
  ASSUME TypeOK, HearsPongs, [Next]_vars
  PROVE  HearsPongs'
<1>0. NoPingYet' /\ now \in Nat /\ lastResponse \in 0..now /\ heard \in 0..now
  BY NoPingYetStep DEF HearsPongs, TypeOK
<1> SUFFICES ASSUME (heard > lastResponse)'
             PROVE  PongWaits'
  BY <1>0 DEF HearsPongs
<1>1. ASSUME NEW words \in Messages, ReadText(words)
      PROVE  PongWaits'
  BY <1>1, PongsStay DEF ReadText, HearsPongs
<1>2. ASSUME NEW op \in {"ping", "close", "bad"}, ReadControl(op)
      PROVE  PongWaits'
  BY <1>2, PongsStay DEF ReadControl, HearsPongs
<1>3. CASE ReadPong
  BY <1>0, <1>3 DEF ReadPong, HearsPongs, NoPingYet
<1>4. ASSUME NEW f \in Incoming, Peer(f)
      PROVE  PongWaits'
  <2>1. inbox \in Seq(Incoming) /\ inbox' = Append(inbox, f)
    BY <1>4 DEF TypeOK, Peer
  <2>2. CASE f.op = "pong"
    <3>1. Len(inbox') \in DOMAIN inbox' /\ inbox'[Len(inbox')] = f
      BY <2>1
    <3> QED
      BY <2>2, <3>1 DEF PongWaits
  <2>3. CASE f.op # "pong"
    <3>1. PICK k \in DOMAIN inbox : inbox[k].op = "pong"
      BY <1>4, <2>3 DEF Peer, HearsPongs, PongWaits
    <3>2. k \in DOMAIN inbox' /\ inbox'[k] = inbox[k]
      BY <2>1
    <3> QED
      BY <3>1, <3>2 DEF PongWaits
  <2> QED
    BY <2>2, <2>3
<1>5. CASE Start
  BY <1>0, <1>5 DEF Start
<1>6. CASE UNCHANGED <<inbox, heard, lastResponse>>
  BY <1>6 DEF HearsPongs, PongWaits
<1>7. CASE CntlEnds \/ HandlerWrote \/ ReadFails \/ HandlerPanics \/ KeeperPanics
           \/ Ping \/ Pinged \/ Wake \/ Writes \/ Network \/ Tick \/ UNCHANGED vars
  BY <1>6, <1>7 DEF CntlEnds, HandlerWrote, ReadFails, HandlerPanics, KeeperPanics,
                    Ping, Pinged, Wake, Writes, Network, Tick, sessionVars, vars
<1> QED
  BY <1>1, <1>2, <1>3, <1>4, <1>5, <1>7 DEF Next

\* Whatever the timeout, keepAlive() closes no connection whose peer has sent a
\* pong within it, unless the handler has left something unread.
THEOREM OnlySilentPeersAreClosed == Spec => CloseIsDeserved
<1>1. Init => TypeOK /\ HearsPongs
  <2> SUFFICES ASSUME Init
               PROVE  TypeOK /\ HearsPongs
    OBVIOUS
  <2>1. WriterInit /\ heard = 0 /\ lastResponse = 0
    BY DEF Init
  <2>2. NoPingYet
    BY <2>1 DEF WriterInit, NoCall, NoPingYet
  <2> QED
    BY <2>1, <2>2, TypeInit DEF HearsPongs
<1>2. TypeOK /\ HearsPongs /\ [Next]_vars => TypeOK' /\ HearsPongs'
  BY TypeStep, HearsPongsStep
<1>3. ASSUME TypeOK, HearsPongs, [Next]_vars
      PROVE  [keeper = "sleep" /\ keeper' = "over" =>
                now >= heard + 2 * Half \/ PongWaits]_vars
  <2> SUFFICES ASSUME keeper = "sleep", keeper' = "over"
               PROVE  now >= heard + 2 * Half \/ PongWaits
    OBVIOUS
  <2>1. Wake
    BY <1>3 DEF Next, ReadText, CntlEnds, ReadPong, ReadControl, HandlerWrote, ReadFails,
                HandlerPanics, Start, Ping, Pinged, KeeperPanics, Writes, Peer, Network,
                Tick, sessionVars, vars
  <2>2. now >= lastResponse + 2 * Half
    BY <1>3, <2>1, SessionAssumption DEF Wake, TooLong, TypeOK
  <2>3. heard <= lastResponse \/ PongWaits
    BY <1>3 DEF HearsPongs, TypeOK
  <2> QED
    BY <1>3, <2>2, <2>3, SessionAssumption DEF TypeOK
<1> QED
  BY <1>1, <1>2, <1>3, PTL DEF Spec, CloseIsDeserved

-----------------------------------------------------------------------------
(***************************************************************************)
(* keepAlive() only gives up what is dead: once a WriteMessage() of its    *)
(* has failed writeErr is set, which nothing resets.                       *)
(***************************************************************************)

\* keepAlive() writes no control frames, whose calls may fail for want of time.
FailureIsKept ==
  /\ frame["keeper"].via # "control"
  /\ pc["keeper"] = "unlock" => outcome["keeper"] # "none"
  /\ pc["keeper"] \in {"retest", "clear"} /\ outcome["keeper"] # "ok" => writeErr # "none"
  /\ keeper = "pinging" /\ pc["keeper"] = "idle" /\ result["keeper"] # "ok" => writeErr # "none"
  /\ GivesUpOnTheDeadOnly

\* writeErr is set once.
LEMMA WriteErrStays ==
  ASSUME [WriterNext]_writerVars, writeErr # "none"
  PROVE  writeErr' = writeErr
BY DEF WriterNext, WriteMessage, WritePreparedMessage, WriteControl, Call, WriteStep,
       BeginMessage, Refuse, Fill, Test, Mark, Clear, Lock, GiveUp, Send, Wrote, Unlock, Returns, NetDown, connVars, writerVars

LEMMA FailureIsKeptInCall ==
  ASSUME TypeOK, FailureIsKept, up, NEW t \in Threads, WriteStep(t), UNCHANGED sessionVars
  PROVE  FailureIsKept'
<1>0. /\ keeper' = keeper /\ up' = up /\ net' = net
      /\ writeErr # "none" => writeErr' # "none"
  <2>1. net' = net
    BY DEF WriteStep, BeginMessage, Refuse, Fill, Test, Mark, Clear, Lock, GiveUp, Send, Wrote,
           Unlock, connVars
  <2> QED
    BY <2>1, WriteErrStays DEF WriterNext, sessionVars
<1>1. GivesUpOnTheDeadOnly'
  BY <1>0 DEF FailureIsKept, GivesUpOnTheDeadOnly
<1>2. CASE t # "keeper"
  <2>1. /\ pc'["keeper"] = pc["keeper"] /\ frame'["keeper"] = frame["keeper"]
        /\ outcome'["keeper"] = outcome["keeper"] /\ result'["keeper"] = result["keeper"]
    BY <1>2, SessionThreads
       DEF WriteStep, BeginMessage, Refuse, Fill, Test, Mark, Clear, Lock, GiveUp, Send, Wrote,
           Unlock, Returns, Goto, connVars, TypeOK, WriterTypeOK
  <2> QED
    BY <1>0, <1>1, <2>1 DEF FailureIsKept
<1>3. CASE t = "keeper"
  <2>0. /\ pc \in [Threads -> {"idle", "panic"} \cup InFrame] /\ "keeper" \in Threads
        /\ frame \in [Threads -> CallFrame]
        /\ outcome \in [Threads -> {"none", "ok"} \cup Error]
        /\ DOMAIN result = Threads
        /\ frame["keeper"].via # "control"
    BY SessionThreads DEF TypeOK, WriterTypeOK, FailureIsKept
  <2>1. ASSUME BeginMessage(t)
        PROVE  FailureIsKept'
    BY <1>0, <1>1, <1>3, <2>0, <2>1
       DEF BeginMessage, Returns, Goto, connVars, FailureIsKept, NoCall
  <2>2. ASSUME Fill(t) \/ Test(t) \/ Mark(t) \/ Lock(t)
        PROVE  FailureIsKept'
    <3>1. /\ UNCHANGED <<frame, outcome, result>>
          /\ pc'["keeper"] \notin {"idle", "unlock", "retest"}
          /\ pc'["keeper"] = "clear" => pc["keeper"] = "retest"
      BY <1>3, <2>0, <2>2 DEF Fill, Test, Mark, Lock, Goto
    <3> QED
      BY <1>0, <1>1, <3>1 DEF FailureIsKept
  <2>3. ASSUME Clear(t)
        PROVE  FailureIsKept'
    BY <1>0, <1>1, <1>3, <2>0, <2>3, OneFrame
       DEF Clear, Returns, Goto, FailureIsKept, NoCall, TypeOK
  <2>7. ASSUME Refuse(t)
        PROVE  FailureIsKept'
    BY <2>7, OneFrame DEF Refuse, InvalidControl, TypeOK
  <2>4. ASSUME GiveUp(t)
        PROVE  FailureIsKept'
    BY <1>3, <2>0, <2>4 DEF GiveUp
  <2>5. ASSUME Send(t)
        PROVE  FailureIsKept'
    <3>1. UNCHANGED <<frame, result>> /\ pc'["keeper"] = "unlock" /\ outcome'["keeper"] # "none"
      BY <1>3, <2>0, <2>5 DEF Send, Wrote, Goto
    <3> QED
      BY <1>1, <2>0, <3>1 DEF FailureIsKept
  <2>6. ASSUME Unlock(t)
        PROVE  FailureIsKept'
    <3>1. /\ UNCHANGED <<frame, result, outcome>> /\ pc'["keeper"] = "retest"
          /\ outcome["keeper"] # "ok" => writeErr' # "none"
      BY <1>3, <2>0, <2>6 DEF Unlock, Goto, FailureIsKept
    <3> QED
      BY <1>1, <2>0, <3>1 DEF FailureIsKept
  <2> QED
    BY <2>1, <2>2, <2>3, <2>4, <2>5, <2>6, <2>7 DEF WriteStep
<1> QED
  BY <1>2, <1>3

LEMMA FailureIsKeptStep ==
  ASSUME TypeOK, FailureIsKept, [Next]_vars
  PROVE  FailureIsKept'
<1>0. /\ writeErr # "none" => writeErr' # "none"
      /\ "keeper" \in Threads /\ "handler" \in Threads /\ "keeper" # "handler"
  BY StepIsWriterStep, WriteErrStays, SessionThreads DEF TypeOK
<1>1. ASSUME UNCHANGED <<callVars, writeErr, net, up, keeper>>
      PROVE  FailureIsKept'
  BY <1>1 DEF FailureIsKept, GivesUpOnTheDeadOnly, callVars
<1>2. ASSUME NEW op \in Op, NEW via, NEW final, NEW first,
             Call("handler", op, via, final, first), UNCHANGED <<up, keeper>>
      PROVE  FailureIsKept'
  <2>1. /\ pc'["keeper"] = pc["keeper"] /\ frame'["keeper"] = frame["keeper"]
        /\ outcome'["keeper"] = outcome["keeper"] /\ UNCHANGED <<result, writeErr, net>>
    BY <1>0, <1>2 DEF Call, Goto, connVars, TypeOK, WriterTypeOK
  <2> QED
    BY <1>2, <2>1 DEF FailureIsKept, GivesUpOnTheDeadOnly
<1>3. ASSUME NEW words \in Messages, ReadText(words)
      PROVE  FailureIsKept'
  BY <1>1, <1>2, <1>3 DEF ReadText, WriteMessage, Op, writerVars, callVars
<1>4. ASSUME NEW op \in {"ping", "close", "bad"}, ReadControl(op)
      PROVE  FailureIsKept'
  BY <1>2, <1>4 DEF ReadControl, WriteControl, Op
<1>5. CASE CntlEnds
  BY <1>2, <1>5 DEF CntlEnds, WriteMessage, Op
<1>6. CASE Ping
  BY <1>0, <1>6 DEF Ping, WriteMessage, Call, Goto, connVars, FailureIsKept,
                    GivesUpOnTheDeadOnly, TypeOK, WriterTypeOK
<1>7. CASE Start \/ Pinged
  BY <1>7 DEF Start, Pinged, FailureIsKept, GivesUpOnTheDeadOnly, writerVars
<1>8. CASE Wake \/ KeeperPanics
  BY <1>8 DEF Wake, KeeperPanics, FailureIsKept, GivesUpOnTheDeadOnly, callVars
<1>9. CASE Writes
  BY <1>9, FailureIsKeptInCall DEF Writes
<1>10. CASE Network
  BY <1>10 DEF Network, NetDown, FailureIsKept, GivesUpOnTheDeadOnly, callVars, sessionVars
<1>11. CASE \/ ReadPong \/ HandlerWrote \/ ReadFails \/ HandlerPanics \/ Tick
            \/ (\E f \in Incoming : Peer(f)) \/ UNCHANGED vars
  BY <1>1, <1>11 DEF ReadPong, HandlerWrote, ReadFails, HandlerPanics, Tick, Peer, vars,
                     writerVars, callVars
<1> QED
  BY <1>3, <1>4, <1>5, <1>6, <1>7, <1>8, <1>9, <1>10, <1>11 DEF Next

\* keepAlive() never ends with the connection up and still able to carry a ping,
\* whoever else writes at the same time.
THEOREM KeeperGivesUpOnTheDead == Spec => []GivesUpOnTheDeadOnly
<1>1. Init => TypeOK /\ FailureIsKept
  <2>1. Init => TypeOK
    BY TypeInit
  <2>2. Init => FailureIsKept
    BY SessionThreads DEF Init, WriterInit, NoCall, FailureIsKept, GivesUpOnTheDeadOnly
  <2> QED
    BY <2>1, <2>2
<1>2. TypeOK /\ FailureIsKept /\ [Next]_vars => TypeOK' /\ FailureIsKept'
  BY TypeStep, FailureIsKeptStep
<1>3. FailureIsKept => GivesUpOnTheDeadOnly
  BY DEF FailureIsKept
<1> QED
  BY <1>1, <1>2, <1>3, PTL DEF Spec
=============================================================================
