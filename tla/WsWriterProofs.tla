--------------------------- MODULE WsWriterProofs ---------------------------
(***************************************************************************)
(* What holds of the writing side of a connection for any number of        *)
(* goroutines and of calls.  Applications that send close frames with      *)
(* WriteControl() only, as the library and the daemon do, never write      *)
(* after a close frame or a torn one, however many of them write messages  *)
(* at a time.                                                              *)
(***************************************************************************)
EXTENDS WsWriter, TLAPS

Bit == [head : CallFrame, body : CallFrame, whole : BOOLEAN]
Place == {"idle", "panic"} \cup InFrame

-----------------------------------------------------------------------------
(***************************************************************************)
(* Type correctness.                                                       *)
(***************************************************************************)

LEMMA NoCallType == NoCall \in CallFrame
BY DEF CallFrame

LEMMA ReturnsType ==
  ASSUME WriterTypeOK, NEW t \in Threads,
         NEW r \in Result, Returns(t, r)
  PROVE  /\ pc' \in [Threads -> Place]
         /\ frame' \in [Threads -> CallFrame]
         /\ outcome' \in [Threads -> {"none", "ok"} \cup Error]
         /\ result' \in [Threads -> Result]
         /\ calls' \in [Threads -> 0..MaxCalls]
<1>1. pc' \in [Threads -> Place]
  BY DEF WriterTypeOK, Returns, Goto, Place
<1>2. frame' \in [Threads -> CallFrame]
  BY NoCallType DEF WriterTypeOK, Returns
<1>3. outcome' \in [Threads -> {"none", "ok"} \cup Error]
  BY DEF WriterTypeOK, Returns
<1>4. result' \in [Threads -> Result]
  BY DEF WriterTypeOK, Returns
<1>5. calls' \in [Threads -> 0..MaxCalls]
  BY DEF WriterTypeOK, Returns
<1> QED
  BY <1>1, <1>2, <1>3, <1>4, <1>5

LEMMA CallType ==
  ASSUME WriterTypeOK, NEW t \in Threads, NEW op \in Op, NEW via \in Via,
         NEW final \in Ends(1), NEW first \in InFrame, Call(t, op, via, final, first)
  PROVE  WriterTypeOK'
<1>1. calls[t] \in 0..MaxCalls /\ calls[t] < MaxCalls /\ MaxCalls \in Nat
      /\ 1 \in 1..MaxParts
  BY WriterAssumption DEF WriterTypeOK, Call
<1>2. [op |-> op, by |-> t, n |-> calls[t] + 1, via |-> via, part |-> 1, final |-> final]
        \in CallFrame
  BY <1>1 DEF CallFrame, Frame, Ends
<1>3. frame' \in [Threads -> CallFrame]
  BY <1>2 DEF WriterTypeOK, Call
<1>4. calls' \in [Threads -> 0..MaxCalls]
  BY <1>1 DEF WriterTypeOK, Call
<1>5. pc' \in [Threads -> {"idle", "panic"} \cup InFrame]
  BY DEF WriterTypeOK, Call, Goto
<1>6. outcome' \in [Threads -> {"none", "ok"} \cup Error]
  BY DEF WriterTypeOK, Call
<1> QED
  BY <1>3, <1>4, <1>5, <1>6 DEF WriterTypeOK, Call, connVars

\* A frame that is not the last one of its message has a next one.
LEMMA NextPartType ==
  ASSUME NEW f \in CallFrame, ~f.final, NEW final \in Ends(f.part + 1)
  PROVE  NextPart(f, final) \in Frame
<1>1. f \in Frame
  BY DEF CallFrame, NoCall
<1>2. f.part \in 1..MaxParts /\ f.part # MaxParts /\ MaxParts \in Nat
  BY <1>1, WriterAssumption DEF Frame
<1>3. final \in BOOLEAN /\ f.part + 1 \in 1..MaxParts /\ (f.part + 1 = MaxParts => final)
  BY <1>2 DEF Ends
<1> QED
  BY <1>1, <1>3 DEF NextPart, Frame

\* What goes on the wire is of the type of the wire.
LEMMA BytesType ==
  ASSUME WriterTypeOK, NEW t \in Threads, NEW whole \in BOOLEAN
  PROVE  Bytes(t, whole) \in Bit
<1>1. frame[t] \in CallFrame /\ writeBuf \in [head : CallFrame, body : CallFrame]
  BY DEF WriterTypeOK
<1>2. CASE frame[t].via = "message"
  BY <1>1, <1>2 DEF Bytes, Bit
<1>3. CASE frame[t].via # "message"
  BY <1>1, <1>3 DEF Bytes, Bit
<1> QED
  BY <1>2, <1>3

LEMMA WroteType ==
  ASSUME WriterTypeOK, NEW t \in Threads, NEW o \in {"none", "ok"} \cup Error,
         NEW w \in Seq(Bit), Wrote(t, o, w)
  PROVE  WriterTypeOK'
<1>1. wire' \in Seq([head : CallFrame, body : CallFrame, whole : BOOLEAN])
  BY DEF Wrote, Bit
<1>2. outcome' \in [Threads -> {"none", "ok"} \cup Error]
  BY DEF WriterTypeOK, Wrote
<1>3. pc' \in [Threads -> {"idle", "panic"} \cup InFrame]
  BY DEF WriterTypeOK, Wrote, Goto, InFrame
<1> QED
  BY <1>1, <1>2, <1>3 DEF WriterTypeOK, Wrote

LEMMA SendType ==
  ASSUME WriterTypeOK, NEW t \in Threads, Send(t)
  PROVE  WriterTypeOK'
<1>1. wire \in Seq(Bit) /\ Append(wire, Bytes(t, TRUE)) \in Seq(Bit)
      /\ Append(wire, Bytes(t, FALSE)) \in Seq(Bit)
  <2>1. wire \in Seq(Bit)
    BY DEF WriterTypeOK, Bit
  <2>2. Bytes(t, TRUE) \in Bit /\ Bytes(t, FALSE) \in Bit
    BY BytesType
  <2> DEFINE whole == Bytes(t, TRUE)
             part  == Bytes(t, FALSE)
  <2> HIDE DEF whole, part
  <2>3. whole \in Bit /\ part \in Bit
    BY <2>2 DEF whole, part
  <2>4. Append(wire, whole) \in Seq(Bit) /\ Append(wire, part) \in Seq(Bit)
    BY <2>1, <2>3
  <2> QED
    BY <2>1, <2>4 DEF whole, part
<1>2. writeErr # "none" => writeErr \in {"none", "ok"} \cup Error
  BY DEF WriterTypeOK
<1>3. "failed" \in {"none", "ok"} \cup Error
  BY DEF Error
<1>4. CASE writeErr # "none" /\ Wrote(t, writeErr, wire)
  BY <1>1, <1>2, <1>4, WroteType
<1>5. CASE Wrote(t, "ok", Append(wire, Bytes(t, TRUE)))
  BY <1>1, <1>5, WroteType
<1>6. CASE \E w \in {wire, Append(wire, Bytes(t, FALSE))} : Wrote(t, "failed", w)
  BY <1>1, <1>3, <1>6, WroteType
<1> QED
  BY <1>4, <1>5, <1>6 DEF Send

LEMMA WriterTypeStep ==
  ASSUME WriterTypeOK, [WriterNext]_writerVars
  PROVE  WriterTypeOK'
<1>1. ASSUME NEW t \in Threads, NEW op \in Op,
             WriteMessage(t, op) \/ WritePreparedMessage(t, op)
      PROVE  WriterTypeOK'
  BY <1>1, CallType DEF WriteMessage, WritePreparedMessage, InFrame, Via, Ends
<1>2. ASSUME NEW t \in Threads, NEW op \in Op, WriteControl(t, op)
      PROVE  WriterTypeOK'
  BY <1>2, CallType DEF WriteControl, InFrame, Via, Ends
<1>3. ASSUME NEW t \in Threads, BeginMessage(t)
      PROVE  WriterTypeOK'
  <2>1. CASE writeErr # "none"
    <3>1. writeErr \in Result /\ Returns(t, writeErr)
      BY <1>3, <2>1 DEF BeginMessage, WriterTypeOK, Result
    <3> QED
      BY <1>3, <3>1, ReturnsType DEF BeginMessage, WriterTypeOK, connVars, Place
  <2>2. CASE writeErr = "none"
    BY <1>3, <2>2 DEF BeginMessage, WriterTypeOK, connVars, Goto, InFrame
  <2> QED
    BY <2>1, <2>2
<1>14. ASSUME NEW t \in Threads, Refuse(t)
       PROVE  WriterTypeOK'
  <2>1. "errInvalidControlFrame" \in Result
    BY DEF Result
  <2> QED
    BY <1>14, <2>1, ReturnsType DEF Refuse, WriterTypeOK, connVars, Place
<1>4. ASSUME NEW t \in Threads, Fill(t)
      PROVE  WriterTypeOK'
  <2>1. writeBuf' \in [head : CallFrame, body : CallFrame]
    BY <1>4 DEF Fill, WriterTypeOK
  <2>2. pc' \in [Threads -> {"idle", "panic"} \cup InFrame]
    BY <1>4 DEF Fill, WriterTypeOK, Goto, InFrame
  <2> QED
    BY <1>4, <2>1, <2>2 DEF Fill, WriterTypeOK
<1>5. ASSUME NEW t \in Threads, Test(t)
      PROVE  WriterTypeOK'
  <2>1. pc' \in [Threads -> {"idle", "panic"} \cup InFrame]
    <3>1. \A l \in {"mark", "clear", "panic"} :
            [pc EXCEPT ![t] = l] \in [Threads -> {"idle", "panic"} \cup InFrame]
      BY DEF WriterTypeOK, InFrame
    <3> QED
      BY <1>5, <3>1 DEF Test, Goto
  <2> QED
    BY <1>5, <2>1 DEF Test, WriterTypeOK, connVars
<1>6. ASSUME NEW t \in Threads, Mark(t)
      PROVE  WriterTypeOK'
  BY <1>6 DEF Mark, WriterTypeOK, Goto, InFrame
<1>7. ASSUME NEW t \in Threads, Clear(t)
      PROVE  WriterTypeOK'
  <2>1. CASE Returns(t, outcome[t])
    <3>1. outcome[t] \in Result
      BY DEF WriterTypeOK, Result
    <3> QED
      BY <1>7, <2>1, <3>1, ReturnsType DEF Clear, WriterTypeOK, Place
  <2>2. ASSUME NEW final \in Ends(frame[t].part + 1), pc[t] = "clear", ~frame[t].final,
               frame' = [frame EXCEPT ![t] = NextPart(@, final)],
               outcome' = [outcome EXCEPT ![t] = "none"],
               Goto(t, "body"), UNCHANGED <<result, calls>>
        PROVE  WriterTypeOK'
    <3>1. frame' \in [Threads -> CallFrame]
      <4>1. frame[t] \in CallFrame
        BY DEF WriterTypeOK
      <4>2. NextPart(frame[t], final) \in CallFrame
        BY <2>2, <4>1, NextPartType DEF CallFrame
      <4> QED
        BY <2>2, <4>2 DEF WriterTypeOK
    <3>2. outcome' \in [Threads -> {"none", "ok"} \cup Error]
          /\ pc' \in [Threads -> {"idle", "panic"} \cup InFrame]
      BY <2>2 DEF WriterTypeOK, Goto, InFrame
    <3> QED
      BY <1>7, <2>2, <3>1, <3>2 DEF Clear, WriterTypeOK
  <2> QED
    BY <1>7, <2>1, <2>2 DEF Clear
<1>8. ASSUME NEW t \in Threads, Lock(t)
      PROVE  WriterTypeOK'
  BY <1>8 DEF Lock, WriterTypeOK, Goto, InFrame
<1>9. ASSUME NEW t \in Threads, GiveUp(t)
      PROVE  WriterTypeOK'
  <2>1. "errWriteTimeout" \in Result
    BY DEF Result
  <2> QED
    BY <1>9, <2>1, ReturnsType DEF GiveUp, WriterTypeOK, connVars, Place
<1>10. ASSUME NEW t \in Threads, Send(t)
       PROVE  WriterTypeOK'
  BY <1>10, SendType
<1>11. ASSUME NEW t \in Threads, Unlock(t)
       PROVE  WriterTypeOK'
  <2>1. writeErr' \in Error \cup {"none"}
    <3>1. outcome[t] \in {"none", "ok"} \cup Error /\ writeErr \in Error \cup {"none"}
      BY DEF WriterTypeOK
    <3> QED
      BY <1>11, <3>1 DEF Unlock, Error
  <2>2. mu' \in Threads \cup {Nobody}
    BY <1>11 DEF Unlock
  <2>3. CASE frame[t].via = "control"
    <3>1. outcome[t] \in Result /\ Returns(t, outcome[t])
      BY <1>11, <2>3 DEF Unlock, WriterTypeOK, Result
    <3> QED
      BY <1>11, <2>1, <2>2, <3>1, ReturnsType DEF Unlock, WriterTypeOK, Place
  <2>4. CASE frame[t].via # "control"
    <3>1. pc' \in [Threads -> {"idle", "panic"} \cup InFrame]
      BY <1>11, <2>4 DEF Unlock, Goto, WriterTypeOK, InFrame
    <3> QED
      BY <1>11, <2>1, <2>2, <2>4, <3>1 DEF Unlock, WriterTypeOK
  <2> QED
    BY <2>3, <2>4
<1>12. ASSUME NetDown
       PROVE  WriterTypeOK'
  BY <1>12 DEF NetDown, WriterTypeOK, callVars
<1>13. ASSUME UNCHANGED writerVars
       PROVE  WriterTypeOK'
  BY <1>13 DEF writerVars, WriterTypeOK
<1> QED
  BY <1>1, <1>2, <1>3, <1>4, <1>5, <1>6, <1>7, <1>8, <1>9, <1>10, <1>11, <1>12, <1>13, <1>14
     DEF WriterNext, WriteStep

LEMMA WriterTypeInit ==
  ASSUME WriterInit
  PROVE  WriterTypeOK
<1>1. wire \in Seq([head : CallFrame, body : CallFrame, whole : BOOLEAN])
  BY DEF WriterInit
<1>2. calls \in [Threads -> 0..MaxCalls]
  BY WriterAssumption DEF WriterInit
<1>3. frame \in [Threads -> CallFrame] /\ writeBuf \in [head : CallFrame, body : CallFrame]
  BY NoCallType DEF WriterInit
<1> QED
  BY <1>1, <1>2, <1>3 DEF WriterInit, WriterTypeOK, Result

\* The variables of the connection stay in their types; no call is ever
\* numbered beyond the bound, and only frames are on the wire.
THEOREM WriterTypeCorrectness == WriterSpec => []WriterTypeOK
<1> QED
  BY WriterTypeInit, WriterTypeStep, PTL DEF WriterSpec

-----------------------------------------------------------------------------
(***************************************************************************)
(* Nothing follows the last frame.  Whoever has torn a frame or written a  *)
(* close frame holds mu until writeErr says so, which whoever takes mu     *)
(* next reads before it writes.  That a header in the shared buffer is     *)
(* never the one of a close frame is what lets messages race each other.   *)
(***************************************************************************)

\* doc.go: an application may also write a close frame with WriteMessage().
NoCloseMessages == \A t \in Threads : "close" \notin MessageOps[t]

\* A step of an application that does not.
PlainNext ==
  \/ \E t \in Threads :
       \/ \E op \in Op :
            \/ op # "close" /\ (WriteMessage(t, op) \/ WritePreparedMessage(t, op))
            \/ WriteControl(t, op)
       \/ WriteStep(t)
  \/ NetDown

\* mu is held by the one goroutine that writes, and it knows how the write ended.
MuIsHeld ==
  \A t \in Threads :
    /\ pc[t] \in {"send", "unlock"} => mu = t
    /\ pc[t] = "unlock" => outcome[t] # "none"

\* The last frame on the wire is torn or a close frame.
Ended == wire # <<>> /\ (~wire[Len(wire)].whole \/ wire[Len(wire)].head.op = "close")
EndIsKnown == Ended => writeErr # "none" \/ \E t \in Threads : Lost(t)

EndInv == WriterTypeOK /\ MuIsHeld /\ EndIsKnown /\ LastFrameIsLast

\* Who is about to write a header of a close frame knows.
HeadsAreKnown ==
  \A t \in Threads :
    pc[t] = "send" /\ Bytes(t, TRUE).head.op = "close" => frame[t].op = "close"

LEMMA CallKeepsEnd ==
  ASSUME EndInv, NEW t \in Threads, NEW op \in Op, NEW via \in Via, NEW final \in Ends(1),
         NEW first \in {"begin", "test", "lock"}, Call(t, op, via, final, first)
  PROVE  EndInv'
<1>1. WriterTypeOK'
  BY CallType DEF EndInv, InFrame
<1>2. MuIsHeld'
  BY DEF EndInv, WriterTypeOK, MuIsHeld, Call, Goto, connVars
<1>3. ASSUME NEW s \in Threads, Lost(s)
      PROVE  Lost(s)'
  BY <1>3 DEF EndInv, WriterTypeOK, Lost, Call, Goto
<1>4. EndIsKnown'
  BY <1>3 DEF EndInv, EndIsKnown, Ended, Call, connVars
<1> QED
  BY <1>1, <1>2, <1>4 DEF EndInv, LastFrameIsLast, Call, connVars

\* A step that leaves the wire and writeErr alone and is none of the goroutine
\* that has mu.
LEMMA QuietStep ==
  ASSUME EndInv, NEW t \in Threads, pc[t] # "unlock",
         UNCHANGED <<wire, writeErr>>,
         \A s \in Threads \ {t} :
           pc'[s] = pc[s] /\ frame'[s] = frame[s] /\ outcome'[s] = outcome[s]
  PROVE  EndIsKnown' /\ LastFrameIsLast'
<1>1. ASSUME NEW s \in Threads, Lost(s)
      PROVE  Lost(s)'
  BY <1>1 DEF Lost
<1> QED
  BY <1>1 DEF EndInv, EndIsKnown, Ended, LastFrameIsLast

\* Whoever may write finds the wire open to the last frame.
LEMMA OpenToTheLast ==
  ASSUME EndInv, NEW t \in Threads, pc[t] = "send", writeErr = "none"
  PROVE  \A k \in DOMAIN wire : wire[k].whole /\ wire[k].head.op # "close"
<1>1. wire \in Seq(Bit)
  BY DEF EndInv, WriterTypeOK, Bit
<1>2. ~Ended
  \* Whoever knows that the wire has ended holds mu, and t does.
  <2>1. \A s \in Threads : pc[s] = "unlock" => s = t
    BY DEF EndInv, MuIsHeld
  <2> QED
    BY <2>1 DEF EndInv, EndIsKnown, Lost
<1>3. SUFFICES ASSUME NEW k \in 1..Len(wire)
               PROVE  wire[k].whole /\ wire[k].head.op # "close"
  BY <1>1
<1>4. CASE k = Len(wire)
  BY <1>1, <1>2, <1>4 DEF Ended
<1>5. CASE k < Len(wire)
  BY <1>1, <1>5 DEF EndInv, LastFrameIsLast
<1> QED
  BY <1>1, <1>4, <1>5

LEMMA SendKeepsEnd ==
  ASSUME EndInv, HeadsAreKnown, NEW t \in Threads, Send(t)
  PROVE  EndInv'
<1>1. WriterTypeOK'
  BY SendType DEF EndInv
<1>2. pc[t] = "send" /\ mu = t /\ pc' = [pc EXCEPT ![t] = "unlock"] /\ mu' = mu
      /\ frame' = frame /\ writeBuf' = writeBuf /\ writeErr' = writeErr
  BY DEF Send, Wrote, Goto, EndInv, MuIsHeld
<1>3. outcome'[t] # "none" /\ \A s \in Threads \ {t} : outcome'[s] = outcome[s]
  BY DEF Send, Wrote, EndInv, WriterTypeOK
<1>4. MuIsHeld'
  BY <1>2, <1>3 DEF EndInv, WriterTypeOK, MuIsHeld
<1>5. CASE wire' = wire
  BY <1>1, <1>2, <1>3, <1>4, <1>5, QuietStep DEF EndInv, WriterTypeOK
<1>6. ASSUME NEW b \in BOOLEAN, writeErr = "none", wire' = Append(wire, Bytes(t, b)),
             ~b => outcome'[t] = "failed"
      PROVE  EndInv'
  <2>1. wire \in Seq(Bit) /\ Bytes(t, b) \in Bit
    BY BytesType DEF EndInv, WriterTypeOK, Bit
  <2>2. \A k \in DOMAIN wire : wire[k].whole /\ wire[k].head.op # "close"
    BY <1>2, <1>6, OpenToTheLast
  <2>3. LastFrameIsLast'
    <3>1. SUFFICES ASSUME NEW k \in DOMAIN wire', k < Len(wire')
                   PROVE  wire'[k].whole /\ wire'[k].head.op # "close"
      BY DEF LastFrameIsLast
    <3>2. Len(wire') = Len(wire) + 1 /\ k \in 1..Len(wire) /\ wire'[k] = wire[k]
      BY <1>6, <2>1, <3>1
    <3> QED
      BY <2>1, <2>2, <3>2
  <2>4. EndIsKnown'
    <3>1. wire'[Len(wire')] = Bytes(t, b)
      BY <1>6, <2>1
    <3>2. Bytes(t, b).whole = b /\ Bytes(t, b).head = Bytes(t, TRUE).head
      BY DEF Bytes
    <3>3. Bytes(t, b).head.op = "close" => frame[t].op = "close"
      BY <1>2, <3>2 DEF HeadsAreKnown
    <3>4. Ended' => Lost(t)'
      BY <1>1, <1>2, <1>6, <3>1, <3>2, <3>3 DEF Ended, Lost, EndInv, WriterTypeOK
    <3> QED
      BY <3>4 DEF EndIsKnown
  <2> QED
    BY <1>1, <1>4, <2>3, <2>4 DEF EndInv
<1>7. CASE writeErr # "none" /\ Wrote(t, writeErr, wire)
  BY <1>5, <1>7 DEF Wrote
<1>8. CASE writeErr = "none" /\ Wrote(t, "ok", Append(wire, Bytes(t, TRUE)))
  BY <1>6, <1>8 DEF Wrote
<1>9. CASE /\ writeErr = "none"
           /\ \E w \in {wire, Append(wire, Bytes(t, FALSE))} : Wrote(t, "failed", w)
  <2>1. outcome'[t] = "failed"
    BY <1>9 DEF Wrote, EndInv, WriterTypeOK
  <2>2. wire' = wire \/ wire' = Append(wire, Bytes(t, FALSE))
    BY <1>9 DEF Wrote
  <2> QED
    BY <1>5, <1>6, <1>9, <2>1, <2>2
<1> QED
  BY <1>7, <1>8, <1>9 DEF Send

LEMMA UnlockKeepsEnd ==
  ASSUME EndInv, NEW t \in Threads, Unlock(t)
  PROVE  EndInv'
<1>1. WriterTypeOK'
  BY WriterTypeStep DEF EndInv, WriterNext, WriteStep
<1>2. pc[t] = "unlock" /\ mu = t /\ outcome[t] # "none" /\ pc'[t] \in {"idle", "retest"}
      /\ \A s \in Threads \ {t} :
           pc'[s] = pc[s] /\ frame'[s] = frame[s] /\ outcome'[s] = outcome[s]
  BY DEF Unlock, Returns, Goto, EndInv, MuIsHeld, WriterTypeOK
<1>3. \A s \in Threads \ {t} : pc[s] \notin {"send", "unlock"}
  BY <1>2 DEF EndInv, MuIsHeld
<1>4. MuIsHeld'
  BY <1>2, <1>3 DEF MuIsHeld
<1>5. (writeErr # "none" \/ Lost(t)) => writeErr' # "none"
  BY <1>2 DEF Unlock, Lost
<1>6. EndIsKnown'
  <2>1. \A s \in Threads : Lost(s) => s = t
    BY <1>3 DEF Lost
  <2> QED
    BY <1>5, <2>1 DEF Unlock, EndInv, EndIsKnown, Ended
<1> QED
  BY <1>1, <1>4, <1>6 DEF EndInv, LastFrameIsLast, Unlock

LEMMA EndStep ==
  ASSUME EndInv, HeadsAreKnown, [WriterNext]_writerVars
  PROVE  EndInv'
<1>0. WriterTypeOK'
  BY WriterTypeStep DEF EndInv
<1>1. ASSUME NEW t \in Threads, NEW op \in Op,
             WriteMessage(t, op) \/ WritePreparedMessage(t, op) \/ WriteControl(t, op)
      PROVE  EndInv'
  BY <1>1, CallKeepsEnd DEF WriteMessage, WritePreparedMessage, WriteControl, Via, Ends
<1>2. ASSUME NEW t \in Threads,
             \/ BeginMessage(t) \/ Refuse(t) \/ Fill(t) \/ Test(t) \/ Mark(t)
             \/ GiveUp(t) \/ Clear(t)
      PROVE  EndInv'
  <2>1. pc[t] \notin {"send", "unlock"} /\ pc'[t] \notin {"send", "unlock"}
    BY <1>2 DEF BeginMessage, Refuse, Fill, Test, Mark, Clear, GiveUp, Returns, Goto,
                EndInv, WriterTypeOK
  <2>2. /\ UNCHANGED <<mu, writeErr, wire>>
        /\ \A s \in Threads \ {t} :
             pc'[s] = pc[s] /\ frame'[s] = frame[s] /\ outcome'[s] = outcome[s]
    BY <1>2 DEF BeginMessage, Refuse, Fill, Test, Mark, Clear, GiveUp, Returns, Goto,
                connVars, EndInv, WriterTypeOK
  <2>3. MuIsHeld'
    BY <2>1, <2>2 DEF EndInv, MuIsHeld
  <2>4. EndIsKnown' /\ LastFrameIsLast'
    BY <2>1, <2>2, QuietStep
  <2> QED
    BY <1>0, <2>3, <2>4 DEF EndInv
<1>3. ASSUME NEW t \in Threads, Lock(t)
      PROVE  EndInv'
  <2>1. /\ mu = Nobody /\ mu' = t /\ pc[t] = "lock" /\ pc'[t] = "send"
        /\ UNCHANGED <<writeErr, wire, frame, outcome>>
        /\ \A s \in Threads \ {t} : pc'[s] = pc[s]
    BY <1>3 DEF Lock, Goto, EndInv, WriterTypeOK
  <2>2. MuIsHeld'
    BY <2>1, WriterAssumption DEF EndInv, MuIsHeld
  <2>3. EndIsKnown' /\ LastFrameIsLast'
    BY <2>1, QuietStep
  <2> QED
    BY <1>0, <2>2, <2>3 DEF EndInv
<1>4. ASSUME NetDown \/ UNCHANGED writerVars
      PROVE  EndInv'
  <2>1. UNCHANGED <<callVars, mu, writeErr, wire>>
    BY <1>4 DEF NetDown, writerVars, callVars
  <2> QED
    BY <1>0, <2>1 DEF EndInv, MuIsHeld, EndIsKnown, Ended, Lost, LastFrameIsLast, callVars
<1> QED
  BY <1>1, <1>2, <1>3, <1>4, SendKeepsEnd, UnlockKeepsEnd DEF WriterNext, WriteStep

LEMMA EndInit ==
  ASSUME WriterInit
  PROVE  EndInv
<1>1. WriterTypeOK
  BY WriterTypeInit
<1> QED
  BY <1>1 DEF EndInv, MuIsHeld, EndIsKnown, Ended, LastFrameIsLast, WriterInit

\* Close frames do not go through the shared buffer.
ClosesAreControls ==
  /\ \A t \in Threads :
       /\ frame[t].op = "close" => frame[t].via = "control"
       /\ pc[t] \in {"begin", "body", "head", "retest", "clear"} => frame[t].via # "control"
  /\ writeBuf.head.op # "close"

LastInv == EndInv /\ ClosesAreControls

LEMMA ClosesAreControlsStep ==
  ASSUME WriterTypeOK, ClosesAreControls, [PlainNext]_writerVars
  PROVE  ClosesAreControls'
<1>1. ASSUME NEW t \in Threads, NEW op \in Op, NEW via, NEW final, NEW first,
             Call(t, op, via, final, first), op = "close" => via = "control",
             first \in {"begin", "body", "head", "retest", "clear"} => via # "control"
      PROVE  ClosesAreControls'
  BY <1>1 DEF WriterTypeOK, ClosesAreControls, Call, Goto, connVars
<1>2. ASSUME NEW t \in Threads, NEW op \in Op,
             \/ op # "close" /\ (WriteMessage(t, op) \/ WritePreparedMessage(t, op))
             \/ WriteControl(t, op)
      PROVE  ClosesAreControls'
  BY <1>1, <1>2 DEF WriteMessage, WritePreparedMessage, WriteControl
<1>3. ASSUME NEW t \in Threads, WriteStep(t)
      PROVE  ClosesAreControls'
  <2>1. \A s \in Threads \ {t} : pc'[s] = pc[s] /\ frame'[s] = frame[s]
    BY <1>3 DEF WriteStep, BeginMessage, Refuse, Fill, Test, Mark, Clear, Lock, GiveUp, Send,
                Wrote, Unlock, Returns, Goto, WriterTypeOK
  <2>2. ASSUME BeginMessage(t) \/ Refuse(t) \/ Test(t) \/ Mark(t) \/ GiveUp(t) \/ Clear(t)
        PROVE  ClosesAreControls'
    <3>1. /\ UNCHANGED writeBuf
          /\ \/ frame'[t] = NoCall /\ pc'[t] = "idle"
             \/ frame'[t].op = frame[t].op /\ frame'[t].via = frame[t].via
          /\ pc'[t] \in {"body", "clear"} => pc[t] \in {"begin", "retest", "clear"}
          /\ pc'[t] \notin {"begin", "head", "retest"}
      BY <2>2 DEF BeginMessage, Refuse, Test, Mark, Clear, GiveUp, Returns, Goto, NextPart,
                  connVars, WriterTypeOK
    <3> QED
      BY <2>1, <3>1 DEF ClosesAreControls, NoCall
  <2>3. ASSUME Fill(t)
        PROVE  ClosesAreControls'
    <3>1. /\ pc[t] \in {"body", "head"} /\ pc'[t] \in {"head", "test"}
          /\ writeBuf'.head \in {writeBuf.head, frame[t]} /\ frame' = frame
      BY <2>3 DEF Fill, Goto, WriterTypeOK
    <3> QED
      BY <2>1, <3>1 DEF ClosesAreControls
  <2>4. ASSUME Lock(t) \/ Send(t)
        PROVE  ClosesAreControls'
    <3>1. UNCHANGED <<writeBuf, frame>> /\ pc'[t] \in {"send", "unlock"}
      BY <2>4 DEF Lock, Send, Wrote, Goto, WriterTypeOK
    <3> QED
      BY <2>1, <3>1 DEF ClosesAreControls
  <2>5. ASSUME Unlock(t)
        PROVE  ClosesAreControls'
    <3>1. /\ UNCHANGED writeBuf
          /\ \/ frame'[t] = NoCall /\ pc'[t] = "idle"
             \/ frame'[t] = frame[t] /\ frame[t].via # "control"
      BY <2>5 DEF Unlock, Returns, Goto, WriterTypeOK
    <3> QED
      BY <2>1, <3>1 DEF ClosesAreControls, NoCall
  <2> QED
    BY <1>3, <2>2, <2>3, <2>4, <2>5 DEF WriteStep
<1>4. ASSUME NetDown \/ UNCHANGED writerVars
      PROVE  ClosesAreControls'
  BY <1>4 DEF NetDown, writerVars, callVars, ClosesAreControls
<1> QED
  BY <1>2, <1>3, <1>4 DEF PlainNext

LEMMA LastStep ==
  ASSUME LastInv, [PlainNext]_writerVars
  PROVE  LastInv'
<1>1. HeadsAreKnown
  BY DEF HeadsAreKnown, Bytes, LastInv, ClosesAreControls
<1>2. [WriterNext]_writerVars
  BY DEF PlainNext, WriterNext
<1> QED
  BY <1>1, <1>2, EndStep, ClosesAreControlsStep DEF LastInv, EndInv

LEMMA LastInit ==
  ASSUME WriterInit
  PROVE  LastInv
BY EndInit DEF LastInv, ClosesAreControls, WriterInit, NoCall

\* Any number of goroutines may write messages and control frames at a time, and
\* whatever becomes of their headers and payloads, nothing is written after a
\* close frame or a torn one, as long as close frames go through WriteControl().
THEOREM NothingFollowsTheLastFrame ==
  ASSUME NoCloseMessages
  PROVE  WriterSpec => []LastFrameIsLast
<1>1. WriterInit => LastInv
  BY LastInit
<1>2. LastInv /\ [WriterNext]_writerVars => LastInv'
  BY LastStep DEF WriterNext, PlainNext, WriteMessage, WritePreparedMessage, NoCloseMessages
<1>3. LastInv => LastFrameIsLast
  BY DEF LastInv, EndInv
<1> QED
  BY <1>1, <1>2, <1>3, PTL DEF WriterSpec

-----------------------------------------------------------------------------
(***************************************************************************)
(* The connection implements FrameStream when one goroutine writes the     *)
(* messages, as doc.go asks.  Then isWriting is set from the test to the   *)
(* end of its write and found so, the shared buffer has the frame it is    *)
(* about to write, and the last frame of a message on the wire tells where *)
(* in a message it is.                                                     *)
(***************************************************************************)

InWrite == {"lock", "send", "unlock", "retest", "clear"}

\* Where a goroutine is, against the frame of its call.
CallsMatch ==
  \A t \in Threads :
    /\ pc[t] # "panic"
    /\ pc[t] = "idle" <=> frame[t] = NoCall
    /\ frame[t].via = "control" =>
         pc[t] \in {"lock", "send", "unlock"} /\ Lone(frame[t]) /\ frame[t].final
    /\ frame[t].via = "prepared" => frame[t].final
    /\ frame[t].via \in {"message", "prepared"} => MessageOps[t] # {}
    /\ pc[t] \in {"begin", "body", "head"} => frame[t].via = "message"
    /\ InvalidControl(frame[t]) => pc[t] \in {"begin", "body", "head"}
    /\ frame[t].part > 1 => ~Lone(frame[t])

\* What is in the shared buffer.
BufferMatches ==
  \A t \in Threads : frame[t].via = "message" =>
    /\ pc[t] \notin {"begin", "body"} => writeBuf.body = frame[t]
    /\ pc[t] \notin {"begin", "body", "head"} => writeBuf.head = frame[t]

MarkMatches ==
  isWriting <=> \E t \in Threads : pc[t] \in InWrite /\ frame[t].via # "control"

OutcomesMatch ==
  \A t \in Threads :
    /\ pc[t] \in {"unlock", "retest", "clear"} <=> outcome[t] # "none"
    /\ pc[t] \in {"retest", "clear"} /\ outcome[t] # "ok" => writeErr # "none"

\* The last frame on the wire that is not a control frame is the one that has just
\* been written, or the one before the next of its message, or ends a message.
LastData(k) ==
  ~Lone(Seen(wire[k])) /\ \A j \in 1..Len(wire) : j > k => Lone(Seen(wire[j]))
Fitting(t, k) ==
  IF Gone(t) /\ ~Lone(frame[t]) THEN Seen(wire[k]) = frame[t]
  ELSE IF frame[t].part > 1 THEN Continues(Seen(wire[k]), frame[t])
  ELSE Seen(wire[k]).final
StreamMatches ==
  ~Shut => \A t \in Threads, k \in 1..Len(wire) :
             MessageOps[t] # {} /\ LastData(k) => Fitting(t, k)

StreamInv ==
  /\ EndInv /\ CallsMatch /\ BufferMatches /\ MarkMatches
  /\ OutcomesMatch /\ StreamMatches

-----------------------------------------------------------------------------
\* A step of a goroutine is none of the others'.
LEMMA OthersStay ==
  ASSUME WriterTypeOK, NEW t \in Threads, WriteStep(t)
  PROVE  \A s \in Threads \ {t} :
           /\ pc'[s] = pc[s] /\ frame'[s] = frame[s]
           /\ outcome'[s] = outcome[s] /\ result'[s] = result[s]
BY DEF WriteStep, BeginMessage, Refuse, Fill, Test, Mark, Clear, Lock, GiveUp, Send,
       Wrote, Unlock, Returns, Goto, WriterTypeOK

\* The goroutines in a message are one.
LEMMA SoleWriter ==
  ASSUME OneMessageWriter, WriterTypeOK, CallsMatch,
         NEW s \in Threads, NEW t \in Threads,
         pc[s] # "idle", frame[s].via # "control",
         pc[t] # "idle", frame[t].via # "control"
  PROVE  s = t
<1>1. \A u \in {s, t} : frame[u] \in Frame
  BY DEF CallsMatch, WriterTypeOK, CallFrame
<1>2. \A u \in {s, t} : frame[u].via \in {"message", "prepared"}
  BY <1>1 DEF Frame, Via
<1> QED
  BY <1>2 DEF CallsMatch, OneMessageWriter

LEMMA SeenFrame ==
  ASSUME StreamInv, NEW t \in Threads, pc[t] = "send", NEW b \in BOOLEAN
  PROVE  Seen(Bytes(t, b)) = frame[t]
BY DEF StreamInv, BufferMatches, Seen, Bytes

LEMMA HandOverStep ==
  ASSUME StreamInv, NEW t \in Threads, NEW op \in Op, NEW via \in Via,
         NEW final \in Ends(1), NEW first \in {"begin", "test", "lock"},
         Call(t, op, via, final, first)
  PROVE  \E f \in Frame : FS!HandOver(t, f)
<1> DEFINE f == [op |-> op, by |-> t, n |-> calls[t] + 1, via |-> via, part |-> 1,
                 final |-> final]
<1>1. pc[t] = "idle" /\ frame[t] = NoCall /\ frame' = [frame EXCEPT ![t] = f]
  BY DEF Call, StreamInv, CallsMatch
<1>2. f \in Frame
  <2>1. calls[t] \in 0..MaxCalls /\ calls[t] < MaxCalls /\ MaxCalls \in Nat /\ MaxParts \in Nat \ {0}
    BY WriterAssumption DEF Call, StreamInv, EndInv, WriterTypeOK
  <2> QED
    BY <2>1 DEF Frame, Ends
<1>3. Gones' = Gones
  BY DEF Gones, Gone, Call, Goto, StreamInv, EndInv, WriterTypeOK
<1>4. Results' = Results /\ Stream' = Stream
  BY DEF Results, Stream, Out, Call, connVars
<1>5. Shut' = Shut
  BY DEF Shut, Lost, Call, Goto, connVars, StreamInv, EndInv, WriterTypeOK
<1> QED
  BY <1>1, <1>2, <1>3, <1>4, <1>5 DEF FS!HandOver

\* What a step of t that neither sends nor unlocks leaves of what has gone out.
LEMMA ShutSame ==
  ASSUME NEW t \in Threads, UNCHANGED <<writeErr, net>>, pc[t] # "unlock", pc'[t] # "unlock",
         \A s \in Threads \ {t} :
           pc'[s] = pc[s] /\ frame'[s] = frame[s] /\ outcome'[s] = outcome[s]
  PROVE  Shut' = Shut
BY DEF Shut, Lost

LEMMA ReturnStep ==
  ASSUME StreamInv, NEW t \in Threads, NEW r \in Result, Returns(t, r),
         pc[t] # "idle", wire' = wire, Shut' = Shut,
         \/ r = "ok" /\ Gone(t) /\ frame[t].final
         \/ /\ r \notin {"none", "ok"} /\ ~Gone(t)
            /\ Shut \/ IsControl(frame[t]) \/ InvalidControl(frame[t])
  PROVE  FS!Return(t)
<1>0. /\ DOMAIN pc = Threads /\ DOMAIN frame = Threads /\ DOMAIN outcome = Threads
      /\ DOMAIN result = Threads
  BY DEF StreamInv, EndInv, WriterTypeOK
<1>1. frame[t] # NoCall /\ frame' = [frame EXCEPT ![t] = NoCall]
  BY DEF StreamInv, CallsMatch, Returns
<1>2. Gones' = [Gones EXCEPT ![t] = FALSE]
  BY <1>0 DEF Gones, Gone, Returns, Goto
<1>3. Results' = [Results EXCEPT ![t] = IF Gones[t] THEN "ok" ELSE "error"]
  BY <1>0 DEF Results, Gones, Returns
<1>4. Stream' = Stream
  BY DEF Stream, Out
<1>5. Gones[t] = Gone(t)
  BY DEF Gones
<1> QED
  BY <1>1, <1>2, <1>3, <1>4, <1>5 DEF FS!Return, InvalidControl, IsFinal

\* A step between two places of a call.
LEMMA QuietMapped ==
  ASSUME StreamInv, NEW t \in Threads, UNCHANGED <<frame, outcome, result, writeErr, wire, net>>,
         pc[t] # "unlock", pc'[t] # "unlock",
         pc[t] \in {"retest", "clear"} <=> pc'[t] \in {"retest", "clear"},
         \A s \in Threads \ {t} : pc'[s] = pc[s]
  PROVE  UNCHANGED FS!fsVars
<1>1. Gones' = Gones
  BY DEF Gones, Gone
<1>2. Results' = Results /\ Stream' = Stream
  BY DEF Results, Stream, Out
<1>3. Shut' = Shut
  BY ShutSame
<1> QED
  BY <1>1, <1>2, <1>3 DEF FS!fsVars

LEMMA ClearMapped ==
  ASSUME StreamInv, NEW t \in Threads, Clear(t)
  PROVE  FS!Return(t) \/ \E f \in Frame : FS!GoOn(t, f)
<1>0. WriterTypeOK /\ pc[t] = "clear" /\ pc'[t] # "unlock" /\ UNCHANGED <<writeErr, net, wire>>
  BY DEF Clear, Returns, Goto, StreamInv, EndInv, WriterTypeOK
<1>1. Shut' = Shut
  BY <1>0, OthersStay, ShutSame DEF WriteStep
<1>2. outcome[t] # "none" /\ (outcome[t] # "ok" => Shut)
  BY <1>0 DEF StreamInv, OutcomesMatch, Shut
<1>3. CASE (outcome[t] # "ok" \/ frame[t].final) /\ Returns(t, outcome[t])
  <2>1. outcome[t] \in Result
    BY <1>0 DEF WriterTypeOK, Result
  <2>2. Gone(t) <=> outcome[t] = "ok"
    BY <1>0 DEF Gone
  <2> QED
    BY <1>0, <1>1, <1>2, <1>3, <2>1, <2>2, ReturnStep
<1>4. ASSUME outcome[t] = "ok", ~frame[t].final, NEW final \in Ends(frame[t].part + 1),
             frame' = [frame EXCEPT ![t] = NextPart(@, final)],
             outcome' = [outcome EXCEPT ![t] = "none"], Goto(t, "body"),
             UNCHANGED <<result, calls>>
      PROVE  \E f \in Frame : FS!GoOn(t, f)
  <2>1. frame[t] # NoCall /\ frame[t] \in CallFrame
    BY <1>0 DEF StreamInv, CallsMatch, WriterTypeOK
  <2>2. NextPart(frame[t], final) \in Frame
    BY <1>4, <2>1, NextPartType
  <2>3. frame' = [frame EXCEPT ![t] = NextPart(frame[t], final)]
    BY <1>4
  <2>4. Continues(frame[t], NextPart(frame[t], final))
    BY DEF Continues, Ends
  <2>5. Gones[t] /\ Gones' = [Gones EXCEPT ![t] = FALSE]
    BY <1>0, <1>4 DEF Gones, Gone, Goto, WriterTypeOK
  <2>6. Results' = Results /\ Stream' = Stream
    BY <1>0, <1>4 DEF Results, Stream, Out
  <2> QED
    BY <1>1, <1>4, <2>1, <2>2, <2>3, <2>4, <2>5, <2>6 DEF FS!GoOn, IsFinal
<1> QED
  BY <1>3, <1>4 DEF Clear

LEMMA UnlockMapped ==
  ASSUME StreamInv, NEW t \in Threads, Unlock(t)
  PROVE  FS!Return(t) \/ UNCHANGED FS!fsVars
<1>0. /\ WriterTypeOK /\ pc[t] = "unlock" /\ outcome[t] # "none" /\ pc'[t] # "unlock"
      /\ UNCHANGED <<net, wire>>
      /\ \A s \in Threads \ {t} :
           /\ pc[s] # "unlock"
           /\ pc'[s] = pc[s] /\ frame'[s] = frame[s] /\ outcome'[s] = outcome[s]
  <2>1. WriterTypeOK /\ pc[t] = "unlock" /\ outcome[t] # "none"
    BY DEF Unlock, StreamInv, EndInv, MuIsHeld
  <2>2. \A s \in Threads \ {t} : pc[s] # "unlock"
    BY <2>1 DEF StreamInv, EndInv, MuIsHeld
  <2>3. pc'[t] # "unlock" /\ UNCHANGED <<net, wire>>
    BY <2>1 DEF Unlock, Returns, Goto, WriterTypeOK
  <2> QED
    BY <2>1, <2>2, <2>3, OthersStay DEF WriteStep
<1>1. Shut' = Shut
  <2>1. writeErr' # "none" <=> writeErr # "none" \/ Lost(t)
    BY <1>0 DEF Unlock, Lost
  <2>2. \A s \in Threads : ~Lost(s)'
    BY <1>0 DEF Lost
  <2>3. \A s \in Threads : Lost(s) => s = t
    BY <1>0 DEF Lost
  <2> QED
    BY <1>0, <2>1, <2>2, <2>3 DEF Shut
<1>2. CASE frame[t].via = "control" /\ Returns(t, outcome[t])
  <2>1. outcome[t] \in Result
    BY <1>0 DEF WriterTypeOK, Result
  <2>2. Gone(t) <=> outcome[t] = "ok"
    BY <1>0 DEF Gone
  <2>3. frame[t].final
    BY <1>2 DEF StreamInv, CallsMatch
  <2> QED
    BY <1>0, <1>1, <1>2, <2>1, <2>2, <2>3, ReturnStep DEF IsControl
<1>3. CASE Goto(t, "retest") /\ UNCHANGED <<frame, outcome, result, calls>>
  <2>1. Gones' = Gones
    BY <1>0, <1>3 DEF Gones, Gone, Goto, WriterTypeOK
  <2>2. Results' = Results /\ Stream' = Stream
    BY <1>0, <1>3 DEF Results, Stream, Out
  <2> QED
    BY <1>1, <1>3, <2>1, <2>2 DEF FS!fsVars
<1> QED
  BY <1>2, <1>3 DEF Unlock

LEMMA AppendFacts ==
  ASSUME NEW S, NEW s \in Seq(S), NEW e \in S
  PROVE  /\ Len(Append(s, e)) = Len(s) + 1 /\ Append(s, e)[Len(s) + 1] = e
         /\ \A k \in 1..Len(s) : Append(s, e)[k] = s[k]
OBVIOUS

LEMMA SendMapped ==
  ASSUME StreamInv, NEW t \in Threads, Send(t)
  PROVE  FS!GoOut(t) \/ FS!BreakDown \/ UNCHANGED FS!fsVars
<1>0. /\ WriterTypeOK /\ pc[t] = "send" /\ pc' = [pc EXCEPT ![t] = "unlock"]
      /\ UNCHANGED <<frame, result, writeErr, net>>
      /\ wire \in Seq(Bit) /\ Bytes(t, TRUE) \in Bit /\ Bytes(t, FALSE) \in Bit
      /\ DOMAIN outcome = Threads /\ DOMAIN pc = Threads
  <2>1. WriterTypeOK
    BY DEF StreamInv, EndInv
  <2> QED
    BY <2>1, BytesType DEF Send, Wrote, Goto, WriterTypeOK, Bit
<1>1. \A s \in Threads : pc[s] # "unlock" /\ ~Lost(s)
  BY <1>0 DEF StreamInv, EndInv, MuIsHeld, Lost
<1>2. Results' = Results /\ ~Gone(t) /\ frame[t] # NoCall
  BY <1>0 DEF Results, Gone, StreamInv, CallsMatch
<1>3. ASSUME NEW o \in Error, outcome' = [outcome EXCEPT ![t] = o]
      PROVE  Shut' /\ Gones' = Gones
  <2>1. Lost(t)'
    BY <1>0, <1>3 DEF Lost, Error
  <2>2. \A s \in Threads : Gone(s)' = Gone(s)
    BY <1>0, <1>3 DEF Gone, Error
  <2>3. Gones' = Gones
    BY <2>2 DEF Gones
  <2> QED
    BY <2>1, <2>3 DEF Shut
<1>4. CASE writeErr # "none" /\ Wrote(t, writeErr, wire)
  <2>1. writeErr \in Error /\ outcome' = [outcome EXCEPT ![t] = writeErr] /\ wire' = wire
    BY <1>0, <1>4 DEF Wrote, WriterTypeOK
  <2>2. Shut /\ Stream' = Stream
    BY <1>4, <2>1 DEF Shut, Stream, Out
  <2> QED
    BY <1>0, <1>2, <1>3, <2>1, <2>2 DEF FS!BreakDown
<1>5. CASE /\ writeErr = "none"
           /\ \E w \in {wire, Append(wire, Bytes(t, FALSE))} : Wrote(t, "failed", w)
  <2>1. outcome' = [outcome EXCEPT ![t] = "failed"]
        /\ (wire' = wire \/ wire' = Append(wire, Bytes(t, FALSE)))
    BY <1>5 DEF Wrote
  <2>2. Stream' = Stream
    <3>1. CASE wire' = wire
      BY <3>1 DEF Stream, Out
    <3>2. CASE wire' = Append(wire, Bytes(t, FALSE))
      <4>1. Out = Len(wire)
        BY <1>0, <1>5, OpenToTheLast DEF Out, StreamInv
      <4>2. Len(wire') = Len(wire) + 1 /\ wire'[Len(wire')] = Bytes(t, FALSE)
            /\ \A k \in 1..Len(wire) : wire'[k] = wire[k]
        <5> DEFINE e == Bytes(t, FALSE)
        <5> HIDE DEF e
        <5>1. e \in Bit /\ wire' = Append(wire, e)
          BY <1>0, <3>2 DEF e
        <5>2. /\ Len(Append(wire, e)) = Len(wire) + 1 /\ Append(wire, e)[Len(wire) + 1] = e
              /\ \A k \in 1..Len(wire) : Append(wire, e)[k] = wire[k]
          BY <1>0, <5>1, AppendFacts
        <5> QED
          BY <5>1, <5>2 DEF e
      <4>3. Out' = Len(wire)
        BY <1>0, <4>2 DEF Out, Bytes
      <4> QED
        BY <4>1, <4>2, <4>3 DEF Stream
    <3> QED
      BY <2>1, <3>1, <3>2
  <2> QED
    BY <1>0, <1>2, <1>3, <2>1, <2>2 DEF FS!BreakDown, Error
<1>6. CASE writeErr = "none" /\ net = "up" /\ Wrote(t, "ok", Append(wire, Bytes(t, TRUE)))
  <2>0. wire' = Append(wire, Bytes(t, TRUE)) /\ outcome' = [outcome EXCEPT ![t] = "ok"]
    BY <1>6 DEF Wrote
  <2>1. ~Shut
    BY <1>1, <1>6 DEF Shut
  <2>2. Out = Len(wire) /\ Len(wire) \in Nat
    BY <1>0, <1>6, OpenToTheLast DEF Out, StreamInv
  <2>3. Len(wire') = Len(wire) + 1 /\ wire'[Len(wire')] = Bytes(t, TRUE)
        /\ \A k \in 1..Len(wire) : wire'[k] = wire[k]
    <3> DEFINE e == Bytes(t, TRUE)
    <3> HIDE DEF e
    <3>1. e \in Bit /\ wire' = Append(wire, e)
      BY <1>0, <2>0 DEF e
    <3>2. /\ Len(Append(wire, e)) = Len(wire) + 1 /\ Append(wire, e)[Len(wire) + 1] = e
          /\ \A k \in 1..Len(wire) : Append(wire, e)[k] = wire[k]
      BY <1>0, <3>1, AppendFacts
    <3> QED
      BY <3>1, <3>2 DEF e
  <2>4. Out' = Len(wire) + 1
    BY <1>0, <2>2, <2>3 DEF Out, Bytes
  <2>5. Stream' = Append(Stream, frame[t])
    <3>1. Seen(wire'[Len(wire) + 1]) = frame[t]
      BY <1>0, <2>2, <2>3, SeenFrame
    <3>2. Stream \in Seq({Seen(wire[k]) : k \in 1..Out} \cup {frame[t]}) /\ Len(Stream) = Len(wire)
      BY <2>2 DEF Stream
    <3>3. Stream' = [k \in 1..(Len(wire) + 1) |->
                      IF k = Len(wire) + 1 THEN frame[t] ELSE Stream[k]]
      <4>1. \A k \in 1..Len(wire) : Seen(wire'[k]) = Stream[k]
        BY <2>2, <2>3 DEF Stream
      <4>2. Stream' = [k \in 1..(Len(wire) + 1) |-> Seen(wire'[k])]
        BY <2>4 DEF Stream, Seen
      <4> QED
        BY <2>2, <3>1, <4>1, <4>2
    <3> QED
      BY <2>2, <3>2, <3>3
  <2>6. Gones' = [Gones EXCEPT ![t] = TRUE] /\ ~Gones[t]
    BY <1>0, <1>2, <2>0 DEF Gones, Gone
  <2>7. Shut' = IsClose(frame[t])
    <3>1. Lost(t)' <=> IsClose(frame[t])
      BY <1>0, <2>0 DEF Lost, IsClose
    <3>2. \A s \in Threads \ {t} : ~Lost(s)'
      BY <1>0, <1>1 DEF Lost
    <3>3. IsClose(frame[t]) \in BOOLEAN /\ Shut' \in BOOLEAN
      BY DEF IsClose, Shut
    <3> QED
      BY <1>0, <1>6, <3>1, <3>2, <3>3 DEF Shut
  <2>8. FS!Fits(frame[t])
    <3>1. CASE Lone(frame[t])
      BY <1>0, <3>1 DEF StreamInv, CallsMatch, InvalidControl, IsFinal, FS!Fits
    <3>2. CASE ~Lone(frame[t])
      <4>1. MessageOps[t] # {}
        <5>1. frame[t] \in Frame /\ frame[t].via # "control"
          BY <1>0, <1>2, <3>2 DEF WriterTypeOK, CallFrame, StreamInv, CallsMatch
        <5> QED
          BY <5>1 DEF Frame, Via, StreamInv, CallsMatch
      <4>2. SUFFICES ASSUME NEW k \in 1..Len(wire), FS!LastPart(k)
                     PROVE  IsFinal(Stream[k]) \/ Continues(Stream[k], frame[t])
        BY <2>2, <3>2 DEF FS!Fits, Stream
      <4>3. LastData(k) /\ Stream[k] = Seen(wire[k])
        BY <2>2, <4>2 DEF FS!LastPart, LastData, Stream
      <4> QED
        BY <1>2, <2>1, <4>1, <4>3 DEF StreamInv, StreamMatches, Fitting, IsFinal
    <3> QED
      BY <3>1, <3>2
  <2> QED
    BY <1>0, <1>2, <2>1, <2>5, <2>6, <2>7, <2>8 DEF FS!GoOut
<1> QED
  BY <1>4, <1>5, <1>6 DEF Send

LEMMA NextMapped ==
  ASSUME StreamInv, CallsMatch', [WriterNext]_writerVars
  PROVE  [FS!FSNext]_(FS!fsVars)
<1>0. WriterTypeOK /\ CallsMatch
  BY DEF StreamInv, EndInv
<1>1. ASSUME NEW t \in Threads, NEW op \in Op,
             WriteMessage(t, op) \/ WritePreparedMessage(t, op) \/ WriteControl(t, op)
      PROVE  FS!FSNext
  <2>1. \E f \in Frame : FS!HandOver(t, f)
    BY <1>1, HandOverStep DEF WriteMessage, WritePreparedMessage, WriteControl, Via, Ends
  <2> QED
    BY <2>1 DEF FS!FSNext
<1>2. ASSUME NEW t \in Threads, BeginMessage(t), writeErr # "none"
      PROVE  FS!Return(t)
  <2>1. /\ Returns(t, writeErr) /\ pc[t] = "begin" /\ pc'[t] # "unlock"
        /\ UNCHANGED <<wire, writeErr, net>>
    BY <1>0, <1>2 DEF BeginMessage, Returns, Goto, connVars, WriterTypeOK
  <2>2. writeErr \in Result /\ writeErr \notin {"none", "ok"} /\ ~Gone(t) /\ Shut
    BY <1>0, <1>2, <2>1 DEF WriterTypeOK, Result, Error, Gone, Shut
  <2>3. Shut' = Shut
    BY <1>0, <1>2, <2>1, OthersStay, ShutSame DEF WriteStep
  <2> QED
    BY <2>1, <2>2, <2>3, ReturnStep
<1>3. ASSUME NEW t \in Threads, Refuse(t) \/ GiveUp(t)
      PROVE  FS!Return(t)
  <2> DEFINE r == IF Refuse(t) THEN "errInvalidControlFrame" ELSE "errWriteTimeout"
  <2>1. /\ Returns(t, r) /\ pc[t] \in {"head", "lock"} /\ pc'[t] # "unlock"
        /\ UNCHANGED <<wire, writeErr, net>>
        /\ InvalidControl(frame[t]) \/ IsControl(frame[t])
    BY <1>0, <1>3 DEF Refuse, GiveUp, Returns, Goto, connVars, WriterTypeOK, IsControl
  <2>2. r \in Result /\ r \notin {"none", "ok"} /\ ~Gone(t)
    BY <2>1 DEF Result, Gone
  <2>3. Shut' = Shut
    BY <1>0, <1>3, <2>1, OthersStay, ShutSame DEF WriteStep
  <2> HIDE DEF r
  <2> QED
    BY <2>1, <2>2, <2>3, ReturnStep
<1>4. ASSUME NEW t \in Threads,
             (BeginMessage(t) /\ writeErr = "none") \/ Fill(t) \/ Mark(t) \/ Lock(t)
      PROVE  UNCHANGED FS!fsVars
  <2>1. /\ UNCHANGED <<frame, outcome, result, writeErr, wire, net>>
        /\ pc[t] \notin {"unlock", "retest", "clear"}
        /\ pc'[t] \notin {"unlock", "retest", "clear"}
        /\ \A s \in Threads \ {t} : pc'[s] = pc[s]
    BY <1>0, <1>4 DEF BeginMessage, Fill, Mark, Lock, Goto, connVars, WriterTypeOK
  <2> QED
    BY <2>1, QuietMapped
<1>5. ASSUME NEW t \in Threads, Test(t), pc'[t] # "panic"
      PROVE  UNCHANGED FS!fsVars
  <2>1. /\ UNCHANGED <<frame, outcome, result, writeErr, wire, net>>
        /\ \/ pc[t] = "test" /\ pc'[t] = "mark"
           \/ pc[t] = "retest" /\ pc'[t] = "clear"
        /\ \A s \in Threads \ {t} : pc'[s] = pc[s]
    BY <1>0, <1>5 DEF Test, Goto, connVars, WriterTypeOK
  <2> QED
    BY <2>1, QuietMapped
<1>6. \A t \in Threads : pc'[t] # "panic"
  BY DEF CallsMatch
<1>7. ASSUME NetDown
      PROVE  FS!BreakDown
  BY <1>7 DEF NetDown, callVars, FS!BreakDown, Shut, Gones, Gone, Results, Stream, Out
<1>8. CASE UNCHANGED writerVars
  BY <1>8 DEF writerVars, FS!fsVars, Shut, Lost, Gones, Gone, Results, Stream, Out
<1> QED
  <2>1. ASSUME NEW t \in Threads, WriteStep(t)
        PROVE  FS!FSNext \/ UNCHANGED FS!fsVars
    <3>1. writeErr = "none" \/ writeErr # "none"
      OBVIOUS
    <3>2. CASE FS!Return(t) \/ (\E f \in Frame : FS!GoOn(t, f)) \/ FS!GoOut(t) \/ FS!BreakDown
      BY <3>2 DEF FS!FSNext
    <3> QED
      BY <1>2, <1>3, <1>4, <1>5, <1>6, <2>1, <3>1, <3>2, SendMapped, ClearMapped, UnlockMapped
         DEF WriteStep
  <2>2. CASE NetDown
    BY <1>7, <2>2 DEF FS!FSNext
  <2> QED
    BY <1>1, <1>8, <2>1, <2>2 DEF WriterNext

-----------------------------------------------------------------------------
(***************************************************************************)
(* The invariant of the refinement.                                        *)
(***************************************************************************)

LEMMA CallsMatchStep ==
  ASSUME OneMessageWriter, StreamInv, [WriterNext]_writerVars
  PROVE  CallsMatch'
<1>0. /\ WriterTypeOK /\ CallsMatch /\ DOMAIN pc = Threads /\ DOMAIN frame = Threads
      /\ DOMAIN outcome = Threads
  BY DEF StreamInv, EndInv, WriterTypeOK
<1>1. ASSUME NEW t \in Threads, NEW op \in Op, NEW via \in Via, NEW final \in Ends(1), NEW first,
             Call(t, op, via, final, first),
             \/ via = "message" /\ first = "begin" /\ MessageOps[t] # {}
             \/ via = "prepared" /\ first = "test" /\ final /\ MessageOps[t] # {}
             \/ via = "control" /\ first = "lock" /\ final /\ op # "text"
      PROVE  CallsMatch'
  <2>1. /\ frame'[t].via = via /\ frame'[t].op = op /\ frame'[t].final = final
        /\ frame'[t].part = 1 /\ frame'[t] # NoCall /\ pc'[t] = first
    BY <1>0, <1>1, WriterAssumption DEF Call, Goto, NoCall
  <2>2. \A s \in Threads \ {t} : pc'[s] = pc[s] /\ frame'[s] = frame[s]
    BY <1>0, <1>1 DEF Call, Goto
  <2> QED
    BY <1>0, <1>1, <2>1, <2>2 DEF CallsMatch, Lone, InvalidControl
<1>2. ASSUME NEW t \in Threads, NEW op \in Op,
             WriteMessage(t, op) \/ WritePreparedMessage(t, op) \/ WriteControl(t, op)
      PROVE  CallsMatch'
  BY <1>1, <1>2, WriterAssumption DEF WriteMessage, WritePreparedMessage, WriteControl, Via, Ends
<1>3. ASSUME NEW t \in Threads, WriteStep(t), frame'[t] = NoCall, pc'[t] = "idle"
      PROVE  CallsMatch'
  <2>1. \A s \in Threads \ {t} : pc'[s] = pc[s] /\ frame'[s] = frame[s]
    BY <1>0, <1>3, OthersStay
  <2>2. /\ frame'[t].via = "none" /\ frame'[t].final /\ ~(frame'[t].part > 1)
    BY <1>3 DEF NoCall
  <2> QED
    BY <1>0, <1>3, <2>1, <2>2 DEF CallsMatch, InvalidControl
<1>4. ASSUME NEW t \in Threads, WriteStep(t), frame'[t] = frame[t],
             \/ pc[t] = "begin" /\ pc'[t] = "body"
             \/ pc[t] = "body" /\ pc'[t] = "head"
             \/ pc[t] = "head" /\ pc'[t] = "test" /\ ~InvalidControl(frame[t])
             \/ pc[t] = "test" /\ pc'[t] = "mark"
             \/ pc[t] = "mark" /\ pc'[t] = "lock"
             \/ pc[t] = "lock" /\ pc'[t] = "send"
             \/ pc[t] = "send" /\ pc'[t] = "unlock"
             \/ pc[t] = "unlock" /\ pc'[t] = "retest" /\ frame[t].via # "control"
             \/ pc[t] = "retest" /\ pc'[t] = "clear"
      PROVE  CallsMatch'
  BY <1>0, <1>4, OthersStay DEF CallsMatch
<1>5. ASSUME NEW t \in Threads, Clear(t)
      PROVE  CallsMatch'
  <2>1. CASE Returns(t, outcome[t])
    BY <1>0, <1>3, <1>5, <2>1 DEF Returns, Goto, WriteStep
  <2>2. ASSUME pc[t] = "clear", ~frame[t].final, NEW final \in Ends(frame[t].part + 1),
               frame' = [frame EXCEPT ![t] = NextPart(@, final)], Goto(t, "body")
        PROVE  CallsMatch'
    <3>1. /\ frame'[t].op = frame[t].op /\ frame'[t].via = frame[t].via /\ pc'[t] = "body"
          /\ frame'[t].part = frame[t].part + 1
      BY <1>0, <2>2 DEF NextPart, Goto
    <3>2. ~Lone(frame[t]) /\ frame[t] # NoCall
      BY <1>0, <2>2 DEF CallsMatch, InvalidControl, Lone
    <3>3. frame[t].via = "message"
      <4>1. frame[t] \in Frame /\ frame[t].via # "control"
        BY <1>0, <2>2, <3>2 DEF CallsMatch, WriterTypeOK, CallFrame
      <4> QED
        BY <1>0, <2>2, <4>1 DEF Frame, Via, CallsMatch
    <3>4. frame'[t] # NoCall
      BY <3>1, <3>3 DEF NoCall
    <3> QED
      BY <1>0, <1>5, <2>2, <3>1, <3>2, <3>3, <3>4, OthersStay
         DEF CallsMatch, Lone, InvalidControl, WriteStep
  <2> QED
    BY <1>5, <2>1, <2>2 DEF Clear
<1>6. ASSUME NEW t \in Threads, Test(t)
      PROVE  CallsMatch'
  \* It passes: isWriting is another's or its own.
  <2>1. CASE pc[t] = "test"
    <3>1. ~isWriting
      <4>1. ASSUME NEW s \in Threads, pc[s] \in InWrite, frame[s].via # "control"
            PROVE  FALSE
        <5>1. frame[t].via # "control" /\ s # t
          BY <1>0, <2>1, <4>1 DEF CallsMatch, InWrite
        <5> QED
          BY <1>0, <2>1, <4>1, <5>1, SoleWriter DEF InWrite
      <4> QED
        BY <4>1 DEF StreamInv, MarkMatches
    <3>2. pc'[t] = "mark" /\ frame' = frame
      BY <1>0, <1>6, <2>1, <3>1 DEF Test, Goto
    <3> QED
      BY <1>4, <1>6, <2>1, <3>2 DEF WriteStep
  <2>2. CASE pc[t] = "retest"
    <3>1. isWriting
      BY <1>0, <2>2 DEF StreamInv, MarkMatches, CallsMatch, InWrite
    <3>2. pc'[t] = "clear" /\ frame' = frame
      BY <1>0, <1>6, <2>2, <3>1 DEF Test, Goto
    <3> QED
      BY <1>4, <1>6, <2>2, <3>2 DEF WriteStep
  <2> QED
    BY <1>6, <2>1, <2>2 DEF Test
<1>7. ASSUME NEW t \in Threads,
             \/ BeginMessage(t) \/ Refuse(t) \/ Fill(t) \/ Mark(t) \/ Lock(t) \/ GiveUp(t)
             \/ Send(t) \/ Unlock(t)
      PROVE  CallsMatch'
  BY <1>0, <1>3, <1>4, <1>7
     DEF BeginMessage, Refuse, Fill, Mark, Lock, GiveUp, Send, Wrote, Unlock, Returns, Goto, WriteStep
<1>8. ASSUME NetDown \/ UNCHANGED writerVars
      PROVE  CallsMatch'
  BY <1>8 DEF NetDown, callVars, writerVars, StreamInv, CallsMatch
<1> QED
  BY <1>2, <1>5, <1>6, <1>7, <1>8 DEF WriterNext, WriteStep

LEMMA BufferMatchesStep ==
  ASSUME OneMessageWriter, StreamInv, CallsMatch', [WriterNext]_writerVars
  PROVE  BufferMatches'
<1>0. /\ WriterTypeOK /\ CallsMatch /\ BufferMatches /\ DOMAIN pc = Threads
      /\ DOMAIN frame = Threads
  BY DEF StreamInv, EndInv, WriterTypeOK
<1>1. ASSUME NEW t \in Threads, NEW op \in Op, NEW via, NEW final, NEW first,
             Call(t, op, via, final, first), via = "message" => first = "begin"
      PROVE  BufferMatches'
  <2>1. /\ writeBuf' = writeBuf /\ frame'[t].via = via /\ pc'[t] = first
        /\ \A s \in Threads \ {t} : pc'[s] = pc[s] /\ frame'[s] = frame[s]
    BY <1>0, <1>1 DEF Call, Goto, connVars
  <2> QED
    BY <1>0, <1>1, <2>1 DEF BufferMatches
<1>2. ASSUME NEW t \in Threads, NEW op \in Op,
             WriteMessage(t, op) \/ WritePreparedMessage(t, op) \/ WriteControl(t, op)
      PROVE  BufferMatches'
  BY <1>1, <1>2 DEF WriteMessage, WritePreparedMessage, WriteControl
<1>3. ASSUME NEW t \in Threads, Fill(t)
      PROVE  BufferMatches'
  \* Nobody else is in a message, and the body is put first.
  <2>1. \A s \in Threads \ {t} : frame[s].via # "message"
    <3>1. ASSUME NEW s \in Threads, frame[s].via = "message"
          PROVE  s = t
      <4>1. pc[t] # "idle" /\ frame[t].via = "message"
        BY <1>0, <1>3 DEF Fill, CallsMatch
      <4>2. pc[s] # "idle"
        BY <1>0, <3>1 DEF CallsMatch, NoCall
      <4> QED
        BY <1>0, <3>1, <4>1, <4>2, SoleWriter
    <3> QED
      BY <3>1
  <2>2. /\ frame' = frame
        /\ \/ pc[t] = "body" /\ pc'[t] = "head" /\ writeBuf'.body = frame[t]
           \/ /\ pc[t] = "head" /\ pc'[t] = "test" /\ writeBuf'.head = frame[t]
              /\ writeBuf'.body = writeBuf.body
    BY <1>0, <1>3 DEF Fill, Goto, WriterTypeOK
  <2> QED
    BY <1>0, <2>1, <2>2 DEF BufferMatches
<1>4. ASSUME NEW t \in Threads,
             \/ BeginMessage(t) \/ Refuse(t) \/ Test(t) \/ Mark(t) \/ Clear(t) \/ Lock(t)
             \/ GiveUp(t) \/ Send(t) \/ Unlock(t)
      PROVE  BufferMatches'
  <2>1. /\ writeBuf' = writeBuf
        /\ \/ frame'[t] = NoCall
           \/ pc'[t] = "body"
           \/ frame'[t] = frame[t] /\ pc[t] \notin {"begin", "body", "head"}
    BY <1>0, <1>4
       DEF BeginMessage, Refuse, Test, Mark, Clear, Lock, GiveUp, Send, Wrote, Unlock,
           Returns, Goto, connVars
  <2>2. \A s \in Threads \ {t} : pc'[s] = pc[s] /\ frame'[s] = frame[s]
    BY <1>0, <1>4, OthersStay DEF WriteStep
  <2> QED
    BY <1>0, <2>1, <2>2 DEF BufferMatches, NoCall
<1>5. ASSUME NetDown \/ UNCHANGED writerVars
      PROVE  BufferMatches'
  BY <1>0, <1>5 DEF NetDown, callVars, writerVars, BufferMatches
<1> QED
  BY <1>2, <1>3, <1>4, <1>5 DEF WriterNext, WriteStep

LEMMA MarkMatchesStep ==
  ASSUME OneMessageWriter, StreamInv, CallsMatch', [WriterNext]_writerVars
  PROVE  MarkMatches'
<1>0. /\ WriterTypeOK /\ CallsMatch /\ MarkMatches /\ DOMAIN pc = Threads
      /\ DOMAIN frame = Threads /\ isWriting \in BOOLEAN
  BY DEF StreamInv, EndInv, WriterTypeOK
<1> DEFINE In(t) == pc[t] \in InWrite /\ frame[t].via # "control"
<1>1. ASSUME NEW t \in Threads, isWriting' = isWriting,
             \A s \in Threads \ {t} : pc'[s] = pc[s] /\ frame'[s] = frame[s],
             In(t)' <=> In(t)
      PROVE  MarkMatches'
  <2>1. \A s \in Threads : In(s)' <=> In(s)
    BY <1>1
  <2> QED
    BY <1>0, <1>1, <2>1 DEF MarkMatches
<1>2. ASSUME NEW t \in Threads, NEW op \in Op, NEW via, NEW final, NEW first,
             Call(t, op, via, final, first), via # "control" => first \notin InWrite
      PROVE  MarkMatches'
  <2>1. /\ isWriting' = isWriting /\ frame'[t].via = via /\ pc'[t] = first /\ pc[t] = "idle"
        /\ \A s \in Threads \ {t} : pc'[s] = pc[s] /\ frame'[s] = frame[s]
    BY <1>0, <1>2 DEF Call, Goto, connVars
  <2>2. ~In(t) /\ ~In(t)'
    BY <1>2, <2>1 DEF InWrite
  <2> QED
    BY <1>1, <2>1, <2>2
<1>3. ASSUME NEW t \in Threads, NEW op \in Op,
             WriteMessage(t, op) \/ WritePreparedMessage(t, op) \/ WriteControl(t, op)
      PROVE  MarkMatches'
  BY <1>2, <1>3 DEF WriteMessage, WritePreparedMessage, WriteControl, InWrite
<1>4. ASSUME NEW t \in Threads, Mark(t)
      PROVE  MarkMatches'
  <2>1. pc[t] = "mark" /\ isWriting' /\ pc'[t] = "lock" /\ frame'[t] = frame[t]
    BY <1>0, <1>4 DEF Mark, Goto
  <2>2. In(t)'
    BY <1>0, <2>1 DEF CallsMatch, InWrite
  <2> QED
    BY <2>1, <2>2 DEF MarkMatches
<1>5. ASSUME NEW t \in Threads, Clear(t)
      PROVE  MarkMatches'
  <2>1. ~isWriting' /\ pc[t] = "clear" /\ pc'[t] \in {"idle", "body"}
    BY <1>0, <1>5 DEF Clear, Returns, Goto
  <2>2. ASSUME NEW s \in Threads, In(s)'
        PROVE  FALSE
    <3>1. s # t /\ In(s)
      BY <1>0, <1>5, <2>1, <2>2, OthersStay DEF InWrite, WriteStep
    <3>2. frame[t].via # "control"
      BY <1>0, <2>1 DEF CallsMatch
    <3> QED
      BY <1>0, <2>1, <3>1, <3>2, SoleWriter DEF InWrite
  <2> QED
    BY <2>1, <2>2 DEF MarkMatches
<1>6. ASSUME NEW t \in Threads,
             \/ BeginMessage(t) \/ Refuse(t) \/ Fill(t) \/ Test(t) \/ Lock(t)
             \/ GiveUp(t) \/ Send(t) \/ Unlock(t)
      PROVE  MarkMatches'
  <2>1. \A s \in Threads \ {t} : pc'[s] = pc[s] /\ frame'[s] = frame[s]
    BY <1>0, <1>6, OthersStay DEF WriteStep
  <2>2. /\ isWriting' = isWriting /\ pc'[t] # "panic"
        /\ \/ frame'[t] = frame[t] /\ (pc'[t] \in InWrite <=> pc[t] \in InWrite)
           \/ frame'[t] = frame[t] /\ pc[t] = "retest" /\ pc'[t] = "clear"
           \/ pc'[t] = "idle" /\ (pc[t] \notin InWrite \/ frame[t].via = "control")
    <3>1. pc'[t] # "panic"
      BY DEF CallsMatch
    <3> QED
      BY <1>0, <1>6, <3>1
         DEF BeginMessage, Refuse, Fill, Test, Lock, GiveUp, Send, Wrote, Unlock,
             Returns, Goto, connVars, InWrite
  <2>3. In(t)' <=> In(t)
    BY <2>2 DEF InWrite
  <2> QED
    BY <1>1, <2>1, <2>2, <2>3
<1>7. ASSUME NetDown \/ UNCHANGED writerVars
      PROVE  MarkMatches'
  BY <1>0, <1>7 DEF NetDown, callVars, writerVars, MarkMatches
<1> QED
  BY <1>3, <1>4, <1>5, <1>6, <1>7 DEF WriterNext, WriteStep

LEMMA OutcomesMatchStep ==
  ASSUME StreamInv, CallsMatch', [WriterNext]_writerVars
  PROVE  OutcomesMatch'
<1>0. /\ WriterTypeOK /\ OutcomesMatch /\ DOMAIN pc = Threads
      /\ DOMAIN outcome = Threads /\ writeErr \in Error \cup {"none"}
  BY DEF StreamInv, EndInv, WriterTypeOK
<1>1. ASSUME NEW t \in Threads, NEW op \in Op,
             WriteMessage(t, op) \/ WritePreparedMessage(t, op) \/ WriteControl(t, op)
      PROVE  OutcomesMatch'
  BY <1>0, <1>1 DEF WriteMessage, WritePreparedMessage, WriteControl, Call, Goto, connVars,
                    OutcomesMatch
<1>2. ASSUME NEW t \in Threads, WriteStep(t),
             writeErr # "none" => writeErr' # "none",
             pc'[t] \in {"unlock", "retest", "clear"} <=> outcome'[t] # "none",
             pc'[t] \in {"retest", "clear"} /\ outcome'[t] # "ok" => writeErr' # "none"
      PROVE  OutcomesMatch'
  BY <1>0, <1>2, OthersStay DEF OutcomesMatch
<1>3. ASSUME NEW t \in Threads,
             \/ BeginMessage(t) \/ Refuse(t) \/ Fill(t) \/ Mark(t) \/ Clear(t) \/ Lock(t)
             \/ GiveUp(t)
      PROVE  OutcomesMatch'
  <2>1. /\ writeErr' = writeErr /\ pc'[t] \notin {"unlock", "retest", "clear"}
        /\ outcome'[t] = "none"
    BY <1>0, <1>3
       DEF BeginMessage, Refuse, Fill, Mark, Clear, Lock, GiveUp, Returns, Goto, connVars,
           OutcomesMatch
  <2> QED
    BY <1>2, <1>3, <2>1 DEF WriteStep
<1>4. ASSUME NEW t \in Threads, Test(t), pc'[t] # "panic"
      PROVE  OutcomesMatch'
  <2>1. /\ writeErr' = writeErr /\ outcome'[t] = outcome[t]
        /\ \/ pc[t] = "test" /\ pc'[t] = "mark"
           \/ pc[t] = "retest" /\ pc'[t] = "clear"
    BY <1>0, <1>4 DEF Test, Goto, connVars
  <2> QED
    BY <1>0, <1>2, <1>4, <2>1 DEF WriteStep, OutcomesMatch
<1>5. ASSUME NEW t \in Threads, Send(t)
      PROVE  OutcomesMatch'
  <2>1. writeErr' = writeErr /\ pc'[t] = "unlock" /\ outcome'[t] # "none"
    BY <1>0, <1>5 DEF Send, Wrote, Goto
  <2> QED
    BY <1>2, <1>5, <2>1 DEF WriteStep
<1>6. ASSUME NEW t \in Threads, Unlock(t)
      PROVE  OutcomesMatch'
  <2>1. /\ writeErr # "none" => writeErr' # "none"
        /\ outcome[t] # "none" /\ (outcome[t] # "ok" => writeErr' # "none")
        /\ \/ pc'[t] = "idle" /\ outcome'[t] = "none"
           \/ pc'[t] = "retest" /\ outcome'[t] = outcome[t]
    BY <1>0, <1>6 DEF Unlock, Returns, Goto, OutcomesMatch
  <2> QED
    BY <1>2, <1>6, <2>1 DEF WriteStep
<1>7. ASSUME NetDown \/ UNCHANGED writerVars
      PROVE  OutcomesMatch'
  BY <1>0, <1>7 DEF NetDown, callVars, writerVars, OutcomesMatch
<1>8. \A t \in Threads : pc'[t] # "panic"
  BY DEF CallsMatch
<1> QED
  BY <1>1, <1>3, <1>4, <1>5, <1>6, <1>7, <1>8 DEF WriterNext, WriteStep

\* A step of t that leaves the wire alone.
LEMMA WireKept ==
  ASSUME StreamInv, NEW t \in Threads, wire' = wire, Shut => Shut',
         \A s \in Threads \ {t} :
           pc'[s] = pc[s] /\ frame'[s] = frame[s] /\ outcome'[s] = outcome[s],
         NEW k \in 1..Len(wire), ~Shut', NEW u \in Threads, MessageOps[u] # {}, LastData(k)',
         Fitting(t, k) => Fitting(t, k)'
  PROVE  Fitting(u, k)'
<1>1. LastData(k) /\ ~Shut
  BY DEF LastData, Seen
<1>2. Fitting(u, k)
  BY <1>1 DEF StreamInv, StreamMatches
<1>3. CASE u # t
  BY <1>2, <1>3 DEF Fitting, Gone, Seen, Continues, NextPart
<1> QED
  BY <1>2, <1>3

\* The call of t returns, and it is not in the middle of a message.
LEMMA ReturnsFitting ==
  ASSUME StreamInv, NEW t \in Threads, NEW r, Returns(t, r), wire' = wire, NEW k \in 1..Len(wire),
         Lone(frame[t]) \/ (Gone(t) /\ frame[t].final), Fitting(t, k)
  PROVE  Fitting(t, k)'
<1>0. WriterTypeOK /\ frame[t] \in CallFrame /\ 1 \in 1..MaxParts
  BY WriterAssumption DEF StreamInv, EndInv, WriterTypeOK
<1>1. frame'[t] = NoCall /\ pc'[t] = "idle"
  BY <1>0 DEF Returns, Goto, WriterTypeOK
<1>2. Seen(wire[k]).final
  <2>1. CASE Lone(frame[t])
    BY <2>1 DEF Fitting, StreamInv, CallsMatch
  <2>2. CASE ~Lone(frame[t])
    BY <2>2 DEF Fitting
  <2> QED
    BY <2>1, <2>2
<1> QED
  BY <1>1, <1>2 DEF Fitting, Gone, NoCall, Seen

LEMMA SendFitting ==
  ASSUME OneMessageWriter, StreamInv, NEW t \in Threads, Send(t), ~Shut',
         NEW u \in Threads, MessageOps[u] # {}, NEW k \in 1..Len(wire'), LastData(k)'
  PROVE  Fitting(u, k)'
<1>0. /\ WriterTypeOK /\ pc[t] = "send" /\ pc' = [pc EXCEPT ![t] = "unlock"]
      /\ UNCHANGED <<frame, writeErr, net>>
      /\ wire \in Seq(Bit) /\ Bytes(t, TRUE) \in Bit
      /\ DOMAIN outcome = Threads /\ DOMAIN pc = Threads
  <2>1. WriterTypeOK
    BY DEF StreamInv, EndInv
  <2> QED
    BY <2>1, BytesType DEF Send, Wrote, Goto, WriterTypeOK, Bit
<1>1. ASSUME NEW o \in Error, NEW w, Wrote(t, o, w)
      PROVE  FALSE
  BY <1>0, <1>1 DEF Wrote, Shut, Lost, Error
<1>2. /\ writeErr = "none" /\ net = "up" /\ outcome' = [outcome EXCEPT ![t] = "ok"]
      /\ wire' = Append(wire, Bytes(t, TRUE))
  BY <1>0, <1>1 DEF Send, Wrote, WriterTypeOK, Error
<1>3. /\ Len(wire') = Len(wire) + 1 /\ wire'[Len(wire) + 1] = Bytes(t, TRUE)
      /\ \A j \in 1..Len(wire) : wire'[j] = wire[j]
      /\ Len(wire) \in Nat
  <2> DEFINE e == Bytes(t, TRUE)
  <2> HIDE DEF e
  <2>1. e \in Bit /\ wire' = Append(wire, e)
    BY <1>0, <1>2 DEF e
  <2>2. /\ Len(Append(wire, e)) = Len(wire) + 1 /\ Append(wire, e)[Len(wire) + 1] = e
        /\ \A j \in 1..Len(wire) : Append(wire, e)[j] = wire[j]
    BY <1>0, <2>1, AppendFacts
  <2>3. Len(wire) \in Nat
    BY <1>0
  <2> QED
    BY <2>1, <2>2, <2>3 DEF e
<1>4. Seen(wire'[Len(wire) + 1]) = frame[t] /\ frame'[t] = frame[t]
  BY <1>0, <1>3, SeenFrame
<1>5. ~Shut
  BY <1>0, <1>2 DEF Shut, Lost, StreamInv, EndInv, MuIsHeld
<1>6. CASE ~Lone(frame[t])
  <2>1. MessageOps[t] # {}
    <3>1. frame[t] \in Frame /\ frame[t].via # "control"
      BY <1>0, <1>6 DEF WriterTypeOK, CallFrame, StreamInv, CallsMatch
    <3> QED
      BY <3>1 DEF Frame, Via, StreamInv, CallsMatch
  <2>2. u = t
    BY <2>1 DEF OneMessageWriter
  <2>3. k = Len(wire) + 1
    <3>1. SUFFICES ASSUME k \in 1..Len(wire)
                   PROVE  FALSE
      BY <1>3
    <3>2. Len(wire) + 1 \in 1..Len(wire') /\ Len(wire) + 1 > k
      BY <1>3, <3>1
    <3>3. Lone(Seen(wire'[Len(wire) + 1]))
      BY <3>2 DEF LastData, Seen, Lone
    <3> QED
      BY <1>4, <1>6, <3>3
  <2>4. Gone(t)'
    BY <1>0, <1>2 DEF Gone
  <2> QED
    BY <1>4, <1>6, <2>2, <2>3, <2>4 DEF Fitting, Seen, Lone
<1>7. CASE Lone(frame[t])
  <2>1. k \in 1..Len(wire) /\ wire'[k] = wire[k]
    <3>1. k # Len(wire) + 1
      BY <1>4, <1>7 DEF LastData, Seen, Lone
    <3> QED
      BY <1>3, <3>1
  <2>2. LastData(k)
    <3>1. ~Lone(Seen(wire[k]))
      BY <2>1 DEF LastData, Seen, Lone
    <3>2. ASSUME NEW j \in 1..Len(wire), j > k
          PROVE  Lone(Seen(wire[j]))
      BY <1>3, <3>2 DEF LastData, Seen, Lone
    <3> QED
      BY <3>1, <3>2 DEF LastData
  <2>3. Fitting(u, k)
    BY <1>5, <2>1, <2>2 DEF StreamInv, StreamMatches
  <2>4. CASE u = t
    BY <1>4, <1>7, <2>1, <2>3, <2>4 DEF Fitting, Lone, Seen, Continues, NextPart
  <2>5. CASE u # t
    <3>1. Gone(u)' <=> Gone(u)
      BY <1>0, <1>2, <2>5 DEF Gone
    <3> QED
      BY <1>0, <2>1, <2>3, <3>1 DEF Fitting, Lone, Seen, Continues, NextPart
  <2> QED
    BY <2>4, <2>5
<1> QED
  BY <1>6, <1>7

LEMMA StreamMatchesStep ==
  ASSUME OneMessageWriter, StreamInv, CallsMatch', [WriterNext]_writerVars
  PROVE  StreamMatches'
<1>0. /\ WriterTypeOK /\ DOMAIN pc = Threads /\ DOMAIN frame = Threads
      /\ DOMAIN outcome = Threads
  BY DEF StreamInv, EndInv, WriterTypeOK
<1>1. SUFFICES ASSUME ~Shut', NEW u \in Threads, NEW k \in 1..Len(wire'),
                      MessageOps[u] # {}, LastData(k)'
               PROVE  Fitting(u, k)'
  BY DEF StreamMatches
<1>2. CASE UNCHANGED writerVars \/ NetDown
  <2>1. UNCHANGED <<pc, frame, outcome, wire, writeErr>> /\ ~Shut
    BY <1>1, <1>2 DEF writerVars, NetDown, callVars, Shut, Lost
  <2>2. LastData(k) /\ k \in 1..Len(wire)
    BY <1>1, <2>1 DEF LastData, Seen, Lone
  <2>3. Fitting(u, k)
    BY <1>1, <2>1, <2>2 DEF StreamInv, StreamMatches
  <2> QED
    BY <2>1, <2>3 DEF Fitting, Gone, Seen, Lone, Continues, NextPart
<1>3. ASSUME NEW t \in Threads, NEW op \in Op,
             WriteMessage(t, op) \/ WritePreparedMessage(t, op) \/ WriteControl(t, op)
      PROVE  Fitting(u, k)'
  <2>1. PICK via \in Via, final \in BOOLEAN, first \in {"begin", "test", "lock"} :
          Call(t, op, via, final, first)
    BY <1>3 DEF WriteMessage, WritePreparedMessage, WriteControl, Via, Ends
  <2>2. /\ UNCHANGED <<wire, writeErr, net>> /\ frame[t] = NoCall /\ frame'[t].part = 1
        /\ pc'[t] \notin {"unlock", "retest", "clear"} /\ pc[t] = "idle"
        /\ \A s \in Threads \ {t} :
             pc'[s] = pc[s] /\ frame'[s] = frame[s] /\ outcome'[s] = outcome[s]
    BY <1>0, <2>1 DEF Call, Goto, connVars, StreamInv, CallsMatch
  <2>3. Shut' = Shut
    BY <2>2, ShutSame
  <2>4. Fitting(t, k) => Fitting(t, k)'
    BY <2>2 DEF Fitting, Gone, NoCall, Seen
  <2> QED
    BY <1>1, <2>2, <2>3, <2>4, WireKept
<1>4. ASSUME NEW t \in Threads,
             \/ BeginMessage(t) \/ Refuse(t) \/ Fill(t) \/ Test(t) \/ Mark(t) \/ Clear(t)
             \/ Lock(t) \/ GiveUp(t)
      PROVE  Fitting(u, k)'
  <2>1. \A s \in Threads \ {t} :
          pc'[s] = pc[s] /\ frame'[s] = frame[s] /\ outcome'[s] = outcome[s]
    BY <1>0, <1>4, OthersStay DEF WriteStep
  <2>2. UNCHANGED <<wire, writeErr, net>> /\ pc[t] # "unlock" /\ pc'[t] # "unlock"
        /\ pc[t] # "idle"
    BY <1>0, <1>4
       DEF BeginMessage, Refuse, Fill, Test, Mark, Clear, Lock, GiveUp, Returns, Goto, connVars
  <2>3. Shut' = Shut /\ k \in 1..Len(wire)
    BY <1>1, <2>1, <2>2, ShutSame
  <2>4. Fitting(t, k) => Fitting(t, k)'
    <3>1. SUFFICES ASSUME Fitting(t, k)
                   PROVE  Fitting(t, k)'
      OBVIOUS
    <3>2. CASE frame'[t] = frame[t]
      <4>1. Gone(t)' = Gone(t)
        <5>1. frame[t] # NoCall /\ frame[t] \in Frame
          BY <1>0, <2>2 DEF StreamInv, CallsMatch, WriterTypeOK, CallFrame
        <5>2. ASSUME NEW r, Returns(t, r)
              PROVE  FALSE
          BY <1>0, <3>2, <5>1, <5>2 DEF Returns
        <5>3. \A final \in BOOLEAN : NextPart(frame[t], final).part # frame[t].part
          BY <5>1 DEF NextPart, Frame
        <5>4. ~Clear(t)
          BY <1>0, <3>2, <5>2, <5>3 DEF Clear, Ends
        <5>5. UNCHANGED outcome /\ pc'[t] # "panic"
          BY <1>4, <5>2, <5>4
             DEF BeginMessage, Refuse, Fill, Test, Mark, Lock, GiveUp, connVars, CallsMatch
        <5> QED
          BY <1>0, <1>4, <5>2, <5>4, <5>5
             DEF BeginMessage, Refuse, Fill, Test, Mark, Lock, GiveUp, Goto, Gone
      <4> QED
        BY <2>2, <3>1, <3>2, <4>1 DEF Fitting, Seen, Lone, Continues, NextPart
    <3>3. CASE BeginMessage(t) /\ writeErr # "none"
      BY <1>1, <2>3, <3>3 DEF Shut
    <3>4. CASE Refuse(t) \/ GiveUp(t)
      <4>1. Lone(frame[t]) /\ \E r : Returns(t, r)
        BY <3>4 DEF Refuse, GiveUp, InvalidControl, StreamInv, CallsMatch
      <4> QED
        BY <2>2, <2>3, <3>1, <4>1, ReturnsFitting
    <3>5. CASE Clear(t)
      <4>1. outcome[t] = "ok" /\ Gone(t)
        BY <1>0, <1>1, <2>3, <3>5 DEF Clear, Shut, Gone, StreamInv, OutcomesMatch
      <4>2. CASE frame[t].final /\ Returns(t, outcome[t])
        BY <2>2, <2>3, <3>1, <4>1, <4>2, ReturnsFitting
      <4>3. CASE /\ ~frame[t].final /\ Goto(t, "body")
                 /\ \E final \in Ends(frame[t].part + 1) :
                      frame' = [frame EXCEPT ![t] = NextPart(@, final)]
        <5>1. PICK final \in BOOLEAN : frame'[t] = NextPart(frame[t], final)
          BY <1>0, <4>3 DEF Ends
        <5>2. ~Lone(frame[t]) /\ ~Gone(t)' /\ frame[t] \in Frame
          BY <1>0, <3>5, <4>3
             DEF Clear, Goto, Gone, StreamInv, CallsMatch, InvalidControl, WriterTypeOK, CallFrame
        <5>3. frame'[t].part > 1
          BY <5>1, <5>2, WriterAssumption DEF NextPart, Frame
        <5>4. Continues(Seen(wire[k]), frame'[t])
          BY <3>1, <4>1, <5>1, <5>2 DEF Fitting, Continues
        <5> QED
          BY <2>2, <5>2, <5>3, <5>4 DEF Fitting, Seen, Continues, NextPart
      <4> QED
        BY <3>5, <4>1, <4>2, <4>3 DEF Clear
    <3> QED
      BY <1>0, <1>4, <3>2, <3>3, <3>4, <3>5
         DEF BeginMessage, Fill, Test, Mark, Lock, Goto, connVars
  <2> QED
    BY <1>1, <2>1, <2>2, <2>3, <2>4, WireKept
<1>5. ASSUME NEW t \in Threads, Unlock(t)
      PROVE  Fitting(u, k)'
  <2>1. /\ \A s \in Threads \ {t} :
             pc'[s] = pc[s] /\ frame'[s] = frame[s] /\ outcome'[s] = outcome[s]
        /\ pc[t] = "unlock" /\ wire' = wire /\ net' = net
    BY <1>0, <1>5, OthersStay DEF WriteStep, Unlock
  <2>2. Shut => Shut'
    <3>1. Lost(t) => writeErr' # "none"
      BY <1>0, <1>5 DEF Unlock, Lost, StreamInv, EndInv, MuIsHeld
    <3>2. writeErr # "none" => writeErr' # "none"
      BY <1>5 DEF Unlock
    <3>3. \A s \in Threads \ {t} : Lost(s) => Lost(s)'
      BY <2>1 DEF Lost
    <3> QED
      BY <2>1, <3>1, <3>2, <3>3 DEF Shut
  <2>3. Fitting(t, k) => Fitting(t, k)'
    <3>1. SUFFICES ASSUME Fitting(t, k)
                   PROVE  Fitting(t, k)'
      OBVIOUS
    <3>2. CASE frame[t].via = "control" /\ Returns(t, outcome[t])
      <4>1. Lone(frame[t])
        BY <3>2 DEF StreamInv, CallsMatch
      <4> QED
        BY <1>1, <2>1, <3>1, <3>2, <4>1, ReturnsFitting
    <3>3. CASE Goto(t, "retest") /\ UNCHANGED <<frame, outcome, result, calls>>
      <4>1. Gone(t)' = Gone(t)
        BY <1>0, <2>1, <3>3 DEF Gone, Goto
      <4> QED
        BY <2>1, <3>1, <3>3, <4>1 DEF Fitting, Seen, Lone, Continues, NextPart
    <3> QED
      BY <1>5, <3>2, <3>3 DEF Unlock
  <2> QED
    BY <1>1, <2>1, <2>2, <2>3, WireKept
<1>6. ASSUME NEW t \in Threads, Send(t)
      PROVE  Fitting(u, k)'
  BY <1>1, <1>6, SendFitting
<1> QED
  BY <1>2, <1>3, <1>4, <1>5, <1>6 DEF WriterNext, WriteStep

LEMMA StreamInit ==
  ASSUME WriterInit
  PROVE  StreamInv
<1>1. EndInv
  BY EndInit
<1>2. CallsMatch
  <2>1. /\ NoCall.via = "none" /\ ~(NoCall.part > 1) /\ NoCall.final = TRUE
    BY DEF NoCall
  <2>2. \A t \in Threads : pc[t] = "idle" /\ frame[t] = NoCall
    BY DEF WriterInit
  <2>3. SUFFICES ASSUME NEW t \in Threads
                 PROVE  CallsMatch!(t)
    BY DEF CallsMatch
  <2> QED
    BY <2>1, <2>2, <2>3 DEF InvalidControl
<1>3. BufferMatches /\ MarkMatches /\ OutcomesMatch
  BY DEF WriterInit, BufferMatches, MarkMatches, OutcomesMatch, NoCall, InWrite
<1>4. StreamMatches
  BY DEF WriterInit, StreamMatches
<1> QED
  BY <1>1, <1>2, <1>3, <1>4 DEF StreamInv

LEMMA StreamStep ==
  ASSUME OneMessageWriter, StreamInv, [WriterNext]_writerVars
  PROVE  StreamInv'
<1>1. CallsMatch'
  BY CallsMatchStep
<1>2. HeadsAreKnown
  <2>1. SUFFICES ASSUME NEW t \in Threads, pc[t] = "send"
                 PROVE  Bytes(t, TRUE).head = frame[t]
    BY DEF HeadsAreKnown
  <2> QED
    BY <2>1 DEF StreamInv, BufferMatches, Bytes
<1>3. EndInv'
  BY <1>2, EndStep DEF StreamInv
<1> QED
  BY <1>1, <1>3, BufferMatchesStep, MarkMatchesStep, OutcomesMatchStep, StreamMatchesStep
     DEF StreamInv

\* A connection with one goroutine that writes messages, whole or in parts, prepared or
\* not, and any number that write control frames, hands every frame to the network whole
\* and at most once, says of a call that it has gone out if and only if it has, lets
\* only control frames come between the frames of a message, and writes nothing after a
\* close frame or a broken one: beginMessage(), flushFrame(), Write(), Close(),
\* WritePreparedMessage(), WriteControl() and write() implement FrameStream.
THEOREM ConnectionIsAStream ==
  ASSUME OneMessageWriter
  PROVE  WriterSpec => ImplementsFrameStream
<1>1. WriterInit => StreamInv
  BY StreamInit
<1>2. StreamInv /\ [WriterNext]_writerVars => StreamInv'
  BY StreamStep
<1>3. WriterInit => FS!FSInit
  <2>1. SUFFICES ASSUME WriterInit
                 PROVE  FS!FSInit
    OBVIOUS
  <2>2. Gones = [t \in Threads |-> FALSE]
    BY <2>1 DEF WriterInit, Gones, Gone
  <2>3. Results = [t \in Threads |-> "none"]
    BY <2>1 DEF WriterInit, Results
  <2>4. Out = 0
    BY <2>1 DEF WriterInit, Out
  <2>5. Stream = <<>>
    BY <2>4 DEF Stream
  <2>6. Shut = FALSE
    BY <2>1 DEF WriterInit, Shut, Lost
  <2> QED
    BY <2>1, <2>2, <2>3, <2>5, <2>6 DEF WriterInit, FS!FSInit
<1>4. StreamInv /\ StreamInv' /\ [WriterNext]_writerVars => [FS!FSNext]_(FS!fsVars)
  BY NextMapped DEF StreamInv
<1> QED
  BY <1>1, <1>2, <1>3, <1>4, PTL DEF WriterSpec, ImplementsFrameStream, FS!FSSpec
=============================================================================
