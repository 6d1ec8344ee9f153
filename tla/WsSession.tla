----------------------------- MODULE WsSession ------------------------------
(***************************************************************************)
(* A WebSocket connection of the daemon (ws_handler.go): ws_handler()      *)
(* reads messages, has docmd() run cntl and writes the answer; keepAlive() *)
(* starts a goroutine that writes a ping every half timeout and closes the *)
(* connection when no pong has been read for a whole one.  Pongs are read, *)
(* and pings and close frames answered, by the ReadMessage() of the        *)
(* handler (conn.go), which it does not call while docmd() waits for cntl. *)
(*                                                                         *)
(* The timeout is a week and a step of a goroutine takes no time: time     *)
(* passes when all of them wait for the network, for cntl or in a Sleep(). *)
(***************************************************************************)
EXTENDS Docmd, WsWriter

CONSTANTS
  Messages,   \* the messages of the peer, as the words strings.Fields() finds
  Half,       \* half the timeout of keepAlive(), in ticks
  MaxTime,    \* bound on the clock
  Window,     \* how many frames the peer writes ahead of the reader
  MaxFrames   \* bound on the frames of the peer

ASSUME SessionAssumption ==
  /\ Threads = {"handler", "keeper"}
  /\ MaxParts = 1     \* both call WriteMessage()
  /\ {Half, MaxTime, Window, MaxFrames} \subseteq Nat \ {0}

VARIABLES
  up,            \* is the daemon running?
  handler,       \* what ws_handler() does
  keeper,        \* what keepAlive() does
  now,           \* the time
  lastResponse,  \* when the last pong was handled
  wake,          \* when Sleep() ends
  inbox,         \* frames of the peer that have not been read
  sent,          \* how many frames the peer has sent
  heard,         \* when the peer sent its last pong
  held           \* how long the pings have waited for the network

sessionVars == <<up, handler, keeper, now, lastResponse, wake, inbox, sent, heard, held>>
vars == <<pc, frame, outcome, result, calls, mu, writeErr, isWriting, writeBuf,
          wire, net, up, handler, keeper, now, lastResponse, wake, inbox,
          sent, heard, held>>

Incoming == [op : {"text"}, words : Messages] \cup [op : {"ping", "pong", "close", "bad"}]

TypeOK ==
  /\ WriterTypeOK
  /\ up \in BOOLEAN
  /\ handler \in {"read", "docmd", "reply", "pong", "closing", "over", "panicked"}
  /\ keeper \in {"start", "ping", "pinging", "sleep", "over"}
  /\ now \in 0..MaxTime /\ wake \in 0..(MaxTime + Half)
  /\ lastResponse \in 0..now /\ heard \in 0..now /\ held \in 0..now
  /\ inbox \in Seq(Incoming)
  /\ sent \in 0..MaxFrames

\* ws_handler() has upgraded the connection and started keepAlive().
Init ==
  /\ WriterInit
  /\ up = TRUE
  /\ handler = "read" /\ keeper = "start"
  /\ now = 0 /\ lastResponse = 0 /\ wake = 0 /\ heard = 0 /\ held = 0
  /\ inbox = <<>>
  /\ sent = 0

-----------------------------------------------------------------------------
(***************************************************************************)
(* ws_handler()                                                            *)
(***************************************************************************)

\* ReadMessage() has read the frame f.
Reads(f) ==
  /\ up /\ handler = "read"
  /\ inbox # <<>> /\ Head(inbox) = f
  /\ inbox' = Tail(inbox)

\* A message: docmd() turns it down, which is answered too, or panics, which the
\* HTTP server recovers without closing the connection, or waits for cntl.
ReadText(words) ==
  /\ Reads([op |-> "text", words |-> words])
  /\ \/ /\ Docmd(words) = "unknown"
        /\ WriteMessage("handler", "text")
        /\ handler' = "reply"
     \/ Docmd(words) = "panic" /\ handler' = "panicked" /\ UNCHANGED writerVars
     \/ Docmd(words) = "run" /\ handler' = "docmd" /\ UNCHANGED writerVars
  /\ UNCHANGED <<up, keeper, now, lastResponse, wake, sent, heard, held>>

CntlEnds ==
  /\ up /\ handler = "docmd"
  /\ handler' = "reply"
  /\ WriteMessage("handler", "text")
  /\ UNCHANGED <<up, keeper, now, lastResponse, wake, inbox, sent, heard, held>>

\* A plausible slip: the default pong handler, which does nothing, is used.
BadReadPong ==
  /\ Reads([op |-> "pong"])
  /\ UNCHANGED <<writerVars, up, handler, keeper, now, wake, sent, heard, held, lastResponse>>

\* handlePong(), once keepAlive() has set it.
ReadPong ==
  /\ Reads([op |-> "pong"])
  /\ lastResponse' = IF keeper = "start" THEN lastResponse ELSE now
  /\ UNCHANGED <<writerVars, up, handler, keeper, now, wake, sent, heard, held>>

\* handlePing() answers a ping, handleClose() a close frame, handleProtocolError()
\* a bad one; after the last two ReadMessage() fails.
ReadControl(op) ==
  /\ Reads([op |-> op])
  /\ IF op = "ping"
     THEN handler' = "pong" /\ WriteControl("handler", "pong")
     ELSE handler' = "closing" /\ WriteControl("handler", "close")
  /\ UNCHANGED <<up, keeper, now, lastResponse, wake, sent, heard, held>>

\* The call has returned: ws_handler() ignores what WriteMessage() returns, and
\* handlePing() a time out and ErrCloseSent.  ws_handler() returns without closing
\* the connection.
HandlerWrote ==
  /\ up /\ handler \in {"reply", "pong", "closing"}
  /\ pc["handler"] = "idle"
  /\ handler' = IF handler = "closing" \/ (handler = "pong" /\ result["handler"] = "failed")
                THEN "over" ELSE "read"
  /\ UNCHANGED <<writerVars, up, keeper, now, lastResponse, wake, inbox, sent, heard, held>>

\* The connection is down.
ReadFails ==
  /\ up /\ handler = "read"
  /\ net = "down"
  /\ handler' = "over"
  /\ UNCHANGED <<writerVars, up, keeper, now, lastResponse, wake, inbox, sent, heard, held>>

\* A concurrent write found out in the handler: recovered by the HTTP server.
HandlerPanics ==
  /\ up /\ handler = "reply"
  /\ pc["handler"] = "panic"
  /\ handler' = "panicked"
  /\ UNCHANGED <<writerVars, up, keeper, now, lastResponse, wake, inbox, sent, heard, held>>

-----------------------------------------------------------------------------
(***************************************************************************)
(* keepAlive()                                                             *)
(***************************************************************************)

\* lastResponse and the pong handler are set, and the goroutine is started.
Start ==
  /\ up /\ keeper = "start"
  /\ keeper' = "ping"
  /\ lastResponse' = now
  /\ UNCHANGED <<writerVars, up, handler, now, wake, inbox, sent, heard, held>>

Ping ==
  /\ up /\ keeper = "ping"
  /\ keeper' = "pinging"
  /\ WriteMessage("keeper", "ping")
  /\ UNCHANGED <<up, handler, now, lastResponse, wake, inbox, sent, heard, held>>

\* A plausible slip: the Sleep() is for the whole timeout.
BadPinged ==
  /\ up /\ keeper = "pinging"
  /\ pc["keeper"] = "idle"
  /\ IF result["keeper"] = "ok"
     THEN keeper' = "sleep" /\ wake' = now + 2 * Half
     ELSE keeper' = "over" /\ UNCHANGED wake
  /\ UNCHANGED <<writerVars, up, handler, now, lastResponse, inbox, sent, heard, held>>

\* The ping has been written, or the goroutine ends without closing anything.
Pinged ==
  /\ up /\ keeper = "pinging"
  /\ pc["keeper"] = "idle"
  /\ IF result["keeper"] = "ok"
     THEN keeper' = "sleep" /\ wake' = now + Half
     ELSE keeper' = "over" /\ UNCHANGED wake
  /\ UNCHANGED <<writerVars, up, handler, now, lastResponse, inbox, sent, heard, held>>

\* A plausible slip: the limit taken for more than it is.
BadSoonEnough == now - lastResponse <= 3 * Half

\* time.Now().Sub(lastResponse) > timeout, or not: at the tick of the timeout
\* itself it can be either.
TooLong == now - lastResponse >= 2 * Half
SoonEnough == now - lastResponse <= 2 * Half

\* A plausible slip: the goroutine ends without Close().
BadWake ==
  /\ up /\ keeper = "sleep"
  /\ now >= wake
  /\ keeper' = IF SoonEnough THEN "ping" ELSE "over"
  /\ UNCHANGED <<writerVars, up, handler, now, lastResponse, wake, inbox, sent, heard, held>>

\* Sleep() is over: Close() or another ping.
Wake ==
  /\ up /\ keeper = "sleep"
  /\ now >= wake
  /\ \/ TooLong /\ keeper' = "over" /\ net' = "down"
     \/ SoonEnough /\ keeper' = "ping" /\ UNCHANGED net
  /\ UNCHANGED <<callVars, mu, writeErr, isWriting, writeBuf, wire,
                 up, handler, now, lastResponse, wake, inbox, sent, heard, held>>

\* A concurrent write found out in the goroutine: nobody recovers, and the daemon
\* goes down with every connection.
KeeperPanics ==
  /\ up
  /\ pc["keeper"] = "panic"
  /\ up' = FALSE
  /\ net' = "down"
  /\ UNCHANGED <<callVars, mu, writeErr, isWriting, writeBuf, wire,
                 handler, keeper, now, lastResponse, wake, inbox, sent, heard, held>>

\* A step of one of them within a call of the library.
Writes ==
  /\ up
  /\ \E t \in Threads : WriteStep(t)
  /\ UNCHANGED sessionVars

-----------------------------------------------------------------------------
(***************************************************************************)
(* The peer, the network and the time (external).                          *)
(***************************************************************************)

\* The peer answers a ping it has received, or sends anything of its own.
Peer(f) ==
  /\ up /\ net = "up"
  /\ sent < MaxFrames /\ Len(inbox) < Window
  /\ f.op = "pong" => \E k \in DOMAIN wire : wire[k].whole /\ wire[k].head.op = "ping"
  /\ inbox' = Append(inbox, f)
  /\ sent' = sent + 1
  /\ heard' = IF f.op = "pong" THEN now ELSE heard
  /\ UNCHANGED <<writerVars, up, handler, keeper, now, lastResponse, wake, held>>

Network == up /\ NetDown /\ UNCHANGED sessionVars

\* The goroutine t waits for mu or for the peer to read, or is in no call at all.
Waits(t) ==
  \/ pc[t] \in {"idle", "panic"}
  \/ pc[t] = "lock" /\ mu # Nobody
  \/ pc[t] = "send" /\ writeErr = "none" /\ net = "up"

Tick ==
  /\ up
  /\ now < MaxTime
  /\ \A t \in Threads : Waits(t)
  /\ handler = "read" => inbox = <<>>
  /\ handler \in {"reply", "pong", "closing"} => pc["handler"] # "idle"
  /\ keeper \notin {"start", "ping"}
  /\ keeper = "pinging" => pc["keeper"] # "idle"
  /\ keeper = "sleep" => now < wake
  /\ now' = now + 1
  /\ held' = IF keeper = "pinging" THEN held + 1 ELSE held
  /\ UNCHANGED <<writerVars, up, handler, keeper, lastResponse, wake, inbox, sent, heard>>

-----------------------------------------------------------------------------
Next ==
  \/ \E words \in Messages : ReadText(words)
  \/ CntlEnds \/ ReadPong
  \/ \E op \in {"ping", "close", "bad"} : ReadControl(op)
  \/ HandlerWrote \/ ReadFails \/ HandlerPanics
  \/ Start \/ Ping \/ Pinged \/ Wake \/ KeeperPanics
  \/ Writes
  \/ \E f \in Incoming : Peer(f)
  \/ Network
  \/ Tick

Spec == Init /\ [][Next]_vars

-----------------------------------------------------------------------------
(***************************************************************************)
(* Properties.                                                             *)
(***************************************************************************)

\* keepAlive() notices a peer that says nothing within one and a half timeouts of
\* the last pong handled, not counting the time its pings had to wait for the
\* peer to read.
SilentPeersAreClosed ==
  up /\ net = "up" /\ keeper = "sleep" => now <= lastResponse + 3 * Half + held

\* keepAlive() only closes a connection whose peer has sent no pong for the whole
\* timeout, unless the handler has yet to read the pong.
PongWaits == \E k \in DOMAIN inbox : inbox[k].op = "pong"
CloseIsDeserved ==
  [][keeper = "sleep" /\ keeper' = "over" =>
       now >= heard + 2 * Half \/ PongWaits]_vars

\* keepAlive() leaves an open connection alone only when nothing can be written
\* to it any more: nobody is left with a connection that is neither pinged nor
\* broken.
GivesUpOnTheDeadOnly ==
  up /\ keeper = "over" /\ net = "up" => writeErr # "none"

\* "no more than one goroutine calls the write methods [...] concurrently"
OneConcurrentWriter ==
  \A s, t \in Threads :
    /\ pc[s] \in InFrame /\ frame[s].via # "control"
    /\ pc[t] \in InFrame /\ frame[t].via # "control"
    => s = t
=============================================================================
