------------------------------ MODULE WsWriter ------------------------------
(***************************************************************************)
(* The writing side of a server's gorilla/websocket connection (conn.go):  *)
(* messages, whose frames are built in a buffer that belongs to the        *)
(* connection and have no deadline; prepared messages, frames made before; *)
(* and WriteControl(), which builds its frame in a buffer of its own and   *)
(* gives up after a second.  Whoever writes to the network holds mu, a     *)
(* channel with one token; isWriting is meant to catch two messages being  *)
(* written at a time and is neither locked nor atomic.                     *)
(*                                                                         *)
(* WriteMessage() makes one frame of a message.  NextWriter(), Write() and *)
(* Close() make a frame of what fills the buffer, and one of the rest; they*)
(* are one call here: the goroutine makes no other before it has called    *)
(* Close() or one of them has failed.                                      *)
(*                                                                         *)
(* A step is what one goroutine does between two accesses to what they     *)
(* share.  writeErr has a lock of its own but is only set by who holds mu. *)
(***************************************************************************)
EXTENDS Naturals, Sequences

CONSTANTS
  Threads,      \* the goroutines that write
  MessageOps,   \* what each writes messages of
  MaxParts,     \* bound on the frames of a message
  ControlOps,   \* what each calls WriteControl() for
  MaxCalls      \* bound on the calls of a goroutine

Op == {"text", "ping", "pong", "close"}

\* Who holds mu when nobody does.
Nobody == "nobody"

\* doc.go: no more than one goroutine calls the write methods.  NextWriter() keeps
\* its writer in the connection, where another goroutine would find and close it.
OneMessageWriter ==
  \A s, t \in Threads : MessageOps[s] # {} /\ MessageOps[t] # {} => s = t

ASSUME WriterAssumption ==
  /\ MessageOps \in [Threads -> SUBSET Op]
  /\ ControlOps \in [Threads -> SUBSET (Op \ {"text"})]
  /\ MaxCalls \in Nat
  /\ MaxParts \in Nat \ {0}
  /\ MaxParts > 1 => OneMessageWriter
  /\ Nobody \notin Threads

VARIABLES
  pc,          \* where each goroutine is in its call
  frame,       \* the frame of its call
  outcome,     \* what its call is going to return
  result,      \* what its last call returned
  calls,       \* how many calls it has made
  mu,          \* who holds mu
  writeErr,    \* the error all later calls get
  isWriting,   \* is there a frame of WriteMessage() being written?
  writeBuf,    \* the buffer of WriteMessage(): the header and the payload in it
  wire,        \* what has been written to the network
  net          \* is the network connection up?

callVars == <<pc, frame, outcome, result, calls>>
connVars == <<mu, writeErr, isWriting, writeBuf, wire, net>>
writerVars == <<pc, frame, outcome, result, calls,
                mu, writeErr, isWriting, writeBuf, wire, net>>

Via == {"message", "prepared", "control"}
Frame ==
  {f \in [op : Op, by : Threads, n : 1..MaxCalls, via : Via,
          part : 1..MaxParts, final : BOOLEAN] : f.part = MaxParts => f.final}
NoCall == [op |-> "none", by |-> Nobody, n |-> 0, via |-> "none", part |-> 0, final |-> TRUE]
CallFrame == Frame \cup {NoCall}
Error == {"ErrCloseSent", "failed"}
Result == {"none", "ok", "errWriteTimeout", "errInvalidControlFrame"} \cup Error
InFrame == {"begin", "body", "head", "test", "mark", "lock", "send", "unlock",
            "retest", "clear"}

WriterTypeOK ==
  /\ pc \in [Threads -> {"idle", "panic"} \cup InFrame]
  /\ frame \in [Threads -> CallFrame]
  /\ outcome \in [Threads -> {"none", "ok"} \cup Error]
  /\ result \in [Threads -> Result]
  /\ calls \in [Threads -> 0..MaxCalls]
  /\ mu \in Threads \cup {Nobody}
  /\ writeErr \in Error \cup {"none"}
  /\ isWriting \in BOOLEAN
  /\ writeBuf \in [head : CallFrame, body : CallFrame]
  /\ wire \in Seq([head : CallFrame, body : CallFrame, whole : BOOLEAN])
  /\ net \in {"up", "down"}

WriterInit ==
  /\ pc = [t \in Threads |-> "idle"]
  /\ frame = [t \in Threads |-> NoCall]
  /\ outcome = [t \in Threads |-> "none"]
  /\ result = [t \in Threads |-> "none"]
  /\ calls = [t \in Threads |-> 0]
  /\ mu = Nobody
  /\ writeErr = "none"
  /\ isWriting = FALSE
  /\ writeBuf = [head |-> NoCall, body |-> NoCall]
  /\ wire = <<>>
  /\ net = "up"

-----------------------------------------------------------------------------
(***************************************************************************)
(* The calls.                                                              *)
(***************************************************************************)

Goto(t, l) == pc' = [pc EXCEPT ![t] = l]

\* Is part the last one of its message?  Write(), WriteString() and ReadFrom() flush what
\* fills the buffer, or is too long for it, as a part; Close() the rest as the last one.
Ends(part) == {final \in BOOLEAN : part = MaxParts => final}

Call(t, op, via, final, first) ==
  /\ pc[t] = "idle"
  /\ calls[t] < MaxCalls
  /\ calls' = [calls EXCEPT ![t] = @ + 1]
  /\ frame' = [frame EXCEPT ![t] =
       [op |-> op, by |-> t, n |-> calls[t] + 1, via |-> via, part |-> 1, final |-> final]]
  /\ outcome' = [outcome EXCEPT ![t] = "none"]
  /\ Goto(t, first)
  /\ UNCHANGED <<result, connVars>>

WriteMessage(t, op) ==
  op \in MessageOps[t] /\ \E final \in Ends(1) : Call(t, op, "message", final, "begin")
WritePreparedMessage(t, op) ==
  op \in MessageOps[t] /\ Call(t, op, "prepared", TRUE, "test")
WriteControl(t, op) == op \in ControlOps[t] /\ Call(t, op, "control", TRUE, "lock")

\* The call of t returns r.
Returns(t, r) ==
  /\ Goto(t, "idle")
  /\ result' = [result EXCEPT ![t] = r]
  /\ frame' = [frame EXCEPT ![t] = NoCall]
  /\ outcome' = [outcome EXCEPT ![t] = "none"]
  /\ UNCHANGED calls

\* A control frame, which needs be the whole of its message.
Lone(f) == f.op # "text"
InvalidControl(f) == Lone(f) /\ ~f.final

\* beginMessage()
BeginMessage(t) ==
  /\ pc[t] = "begin"
  /\ IF writeErr # "none" THEN Returns(t, writeErr)
     ELSE Goto(t, "body") /\ UNCHANGED <<frame, outcome, result, calls>>
  /\ UNCHANGED connVars

\* flushFrame() makes no control frame of a part of a message.
Refuse(t) ==
  /\ pc[t] = "head"
  /\ InvalidControl(frame[t])
  /\ Returns(t, "errInvalidControlFrame")
  /\ UNCHANGED connVars

\* Write() copies the payload to the buffer, flushFrame() the header.
Fill(t) ==
  \/ /\ pc[t] = "body"
     /\ writeBuf' = [writeBuf EXCEPT !.body = frame[t]]
     /\ Goto(t, "head")
     /\ UNCHANGED <<frame, outcome, result, calls, mu, writeErr, isWriting, wire, net>>
  \/ /\ pc[t] = "head"
     /\ ~InvalidControl(frame[t])
     /\ writeBuf' = [writeBuf EXCEPT !.head = frame[t]]
     /\ Goto(t, "test")
     /\ UNCHANGED <<frame, outcome, result, calls, mu, writeErr, isWriting, wire, net>>

\* The best-effort detection of concurrent writes, before and after the write.
Test(t) ==
  /\ pc[t] \in {"test", "retest"}
  /\ LET passes == IF pc[t] = "test" THEN ~isWriting ELSE isWriting
         next   == IF pc[t] = "test" THEN "mark" ELSE "clear"
     IN  Goto(t, IF passes THEN next ELSE "panic")
  /\ UNCHANGED <<frame, outcome, result, calls, connVars>>

Mark(t) ==
  /\ pc[t] = "mark"
  /\ isWriting' = TRUE
  /\ Goto(t, "lock")
  /\ UNCHANGED <<frame, outcome, result, calls, mu, writeErr, writeBuf, wire, net>>

\* The frame that continues f.
NextPart(f, final) ==
  [op |-> f.op, by |-> f.by, n |-> f.n, via |-> f.via, part |-> f.part + 1, final |-> final]

\* The call is over, or goes on to the next frame of its message.
Clear(t) ==
  /\ pc[t] = "clear"
  /\ isWriting' = FALSE
  /\ \/ /\ outcome[t] # "ok" \/ frame[t].final
        /\ Returns(t, outcome[t])
     \/ /\ outcome[t] = "ok" /\ ~frame[t].final
        /\ \E final \in Ends(frame[t].part + 1) :
             frame' = [frame EXCEPT ![t] = NextPart(@, final)]
        /\ outcome' = [outcome EXCEPT ![t] = "none"]
        /\ Goto(t, "body")
        /\ UNCHANGED <<result, calls>>
  /\ UNCHANGED <<mu, writeErr, writeBuf, wire, net>>

\* <-c.mu
Lock(t) ==
  /\ pc[t] = "lock"
  /\ mu = Nobody
  /\ mu' = t
  /\ Goto(t, "send")
  /\ UNCHANGED <<frame, outcome, result, calls, writeErr, isWriting, writeBuf, wire, net>>

\* A plausible slip: the deadline is only given to the network connection.
BadGiveUp(t) ==
  /\ pc[t] = "lock"
  /\ frame[t].via = "control"
  /\ mu = Nobody
  /\ Returns(t, "errWriteTimeout")
  /\ UNCHANGED connVars

\* The timer of WriteControl().
GiveUp(t) ==
  /\ pc[t] = "lock"
  /\ frame[t].via = "control"
  /\ Returns(t, "errWriteTimeout")
  /\ UNCHANGED connVars

\* What conn.Write() is given.
Bytes(t, whole) ==
  LET buf == IF frame[t].via = "message" THEN writeBuf
             ELSE [head |-> frame[t], body |-> frame[t]]
  IN  [head |-> buf.head, body |-> buf.body, whole |-> whole]

\* A write ends as o, with w on the wire.
Wrote(t, o, w) ==
  /\ wire' = w
  /\ outcome' = [outcome EXCEPT ![t] = o]
  /\ Goto(t, "unlock")
  /\ UNCHANGED <<frame, result, calls, mu, writeErr, isWriting, writeBuf, net>>

\* A plausible slip: writeErr is checked before mu is taken and not again.
BadSend(t) ==
  /\ pc[t] = "send"
  /\ \/ net = "up" /\ Wrote(t, "ok", Append(wire, Bytes(t, TRUE)))
     \/ (net = "down" \/ frame[t].via = "control") /\ Wrote(t, "failed", wire)

\* conn.Write(), unless an earlier call has met an error.  It may have to wait for
\* the peer to read: a message for ever, a control frame for a second.  Part of
\* what it was to write may be out when it fails.
Send(t) ==
  /\ pc[t] = "send"
  /\ \/ writeErr # "none" /\ Wrote(t, writeErr, wire)
     \/ writeErr = "none" /\ net = "up" /\ Wrote(t, "ok", Append(wire, Bytes(t, TRUE)))
     \/ /\ writeErr = "none"
        /\ net = "down" \/ frame[t].via = "control"
        /\ \E w \in {wire, Append(wire, Bytes(t, FALSE))} : Wrote(t, "failed", w)

\* A plausible slip: what the write returned is kept, error or not.
BadUnlock(t) ==
  /\ pc[t] = "unlock"
  /\ writeErr' = outcome[t]
  /\ mu' = Nobody
  /\ IF frame[t].via = "control" THEN Returns(t, outcome[t])
     ELSE Goto(t, "retest") /\ UNCHANGED <<frame, outcome, result, calls>>
  /\ UNCHANGED <<isWriting, writeBuf, wire, net>>

\* writeFatal(), which keeps the first error, and c.mu <- true.
Unlock(t) ==
  /\ pc[t] = "unlock"
  /\ writeErr' = IF writeErr # "none" THEN writeErr
                 ELSE IF outcome[t] # "ok" THEN outcome[t]
                 ELSE IF frame[t].op = "close" THEN "ErrCloseSent"
                 ELSE "none"
  /\ mu' = Nobody
  /\ IF frame[t].via = "control" THEN Returns(t, outcome[t])
     ELSE Goto(t, "retest") /\ UNCHANGED <<frame, outcome, result, calls>>
  /\ UNCHANGED <<isWriting, writeBuf, wire, net>>

\* A step of a goroutine within its call.
WriteStep(t) ==
  \/ BeginMessage(t) \/ Refuse(t) \/ Fill(t) \/ Test(t) \/ Mark(t) \/ Clear(t)
  \/ Lock(t) \/ GiveUp(t) \/ Send(t) \/ Unlock(t)

\* The network (external): the connection goes down.
NetDown ==
  /\ net = "up"
  /\ net' = "down"
  /\ UNCHANGED <<callVars, mu, writeErr, isWriting, writeBuf, wire>>

WriterNext ==
  \/ \E t \in Threads :
       \/ \E op \in Op :
            WriteMessage(t, op) \/ WritePreparedMessage(t, op) \/ WriteControl(t, op)
       \/ WriteStep(t)
  \/ NetDown

WriterSpec == WriterInit /\ [][WriterNext]_writerVars

\* The goroutines are scheduled; nothing makes the peer read a message.
WriterFairSpec ==
  WriterSpec /\ \A t \in Threads :
    WF_writerVars(WriteStep(t) /\ (pc[t] = "send" => frame[t].via = "control"))

-----------------------------------------------------------------------------
(***************************************************************************)
(* Properties.                                                             *)
(***************************************************************************)

\* A frame as the peer can make it out.
Seen(w) == IF w.head = w.body THEN w.head ELSE NoCall
Gone(t) == pc[t] \in {"unlock", "retest", "clear"} /\ outcome[t] = "ok"
Lost(t) == pc[t] = "unlock" /\ (outcome[t] # "ok" \/ frame[t].op = "close")

\* How much of the wire is whole frames, and what the peer makes of them.
Out == IF wire = <<>> \/ wire[Len(wire)].whole THEN Len(wire) ELSE Len(wire) - 1
Stream == [k \in 1..Out |-> Seen(wire[k])]
Shut == writeErr # "none" \/ net = "down" \/ \E t \in Threads : Lost(t)
Gones == [t \in Threads |-> Gone(t)]
Results == [t \in Threads |-> IF result[t] \in {"none", "ok"} THEN result[t] ELSE "error"]

IsClose(f) == f.op = "close"
IsControl(f) == f.via = "control"
IsFinal(f) == f.final
Continues(f, g) == \E final \in BOOLEAN : g = NextPart(f, final)

FS == INSTANCE FrameStream WITH
        Callers <- Threads, Frames <- Frame, NoFrame <- NoCall,
        Closes <- IsClose, Hurries <- IsControl, Alone <- Lone, Final <- IsFinal,
        Follows <- Continues,
        call <- frame, gone <- Gones, result <- Results, stream <- Stream, shut <- Shut

\* With one goroutine at a time in WriteMessage(), and any number of them in
\* WriteControl(), a call that succeeds has put its frame on the wire, whole and
\* once, one that fails has not, a message is only given up when nothing can go
\* out any more, and after a close frame or a frame torn by a deadline nothing
\* does, although the error is only seen when mu has been taken.
ImplementsFrameStream == FS!FSSpec

\* WriteControl() returns even if the peer never reads again and a WriteMessage()
\* call sits in the network with mu in its hands.
ControlsReturn ==
  \A t \in Threads : frame[t].via = "control" ~> pc[t] = "idle"

\* Whatever the goroutines do, nothing follows a torn frame or a close frame.
LastFrameIsLast ==
  \A k \in DOMAIN wire : k < Len(wire) => wire[k].whole /\ wire[k].head.op # "close"
=============================================================================
