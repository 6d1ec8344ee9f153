------------------------------ MODULE WsReader ------------------------------
(***************************************************************************)
(* The reading side of a gorilla/websocket connection of a server          *)
(* (conn.go): from the handshake (server.go) on, advanceFrame() turns the  *)
(* bytes of the peer into messages that the application reads piece by     *)
(* piece through NextReader() and Read(), and answers the control frames   *)
(* in between.  The peer may break the rules or leave in mid-frame, the    *)
(* application may abandon a message, and the answers may not go out.      *)
(***************************************************************************)
EXTENDS Integers, Sequences, SequencesExt

CONSTANTS Requests,  \* handshakes of the peer
          Frames,    \* the frames it may send
          Limit,     \* readLimit, 0 for none
          Half,      \* an int64 is less than this, 2^63
          Patience,  \* reads of a failed connection until it panics (1000)
          MaxFrames, \* bound on the frames of the peer
          Window     \* bytes it writes ahead of the reader

Request == [connection: BOOLEAN, upgrade: BOOLEAN, get: BOOLEAN, version: BOOLEAN,
            origin: {"none", "same", "other"}, key: BOOLEAN]

\* len is what int64() makes of the length in the header: one of 8 bytes with its
\* top bit set is negative, and nothing is read for it, so that what the peer sends
\* after such a header is further frames.
\* wrong: a reserved bit, an unknown opcode, no mask, a control frame that is
\* too long or not final, a close code that may not be sent.
Frame == [op: {"data", "cont", "ping", "pong", "close"}, fin: BOOLEAN,
          len: (-Half)..(Half - 1), wrong: BOOLEAN]

ASSUME ReaderAssumption ==
  /\ Requests \subseteq Request /\ Frames \subseteq Frame
  /\ Half \in Nat /\ Limit \in 0..(Half - 1)
  /\ Patience \in Nat \ {0} /\ MaxFrames \in Nat /\ Window \in Nat

VARIABLES
  request,   \* the handshake of the peer
  anyOrigin, \* the CheckOrigin that ws_handler() sets has been set
  pc,        \* "upgrade", a call that is going on, or "idle" in between
  sent,      \* the frames of the peer
  wire,      \* their bytes that are still to be read
  net,       \* "up", or the peer is "gone"
  readRemaining, readFinal, readLength, readMaskPos,
  readErr, readErrCount,
  reader,    \* is there a messageReader?
  got,       \* history: what the application has had of each message
  writeErr   \* of the writing side

frameVars == <<readRemaining, readFinal, readLength, readMaskPos>>
peerVars  == <<request, anyOrigin, sent, net>>
vars == <<request, anyOrigin, pc, sent, wire, net, frameVars, readErr,
          readErrCount, reader, got, writeErr>>

KeyLength == 4
\* The bytes of the frame sent as the k-th: its header, with what follows it
\* in a control frame, and its payload, masked with the key from its start.
Size(f) == IF f.op \in {"data", "cont"} /\ f.len > 0 THEN f.len ELSE 0
Payload(f, k) == [i \in 1..Size(f) |->
                    [frame |-> k, byte |-> i, key |-> (i - 1) % KeyLength]]
Bytes(f, k) == <<[frame |-> k, byte |-> 0, key |-> 0]>> \o Payload(f, k)

Errors == {"protocol", "limit", "closed", "unexpectedEOF", "EOF", "write"}

TypeOK ==
  /\ request \in Requests /\ anyOrigin \in BOOLEAN
  /\ pc \in {"upgrade", "idle", "next", "read", "refused", "panic"}
  /\ sent \in Seq(Frames) /\ Len(sent) <= MaxFrames
  /\ wire \in Seq(UNION {Range(Bytes(sent[k], k)) : k \in DOMAIN sent})
  /\ net \in {"up", "gone"}
  /\ readRemaining \in Nat /\ readFinal \in BOOLEAN
  /\ readLength \in (-Half)..(Half - 1)
  /\ readMaskPos \in 0..(KeyLength - 1)
  /\ readErr \in {"none"} \union Errors
  /\ readErrCount \in 0..Patience
  /\ reader \in BOOLEAN
  /\ reader => got # <<>> /\ Last(got).end = "open"
  /\ writeErr \in {"none", "closeSent", "failed"}

Init ==
  /\ request \in Requests /\ anyOrigin \in BOOLEAN
  /\ pc = "upgrade" /\ net = "up"
  /\ sent = <<>> /\ wire = <<>>
  /\ readRemaining = 0 /\ readFinal = TRUE /\ readLength = 0 /\ readMaskPos = 0
  /\ readErr = "none" /\ readErrCount = 0
  /\ reader = FALSE /\ got = <<>>
  /\ writeErr = "none"
-----------------------------------------------------------------------------
(***************************************************************************)
(* The peer (external): it writes frames, perhaps before the handshake is  *)
(* answered, and leaves between any two bytes.                             *)
(***************************************************************************)
Peer(f) ==
  /\ net = "up" /\ Len(sent) < MaxFrames /\ Len(wire) <= Window
  /\ sent' = Append(sent, f)
  /\ \E whole \in BOOLEAN :
       LET bytes == Bytes(f, Len(sent) + 1)
       IN  IF whole THEN wire' = wire \o bytes /\ UNCHANGED net
           ELSE /\ \E n \in 0..(Len(bytes) - 1) : wire' = wire \o SubSeq(bytes, 1, n)
                /\ net' = "gone"
  /\ UNCHANGED <<request, anyOrigin, pc, frameVars, readErr, readErrCount,
                 reader, got, writeErr>>

Leave == /\ net = "up" /\ net' = "gone"
         /\ UNCHANGED <<request, anyOrigin, pc, sent, wire, frameVars, readErr,
                        readErrCount, reader, got, writeErr>>
-----------------------------------------------------------------------------
(***************************************************************************)
(* Upgrade().  What the HTTP server has already taken into its own buffer  *)
(* would be lost to the reader of the connection, which has one of its own *)
(* (ReadBufferSize is set), so a client that has sent any is closed.       *)
(***************************************************************************)
OriginAllowed == anyOrigin \/ request.origin # "other"
Upgradable == /\ request.connection /\ request.upgrade /\ request.get
              /\ request.version /\ OriginAllowed /\ request.key

\* A plausible bug: Buffered() is not looked at.
BadTooEarly(n) == FALSE
TooEarly(n) == n > 0

Upgrade ==
  /\ pc = "upgrade"
  /\ \E n \in 0..Len(wire) : \* bytes in the buffer of the HTTP server
       /\ wire' = SubSeq(wire, n + 1, Len(wire))
       /\ pc' \in IF Upgradable /\ ~TooEarly(n) THEN {"idle", "refused"} ELSE {"refused"}
  /\ net' = IF pc' = "refused" THEN "gone" ELSE net
  /\ anyOrigin' = TRUE
  /\ UNCHANGED <<request, sent, frameVars, readErr, readErrCount, reader, got, writeErr>>

\* The handler of another connection sets it.
AnotherHandler ==
  /\ pc = "upgrade" /\ ~anyOrigin /\ anyOrigin' = TRUE
  /\ UNCHANGED <<request, pc, sent, wire, net, frameVars, readErr, readErrCount,
                 reader, got, writeErr>>
-----------------------------------------------------------------------------
(***************************************************************************)
(* advanceFrame(): the rest of the last frame is skipped and the header of *)
(* the next one read.                                                      *)
(***************************************************************************)
EndWith(err) == readErr' = err /\ UNCHANGED <<frameVars, pc, reader, got>>

\* WriteControl(): written (or not, in time), or not possible any more.
Write(op, ok) ==
  \/ /\ ok /\ writeErr = "none"
     /\ writeErr' \in {"none"} \union (IF op = "close" THEN {"closeSent"} ELSE {})
  \/ ok /\ writeErr = "closeSent" /\ UNCHANGED writeErr
  \/ ~ok /\ writeErr \in {"none", "failed"} /\ writeErr' = "failed"

\* A plausible bug: a message may start within another one.
BadOutOfPlace(f) == f.op = "cont" /\ readFinal
OutOfPlace(f) == \/ f.op = "data" /\ ~readFinal
                 \/ f.op = "cont" /\ readFinal

\* A plausible bug: the limit is taken for one on frames.
BadLonger(f) == f.len
\* An int64 wraps.
Longer(f) == LET n == readLength + f.len
             IN  CASE n >= Half  -> n - 2 * Half
                   [] n < -Half  -> n + 2 * Half
                   [] OTHER      -> n

DataFrame(f) ==
  /\ readFinal' = f.fin
  /\ readRemaining' = Size(f) \* the code only asks whether it is positive
  /\ readMaskPos' = 0
  /\ readLength' = Longer(f)
  /\ IF Limit > 0 /\ readLength' > Limit
     THEN /\ readErr' = "limit" /\ UNCHANGED <<pc, reader, got>>
          /\ \E ok \in BOOLEAN : Write("close", ok)
     ELSE /\ UNCHANGED <<readErr, writeErr>>
          /\ IF f.op = "data" \* NextReader() returns
             THEN /\ pc' = "idle" /\ reader' = TRUE
                  /\ got' = Append(got, [data |-> <<>>, end |-> "open"])
             ELSE UNCHANGED <<pc, reader, got>>

HandleProtocolError == EndWith("protocol") /\ \E ok \in BOOLEAN : Write("close", ok)

\* The handlers that a connection has.  A ping is answered, unless that is impossible
\* for good; that a close frame cannot be answered is no error.
HandlePing == \E ok \in BOOLEAN :
                Write("pong", ok) /\ readErr' = IF ok THEN "none" ELSE "write"
HandleClose == \E ok \in BOOLEAN : Write("close", ok)

ControlFrame(f) ==
  /\ UNCHANGED <<pc, reader, got, readFinal, readLength, readMaskPos>>
  /\ readRemaining' = 0
  /\ CASE f.op = "pong"  -> UNCHANGED <<readErr, writeErr>>
       [] f.op = "ping"  -> HandlePing
       [] f.op = "close" -> HandleClose /\ readErr' = "closed"

\* A plausible bug: a connection that ends is taken for one that is silent.
BadAtEnd(rest) == FALSE
AtEnd(rest) == rest = <<>> /\ net = "gone"

Advance ==
  /\ pc \in {"next", "read"} /\ readErr = "none"
  /\ pc = "read" => readRemaining = 0 /\ ~readFinal
  /\ LET rest == SubSeq(wire, readRemaining + 1, Len(wire))
         f    == sent[Head(rest).frame]
     IN  \/ /\ AtEnd(rest) /\ wire' = <<>>
            /\ EndWith(IF Len(wire) < readRemaining THEN "EOF" ELSE "unexpectedEOF")
            /\ UNCHANGED writeErr
         \/ /\ rest # <<>> /\ wire' = Tail(rest)
            /\ CASE f.wrong \/ OutOfPlace(f) ->
                      HandleProtocolError
                 [] ~f.wrong /\ ~OutOfPlace(f) /\ f.op \in {"data", "cont"} -> DataFrame(f)
                 [] OTHER -> ControlFrame(f)
  /\ UNCHANGED <<peerVars, readErrCount>>
-----------------------------------------------------------------------------
Ended(how) == IF reader THEN [got EXCEPT ![Len(got)].end = how] ELSE got

\* A plausible bug: readLength goes on from the last message.
BadNextReader ==
  /\ pc = "idle" /\ pc' = "next"
  /\ reader' = FALSE /\ got' = Ended("left")
  /\ UNCHANGED <<peerVars, wire, frameVars, readErr, readErrCount, writeErr>>

\* NextReader() is called, and abandons the message that is being read.
NextReader ==
  /\ pc = "idle" /\ pc' = "next"
  /\ reader' = FALSE /\ got' = Ended("left")
  /\ readLength' = 0
  /\ UNCHANGED <<peerVars, wire, readRemaining, readFinal, readMaskPos, readErr,
                 readErrCount, writeErr>>

\* A plausible bug: the count of failed reads is never looked at.
BadNextReaderFails ==
  /\ pc = "next" /\ readErr # "none"
  /\ readErrCount' = readErrCount + 1
  /\ pc' = "idle"
  /\ UNCHANGED <<peerVars, wire, frameVars, readErr, reader, got, writeErr>>

\* It fails.  An application that goes on regardless is stopped.
NextReaderFails ==
  /\ pc = "next" /\ readErr # "none"
  /\ readErrCount' = readErrCount + 1
  /\ pc' = IF readErrCount' >= Patience THEN "panic" ELSE "idle"
  /\ UNCHANGED <<peerVars, wire, frameVars, readErr, reader, got, writeErr>>

\* Read() is called.
Read == /\ pc = "idle" /\ reader /\ pc' = "read"
        /\ UNCHANGED <<peerVars, wire, frameVars, readErr, readErrCount, reader,
                       got, writeErr>>

Unmasked(bytes) == [i \in DOMAIN bytes |->
                      [bytes[i] EXCEPT !.key = (readMaskPos + i - 1) % KeyLength]]

\* A plausible bug: each piece is unmasked with the key from its start.
BadMaskPos(n) == 0
MaskPos(n) == (readMaskPos + n) % KeyLength

\* It returns bytes of the frame, as many as have come and the buffer takes.
ReadBytes ==
  /\ pc = "read" /\ readErr = "none" /\ readRemaining > 0 /\ wire # <<>>
  /\ \E n \in 1..readRemaining :
       /\ n <= Len(wire)
       /\ got' = [got EXCEPT ![Len(got)].data = @ \o Unmasked(SubSeq(wire, 1, n))]
       /\ wire' = SubSeq(wire, n + 1, Len(wire))
       /\ readMaskPos' = MaskPos(n)
       /\ readRemaining' = readRemaining - n
  /\ pc' = "idle"
  /\ UNCHANGED <<peerVars, readFinal, readLength, readErr, readErrCount, reader, writeErr>>

\* The peer is gone in the middle of the frame.
ReadCut ==
  /\ pc = "read" /\ readErr = "none" /\ readRemaining > 0 /\ AtEnd(wire)
  /\ readErr' = "unexpectedEOF" /\ pc' = "idle"
  /\ UNCHANGED <<peerVars, wire, frameVars, readErrCount, reader, got, writeErr>>

\* The message has been read: io.EOF.
ReadEnds ==
  /\ pc = "read" /\ readErr = "none" /\ readRemaining = 0 /\ readFinal
  /\ reader' = FALSE /\ got' = Ended("whole") /\ pc' = "idle"
  /\ UNCHANGED <<peerVars, wire, frameVars, readErr, readErrCount, writeErr>>

ReadFails ==
  /\ pc = "read" /\ readErr # "none" /\ pc' = "idle"
  /\ UNCHANGED <<peerVars, wire, frameVars, readErr, readErrCount, reader, got, writeErr>>

Within == Advance \/ NextReaderFails \/ ReadBytes \/ ReadCut \/ ReadEnds \/ ReadFails
Next == \/ \E f \in Frames : Peer(f)
        \/ Leave \/ Upgrade \/ AnotherHandler \/ NextReader \/ Read \/ Within

\* A call that has begun goes on as far as the bytes that have come allow.
Spec == Init /\ [][Next]_vars /\ WF_vars(Within)
-----------------------------------------------------------------------------
(***************************************************************************)
(* What the peer has sent, put together: the data frames of each message,  *)
(* up to the first frame out of place or wrong.                            *)
(***************************************************************************)
\* The k-th frame, f, is put to the messages there are; on: none has been wrong
\* or out of place.
Put(m, f, k) ==
  LET n    == Len(m.list)
      open == n > 0 /\ ~m.list[n].whole
  IN  CASE ~m.on \/ f.wrong \/ (f.op = "data" /\ open) \/ (f.op = "cont" /\ ~open) ->
             [m EXCEPT !.on = FALSE]
        [] m.on /\ ~f.wrong /\ f.op = "data" /\ ~open ->
             [m EXCEPT !.list = Append(m.list, [data |-> Payload(f, k), whole |-> f.fin])]
        [] m.on /\ ~f.wrong /\ f.op = "cont" /\ open ->
             [m EXCEPT !.list = [m.list EXCEPT ![n] = [data  |-> m.list[n].data \o Payload(f, k),
                                                       whole |-> f.fin]]]
        [] OTHER -> m

Messages(frames) ==
  LET put[k \in 0..Len(frames)] ==
        IF k = 0 THEN [on |-> TRUE, list |-> <<>>] ELSE Put(put[k - 1], frames[k], k)
  IN  put[Len(frames)].list

\* The application gets the messages of the peer: one NextReader() for each,
\* in order, unmasked, none run together; what it has read of one is how the
\* message begins, and a message that has ended without an error is all of it,
\* however the frames were cut, whatever came between them, and although the
\* application did not read the ones before to their end.
MessagesAreThePeers ==
  LET ms == Messages(sent)
  IN  /\ Len(got) <= Len(ms)
      /\ \A j \in DOMAIN got :
           /\ IsPrefix(got[j].data, ms[j].data)
           /\ got[j].end = "whole" => ms[j].whole /\ got[j].data = ms[j].data

\* The peer has announced no length that is negative, or so large that readLength
\* may wrap.
Moderate == \A k \in DOMAIN sent : sent[k].len \in 0..(Half - 1 - Limit)

\* No message longer than the limit gets through, in however many frames.
NoneTooLong == Limit > 0 => \A j \in DOMAIN got : Len(got[j].data) <= Limit

\* The rest of a message that NextReader() has abandoned counts with the next.
OneIsLonger(ms) ==
  \E j \in DOMAIN ms :
    \/ Len(ms[j].data) > Limit
    \/ /\ j - 1 \in DOMAIN got /\ got[j - 1].end = "left"
       /\ Len(ms[j - 1].data) + Len(ms[j].data) > Limit

\* The limit is one on messages, whatever their frames, as long as the lengths of
\* those are moderate: none longer than it gets through, and none that keeps to it
\* is refused, but one that does not keep to it together with the message before,
\* which the application has abandoned.
LimitIsForMessages ==
  Moderate => /\ NoneTooLong
              /\ Limit > 0 /\ readErr = "limit" => OneIsLonger(Messages(sent))

\* A call ends, unless the peer is there and owes bytes.
OnlyASilentPeerHoldsUp ==
  pc \in {"next", "read"} ~>
    pc \notin {"next", "read"} \/ (net = "up" /\ Len(wire) <= readRemaining)
=============================================================================
