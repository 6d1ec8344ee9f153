------------------------------- MODULE Mca66d -------------------------------
(***************************************************************************)
(* The daemon mca66d as its TCP clients see it (main.go, tcp_handler.go):  *)
(* one goroutine per connection that reads commands, has docmd() run cntl  *)
(* and answers.  A panic in any of them ends the process and with it every *)
(* connection; systemd then starts it again (Restart=on-failure).          *)
(*                                                                         *)
(* A client writes a line as its words, the spaces between them (SP) and   *)
(* the newline (NL).  TCP keeps the order of what is written and nothing   *)
(* else: conn.Read() returns any part of it from the front.  The handler   *)
(* reads into a fresh buffer of zeros, ignores how much was read and       *)
(* splits the whole buffer at white space, so that the zeros either are a  *)
(* word of their own or the end of the last word: NUL stands for a word    *)
(* with zeros in it.  A read that ends within a word is as one that ends   *)
(* after it: the first piece ends in zeros, and the second only adds a     *)
(* word docmd() does not know, for no command ends in another one's name.  *)
(***************************************************************************)
EXTENDS Docmd, SequencesExt

CONSTANTS
  Clients,    \* the TCP clients
  Lines,      \* the lines they write, as sequences of words
  Window,     \* how many lines a client writes ahead of the answers
  MaxLines,   \* bound on the lines of a client
  Whole       \* does a read return all that has been written?

Separator == {"SP", "NL"}
Token == STRING \cup Separator \cup {"NUL"}
LineWord == STRING \ (Separator \cup {"NUL"})

ASSUME LinesAssumption == \A l \in Lines : l \in Seq(LineWord) /\ l # <<>>

ASSUME ClientsAssumption == Window \in Nat \ {0} /\ MaxLines \in Nat /\ Whole \in BOOLEAN

\* The buffer has 1024 bytes; lines and what is written ahead are much shorter.

VARIABLES
  up,        \* is the daemon running?
  conn,      \* each client's connection: "none", "open" or "closed"
  asked,     \* the lines the client has written on it
  wire,      \* what of them the daemon has not read
  hand,      \* its handler: "none", waiting in "read" or for "cntl"
  request,   \* the cntl invocation its handler waits for
  jostled,   \* has that shared the serial line with another one?
  ran,       \* the cntl invocations run for the client
  replies    \* the answers written to it

vars == <<up, conn, asked, wire, hand, request, jostled, ran, replies>>

Reply == {"ok", "error", "format"}

TypeOK ==
  /\ up \in BOOLEAN
  /\ conn \in [Clients -> {"none", "open", "closed"}]
  /\ asked \in [Clients -> Seq(Lines)]
  /\ wire \in [Clients -> Seq(Token)]
  /\ hand \in [Clients -> {"none", "read", "cntl"}]
  /\ request \in [Clients -> RequestType]
  /\ jostled \in [Clients -> BOOLEAN]
  /\ ran \in [Clients -> Seq(RequestType)]
  /\ replies \in [Clients -> Seq(Reply)]
  /\ \A c \in Clients :
       /\ hand[c] # "none" => up
       /\ hand[c] = "cntl" => Last(ran[c]) = request[c]

Init ==
  /\ up = TRUE
  /\ conn = [c \in Clients |-> "none"]
  /\ asked = [c \in Clients |-> <<>>]
  /\ wire = [c \in Clients |-> <<>>]
  /\ hand = [c \in Clients |-> "none"]
  /\ request = [c \in Clients |-> NoRequest]
  /\ jostled = [c \in Clients |-> FALSE]
  /\ ran = [c \in Clients |-> <<>>]
  /\ replies = [c \in Clients |-> <<>>]

-----------------------------------------------------------------------------
(***************************************************************************)
(* The clients and the network (external).                                 *)
(***************************************************************************)

\* A line on the wire.
Tokens(l) ==
  [k \in 1..(2 * Len(l)) |-> IF k % 2 = 1 THEN l[(k + 1) \div 2]
                             ELSE IF k = 2 * Len(l) THEN "NL" ELSE "SP"]

WriteLine(c, l) ==
  /\ conn[c] = "open"
  /\ Len(asked[c]) < MaxLines
  /\ Len(asked[c]) < Len(replies[c]) + Window
  /\ asked' = [asked EXCEPT ![c] = Append(@, l)]
  /\ wire' = [wire EXCEPT ![c] = @ \o Tokens(l)]
  /\ UNCHANGED <<up, conn, hand, request, jostled, ran, replies>>

\* The client closes its end; its handler reads what is left and the end of file.
Leave(c) ==
  /\ conn[c] = "open"
  /\ conn' = [conn EXCEPT ![c] = "closed"]
  /\ UNCHANGED <<up, asked, wire, hand, request, jostled, ran, replies>>

-----------------------------------------------------------------------------
(***************************************************************************)
(* The daemon.                                                             *)
(***************************************************************************)

\* tcp_acceptor() takes a connection and starts its handler.
Accept(c) ==
  /\ up
  /\ conn[c] = "none"
  /\ conn' = [conn EXCEPT ![c] = "open"]
  /\ hand' = [hand EXCEPT ![c] = "read"]
  /\ UNCHANGED <<up, asked, wire, request, jostled, ran, replies>>

\* strings.Fields(): the words among the tokens s.
Spelled(s) == FlattenSeq([k \in 1..Len(s) |-> IF s[k] \in Separator THEN <<>> ELSE <<s[k]>>])

\* Plausible slips: the buffer cut one byte short, and cut to what was read less
\* its last word.
BadFields(s) == Append(Front(Spelled(s)), "NUL")
ShortFields(s) == Front(Spelled(s))

\* strings.Fields(string(buf)) of a buffer that begins with the tokens s: the
\* zeros after them are a word, or the end of one.
Fields(s) ==
  IF Last(s) \in Separator THEN Append(Spelled(s), "NUL")
  ELSE Append(Front(Spelled(s)), "NUL")

\* A plausible slip: one handler ends, the others go on.
BadGoDown ==
  /\ up' = FALSE
  /\ conn' = [c \in Clients |-> IF conn[c] = "none" THEN "none" ELSE "closed"]
  /\ wire' = [c \in Clients |-> <<>>]
  /\ UNCHANGED <<hand, jostled, asked, request, ran, replies>>

\* The process ends: every connection is closed, and systemd kills the cntl
\* invocations of the service.
GoDown ==
  /\ up' = FALSE
  /\ conn' = [c \in Clients |-> IF conn[c] = "none" THEN "none" ELSE "closed"]
  /\ hand' = [c \in Clients |-> "none"]
  /\ wire' = [c \in Clients |-> <<>>]
  /\ jostled' = [c \in Clients |-> FALSE]
  /\ UNCHANGED <<asked, request, ran, replies>>

\* A plausible slip: errors are logged and not written.
BadAnswered(c, r) ==
  replies' = IF r = "ok" /\ conn[c] = "open" THEN [replies EXCEPT ![c] = Append(@, r)] ELSE replies

\* conn.Write(): nobody hears it when the client has left.
Answered(c, r) ==
  replies' = IF conn[c] = "open" THEN [replies EXCEPT ![c] = Append(@, r)] ELSE replies

\* A plausible slip: cntl started once more to get its output.
BadExec(c, r) ==
  /\ hand' = [hand EXCEPT ![c] = "cntl"]
  /\ request' = [request EXCEPT ![c] = r]
  /\ ran' = [ran EXCEPT ![c] = @ \o <<r, r>>]
  /\ jostled' = jostled

\* docmd() starts cntl and waits for it.
Exec(c, r) ==
  LET others == {q \in Clients \ {c} : hand[q] = "cntl"} IN
  /\ hand' = [hand EXCEPT ![c] = "cntl"]
  /\ request' = [request EXCEPT ![c] = r]
  /\ ran' = [ran EXCEPT ![c] = Append(@, r)]
  /\ jostled' = [q \in Clients |-> IF q = c THEN others # {} ELSE jostled[q] \/ q \in others]

\* Do these words make docmd() panic?
Panics(parts) == Len(parts) <= 4 /\ Docmd(parts) = "panic"

\* The rest of a turn of the loop of tcp_handler(), up to cntl.
Turn(c, parts) ==
  \/ /\ Len(parts) > 4
     /\ Answered(c, "format")
     /\ UNCHANGED <<hand, request, jostled, ran>>
  \/ /\ Len(parts) <= 4 /\ Docmd(parts) \in {"unknown", "refused"}
     /\ Answered(c, "error")
     /\ UNCHANGED <<hand, request, jostled, ran>>
  \/ /\ Len(parts) <= 4 /\ Docmd(parts) = "run"
     /\ Exec(c, Invocation(parts))
     /\ UNCHANGED replies

\* The words a read of the first n tokens hands to docmd().
Parts(c, n) == Fields(SubSeq(wire[c], 1, n))

\* Can the handler of c read n tokens?
Readable(c, n) ==
  /\ up
  /\ hand[c] = "read"
  /\ n \in 1..Len(wire[c])
  /\ Whole => n = Len(wire[c])

Read(c, n) ==
  /\ Readable(c, n)
  /\ ~Panics(Parts(c, n))
  /\ wire' = [wire EXCEPT ![c] = SubSeq(@, n + 1, Len(@))]
  /\ Turn(c, Parts(c, n))
  /\ UNCHANGED <<up, conn, asked>>

Panic(c, n) ==
  /\ Readable(c, n)
  /\ Panics(Parts(c, n))
  /\ GoDown

\* conn.Read() fails and the loop ends.
ReadEnd(c) ==
  /\ up
  /\ hand[c] = "read"
  /\ conn[c] = "closed"
  /\ wire[c] = <<>>
  /\ hand' = [hand EXCEPT ![c] = "none"]
  /\ UNCHANGED <<up, conn, asked, wire, request, jostled, ran, replies>>

\* cntl exits and the handler answers.  An invocation that waits for ever when it
\* is alone may end when it is not.
CntlEnds(c) ==
  /\ up
  /\ hand[c] = "cntl"
  /\ ~Hangs(request[c]) \/ jostled[c]
  /\ hand' = [hand EXCEPT ![c] = "read"]
  /\ jostled' = [jostled EXCEPT ![c] = FALSE]
  /\ Answered(c, IF Succeeds(request[c]) THEN "ok" ELSE "error")
  /\ UNCHANGED <<up, conn, asked, wire, request, ran>>

\* A signal: supervisor() closes the listener and main() returns.
Terminate == up /\ GoDown

\* systemd starts the service again, or the administrator does.
Restart ==
  /\ ~up
  /\ up' = TRUE
  /\ UNCHANGED <<conn, asked, wire, hand, request, jostled, ran, replies>>

-----------------------------------------------------------------------------
Next ==
  \/ \E c \in Clients :
       \/ \E l \in Lines : WriteLine(c, l)
       \/ Leave(c) \/ Accept(c) \/ ReadEnd(c) \/ CntlEnds(c)
       \/ \E n \in 1..Len(wire[c]) : Read(c, n) \/ Panic(c, n)
  \/ Terminate
  \/ Restart

Spec == Init /\ [][Next]_vars

\* The handlers are scheduled, and cntl ends when its answer is long enough and
\* nobody else reads from the line.
Fairness ==
  \A c \in Clients :
    /\ WF_vars(\E n \in 1..Len(wire[c]) : Read(c, n) \/ Panic(c, n))
    /\ WF_vars(ReadEnd(c))
    /\ WF_vars(CntlEnds(c) /\ ~jostled[c])

FairSpec == Spec /\ Fairness

-----------------------------------------------------------------------------
(***************************************************************************)
(* Properties.                                                             *)
(***************************************************************************)

\* What the daemon makes of a line as it was written: with the padding, one of
\* four words already has a word too many.
Runs(l) == Len(l) < 4 /\ Docmd(l) = "run"
Meaning(l) == IF Runs(l) THEN <<Invocation(l)>> ELSE <<>>
Honest(l, r) ==
  r = IF Len(l) >= 4 THEN "format"
      ELSE IF Runs(l) /\ Succeeds(Invocation(l)) THEN "ok" ELSE "error"

CS == INSTANCE CommandServer WITH
        Users <- Clients, Texts <- Lines, Answers <- Reply, Meaning <- Meaning,
        Fits <- Honest, written <- asked, obeyed <- ran, heard <- replies,
        over <- [c \in Clients |-> conn[c] = "closed"]

\* For clients that wait for the answer before they write the next line, and reads
\* that return a whole line, the padding with zeros, the panics and restarts of
\* the daemon and the other clients make no difference: each line is run as it is
\* written, once and in order, and answered by what became of it.
ImplementsCommandServer == CS!CSSpec

\* However the network cuts the lines and runs them together, the commands that
\* cntl is run for are commands of lines the client wrote, in that order, no line
\* giving rise to two of them.
CommandsInOrder ==
  \A c \in Clients :
    \E line \in [DOMAIN ran[c] -> DOMAIN asked[c]] :
      \A k \in DOMAIN ran[c] :
        /\ ran[c][k].cmd = asked[c][line[k]][1]
        /\ \A j \in 1..(k - 1) : line[j] < line[k]

\* The read of this step took the wire of c up to the end of a line.
ReadLines(c) ==
  LET n == Len(wire[c]) - Len(wire'[c]) IN up' /\ n > 0 /\ wire[c][n] = "NL"

\* A read that ends with a line, however many lines it takes and wherever it
\* begins, runs cntl as one of the lines asks for: no zone, channel or word of
\* one line is ever taken for that of another or for the padding.
NothingInvented ==
  [][\A c \in Clients : ReadLines(c) /\ ran'[c] # ran[c] =>
       \E m \in DOMAIN asked[c] : Last(ran'[c]) = Invocation(asked[c][m])]_vars

\* When no line is short of a word, the daemon, and every connection with it,
\* only goes down in docmd() for a read that ends inside a line.
OnlyCutReadsPanic ==
  \A c \in Clients : \A n \in 1..Len(wire[c]) :
    Readable(c, n) /\ Panics(Parts(c, n)) => wire[c][n] # "NL"

\* Does the handler of c wait for a cntl that waits for a byte that never comes?
Stuck(c) == hand[c] = "cntl" /\ Hangs(request[c])

\* Every line is answered, whatever another client's line makes of its handler,
\* unless the connection ends, the cntl invocation for the line shares the serial
\* line with another one, which may take the bytes it waits for, or it is one that
\* never ends by itself: docmd() waits for it without a limit.
LinesAreAnswered ==
  \A c \in Clients : Len(asked[c]) > Len(replies[c]) ~>
    Len(asked[c]) = Len(replies[c]) \/ conn[c] = "closed" \/ jostled[c] \/ Stuck(c)
=============================================================================
