--------------------------- MODULE CommandServer ----------------------------
(***************************************************************************)
(* What a client of the daemon may rely on: its lines are taken one at a   *)
(* time in the order it wrote them, each is run once and as it is written, *)
(* and is answered before the next one is taken.  When the server goes     *)
(* down the conversation is over.                                          *)
(***************************************************************************)
EXTENDS Naturals, SequencesExt

CONSTANTS
  Users,         \* the clients
  Texts,         \* the lines they write
  Answers,       \* the answers there are
  Meaning(_),    \* the command a line stands for: a sequence of at most one
  Fits(_, _)     \* is this answer to that line an honest one?

VARIABLES
  written,   \* the lines each client has written
  obeyed,    \* the commands carried out for it
  heard,     \* the answers it has received
  over       \* is its conversation over?

csVars == <<written, obeyed, heard, over>>

CSInit ==
  /\ written = [u \in Users |-> <<>>]
  /\ obeyed = [u \in Users |-> <<>>]
  /\ heard = [u \in Users |-> <<>>]
  /\ over = [u \in Users |-> FALSE]

WriteLine(u, t) ==
  /\ ~over[u]
  /\ written' = [written EXCEPT ![u] = Append(@, t)]
  /\ UNCHANGED <<obeyed, heard, over>>

\* The commands of the first n lines that u has written.
CommandsOf(u, n) == FlattenSeq([k \in 1..n |-> Meaning(written[u][k])])

\* The next unanswered line is carried out.
Obey(u) ==
  LET n == Len(heard[u]) + 1 IN
  /\ n <= Len(written[u])
  /\ obeyed[u] = CommandsOf(u, n - 1)
  /\ obeyed' = [obeyed EXCEPT ![u] = CommandsOf(u, n)]
  /\ UNCHANGED <<written, heard, over>>

\* It is answered once it has been carried out.
Answer(u, a) ==
  LET n == Len(heard[u]) + 1 IN
  /\ ~over[u]
  /\ n <= Len(written[u])
  /\ Fits(written[u][n], a)
  /\ obeyed[u] = CommandsOf(u, n)
  /\ heard' = [heard EXCEPT ![u] = Append(@, a)]
  /\ UNCHANGED <<written, obeyed, over>>

HangUp(U) ==
  /\ over' = [u \in Users |-> over[u] \/ u \in U]
  /\ UNCHANGED <<written, obeyed, heard>>

CSNext ==
  \/ \E u \in Users :
       \/ \E t \in Texts : WriteLine(u, t)
       \/ Obey(u)
       \/ \E a \in Answers : Answer(u, a)
  \/ \E U \in SUBSET Users : HangUp(U)

CSSpec == CSInit /\ [][CSNext]_csVars
=============================================================================
