----------------------------- MODULE CommandRun -----------------------------
(***************************************************************************)
(* What the users of cntl may rely on: every invocation hands at most one  *)
(* frame to the amplifier, the one its words ask for, before it ends; and  *)
(* as long as the line is up, an invocation that asks for a frame does not *)
(* end before it has handed it over.                                       *)
(***************************************************************************)
EXTENDS Sequences

CONSTANTS
  Runs,      \* the invocations
  Frames,    \* the frames the amplifier understands
  NoFrame    \* what an invocation that is turned down asks for

VARIABLES
  wanted,   \* the frame each invocation asks for
  phase,    \* how far each invocation has come
  up,       \* is the line up?
  log       \* the frames handed over, with the invocation each is from

crVars == <<wanted, phase, up, log>>

CRInit ==
  /\ wanted = [c \in Runs |-> NoFrame]
  /\ phase = [c \in Runs |-> "idle"]
  /\ up = TRUE
  /\ log = <<>>

Ask(c, f) ==
  /\ phase[c] = "idle"
  /\ wanted' = [wanted EXCEPT ![c] = f]
  /\ phase' = [phase EXCEPT ![c] = "asked"]
  /\ UNCHANGED <<up, log>>

\* An invocation turned down at once.
TurnDown(c) ==
  /\ phase[c] = "idle"
  /\ phase' = [phase EXCEPT ![c] = "ended"]
  /\ UNCHANGED <<wanted, up, log>>

HandOver(c) ==
  /\ phase[c] = "asked" /\ wanted[c] \in Frames /\ up
  /\ phase' = [phase EXCEPT ![c] = "handed"]
  /\ log' = Append(log, <<c, wanted[c]>>)
  /\ UNCHANGED <<wanted, up>>

\* Without the line an invocation may end empty-handed.
End(c) ==
  /\ \/ phase[c] = "handed"
     \/ phase[c] = "asked" /\ (wanted[c] = NoFrame \/ ~up)
  /\ phase' = [phase EXCEPT ![c] = "ended"]
  /\ UNCHANGED <<wanted, up, log>>

Fail ==
  /\ up
  /\ up' = FALSE
  /\ UNCHANGED <<wanted, phase, log>>

CRNext ==
  \/ \E c \in Runs :
       \/ \E f \in Frames \cup {NoFrame} : Ask(c, f)
       \/ TurnDown(c) \/ HandOver(c) \/ End(c)
  \/ Fail

CRSpec == CRInit /\ [][CRNext]_crVars
=============================================================================
