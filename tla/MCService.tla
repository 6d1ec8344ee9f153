----------------------------- MODULE MCService -----------------------------
(* Two people at the service commands of one machine.                       *)
EXTENDS Service
CONSTANTS p1, p2
MCProcs == {p1, p2}
=============================================================================
