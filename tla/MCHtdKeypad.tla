---------------------------- MODULE MCHtdKeypad ----------------------------
(***************************************************************************)
(* Instances of HtdKeypad for TLC.                                         *)
(***************************************************************************)
EXTENDS HtdKeypad, TLC

Either == Permutations(Sessions)

\* A page for a group of the first two zones.
GroupPages == {[zone |-> 2, isgrp |-> TRUE, mask |-> {1, 2}, zsrc |-> 0]}

\* Bytes of another message: a number that is no source, a volume below the
\* scale.
MCMisread == {[src |-> 5, vol |-> 9, led |-> "mute"]}
=============================================================================
