--------------------------- MODULE SettingsStore ---------------------------
(***************************************************************************)
(* What the htd firmware promises of the names of zones and sources: a     *)
(* restart brings back the names of the last save that was finished, all   *)
(* of them, or the names of a new device when it interrupted a save; and a *)
(* save that is not interrupted is finished.                               *)
(***************************************************************************)
CONSTANTS Cells, Values, Defaults, Lost

VARIABLES names, \* the names in use
          kept   \* what a restart will find, or Lost

Init == names \in [Cells -> Values] /\ kept \in {names, Lost}

Rename == /\ kept # Lost /\ kept' = Lost
          /\ \E c \in Cells, v \in Values : names' = [names EXCEPT ![c] = v]

Finish == kept = Lost /\ kept' = names /\ UNCHANGED names

Restart == names' = (IF kept = Lost THEN Defaults ELSE kept) /\ UNCHANGED kept

Next == Rename \/ Finish \/ Restart

Safety == Init /\ [][Next]_<<names, kept>>
Spec == Safety /\ WF_<<names, kept>>(Finish)
=============================================================================
