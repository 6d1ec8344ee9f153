------------------------------ MODULE CntlMain ------------------------------
(***************************************************************************)
(* The command-line controller cntl (mca66cntl.c): how main() turns one    *)
(* invocation into at most one call of process_command().  Cntl runs       *)
(* invocations one after the other, SerialLink several at a time.          *)
(*                                                                         *)
(* A request is what main() looks at in argv:                              *)
(*   opt   the option getopt() moved to the front, if any: "h", "D" (also  *)
(*         stands for "t"), "bad" for a letter getopt() does not know (a   *)
(*         negative number is one) or "none"                               *)
(*   argc  the number of words after the program's name                    *)
(*   cmd, zone, arg   the first word, atoi() of the second, the third      *)
(*   ch    atoi() of the third word, which may be any number (a negative   *)
(*         one behind a blank, where getopt() does not see it)             *)
(***************************************************************************)
EXTENDS Mca66Codes

CONSTANT Requests   \* the requests that are made

\* "none" stands for every word main() does not know.
FirstWord ==
  {"POWER", "VOLUME", "BASS", "TREBLE", "BALANCE", "INPUT", "QUERY", "MUTE", "STATUS", "none"}
ThirdWord == {"ON", "OFF", "UP", "DOWN", "LEFT", "RIGHT", "none"}

RequestType ==
  [opt : {"none", "h", "D", "bad"}, argc : 0..4, cmd : FirstWord,
   zone : Int, arg : ThirdWord, ch : Int]

ASSUME RequestsAssumption == Requests \subseteq RequestType

\* The request of an invocation that has not been made.
NoRequest ==
  [opt |-> "none", argc |-> 0, cmd |-> "none", zone |-> 0, arg |-> "none", ch |-> 0]

(***************************************************************************)
(* main()                                                                  *)
(***************************************************************************)

\* Plausible slips: the zones counted from 1 in codes[], and no default.
BadTozone(zonen) == IF zonen \in Zone THEN zonen * 24 ELSE nozone
TozoneNoDefault(zonen) == ZoneBase(IF zonen \in Zone THEN zonen ELSE 6)

\* switch(zonen)
tozone(zonen) == IF zonen \in Zone THEN ZoneBase(zonen) ELSE nozone

\* The command each pair of a first and a third word selects.  POWER passes the
\* all-zone commands whatever the zone.
Words ==
  {[cmd |-> "POWER",   arg |-> "ON",    c |-> cmd_all_on],
   [cmd |-> "POWER",   arg |-> "OFF",   c |-> cmd_all_off],
   [cmd |-> "VOLUME",  arg |-> "UP",    c |-> cmd_volume_up],
   [cmd |-> "VOLUME",  arg |-> "DOWN",  c |-> cmd_volume_down],
   [cmd |-> "BASS",    arg |-> "UP",    c |-> cmd_bass_up],
   [cmd |-> "BASS",    arg |-> "DOWN",  c |-> cmd_bass_down],
   [cmd |-> "TREBLE",  arg |-> "UP",    c |-> cmd_treble_up],
   [cmd |-> "TREBLE",  arg |-> "DOWN",  c |-> cmd_treble_down],
   [cmd |-> "BALANCE", arg |-> "LEFT",  c |-> cmd_balance_left],
   [cmd |-> "BALANCE", arg |-> "RIGHT", c |-> cmd_balance_right],
   [cmd |-> "MUTE",    arg |-> "ON",    c |-> cmd_mute_toggle],
   [cmd |-> "MUTE",    arg |-> "OFF",   c |-> cmd_mute_toggle]}

\* The commands that dereference argv[3].
TakesArgument == {w.cmd : w \in Words} \cup {"INPUT"}

WordsOf(r) == {w \in Words : w.cmd = r.cmd /\ w.arg = r.arg}

\* The command passed to process_command(); empty when the third word is
\* none that main() knows.
Selected(r) ==
  {w.c : w \in WordsOf(r)}
    \cup (IF r.cmd = "INPUT" THEN {r.ch} ELSE {})
    \cup (IF r.cmd = "QUERY" THEN {cmd_query_zone_state} ELSE {})

\* What main() does before it opens the line.
Prologue(r) ==
  CASE r.opt = "h"   -> "usage"
    [] r.opt = "bad" -> "abort"
    [] r.argc = 0    -> "usage"
    [] OTHER         -> "init"

\* main() as it was meant, with a status of its own for STATUS.
BadDispatch(r) ==
  CASE r.cmd = "STATUS"                               -> "minus5"
    [] r.argc < 2                                     -> "usage"
    [] r.cmd \notin TakesArgument \cup {"QUERY"}      -> "invalid"
    [] r.cmd \in TakesArgument /\ r.argc < 3          -> "crash"
    [] Selected(r) = {}                               -> "nothing"
    [] OTHER                                          -> "send"

\* What main() does after init_audio(): argv[1] is the option when there is
\* one, and STATUS falls through "exit -5;", an expression without effect.
Dispatch(r) ==
  CASE r.argc < 2                                     -> "usage"
    [] r.opt # "none"                                 -> "invalid"
    [] r.cmd \notin TakesArgument \cup {"QUERY"}      -> "invalid"
    [] r.cmd \in TakesArgument /\ r.argc < 3          -> "crash"
    [] Selected(r) = {}                               -> "nothing"
    [] OTHER                                          -> "send"

Sends(r) == Prologue(r) = "init" /\ Dispatch(r) = "send"

Cmd(r) == CHOOSE c \in Selected(r) : TRUE
CodeSent(r) == Code(tozone(r.zone), Cmd(r))

\* Is there such an entry?  main() passes the number of INPUT on as it is and
\* process_command() does not look either: beyond codes[] it takes pointers from
\* whatever lies there.  It crashes on the name it prints, or writes bytes that
\* are no frame, or none; the amplifier does nothing.
InTable(r) == CodeSent(r) \in CodeIndex

\* The bytes that answer r.
Answer(r) == IF InTable(r) THEN Response(CodeSent(r)) ELSE 0
=============================================================================
