---------------------------- MODULE MCSerialLink ----------------------------
(***************************************************************************)
(* Instances of SerialLink for TLC.                                        *)
(***************************************************************************)
EXTENDS SerialLink

Req(cmd, zone, arg, ch) ==
  [opt |-> "none", argc |-> 3, cmd |-> cmd, zone |-> zone, arg |-> arg, ch |-> ch]

\* One request for each way the count and the answer compare: equal (28), the
\* answer longer (42 for 28); one that indexes beyond codes[], one that sends
\* nothing after it has set the line up and one that is turned down before it.
VolumeUp == Req("VOLUME", 1, "UP", 0)
VolumeDown == Req("VOLUME", 1, "DOWN", 0)
Overrun == Req("INPUT", 6, "none", 24)
Status == [NoRequest EXCEPT !.cmd = "STATUS", !.argc = 1]
Help == [Req("POWER", 0, "ON", 0) EXCEPT !.opt = "h", !.argc = 4]

MixedRequests == {VolumeUp, VolumeDown, Overrun, Status, Help}

\* Commands as the paper shows them.
PlainRequests == {VolumeUp, Req("POWER", 0, "ON", 0)}
=============================================================================
