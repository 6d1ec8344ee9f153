------------------------------- MODULE MCCntl -------------------------------
(***************************************************************************)
(* Instances of Cntl for TLC.                                              *)
(***************************************************************************)
EXTENDS Cntl, TLC

Req(cmd, zone, arg, ch) ==
  [opt |-> "none", argc |-> 3, cmd |-> cmd, zone |-> zone, arg |-> arg, ch |-> ch]

\* The words of each command, one of them unknown to it.
MCWords ==
  [c \in {"POWER", "MUTE"} |-> {"ON", "OFF", "UP"}] @@
  [c \in {"VOLUME", "BASS", "TREBLE"} |-> {"UP", "DOWN"}] @@
  [c \in {"BALANCE"} |-> {"LEFT", "RIGHT"}]

\* The language for two zones that are neighbours in codes[], for the last zone
\* and for zone 0.
MCZones == {0, 1, 2, 6}

\* The channels, and numbers on either side of what is left of the entries of a
\* zone, of part mode, of the next zone and, from zone 6, of codes[].
MCNumbers == 0..6 \cup {-9, -3, -2, -1, 16, 17, 18, 19, 23, 24, 30, 145, 146}
Steps == UNION {{Req(c, z, w, 0) : z \in MCZones, w \in MCWords[c]} : c \in DOMAIN MCWords}
Language ==
  Steps \cup {Req("INPUT", z, "none", ch) : z \in MCZones, ch \in MCNumbers}
        \cup {[Req("QUERY", z, "none", 0) EXCEPT !.argc = 2] : z \in MCZones}

\* Invocations main() turns down, and options.
Rejects ==
  {[NoRequest EXCEPT !.cmd = "STATUS", !.argc = 1], NoRequest,
   [Req("STATUS", 1, "none", 0) EXCEPT !.argc = 2],
   [Req("POWER", 1, "none", 0) EXCEPT !.argc = 2]}
    \cup {[Req("POWER", 0, "ON", 0) EXCEPT !.opt = o, !.argc = 4] : o \in {"h", "D", "bad"}}

MCRequests == Language \cup Rejects
MCLevels == -1..1
=============================================================================
