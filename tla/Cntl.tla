-------------------------------- MODULE Cntl --------------------------------
(***************************************************************************)
(* What a sequence of invocations of cntl, run one after the other on an   *)
(* undisturbed serial line, does to the amplifier.                         *)
(***************************************************************************)
EXTENDS CntlMain

CONSTANTS
  Levels,     \* the settings of a volume, bass, treble or balance control
  MaxRuns     \* bound on the number of invocations

ASSUME BoundsAssumption == MaxRuns \in Nat /\ Levels \subseteq Int /\ 0 \in Levels

(***************************************************************************)
(* The amplifier (external): the settings of its zones and the effect of a *)
(* frame on them, as the names in codes[] say.  Part mode gives all zones  *)
(* one input, as the repository's TODO has it.                             *)
(***************************************************************************)
Control == {"volume", "bass", "treble", "balance"}

\* A control at the end of its range stays there.
Turn(level, op, by) ==
  IF level[op] + by \in Levels THEN [level EXCEPT ![op] = @ + by] ELSE level

ZoneEffect(s, e) ==
  CASE e.op = "power"            -> [s EXCEPT !.power = e.arg]
    [] e.op = "mute"             -> [s EXCEPT !.mute = ~@]
    [] e.op \in {"input", "part"} -> [s EXCEPT !.input = e.arg]
    [] e.op \in Control          -> [s EXCEPT !.level = Turn(@, e.op, e.arg)]
    [] OTHER                     -> s

Addressed(i) == IF i < 2 \/ Entry(i).op = "part" THEN Zone ELSE {ZoneOf(i)}

Effect(amp, i) ==
  [z \in Zone |-> IF z \in Addressed(i) THEN ZoneEffect(amp[z], Entry(i)) ELSE amp[z]]

-----------------------------------------------------------------------------
VARIABLES
  amp,    \* the power, the mute, the input and the levels of each zone
  last,   \* the request of the last invocation
  runs    \* the number of invocations so far

languageVars == <<amp, last, runs>>

Flat == [c \in Control |-> 0]

LanguageInit ==
  /\ \E p \in {0, 1}, m \in BOOLEAN :
       amp = [z \in Zone |-> [power |-> p, mute |-> m, input |-> 1, level |-> Flat]]
  /\ last = NoRequest
  /\ runs = 0

\* One invocation of cntl, from its start to its end.
Run(r) ==
  /\ runs < MaxRuns
  /\ amp' = IF Sends(r) /\ InTable(r) THEN Effect(amp, CodeSent(r)) ELSE amp
  /\ last' = r
  /\ runs' = runs + 1

LanguageNext == \E r \in Requests : Run(r)

LanguageSpec == LanguageInit /\ [][LanguageNext]_languageVars

-----------------------------------------------------------------------------
(***************************************************************************)
(* Properties.  Obeys(e, Z) says that the step carried out the operation e *)
(* on exactly the zones of Z and left the others alone.                    *)
(***************************************************************************)
Obeys(e, Z) ==
  amp' = [z \in Zone |-> IF z \in Z THEN ZoneEffect(amp[z], e) ELSE amp[z]]

\* A complete command, with a zone of the amplifier.
Zoned(r, cmd) == Sends(r) /\ r.cmd = cmd /\ r.zone \in Zone

\* The zone a command is taken for: without one of the amplifier's it is zone 1,
\* whose entries nozone leads to.
Own(r) == IF r.zone \in Zone THEN r.zone ELSE 1

\* The words that reach beyond the entries of that zone: the commands for all
\* zones; QUERY without a zone, which comes out at an entry of part mode; and
\* INPUT with a number that is no channel, from part mode (which is 17) on.
Beyond(r) ==
  \/ r.cmd \in {"POWER", "QUERY"} /\ r.zone \notin Zone
  \/ r.cmd = "INPUT" /\ r.ch \notin (IF r.zone \in Zone THEN 0..16 ELSE 2..18)

\* The sum of a zone's base and a command, which process_command() takes
\* unchecked, reaches into the entries of another zone or of all of them with
\* those words only: any other invocation disturbs no zone but its own.
NeighboursUntouched ==
  [][~Beyond(last') => \A z \in Zone \ {Own(last')} : amp'[z] = amp[z]]_languageVars

\* The controls that go up and down (or left and right) by one step move in the
\* direction asked for, in the zone asked for, and move nothing else; POWER
\* without a zone switches every zone and nothing but the power; and the query of
\* a zone, like whatever main() turns down, changes nothing.
Direction == [UP |-> 1, DOWN |-> -1, RIGHT |-> 1, LEFT |-> -1]
ControlOf == [VOLUME |-> "volume", BASS |-> "bass", TREBLE |-> "treble", BALANCE |-> "balance"]

CommandsAsAsked ==
  [][/\ \A cmd \in DOMAIN ControlOf :
          Zoned(last', cmd) =>
            Obeys([op |-> ControlOf[cmd], arg |-> Direction[last'.arg]], {last'.zone})
     /\ Sends(last') /\ last'.cmd = "POWER" /\ last'.zone \notin Zone =>
          Obeys([op |-> "power", arg |-> IF last'.arg = "ON" THEN 1 ELSE 0], Zone)
     /\ ~Sends(last') \/ Zoned(last', "QUERY") => amp' = amp]_languageVars
=============================================================================
