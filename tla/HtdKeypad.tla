----------------------------- MODULE HtdKeypad -----------------------------
(***************************************************************************)
(* The keypad page of the htd firmware (src/htd/htd.c): browser sessions   *)
(* submit the page they were last shown, and the firmware answers one      *)
(* request at a time (HtdWeb is about that) with frames to the amplifier   *)
(* and with its own table of what the zones do.  Keypads on the wall work  *)
(* on the amplifier at the same time, the amplifier may answer in part or  *)
(* so late that its answer is taken for the next one, and the cable may be *)
(* out.                                                                    *)
(***************************************************************************)
EXTENDS Integers, FiniteSets

CONSTANTS MaxZones,   \* MAX_ZONES, the zones are 1..MaxZones
          MaxSources, \* MAX_SOURCES, the sources are 0..MaxSources-1
          MaxVol,     \* MAX_VOL_VALUE, the loudest volume shown
          Sessions,   \* browser windows
          StartPages, \* pages they may show from before the firmware started
          Misread,    \* zones as they come out of bytes of an earlier answer
          Cuts,       \* fields of a zone that come before an answer breaks off
          MaxRequests, MaxEvents \* bounds on requests, and on outside events
                                 \* and answers that do not come in time

ASSUME KeypadAssumption ==
  /\ MaxZones \in Nat \ {0}
  /\ MaxSources \in 1..6 \* the next number would be the volume command
  /\ MaxVol \in 2..250
  /\ Cuts \subseteq 0..2
  /\ MaxRequests \in Nat /\ MaxEvents \in Nat

VARIABLES
  amp,       \* the zones of the amplifier
  cable,     \* the serial cable is in
  late,      \* the amplifier may still send what nobody waits for any more
  table,     \* g_zoneInfo, what the firmware takes the zones to be
  ui,        \* g_selectedZone, g_isGroup, g_zoneButtonStates, ...
  page,      \* the hidden inputs of the page each session shows
  pc, req,   \* the request being answered, and how far it is
  todo,      \* zones a command has still to be sent to
  delta,     \* volDelta[Arr] with its direction as a sign
  round,     \* i of the loops that send volume steps
  quiet, coherent,  \* history: see Disturbed and Query
  requests, events  \* counted for the bounds

env == <<requests, events>>
vars == <<amp, cable, late, table, ui, page, pc, req, todo, delta,
          round, quiet, coherent, requests, events>>

Zones == 1..MaxZones
Sources == 0..(MaxSources - 1)
-----------------------------------------------------------------------------
(* The volume scale of the amplifier: MIN_HW_VOL_VAL, ..., 255, 0.         *)

MinHw == 255 - MaxVol
HwVolumes == (MinHw..255) \union {0}

\* convertVolValForDisplay: the two values above the lowest are both 1.
Display(hw) == IF hw = 0 THEN MaxVol
               ELSE IF hw <= MinHw THEN 0
               ELSE IF hw = MinHw + 1 THEN 1
               ELSE hw - (MinHw + 1)

\* convertDispVolToHwVolVal
BadHw(disp) == IF disp = 0 THEN MinHw ELSE disp + (MinHw + 1)
Hw(disp) == IF disp >= MaxVol THEN 0
            ELSE IF disp = 0 THEN MinHw
            ELSE disp + (MinHw + 1)

\* The amplifier's answer to one volume command, 0x09 or 0x0A.
Up(hw) == IF hw = 0 THEN 0 ELSE (hw + 1) % 256
Down(hw) == IF hw = MinHw THEN MinHw ELSE (hw + 255) % 256

One(b) == IF b THEN 1 ELSE 0

\* The steps sendVolToHW and sendGroupVolToHW take from hw to new.
Delta(hw, new) ==
  LET cur == Display(hw)
  IN  IF new > cur
      THEN new - cur + One(cur = 0) + One(cur = 1 /\ hw = MinHw + 1)
      ELSE -(cur - new + One(new = 0 /\ hw = MinHw + 2)
                       + One(new = 0 /\ cur >= 2))
-----------------------------------------------------------------------------
Leds == {"off", "on", "mute"}
ZoneState == [src: Sources, vol: HwVolumes, led: Leds]

\* A zone in the firmware's table holds whatever bytes came.
Byte == 0..255
Entry == [src: Byte, vol: Byte, led: Leds]
Blank == [src |-> 0, vol |-> 0, led |-> "off"] \* zeroed memory

\* What only the printed page reads (g_selectedSource, g_groupSource,
\* g_bConnected) is left out.
Ui == [zone: Zones, isgrp: BOOLEAN, mask: SUBSET Zones, cursrc: Byte,
       grpvol: HwVolumes]
Page == [zone: Zones, isgrp: BOOLEAN, mask: SUBSET Zones, zsrc: Byte]

\* What getNumberFromPostData() leaves when the inputs are missing.
FirstPage == [zone |-> 1, isgrp |-> FALSE, mask |-> {}, zsrc |-> 0]

NoNumber == -1
Button == [btn: {"AllOn", "AllOff", "PwrOn", "PwrOff", "Mute", "Status", "Grp"}]
            \union [btn: {"Zone"}, zone: Zones]
            \union [btn: {"Drop"}, src: Sources, vol: 0..MaxVol]
            \union [btn: {"Drop"}, src: {NoNumber}, vol: {NoNumber}]
Request == [by: Sessions, form: Button]

\* sendSourceInputToHW sends a source as the byte src + 3.  A number that is no
\* source makes some other command of the amplifier, or none.
Sendable == [kind: {"on", "off", "mute"}] \union [kind: {"src"}, src: Byte]
Command == [kind: {"on", "off", "mute"}] \union [kind: {"src"}, src: Sources]
Commanded(zs, c) ==
  CASE c.kind = "src"  -> [zs EXCEPT !.src = c.src]
    [] c.kind = "mute" -> [zs EXCEPT !.led = CASE @ = "on" -> "mute"
                                              [] @ = "mute" -> "on"
                                              [] OTHER -> @]
    [] OTHER           -> [zs EXCEPT !.led = c.kind]

\* What an exchange for zone z leaves of the amplifier.
Carried(z, c) ==
  IF c \in Command THEN {[amp EXCEPT ![z] = Commanded(@, c)]}
  ELSE {amp} \union {[amp EXCEPT ![z].led = l] : l \in Leds}
             \union {[amp EXCEPT ![z].vol = v] : v \in {Up(amp[z].vol), Down(amp[z].vol)}}
             \union {[x \in Zones |-> [amp[x] EXCEPT !.led = l]] : l \in {"on", "off"}}

TypeOK ==
  /\ amp \in [Zones -> ZoneState]
  /\ table \in [Zones -> Entry]
  /\ cable \in BOOLEAN /\ late \in BOOLEAN
  /\ ui \in Ui /\ page \in [Sessions -> Page]
  /\ pc \in {"idle", "first", "process", "send", "refresh", "volume", "turn", "print"}
  /\ req \in Request
  /\ todo \in [zones: SUBSET Zones, cmd: Sendable, then: {"refresh", "volume", "print"}]
  /\ delta \in [Zones -> Int]
  /\ round \in 0..(MaxVol + 2)
  /\ quiet \in BOOLEAN /\ coherent \in BOOLEAN
  /\ requests \in 0..MaxRequests /\ events \in 0..MaxEvents
-----------------------------------------------------------------------------
Nothing == [zones |-> {}, cmd |-> [kind |-> "on"], then |-> "print"]

\* htd() has queried the amplifier once; not all of the answer may have come.
Init ==
  /\ \E v \in HwVolumes : amp = [z \in Zones |-> [src |-> 0, vol |-> v, led |-> "on"]]
  /\ cable \in BOOLEAN
  /\ \E k \in IF cable THEN 0..MaxZones ELSE {0} :
       /\ table = [z \in Zones |-> IF z <= k THEN amp[z] ELSE Blank]
       /\ coherent = (k = MaxZones)
       /\ IF cable /\ k # MaxZones
          THEN MaxEvents > 0 /\ events = 1 /\ late \in BOOLEAN
          ELSE events = 0 /\ late = FALSE
  /\ ui = [zone |-> 1, isgrp |-> FALSE, mask |-> {1}, cursrc |-> 0,
           grpvol |-> MinHw]
  /\ page \in [Sessions -> {FirstPage} \union (StartPages \intersect Page)]
  /\ pc = "idle" /\ quiet = FALSE
  /\ req \in [by: Sessions, form: {[btn |-> "Status"]}]
  /\ todo = Nothing
  /\ delta = [z \in Zones |-> 0] /\ round = 0
  /\ requests = 0

(***************************************************************************)
(* A session submits its page with one button, or with its two drop-down   *)
(* lists; anything they offer may be chosen.  The first load has neither.  *)
(***************************************************************************)
Submit(s, form) ==
  /\ pc = "idle" /\ requests < MaxRequests
  /\ req' = [by |-> s, form |-> form]
  /\ pc' = "first" /\ requests' = requests + 1
  /\ UNCHANGED <<amp, cable, late, table, ui, page, todo, delta, round,
                 quiet, coherent, events>>

(***************************************************************************)
(* serialSend drops what has come of earlier answers before it sends       *)
(* (FlushIn); what comes of them after that is read as the answer to this  *)
(* command.                                                                *)
(***************************************************************************)
BadStale(before, after) == before \/ after
Stale(before, after) == after

\* What zones 1..k, and the first fields of the next one, become.
Fields(from, z, n) ==
  [led |-> (IF n > 0 THEN from ELSE table)[z].led,
   src |-> (IF n > 1 THEN from ELSE table)[z].src,
   vol |-> (IF n > 2 THEN from ELSE table)[z].vol]
Received(from, k, n) ==
  [z \in Zones |-> Fields(from, z, IF z <= k THEN 3 ELSE IF z = k + 1 THEN n ELSE 0)]

\* An exchange ends with what was waited for, or after 500 ticks without it.
InTime == late' \in {late, FALSE} /\ UNCHANGED events
GivenUp ==
  /\ cable /\ events < MaxEvents
  /\ late' \in BOOLEAN /\ events' = events + 1

(***************************************************************************)
(* sendCMD_0x06: what comes goes straight into g_zoneInfo, and what has    *)
(* not come after 500 ticks stays as it was; 98 bytes are a full answer    *)
(* whatever they are.  coherent holds while the table is known to be what  *)
(* the amplifier has: from a full answer, with nothing of an earlier one   *)
(* after the command, to the next thing the table is not told of.          *)
(***************************************************************************)
Query ==
  \E before, after \in BOOLEAN, k \in IF cable THEN 0..MaxZones ELSE {0} :
    /\ before \/ after => late /\ cable
    /\ \E n \in IF cable /\ k < MaxZones THEN Cuts ELSE {0},
          from \in IF Stale(before, after) THEN [Zones -> Misread \intersect Entry] ELSE {amp} :
         table' = Received(from, k, n)
    /\ coherent' = (~after /\ (coherent \/ k = MaxZones))
    /\ IF cable /\ ~after /\ k # MaxZones THEN GivenUp ELSE InTime
    /\ k = MaxZones /\ ~after => ~late'

\* refreshData: a query; with a group updateGroupVolumeValue() goes on to
\* compare each volume with itself, so g_groupVolValue stays.
RefreshData == Query

First ==
  /\ pc = "first" /\ pc' = "process"
  /\ RefreshData
  /\ quiet' = coherent'
  /\ UNCHANGED <<amp, cable, ui, page, req, todo, delta, round, requests>>

Form == req.form
Shown == page[req.by]

\* The source was changed by somebody else since the page was shown.
SourceHasChanged == Shown.zsrc # table[Shown.zone].src

\* The variables as process_form_tags_keypad() sets them from the page.
Restored == [ui EXCEPT !.zone = Shown.zone, !.isgrp = Shown.isgrp, !.mask = Shown.mask,
                       !.cursrc = table[Shown.zone].src]

BadAddressed == IF ui.isgrp THEN ui.mask ELSE {ui.zone}
Addressed == IF Shown.isgrp THEN Shown.mask ELSE {Shown.zone}

Process(u, zones, cmd, then) ==
  /\ pc = "process" /\ pc' = IF zones = {} THEN then ELSE "send"
  /\ ui' = u
  /\ todo' = [zones |-> zones, cmd |-> cmd, then |-> then]
  /\ UNCHANGED <<amp, cable, late, table, page, req, delta, round,
                 quiet, coherent, env>>

Quietly(u) == Process(u, {}, Nothing.cmd, "print")

AllPower ==
  /\ Form.btn \in {"AllOn", "AllOff"}
  /\ Process(Restored, Zones,
             [kind |-> IF Form.btn = "AllOn" THEN "on" ELSE "off"], "refresh")

Power ==
  /\ Form.btn \in {"PwrOn", "PwrOff"}
  /\ Process(Restored, Addressed,
             [kind |-> IF Form.btn = "PwrOn" THEN "on" ELSE "off"], "refresh")

Mute ==
  /\ Form.btn = "Mute"
  /\ Process(Restored, Addressed, [kind |-> "mute"], "refresh")

Status == Form.btn = "Status" /\ Quietly(Restored)

\* BtnZ1 to BtnZ6 without a group: the zone is selected, and told again
\* which source it has.
SelectZone ==
  /\ Form.btn = "Zone" /\ ~Shown.isgrp
  /\ LET src == table[Form.zone].src
     IN  Process([Restored EXCEPT !.mask = {Form.zone}, !.zone = Form.zone],
                 {Form.zone}, [kind |-> "src", src |-> src], "print")

\* With a group the button adds the zone or takes it out; the one for zone 2
\* assigns 0 where the others compare with it.
Toggled(mask, z) ==
  CASE z \notin mask            -> mask \union {z}
    [] z \in mask /\ z = 2      -> {}
    [] z \in mask /\ mask = {z} -> mask
    [] OTHER                    -> mask \ {z}

ToggleZone ==
  /\ Form.btn = "Zone" /\ Shown.isgrp
  /\ Quietly([Restored EXCEPT !.mask = Toggled(@, Form.zone)])

GroupButton ==
  /\ Form.btn = "Grp"
  /\ Quietly([Restored EXCEPT !.isgrp = ~@, !.mask = IF Shown.isgrp THEN {} ELSE @])

\* A page that shows a source the zone has no more brings the session up to
\* date instead of setting its choice.
BadSourceToSet == Form.src
SourceToSet == IF SourceHasChanged THEN Restored.cursrc ELSE Form.src

DropDown ==
  /\ Form.btn = "Drop"
  /\ IF Form.src = NoNumber THEN Quietly(Restored)
     ELSE LET c == [kind |-> "src", src |-> SourceToSet]
          IN  IF SourceToSet \notin Sources THEN Process(Restored, {}, Nothing.cmd, "volume")
              ELSE IF Shown.isgrp THEN Process(Restored, Shown.mask, c, "volume")
              ELSE IF table[Shown.zone].src # SourceToSet
              THEN Process([Restored EXCEPT !.cursrc = SourceToSet], {Shown.zone}, c, "volume")
              ELSE Process(Restored, {}, Nothing.cmd, "volume")

\* The firmware notes a source it sets, and nothing else.
BadNoted(z, c) == table
Noted(z, c) == IF c.kind = "src" THEN [table EXCEPT ![z].src = c.src] ELSE table

\* sendCMD_0x04 to the next zone.  Of the answer what comes in time is thrown
\* away.
Send ==
  /\ pc = "send"
  /\ LET z == CHOOSE x \in todo.zones : \A y \in todo.zones : x <= y
         rest == todo.zones \ {z}
     IN  /\ amp' \in IF cable THEN Carried(z, todo.cmd) ELSE {amp}
         /\ table' = Noted(z, todo.cmd)
         /\ coherent' = (coherent /\ todo.cmd \in Command /\ todo.cmd.kind = "src")
         /\ InTime \/ GivenUp
         /\ todo' = [todo EXCEPT !.zones = rest]
         /\ pc' = IF rest = {} THEN todo.then ELSE "send"
  /\ UNCHANGED <<cable, ui, page, req, delta, round, quiet, requests>>

Refresh ==
  /\ pc = "refresh" /\ pc' = "print"
  /\ RefreshData
  /\ UNCHANGED <<amp, cable, ui, page, req, todo, delta, round, quiet, requests>>

Target == IF ui.isgrp THEN ui.mask ELSE {ui.zone}

Volume ==
  /\ pc = "volume"
  /\ pc' = IF ~ui.isgrp /\ Display(table[ui.zone].vol) = Form.vol
           THEN "print" ELSE "turn"
  /\ delta' = [z \in Zones |-> IF z \in Target THEN Delta(table[z].vol, Form.vol) ELSE 0]
  /\ UNCHANGED <<amp, cable, late, table, ui, page, req, todo, round,
                 quiet, coherent, env>>

Abs(n) == IF n < 0 THEN -n ELSE n
BadRounds == IF ui.isgrp THEN MaxVol ELSE Abs(delta[ui.zone])
Rounds == IF ui.isgrp THEN MaxVol + 1 ELSE Abs(delta[ui.zone])

\* One round of the loop: a step for every zone that needs more of them.
Turn ==
  /\ pc = "turn" /\ round < Rounds
  /\ amp' = [z \in Zones |->
               IF ~cable \/ Abs(delta[z]) <= round THEN amp[z]
               ELSE [amp[z] EXCEPT !.vol = IF delta[z] > 0 THEN Up(@) ELSE Down(@)]]
  /\ round' = round + 1
  /\ coherent' = FALSE
  /\ IF \E z \in Zones : Abs(delta[z]) > round THEN InTime \/ GivenUp
     ELSE UNCHANGED <<late, events>>
  /\ UNCHANGED <<cable, table, ui, page, pc, req, todo, delta, quiet, requests>>

\* sendGroupVolHelper for every zone of a group, the last one counts.
GroupVolume ==
  LET near == {z \in ui.mask : Abs(Display(table'[z].vol) - Form.vol) < 2}
      last == CHOOSE x \in near : \A y \in near : y <= x
  IN  IF ui.isgrp /\ near # {} THEN Hw(Display(table'[last].vol)) ELSE ui.grpvol

TurnsDone ==
  /\ pc = "turn" /\ round = Rounds
  /\ pc' = "print" /\ round' = 0
  /\ Query
  /\ ui' = [ui EXCEPT !.grpvol = GroupVolume]
  /\ UNCHANGED <<amp, cable, page, req, todo, delta, quiet, requests>>

\* print_keypad() answers with a page made from the variables.
PrintKeypad ==
  /\ pc = "print" /\ pc' = "idle"
  /\ page' = [page EXCEPT ![req.by] =
                [zone |-> ui.zone, isgrp |-> ui.isgrp, mask |-> ui.mask,
                 zsrc |-> ui.cursrc]]
  /\ todo' = Nothing /\ quiet' = FALSE
  /\ req' = [req EXCEPT !.form = [btn |-> "Status"]]
  /\ delta' = [z \in Zones |-> 0]
  /\ UNCHANGED <<amp, cable, late, table, ui, round, coherent, env>>

(***************************************************************************)
(* Whatever changes the amplifier behind the firmware's back, or keeps its *)
(* commands from it.                                                       *)
(***************************************************************************)
Disturbed ==
  /\ events < MaxEvents /\ events' = events + 1
  /\ quiet' = FALSE /\ coherent' = FALSE
  /\ UNCHANGED <<late, table, ui, page, pc, req, todo, delta, round, requests>>

Wall(zs) == {Commanded(zs, c) : c \in Command}
              \union {[zs EXCEPT !.vol = Up(@)], [zs EXCEPT !.vol = Down(@)]}
WallKeypad ==
  /\ \E z \in Zones : \E zs \in Wall(amp[z]) : amp' = [amp EXCEPT ![z] = zs]
  /\ UNCHANGED cable /\ Disturbed

Cable == cable' = ~cable /\ UNCHANGED amp /\ Disturbed

Answer ==
  \/ First \/ AllPower \/ Power \/ Mute \/ Status \/ SelectZone \/ ToggleZone
  \/ GroupButton \/ DropDown \/ Send \/ Refresh \/ Volume \/ Turn \/ TurnsDone
  \/ PrintKeypad

Next ==
  \/ \E s \in Sessions, form \in Button : Submit(s, form)
  \/ Answer
  \/ WallKeypad
  \/ Cable

Spec == Init /\ [][Next]_vars
-----------------------------------------------------------------------------
\* The volume asked for is the one the zone, or every zone of the group, plays
\* at when the page is printed, from wherever it was (the amplifier shows two
\* of its volumes as 1), unless something came in between; and the group then
\* shows it.
VolumeReached ==
  (pc = "print" /\ quiet /\ Form.btn = "Drop" /\ Form.vol # NoNumber) =>
    /\ \A z \in Target : Display(amp[z].vol) = Form.vol
    /\ (coherent /\ ui.isgrp /\ ui.mask # {}) => Display(ui.grpvol) = Form.vol

\* The table is what the amplifier has, however it was misled by parts of
\* answers and by answers that came too late, from the next full answer on
\* that nothing older came before, and until something it is not told of;
\* although the firmware sets sources in it itself.
TableIsTrue == coherent => table = amp

\* A source changes only because it was chosen from the list; and a request
\* for one zone takes no source away that somebody else has chosen since the
\* page was shown.
ChoicesAreInformed ==
  [][\A z \in Zones :
       (quiet /\ Send /\ amp'[z].src # amp[z].src)
         => /\ Form.btn = "Drop"
            /\ ui.isgrp \/ Shown.zsrc = amp[z].src]_vars

\* A request reaches the zones its own page has selected and no others,
\* whatever the pages of other sessions have selected, unless a late answer has
\* left a number in the table that is no source and goes out as some other
\* command.
Meant == CASE Form.btn \in {"AllOn", "AllOff"} -> Zones
           [] Form.btn = "Zone"                -> {Form.zone}
           [] OTHER -> IF Shown.isgrp THEN Shown.mask ELSE {Shown.zone}
SessionsAreApart ==
  [][Answer /\ (Send => todo.cmd \in Command)
       => \A z \in Zones : amp'[z] # amp[z] => z \in Meant]_vars
=============================================================================
