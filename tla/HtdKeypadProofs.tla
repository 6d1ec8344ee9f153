-------------------------- MODULE HtdKeypadProofs ---------------------------
(***************************************************************************)
(* What holds of the keypad page for any number of zones, sources and      *)
(* sessions, and for every volume scale: the volume asked for is reached,  *)
(* the firmware's table is true, and a request stays with its zones.       *)
(***************************************************************************)
EXTENDS HtdKeypad, FiniteSetTheorems, TLAPS

-----------------------------------------------------------------------------
(***************************************************************************)
(* The volume scale laid out on a line: a position for each volume of the  *)
(* amplifier, of which Up() and Down() are single steps.                   *)
(***************************************************************************)
Positions == 0..(MaxVol + 1)
Pos(hw) == IF hw = 0 THEN MaxVol + 1 ELSE hw - MinHw
Shows(p) == IF p = 0 THEN 0 ELSE IF p <= 2 THEN 1 ELSE p - 1

LEMMA ScaleIsALine ==
  ASSUME NEW hw \in HwVolumes
  PROVE  /\ Pos(hw) \in Positions
         /\ Display(hw) = Shows(Pos(hw))
         /\ Display(hw) \in 0..MaxVol
BY KeypadAssumption DEF HwVolumes, MinHw, Pos, Positions, Display, Shows

LEMMA UpIsOneStep ==
  ASSUME NEW hw \in HwVolumes
  PROVE  /\ Up(hw) \in HwVolumes
         /\ Pos(hw) <= MaxVol => Pos(Up(hw)) = Pos(hw) + 1
BY KeypadAssumption DEF HwVolumes, MinHw, Pos, Up

LEMMA DownIsOneStep ==
  ASSUME NEW hw \in HwVolumes
  PROVE  /\ Down(hw) \in HwVolumes
         /\ Pos(hw) >= 1 => Pos(Down(hw)) = Pos(hw) - 1
BY KeypadAssumption DEF HwVolumes, MinHw, Pos, Down

\* The number of steps that sendVolToHW() and sendGroupVolToHW() work out leads
\* to a volume that shows as the one asked for, and is within the loop's rounds.
LEMMA DeltaLeadsThere ==
  ASSUME NEW hw \in HwVolumes, NEW new \in 0..MaxVol
  PROVE  /\ Delta(hw, new) \in -(MaxVol + 1)..(MaxVol + 1)
         /\ Pos(hw) + Delta(hw, new) \in Positions
         /\ Shows(Pos(hw) + Delta(hw, new)) = new
<1>1. PICK d \in Int : d = Delta(hw, new)
  BY KeypadAssumption, ScaleIsALine DEF Delta, One
<1>2. CASE hw = 0
  BY <1>1, <1>2, KeypadAssumption
     DEF HwVolumes, MinHw, Pos, Positions, Display, Shows, Delta, One
<1>3. CASE hw # 0
  BY <1>1, <1>3, KeypadAssumption
     DEF HwVolumes, MinHw, Pos, Positions, Display, Shows, Delta, One
<1> QED
  BY <1>2, <1>3

\* Whatever byte the table has for a volume, it shows as one of the scale and
\* the steps worked out from it are bounded.
LEMMA BytesShow ==
  ASSUME NEW hw \in Byte, NEW new \in 0..MaxVol
  PROVE  /\ Display(hw) \in 0..MaxVol
         /\ Delta(hw, new) \in -(MaxVol + 1)..(MaxVol + 1)
<1>1. Display(hw) \in 0..MaxVol
  BY KeypadAssumption DEF Byte, MinHw, Display
<1> QED
  BY <1>1, KeypadAssumption DEF Byte, MinHw, Display, Delta, One

LEMMA HwShows ==
  ASSUME NEW d \in 0..MaxVol
  PROVE  Hw(d) \in HwVolumes /\ Display(Hw(d)) = d
BY KeypadAssumption DEF HwVolumes, MinHw, Display, Hw

-----------------------------------------------------------------------------
(***************************************************************************)
(* The inductive invariant.  The request in hand, the zones it is sent to  *)
(* and the selection it restored belong together until the page is         *)
(* printed; a request nothing has come between works on a table that is    *)
(* true; and each zone is as far from the volume asked for as its steps    *)
(* that are left.                                                          *)
(***************************************************************************)
ToVolume == pc \in {"volume", "turn"} \/ (pc = "send" /\ todo.then = "volume")

RequestInHand ==
  /\ pc = "send" => todo.zones # {} /\ todo.zones \subseteq Meant
  /\ ToVolume => /\ Form.btn = "Drop" /\ Form.vol \in 0..MaxVol
                 /\ ui.isgrp = Shown.isgrp /\ ui.mask = Shown.mask /\ ui.zone = Shown.zone
  /\ pc = "send" /\ todo.then = "volume" => todo.cmd \in Command /\ todo.cmd.kind = "src"
  /\ pc = "refresh" \/ (pc = "send" /\ todo.then # "volume") => Form.btn # "Drop"

Steps ==
  /\ delta \in [Zones -> -(MaxVol + 1)..(MaxVol + 1)]
  /\ pc = "turn" => \A z \in Zones \ Target : delta[z] = 0
  /\ pc # "turn" => round = 0
  /\ round <= MaxVol + 1

Truth ==
  /\ coherent => cable /\ table = amp
  /\ quiet => cable
  /\ quiet /\ (pc = "process" \/ (ToVolume /\ pc # "turn")) => coherent

Left(d, n) == IF d > n THEN d - n ELSE IF -d > n THEN d + n ELSE 0
OnTheWay(z) ==
  /\ Pos(amp[z].vol) + Left(delta[z], round) \in Positions
  /\ Shows(Pos(amp[z].vol) + Left(delta[z], round)) = Form.vol
Way == pc = "turn" /\ quiet => \A z \in Target : OnTheWay(z)

\* A source that is being sent was chosen from a page that is up to date, or is
\* the one the zone has.
Informed ==
  pc = "send" /\ quiet /\ todo.cmd.kind = "src" =>
    \/ /\ todo.then = "volume"
       /\ ui.isgrp \/ (todo.zones = {Shown.zone} /\ Shown.zsrc = amp[Shown.zone].src)
    \/ /\ todo.then = "print" /\ Form.btn # "Drop"
       /\ \A z \in todo.zones : amp[z].src = todo.cmd.src

Inv == TypeOK /\ RequestInHand /\ Steps /\ Truth /\ Way /\ Informed /\ VolumeReached

-----------------------------------------------------------------------------
(***************************************************************************)
(* Types.                                                                  *)
(***************************************************************************)
LEMMA FormTypes ==
  ASSUME TypeOK
  PROVE  /\ Form \in Button
         /\ Shown \in Page
         /\ req.by \in Sessions
         /\ Restored \in Ui
BY DEF TypeOK, Request, Form, Shown, Restored, Ui, Page, Entry

LEMMA DropTypes ==
  ASSUME TypeOK, Form.btn = "Drop"
  PROVE  \/ Form.src \in Sources /\ Form.vol \in 0..MaxVol
         \/ Form.src = NoNumber /\ Form.vol = NoNumber
<1>1. Form \in Button
  BY FormTypes
<1> QED
  BY <1>1 DEF Button

LEMMA ZoneTypes ==
  ASSUME TypeOK, Form.btn = "Zone"
  PROVE  Form.zone \in Zones
<1>1. Form \in Button
  BY FormTypes
<1> QED
  BY <1>1 DEF Button

LEMMA TargetTypes ==
  ASSUME TypeOK
  PROVE  Target \subseteq Zones
BY DEF TypeOK, Target, Ui

\* Of some zones one is the last, and one the first; the sets of zones above
\* and below a zone are ordered by inclusion, which is well-founded.
LEMMA LastOfZones ==
  ASSUME NEW S \in SUBSET Zones, S # {}
  PROVE  /\ (CHOOSE x \in S : \A y \in S : y <= x) \in S
         /\ (CHOOSE x \in S : \A y \in S : x <= y) \in S
<1> DEFINE above(x) == {y \in S : y > x}
           below(x) == {y \in S : y < x}
           R == StrictSubsetOrdering(Zones)
<1>1. S \subseteq Int /\ IsFiniteSet(Zones)
  BY KeypadAssumption, FS_Interval DEF Zones
<1>2. IsWellFoundedOn(R, SUBSET Zones)
  BY <1>1, FS_StrictSubsetOrderingWellFounded, FS_FiniteSubsetsOfFinite
<1>3. \E x \in S : \A y \in S : y <= x
  <2> DEFINE T == {above(x) : x \in S}
  <2>1. T \subseteq SUBSET Zones /\ T # {}
    OBVIOUS
  <2>2. PICK t \in T : \A u \in T : ~(<<u, t>> \in R)
    BY <1>2, <2>1, WFMin
  <2>3. PICK x \in S : t = above(x)
    BY <2>2
  <2>4. ASSUME NEW y \in S, y > x
        PROVE  FALSE
    <3>1. above(y) \subseteq above(x)
      <4>1. ASSUME NEW v \in S, v > y
            PROVE  v > x
        BY <1>1, <2>4, <4>1
      <4> QED
        BY <4>1
    <3>2. y \in above(x) /\ y \notin above(y)
      BY <1>1, <2>4
    <3>3. above(x) \in SUBSET Zones /\ above(y) \in SUBSET Zones /\ above(y) \in T
      OBVIOUS
    <3>4. <<above(y), above(x)>> \in R
      BY <3>1, <3>2, <3>3 DEF StrictSubsetOrdering
    <3> QED
      BY <2>2, <2>3, <3>3, <3>4
  <2> QED
    BY <1>1, <2>4
<1>4. \E x \in S : \A y \in S : x <= y
  <2> DEFINE T == {below(x) : x \in S}
  <2>1. T \subseteq SUBSET Zones /\ T # {}
    OBVIOUS
  <2>2. PICK t \in T : \A u \in T : ~(<<u, t>> \in R)
    BY <1>2, <2>1, WFMin
  <2>3. PICK x \in S : t = below(x)
    BY <2>2
  <2>4. ASSUME NEW y \in S, y < x
        PROVE  FALSE
    <3>1. below(y) \subseteq below(x)
      <4>1. ASSUME NEW v \in S, v < y
            PROVE  v < x
        BY <1>1, <2>4, <4>1
      <4> QED
        BY <4>1
    <3>2. y \in below(x) /\ y \notin below(y)
      BY <1>1, <2>4
    <3>3. below(x) \in SUBSET Zones /\ below(y) \in SUBSET Zones /\ below(y) \in T
      OBVIOUS
    <3>4. <<below(y), below(x)>> \in R
      BY <3>1, <3>2, <3>3 DEF StrictSubsetOrdering
    <3> QED
      BY <2>2, <2>3, <3>3, <3>4
  <2> QED
    BY <1>1, <2>4
<1> QED
  BY <1>3, <1>4

LEMMA StatesAreEntries == ZoneState \subseteq Entry
BY KeypadAssumption DEF ZoneState, Entry, Sources, HwVolumes, MinHw, Byte

LEMMA TypeInit == Init => TypeOK
<1> SUFFICES ASSUME Init PROVE TypeOK
  OBVIOUS
<1>1. /\ 0 \in Sources /\ 1 \in Zones /\ 0 \in HwVolumes /\ MinHw \in HwVolumes
      /\ 0 \in Byte /\ HwVolumes \subseteq Byte
  BY KeypadAssumption DEF Sources, Zones, HwVolumes, MinHw, Byte
<1>2. amp \in [Zones -> ZoneState] /\ table \in [Zones -> Entry]
  <2>1. amp \in [Zones -> ZoneState]
    BY <1>1 DEF Init, ZoneState, Leds
  <2>2. Blank \in Entry /\ ZoneState \subseteq Entry
    BY <1>1, StatesAreEntries DEF Blank, Entry, Leds
  <2> QED
    BY <2>1, <2>2 DEF Init
<1>3. ui \in Ui
  BY <1>1 DEF Init, Ui
<1>4. page \in [Sessions -> Page]
  <2>1. FirstPage \in Page
    BY <1>1 DEF FirstPage, Page
  <2> QED
    BY <2>1 DEF Init
<1>5. req \in Request
  BY DEF Init, Request, Button
<1>6. todo \in [zones: SUBSET Zones, cmd: Sendable, then: {"refresh", "volume", "print"}]
  BY DEF Init, Nothing, Sendable
<1>7. /\ coherent \in BOOLEAN /\ cable \in BOOLEAN /\ quiet \in BOOLEAN
      /\ late \in BOOLEAN
  BY DEF Init
<1>8. delta \in [Zones -> Int] /\ round \in 0..(MaxVol + 2)
  BY KeypadAssumption DEF Init
<1>9. requests \in 0..MaxRequests /\ events \in 0..MaxEvents /\ pc = "idle"
  BY KeypadAssumption DEF Init
<1> QED
  BY <1>2, <1>3, <1>4, <1>5, <1>6, <1>7, <1>8, <1>9 DEF TypeOK

LEMMA ExchangeTypes ==
  ASSUME TypeOK, InTime \/ GivenUp
  PROVE  late' \in BOOLEAN /\ events' \in 0..MaxEvents
<1>1. CASE InTime
  <2>1. late' \in BOOLEAN
    BY <1>1, Zenon DEF TypeOK, InTime
  <2> QED
    BY <1>1, <2>1 DEF TypeOK, InTime
<1>2. CASE GivenUp
  <2>1. events' \in 0..MaxEvents
    BY <1>2, KeypadAssumption DEF TypeOK, GivenUp
  <2> QED
    BY <1>2, <2>1 DEF GivenUp
<1> QED
  BY <1>1, <1>2

LEMMA ReceivedTypes ==
  ASSUME TypeOK, NEW k \in Int, NEW n \in Int, NEW from \in [Zones -> Entry]
  PROVE  Received(from, k, n) \in [Zones -> Entry]
<1> SUFFICES ASSUME NEW z \in Zones, NEW m \in Int
             PROVE  Fields(from, z, m) \in Entry
  BY DEF Received, Zones
<1>1. table[z] \in Entry /\ from[z] \in Entry
  BY DEF TypeOK
<1> QED
  BY <1>1 DEF Fields, Entry

LEMMA QueryTypes ==
  ASSUME TypeOK, Query
  PROVE  /\ table' \in [Zones -> Entry]
         /\ coherent' \in BOOLEAN
         /\ late' \in BOOLEAN /\ events' \in 0..MaxEvents
<1>1. PICK before \in BOOLEAN, after \in BOOLEAN,
           k \in IF cable THEN 0..MaxZones ELSE {0} :
        /\ \E n \in IF cable /\ k < MaxZones THEN Cuts ELSE {0},
              from \in IF Stale(before, after) THEN [Zones -> Misread \intersect Entry] ELSE {amp} :
             table' = Received(from, k, n)
        /\ coherent' = (~after /\ (coherent \/ k = MaxZones))
        /\ IF cable /\ ~after /\ k # MaxZones THEN GivenUp ELSE InTime
  BY Zenon DEF Query
<1>2. PICK n \in IF cable /\ k < MaxZones THEN Cuts ELSE {0},
           from \in IF Stale(before, after) THEN [Zones -> Misread \intersect Entry] ELSE {amp} :
        table' = Received(from, k, n)
  BY <1>1
<1>3. from \in [Zones -> Entry]
  BY <1>2, StatesAreEntries DEF TypeOK
<1>4. k \in Int /\ n \in Int
  BY KeypadAssumption
<1> QED
  BY <1>1, <1>2, <1>3, <1>4, ReceivedTypes, ExchangeTypes DEF TypeOK

LEMMA CommandedTypes ==
  ASSUME NEW zs \in ZoneState, NEW c \in Command
  PROVE  /\ Commanded(zs, c) \in ZoneState
         /\ Commanded(zs, c).vol = zs.vol
         /\ c.kind # "src" => Commanded(zs, c).src = zs.src
<1>1. CASE c.kind = "src"
  BY <1>1 DEF Command, Commanded, ZoneState, Leds
<1>2. CASE c.kind = "mute"
  BY <1>2 DEF Command, Commanded, ZoneState, Leds
<1>3. CASE c.kind \notin {"src", "mute"}
  <2>1. c.kind \in {"on", "off"}
    BY <1>3 DEF Command
  <2> QED
    BY <1>3, <2>1 DEF Commanded, ZoneState, Leds
<1> QED
  BY <1>1, <1>2, <1>3

\* What an exchange leaves of the amplifier; only what is no command of the
\* keypad reaches another zone.
LEMMA CarriedTypes ==
  ASSUME TypeOK, NEW z \in Zones, NEW c \in Sendable, NEW a \in Carried(z, c)
  PROVE  /\ a \in [Zones -> ZoneState]
         /\ c \in Command => a = [amp EXCEPT ![z] = Commanded(@, c)]
         /\ c \notin Command => \A x \in Zones : a[x].src = amp[x].src
<1>1. amp \in [Zones -> ZoneState] /\ \A x \in Zones : amp[x] \in ZoneState
  BY DEF TypeOK
<1>2. CASE c \in Command
  <2>1. a = [amp EXCEPT ![z] = Commanded(@, c)]
    BY <1>2 DEF Carried
  <2> QED
    BY <1>1, <1>2, <2>1, CommandedTypes
<1>3. CASE c \notin Command
  <2>1. CASE a = amp
    BY <1>1, <1>3, <2>1
  <2>2. ASSUME NEW l \in Leds, a = [amp EXCEPT ![z].led = l]
        PROVE  a \in [Zones -> ZoneState] /\ \A x \in Zones : a[x].src = amp[x].src
    BY <1>1, <2>2 DEF ZoneState
  <2>3. ASSUME NEW v \in {Up(amp[z].vol), Down(amp[z].vol)}, a = [amp EXCEPT ![z].vol = v]
        PROVE  a \in [Zones -> ZoneState] /\ \A x \in Zones : a[x].src = amp[x].src
    <3>1. v \in HwVolumes
      BY <1>1, UpIsOneStep, DownIsOneStep DEF ZoneState
    <3> QED
      BY <1>1, <2>3, <3>1 DEF ZoneState
  <2>4. ASSUME NEW l \in {"on", "off"}, a = [x \in Zones |-> [amp[x] EXCEPT !.led = l]]
        PROVE  a \in [Zones -> ZoneState] /\ \A x \in Zones : a[x].src = amp[x].src
    BY <1>1, <2>4 DEF ZoneState, Leds
  <2> QED
    BY <1>3, <2>1, <2>2, <2>3, <2>4 DEF Carried
<1> QED
  BY <1>2, <1>3

LEMMA NothingTypes ==
  /\ Nothing \in [zones: SUBSET Zones, cmd: Sendable, then: {"refresh", "volume", "print"}]
  /\ Nothing.cmd \in Sendable
BY DEF Nothing, Sendable

LEMMA ProcessTypes ==
  ASSUME TypeOK, NEW u \in Ui, NEW zones \in SUBSET Zones, NEW cmd \in Sendable,
         NEW then \in {"refresh", "volume", "print"}, Process(u, zones, cmd, then)
  PROVE  TypeOK'
BY DEF TypeOK, Process, env

LEMMA DisturbedTypes ==
  ASSUME TypeOK, Disturbed, amp' \in [Zones -> ZoneState], cable' \in BOOLEAN
  PROVE  TypeOK'
<1>1. events' \in 0..MaxEvents
  BY KeypadAssumption DEF Disturbed, TypeOK
<1> QED
  BY <1>1 DEF Disturbed, TypeOK

LEMMA TypeStep ==
  ASSUME TypeOK, Steps, RequestInHand, [Next]_vars
  PROVE  TypeOK'
<1>1. ASSUME NEW s \in Sessions, NEW form \in Button, Submit(s, form)
      PROVE  TypeOK'
  <2>1. req' \in Request
    BY <1>1 DEF Submit, Request
  <2>2. requests' \in 0..MaxRequests
    BY <1>1, KeypadAssumption DEF Submit, TypeOK
  <2> QED
    BY <1>1, <2>1, <2>2 DEF Submit, TypeOK
<1>2. ASSUME First
      PROVE  TypeOK'
  BY <1>2, QueryTypes DEF First, RefreshData, TypeOK
<1>3. ASSUME AllPower \/ Power \/ Mute
      PROVE  TypeOK'
  <2>1. Addressed \subseteq Zones
    BY FormTypes DEF Addressed, Page
  <2>2. [kind |-> "on"] \in Sendable /\ [kind |-> "off"] \in Sendable /\ [kind |-> "mute"] \in Sendable
    BY DEF Sendable
  <2> QED
    BY <1>3, <2>1, <2>2, FormTypes, ProcessTypes DEF AllPower, Power, Mute
<1>4. ASSUME Status
      PROVE  TypeOK'
  BY <1>4, FormTypes, ProcessTypes, NothingTypes DEF Status, Quietly
<1>5. ASSUME SelectZone
      PROVE  TypeOK'
  <2>1. Form.zone \in Zones
    BY <1>5, ZoneTypes DEF SelectZone
  <2>2. [Restored EXCEPT !.mask = {Form.zone}, !.zone = Form.zone] \in Ui
    BY <2>1, FormTypes DEF Ui
  <2>3. [kind |-> "src", src |-> table[Form.zone].src] \in Sendable
    BY <2>1 DEF TypeOK, Entry, Sendable
  <2> QED
    BY <1>5, <2>1, <2>2, <2>3, ProcessTypes DEF SelectZone
<1>6. ASSUME ToggleZone
      PROVE  TypeOK'
  <2>1. Form.zone \in Zones
    BY <1>6, ZoneTypes DEF ToggleZone
  <2>2. [Restored EXCEPT !.mask = Toggled(@, Form.zone)] \in Ui
    BY <2>1, FormTypes DEF Ui, Toggled
  <2> QED
    BY <1>6, <2>2, ProcessTypes, NothingTypes DEF ToggleZone, Quietly
<1>7. ASSUME GroupButton
      PROVE  TypeOK'
  <2>1. [Restored EXCEPT !.isgrp = ~@, !.mask = IF Shown.isgrp THEN {} ELSE @] \in Ui
    BY FormTypes DEF Ui
  <2> QED
    BY <1>7, <2>1, ProcessTypes, NothingTypes DEF GroupButton, Quietly
<1>8. ASSUME DropDown
      PROVE  TypeOK'
  <2>1. CASE Form.src = NoNumber
    BY <1>8, <2>1, FormTypes, ProcessTypes, NothingTypes DEF DropDown, Quietly
  <2>2. CASE Form.src # NoNumber
    <3>1. SourceToSet \in Byte
      BY <1>8, <2>2, DropTypes, FormTypes, KeypadAssumption
         DEF DropDown, SourceToSet, Ui, Sources, Byte
    <3>2. [kind |-> "src", src |-> SourceToSet] \in Sendable
      BY <3>1 DEF Sendable
    <3>3. [Restored EXCEPT !.cursrc = SourceToSet] \in Ui
      BY <3>1, FormTypes DEF Ui
    <3>4. Shown.mask \subseteq Zones /\ {Shown.zone} \subseteq Zones
      BY FormTypes DEF Page
    <3> QED
      BY <1>8, <2>2, <3>2, <3>3, <3>4, FormTypes, ProcessTypes, NothingTypes DEF DropDown
  <2> QED
    BY <2>1, <2>2
<1>9. ASSUME Send
      PROVE  TypeOK'
  <2> DEFINE z == CHOOSE x \in todo.zones : \A y \in todo.zones : x <= y
  <2>0. todo.cmd \in Sendable /\ todo.zones \subseteq Zones /\ z \in todo.zones
    BY <1>9, LastOfZones DEF TypeOK, RequestInHand, Send
  <2>1. amp' \in [Zones -> ZoneState]
    BY <1>9, <2>0, CarriedTypes DEF Send, TypeOK
  <2>2. table' \in [Zones -> Entry]
    <3>1. CASE todo.cmd.kind = "src"
      <4>1. todo.cmd.src \in Byte
        BY <2>0, <3>1 DEF Sendable
      <4> QED
        BY <1>9, <3>1, <4>1 DEF Send, Noted, TypeOK, Entry
    <3>2. CASE todo.cmd.kind # "src"
      BY <1>9, <3>2 DEF Send, Noted, TypeOK
    <3> QED
      BY <3>1, <3>2
  <2>3. todo' \in [zones: SUBSET Zones, cmd: Sendable, then: {"refresh", "volume", "print"}]
    BY <1>9, <2>0 DEF Send, TypeOK
  <2>4. pc' \in {"send", "refresh", "volume", "print"} /\ coherent' \in BOOLEAN
    BY <1>9 DEF Send, TypeOK
  <2> QED
    BY <1>9, <2>1, <2>2, <2>3, <2>4, ExchangeTypes DEF Send, TypeOK
<1>10. ASSUME Refresh
       PROVE  TypeOK'
  BY <1>10, QueryTypes DEF Refresh, RefreshData, TypeOK
<1>11. ASSUME Volume
       PROVE  TypeOK'
  <2>1. ASSUME NEW z \in Zones
        PROVE  (IF z \in Target THEN Delta(table[z].vol, Form.vol) ELSE 0) \in Int
    <3>1. table[z].vol \in Byte /\ Form.vol \in 0..MaxVol
      BY <1>11 DEF Volume, TypeOK, Entry, RequestInHand, ToVolume
    <3> QED
      BY <3>1, BytesShow
  <2> QED
    BY <1>11, <2>1 DEF Volume, TypeOK, env
<1>12. ASSUME Turn
       PROVE  TypeOK'
  <2>1. amp' \in [Zones -> ZoneState]
    BY <1>12, UpIsOneStep, DownIsOneStep DEF Turn, TypeOK, ZoneState
  <2>2. Rounds <= MaxVol + 1 /\ Rounds \in Int
    BY KeypadAssumption DEF Steps, Rounds, Abs, TypeOK, Ui
  <2>3. round' \in 0..(MaxVol + 2)
    BY <1>12, <2>2, KeypadAssumption DEF Turn, TypeOK
  <2>4. late' \in BOOLEAN /\ events' \in 0..MaxEvents
    BY <1>12, ExchangeTypes DEF Turn, TypeOK
  <2> QED
    BY <1>12, <2>1, <2>3, <2>4 DEF Turn, TypeOK
<1>13. ASSUME TurnsDone
       PROVE  TypeOK'
  <2>1. /\ table' \in [Zones -> Entry] /\ coherent' \in BOOLEAN
        /\ late' \in BOOLEAN /\ events' \in 0..MaxEvents
    BY <1>13, QueryTypes DEF TurnsDone
  <2>2. GroupVolume \in HwVolumes
    <3> DEFINE near == {z \in ui.mask : Abs(Display(table'[z].vol) - Form.vol) < 2}
               last == CHOOSE x \in near : \A y \in near : y <= x
    <3>1. CASE ui.isgrp /\ near # {}
      <4>1. ui.mask \subseteq Zones
        BY DEF TypeOK, Ui
      <4>2. last \in near
        BY <3>1, <4>1, LastOfZones
      <4>3. Display(table'[last].vol) \in 0..MaxVol
        BY <2>1, <4>1, <4>2, BytesShow, KeypadAssumption DEF Entry
      <4> QED
        BY <3>1, <4>3, HwShows DEF GroupVolume
    <3>2. CASE ~(ui.isgrp /\ near # {})
      BY <3>2 DEF GroupVolume, TypeOK, Ui
    <3> QED
      BY <3>1, <3>2
  <2>3. ui' \in Ui
    BY <1>13, <2>2 DEF TurnsDone, TypeOK, Ui
  <2> QED
    BY <1>13, <2>1, <2>3, KeypadAssumption DEF TurnsDone, TypeOK
<1>14. ASSUME PrintKeypad
       PROVE  TypeOK'
  <2>1. req' \in Request
    BY <1>14 DEF PrintKeypad, TypeOK, Request, Button
  <2>2. page' \in [Sessions -> Page]
    BY <1>14, FormTypes DEF PrintKeypad, TypeOK, Page, Ui
  <2> QED
    <3>1. delta' \in [Zones -> Int] /\ pc' = "idle" /\ quiet' = FALSE
      BY <1>14 DEF PrintKeypad
    <3>2. todo' \in [zones: SUBSET Zones, cmd: Sendable, then: {"refresh", "volume", "print"}]
      BY <1>14, NothingTypes DEF PrintKeypad
    <3>3. UNCHANGED <<amp, cable, late, table, ui, round, coherent, requests, events>>
      BY <1>14 DEF PrintKeypad, env
    <3> QED
      BY <2>1, <2>2, <3>1, <3>2, <3>3 DEF TypeOK
<1>15. ASSUME WallKeypad
       PROVE  TypeOK'
  <2>1. PICK z \in Zones : \E zs \in Wall(amp[z]) : amp' = [amp EXCEPT ![z] = zs]
    BY <1>15 DEF WallKeypad
  <2>2. Wall(amp[z]) \subseteq ZoneState
    <3>1. amp[z] \in ZoneState
      BY DEF TypeOK
    <3>2. {Commanded(amp[z], c) : c \in Command} \subseteq ZoneState
      BY <3>1, CommandedTypes
    <3>3. Up(amp[z].vol) \in HwVolumes /\ Down(amp[z].vol) \in HwVolumes
      BY <3>1, UpIsOneStep, DownIsOneStep DEF ZoneState
    <3>4. /\ [amp[z] EXCEPT !.vol = Up(@)] \in ZoneState
          /\ [amp[z] EXCEPT !.vol = Down(@)] \in ZoneState
      BY <3>1, <3>3 DEF ZoneState
    <3> QED
      BY <3>2, <3>4 DEF Wall
  <2>3. amp' \in [Zones -> ZoneState]
    BY <2>1, <2>2 DEF TypeOK
  <2> QED
    BY <1>15, <2>3, DisturbedTypes DEF WallKeypad, TypeOK
<1>16. ASSUME Cable
       PROVE  TypeOK'
  BY <1>16, DisturbedTypes DEF Cable, TypeOK
<1>17. ASSUME UNCHANGED vars
       PROVE  TypeOK'
  BY <1>17 DEF vars, env, TypeOK
<1> QED
  BY <1>1, <1>2, <1>3, <1>4, <1>5, <1>6, <1>7, <1>8, <1>9, <1>10, <1>11, <1>12,
     <1>13, <1>14, <1>15, <1>16, <1>17 DEF Next, Answer

-----------------------------------------------------------------------------
(***************************************************************************)
(* The rest of the invariant, action by action.                            *)
(***************************************************************************)
Rest == RequestInHand /\ Steps /\ Truth /\ Way /\ Informed /\ VolumeReached

LEMMA QueryIsTrue ==
  ASSUME TypeOK, Truth, Query, UNCHANGED <<amp, cable>>
  PROVE  coherent' => cable' /\ table' = amp'
<1> SUFFICES ASSUME coherent' PROVE cable' /\ table' = amp'
  OBVIOUS
<1>1. PICK before \in BOOLEAN, after \in BOOLEAN,
           k \in IF cable THEN 0..MaxZones ELSE {0} :
        /\ \E n \in IF cable /\ k < MaxZones THEN Cuts ELSE {0},
              from \in IF Stale(before, after) THEN [Zones -> Misread \intersect Entry] ELSE {amp} :
             table' = Received(from, k, n)
        /\ coherent' = (~after /\ (coherent \/ k = MaxZones))
  BY Zenon DEF Query
<1>2. ~after /\ (coherent \/ k = MaxZones)
  BY <1>1
<1>3. PICK n \in IF cable /\ k < MaxZones THEN Cuts ELSE {0} : table' = Received(amp, k, n)
  BY <1>1, <1>2 DEF Stale
<1>4. cable
  BY <1>2, KeypadAssumption DEF Truth
<1>5. ASSUME NEW z \in Zones, NEW m \in Int, m = 3 \/ table = amp
      PROVE  Fields(amp, z, m) = amp[z]
  <2>1. table[z] \in Entry /\ amp[z] \in ZoneState
    BY DEF TypeOK
  <2>2. CASE m = 3
    BY <2>1, <2>2 DEF Fields, Entry, ZoneState
  <2>3. CASE table = amp
    BY <2>1, <2>3 DEF Fields, ZoneState
  <2> QED
    BY <1>5, <2>2, <2>3
<1>6. table' = [z \in Zones |-> amp[z]]
  <2>1. CASE k = MaxZones
    BY <1>3, <1>5, <2>1, KeypadAssumption DEF Received, Zones
  <2>2. CASE coherent
    <3>1. table = amp /\ n \in Int /\ k \in Int
      BY <2>2, KeypadAssumption DEF Truth
    <3> QED
      BY <1>3, <1>5, <3>1 DEF Received, Zones
  <2> QED
    BY <1>2, <2>1, <2>2
<1> QED
  BY <1>4, <1>6 DEF TypeOK

LEMMA ProcessRest ==
  ASSUME Inv, NEW u \in Ui, NEW zones \in SUBSET Meant, NEW cmd \in Sendable,
         NEW then \in {"refresh", "volume", "print"}, Process(u, zones, cmd, then),
         then = "volume" => /\ Form.btn = "Drop" /\ Form.vol \in 0..MaxVol
                            /\ u.isgrp = Shown.isgrp /\ u.mask = Shown.mask
                            /\ u.zone = Shown.zone
                            /\ zones # {} => cmd \in Command /\ cmd.kind = "src",
         then # "volume" => \/ Form.btn # "Drop"
                            \/ zones = {} /\ then = "print" /\ Form.vol = NoNumber,
         quiet /\ zones # {} /\ cmd.kind = "src" =>
           \/ /\ then = "volume"
              /\ u.isgrp \/ (zones = {Shown.zone} /\ Shown.zsrc = amp[Shown.zone].src)
           \/ then = "print" /\ \A z \in zones : amp[z].src = cmd.src
  PROVE  Rest'
<1>1. /\ pc = "process" /\ pc' = (IF zones = {} THEN then ELSE "send")
      /\ ui' = u /\ todo' = [zones |-> zones, cmd |-> cmd, then |-> then]
      /\ UNCHANGED <<amp, cable, table, page, req, delta, round, quiet, coherent>>
  BY DEF Process
<1>2. Form' = Form /\ Shown' = Shown /\ Meant' = Meant
  BY <1>1 DEF Form, Shown, Meant
<1>3. RequestInHand'
  BY <1>1, <1>2 DEF RequestInHand, ToVolume
<1>4. Steps'
  BY <1>1 DEF Inv, Steps
<1>5. Truth'
  BY <1>1 DEF Inv, Truth, ToVolume
<1>6. Way' /\ VolumeReached'
  BY <1>1, <1>2 DEF Way, VolumeReached
<1>7. Informed'
  BY <1>1, <1>2 DEF Informed
<1> QED
  BY <1>3, <1>4, <1>5, <1>6, <1>7 DEF Rest

LEMMA SubmitRest ==
  ASSUME Inv, NEW s \in Sessions, NEW form \in Button, Submit(s, form)
  PROVE  Rest'
<1>1. /\ pc' = "first" /\ pc = "idle"
      /\ UNCHANGED <<amp, cable, table, ui, page, todo, delta, round, quiet, coherent>>
  BY DEF Submit
<1> QED
  BY <1>1 DEF Inv, Rest, RequestInHand, ToVolume, Steps, Truth, Way, Informed, VolumeReached

LEMMA FirstRest ==
  ASSUME Inv, First
  PROVE  Rest'
<1>1. /\ pc' = "process" /\ quiet' = coherent'
      /\ UNCHANGED <<amp, cable, ui, page, req, todo, delta, round>>
      /\ pc # "turn"
  BY DEF First
<1>2. coherent' => cable' /\ table' = amp'
  BY <1>1, QueryIsTrue DEF First, RefreshData, Inv
<1>3. Truth'
  BY <1>1, <1>2 DEF Truth, ToVolume
<1> QED
  BY <1>1, <1>3 DEF Inv, Rest, RequestInHand, ToVolume, Steps, Way, Informed, VolumeReached

LEMMA ButtonsRest ==
  ASSUME Inv, AllPower \/ Power \/ Mute \/ Status \/ ToggleZone \/ GroupButton
  PROVE  Rest'
<1>1. /\ [kind |-> "on"] \in Sendable /\ [kind |-> "off"] \in Sendable
      /\ [kind |-> "mute"] \in Sendable
  BY DEF Sendable
<1>2. TypeOK
  BY DEF Inv
<1>3. CASE AllPower
  BY <1>1, <1>2, <1>3, FormTypes, ProcessRest DEF AllPower, Meant
<1>4. CASE Power
  BY <1>1, <1>2, <1>4, FormTypes, ProcessRest DEF Power, Addressed, Meant
<1>5. CASE Mute
  BY <1>1, <1>2, <1>5, FormTypes, ProcessRest DEF Mute, Addressed, Meant
<1>6. CASE Status
  BY <1>2, <1>6, FormTypes, NothingTypes, ProcessRest DEF Status, Quietly
<1>7. CASE ToggleZone
  <2>1. Form.zone \in Zones
    BY <1>2, <1>7, ZoneTypes DEF ToggleZone
  <2>2. [Restored EXCEPT !.mask = Toggled(@, Form.zone)] \in Ui
    BY <1>2, <2>1, FormTypes DEF Ui, Toggled
  <2> QED
    BY <1>7, <2>2, NothingTypes, ProcessRest DEF ToggleZone, Quietly
<1>8. CASE GroupButton
  <2>1. [Restored EXCEPT !.isgrp = ~@, !.mask = IF Shown.isgrp THEN {} ELSE @] \in Ui
    BY <1>2, FormTypes DEF Ui
  <2> QED
    BY <1>8, <2>1, NothingTypes, ProcessRest DEF GroupButton, Quietly
<1> QED
  BY <1>3, <1>4, <1>5, <1>6, <1>7, <1>8

LEMMA SelectZoneRest ==
  ASSUME Inv, SelectZone
  PROVE  Rest'
<1> DEFINE u == [Restored EXCEPT !.mask = {Form.zone}, !.zone = Form.zone]
           c == [kind |-> "src", src |-> table[Form.zone].src]
<1>1. TypeOK /\ Truth /\ pc = "process"
  BY DEF Inv, SelectZone, Process
<1>2. Form.zone \in Zones /\ Form.btn = "Zone"
  BY <1>1, ZoneTypes DEF SelectZone
<1>3. u \in Ui /\ c \in Sendable
  BY <1>1, <1>2, FormTypes DEF Ui, TypeOK, Entry, Sendable
<1>4. quiet => table = amp
  BY <1>1 DEF Truth
<1>5. {Form.zone} \in SUBSET Meant
  BY <1>2 DEF Meant
<1>6. Process(u, {Form.zone}, c, "print")
  BY DEF SelectZone
<1> QED
  BY <1>2, <1>3, <1>4, <1>5, <1>6, ProcessRest

LEMMA DropDownRest ==
  ASSUME Inv, DropDown
  PROVE  Rest'
<1> DEFINE c == [kind |-> "src", src |-> SourceToSet]
<1>1. TypeOK /\ Truth /\ Form.btn = "Drop"
  BY DEF Inv, DropDown
<1>2. CASE Form.src = NoNumber
  <2>1. Form.vol = NoNumber
    BY <1>1, <1>2, DropTypes DEF NoNumber, Sources
  <2> QED
    BY <1>1, <1>2, <2>1, FormTypes, NothingTypes, ProcessRest DEF DropDown, Quietly
<1>3. CASE Form.src # NoNumber
  <2>1. Form.src \in Sources /\ Form.vol \in 0..MaxVol
    BY <1>1, <1>3, DropTypes
  <2>2. SourceToSet \in Byte
    BY <1>1, <2>1, FormTypes, KeypadAssumption DEF SourceToSet, Ui, Sources, Byte
  <2>3. /\ c \in Sendable /\ c.kind = "src" /\ (SourceToSet \in Sources => c \in Command)
        /\ [Restored EXCEPT !.cursrc = SourceToSet] \in Ui /\ Restored \in Ui
    BY <1>1, <2>2, FormTypes DEF Sendable, Command, Ui
  <2>4. /\ Restored.isgrp = Shown.isgrp /\ Restored.mask = Shown.mask
        /\ Restored.zone = Shown.zone /\ Restored.cursrc = table[Shown.zone].src
    BY <1>1 DEF Restored, TypeOK, Ui
  <2>5. CASE SourceToSet \in Sources /\ Shown.isgrp
    <3>1. Process(Restored, Shown.mask, c, "volume") /\ Shown.mask \in SUBSET Meant
      BY <1>1, <1>3, <2>5 DEF DropDown, Meant
    <3> QED
      BY <1>1, <2>1, <2>3, <2>4, <2>5, <3>1, ProcessRest
  <2>6. CASE SourceToSet \in Sources /\ ~Shown.isgrp /\ table[Shown.zone].src # SourceToSet
    <3> DEFINE u == [Restored EXCEPT !.cursrc = SourceToSet]
    <3>1. Process(u, {Shown.zone}, c, "volume") /\ {Shown.zone} \in SUBSET Meant
      BY <1>1, <1>3, <2>6 DEF DropDown, Meant
    <3>2. u.isgrp = Shown.isgrp /\ u.mask = Shown.mask /\ u.zone = Shown.zone
      BY <1>1, <2>4, FormTypes DEF Ui
    <3>3. ~SourceHasChanged
      BY <2>4, <2>6 DEF SourceToSet
    <3>4. quiet => Shown.zsrc = amp[Shown.zone].src
      BY <1>1, <3>1, <3>3 DEF SourceHasChanged, Truth, Process
    <3> QED
      BY <1>1, <2>1, <2>3, <2>6, <3>1, <3>2, <3>4, ProcessRest
  <2>7. CASE SourceToSet \notin Sources \/ (~Shown.isgrp /\ table[Shown.zone].src = SourceToSet)
    <3>1. Process(Restored, {}, Nothing.cmd, "volume")
      BY <1>1, <1>3, <2>7 DEF DropDown
    <3> QED
      BY <1>1, <2>1, <2>3, <2>4, <3>1, NothingTypes, ProcessRest
  <2> QED
    BY <2>5, <2>6, <2>7
<1> QED
  BY <1>2, <1>3

LEMMA SendRest ==
  ASSUME Inv, Send
  PROVE  Rest'
<1> DEFINE z == CHOOSE x \in todo.zones : \A y \in todo.zones : x <= y
           rest == todo.zones \ {z}
<1>1. TypeOK /\ RequestInHand /\ Steps /\ Truth /\ Informed
  BY DEF Inv
<1>2. /\ pc = "send" /\ todo' = [todo EXCEPT !.zones = rest]
      /\ amp' \in IF cable THEN Carried(z, todo.cmd) ELSE {amp}
      /\ table' = Noted(z, todo.cmd)
      /\ coherent' = (coherent /\ todo.cmd \in Command /\ todo.cmd.kind = "src")
      /\ pc' = IF rest = {} THEN todo.then ELSE "send"
      /\ UNCHANGED <<cable, ui, page, req, delta, round, quiet>>
  BY DEF Send
<1>3. /\ todo.zones \in SUBSET Zones /\ todo.cmd \in Sendable
      /\ todo.then \in {"refresh", "volume", "print"}
      /\ todo'.zones = rest /\ todo'.cmd = todo.cmd /\ todo'.then = todo.then
  BY <1>1, <1>2 DEF TypeOK
<1>4. z \in todo.zones
  BY <1>1, <1>2, <1>3, LastOfZones DEF RequestInHand
<1>5. Form' = Form /\ Shown' = Shown /\ Meant' = Meant
  BY <1>2 DEF Form, Shown, Meant
<1>6. RequestInHand'
  BY <1>1, <1>2, <1>3, <1>5 DEF RequestInHand, ToVolume
<1>7. Steps'
  BY <1>1, <1>2, <1>3 DEF Steps
<1>8. Truth'
  <2>1. coherent' => table' = amp' /\ cable'
    <3> SUFFICES ASSUME coherent' PROVE table' = amp' /\ cable'
      OBVIOUS
    <3>1. table = amp /\ cable /\ todo.cmd.kind = "src" /\ todo.cmd \in Command
      BY <1>1, <1>2 DEF Truth
    <3>2. amp' = [amp EXCEPT ![z] = Commanded(@, todo.cmd)]
      BY <1>1, <1>2, <1>3, <1>4, <3>1, CarriedTypes
    <3> QED
      BY <1>2, <3>1, <3>2 DEF Noted, Commanded
  <2>2. quiet' => cable'
    BY <1>1, <1>2 DEF Truth
  <2>3. quiet' /\ (pc' = "process" \/ (ToVolume' /\ pc' # "turn")) => coherent'
    BY <1>1, <1>2, <1>3 DEF Truth, RequestInHand, ToVolume
  <2> QED
    BY <2>1, <2>2, <2>3 DEF Truth
<1>9. Way' /\ VolumeReached'
  BY <1>1, <1>2, <1>3, <1>5 DEF Way, VolumeReached, RequestInHand
<1>10. Informed'
  <2> SUFFICES ASSUME pc' = "send", quiet', todo'.cmd.kind = "src"
               PROVE  Informed'
    BY DEF Informed
  <2>1. CASE todo.then = "volume"
    <3>1. ui.isgrp
      BY <1>1, <1>2, <1>3, <1>4, <2>1 DEF Informed
    <3> QED
      BY <1>2, <1>3, <2>1, <3>1 DEF Informed
  <2>2. CASE todo.then # "volume"
    <3>1. /\ todo.then = "print" /\ Form.btn # "Drop"
          /\ \A x \in todo.zones : amp[x].src = todo.cmd.src
      BY <1>1, <1>2, <1>3, <2>2 DEF Informed
    <3>2. \A x \in rest : amp'[x].src = amp[x].src
      <4>1. \A x \in rest : x \in Zones /\ x # z
        BY <1>3
      <4>2. CASE ~cable
        BY <1>2, <4>2
      <4>3. CASE cable
        <5>1. /\ todo.cmd \in Command => amp' = [amp EXCEPT ![z] = Commanded(@, todo.cmd)]
              /\ todo.cmd \notin Command => \A x \in Zones : amp'[x].src = amp[x].src
          BY <1>1, <1>2, <1>3, <1>4, <4>3, CarriedTypes
        <5> QED
          BY <1>1, <4>1, <5>1 DEF TypeOK
      <4> QED
        BY <4>2, <4>3
    <3> QED
      BY <1>2, <1>3, <1>5, <3>1, <3>2 DEF Informed
  <2> QED
    BY <2>1, <2>2
<1> QED
  BY <1>6, <1>7, <1>8, <1>9, <1>10 DEF Rest

LEMMA RefreshRest ==
  ASSUME Inv, Refresh
  PROVE  Rest'
<1>1. /\ pc = "refresh" /\ pc' = "print"
      /\ UNCHANGED <<amp, cable, ui, page, req, todo, delta, round, quiet>>
  BY DEF Refresh
<1>2. coherent' => cable' /\ table' = amp'
  BY <1>1, QueryIsTrue DEF Refresh, RefreshData, Inv
<1>3. Form' = Form /\ Form.btn # "Drop"
  BY <1>1 DEF Form, Inv, RequestInHand
<1>4. Truth'
  BY <1>1, <1>2 DEF Truth, ToVolume, Inv
<1> QED
  BY <1>1, <1>3, <1>4
     DEF Inv, Rest, RequestInHand, ToVolume, Steps, Way, Informed, VolumeReached

LEMMA VolumeRest ==
  ASSUME Inv, Volume
  PROVE  Rest'
<1>1. TypeOK /\ RequestInHand /\ Steps /\ Truth
  BY DEF Inv
<1>2. /\ pc = "volume" /\ pc' \in {"print", "turn"}
      /\ pc' = "print" => ~ui.isgrp /\ Display(table[ui.zone].vol) = Form.vol
      /\ delta' = [z \in Zones |-> IF z \in Target THEN Delta(table[z].vol, Form.vol) ELSE 0]
      /\ UNCHANGED <<amp, cable, table, ui, page, req, todo, round, quiet, coherent>>
  BY DEF Volume
<1>3. Form' = Form /\ Shown' = Shown /\ Meant' = Meant /\ Target' = Target /\ Target \subseteq Zones
  BY <1>1, <1>2, TargetTypes DEF Form, Shown, Meant, Target
<1>4. Form.btn = "Drop" /\ Form.vol \in 0..MaxVol
  BY <1>1, <1>2 DEF RequestInHand, ToVolume
<1>5. RequestInHand'
  BY <1>1, <1>2, <1>3, <1>4 DEF RequestInHand, ToVolume
<1>6. Steps'
  <2>1. \A z \in Zones : Delta(table[z].vol, Form.vol) \in -(MaxVol + 1)..(MaxVol + 1)
    BY <1>1, <1>4, BytesShow DEF TypeOK, Entry
  <2>2. 0 \in -(MaxVol + 1)..(MaxVol + 1)
    BY KeypadAssumption
  <2> QED
    BY <1>1, <1>2, <1>3, <2>1, <2>2 DEF Steps
<1>7. Truth' /\ Informed'
  BY <1>1, <1>2 DEF Truth, ToVolume, Informed
<1>8. quiet => table = amp
  BY <1>1, <1>2 DEF Truth, ToVolume
<1>9. Way'
  <2> SUFFICES ASSUME pc' = "turn", quiet', NEW z \in Target
               PROVE  OnTheWay(z)'
    BY <1>3 DEF Way
  <2>1. amp'[z].vol \in HwVolumes /\ delta'[z] = Delta(amp'[z].vol, Form.vol)
    BY <1>1, <1>2, <1>3, <1>8 DEF TypeOK, ZoneState
  <2>2. round' = 0
    BY <1>1, <1>2 DEF Steps
  <2>3. Left(delta'[z], round') = delta'[z]
    BY <1>4, <2>1, <2>2, DeltaLeadsThere DEF Left
  <2> QED
    BY <1>3, <1>4, <2>1, <2>3, DeltaLeadsThere DEF OnTheWay
<1>10. VolumeReached'
  BY <1>2, <1>3, <1>8 DEF VolumeReached, Target
<1> QED
  BY <1>5, <1>6, <1>7, <1>9, <1>10 DEF Rest

LEMMA RoundsAreEnough ==
  ASSUME TypeOK, Steps
  PROVE  /\ Rounds \in 0..(MaxVol + 1)
         /\ \A z \in Target : Abs(delta[z]) <= Rounds
<1>1. \A z \in Zones : delta[z] \in Int /\ Abs(delta[z]) \in 0..(MaxVol + 1)
  BY KeypadAssumption DEF Steps, Abs
<1>2. ui.zone \in Zones
  BY DEF TypeOK, Ui
<1> QED
  BY <1>1, <1>2, TargetTypes, KeypadAssumption DEF Rounds, Target

LEMMA TurnRest ==
  ASSUME Inv, Turn
  PROVE  Rest'
<1>1. TypeOK /\ RequestInHand /\ Steps /\ Truth /\ Way
  BY DEF Inv
<1>2. /\ pc = "turn" /\ round < Rounds /\ round' = round + 1 /\ coherent' = FALSE
      /\ amp' = [z \in Zones |->
               IF ~cable \/ Abs(delta[z]) <= round THEN amp[z]
               ELSE [amp[z] EXCEPT !.vol = IF delta[z] > 0 THEN Up(@) ELSE Down(@)]]
      /\ UNCHANGED <<cable, table, ui, page, pc, req, todo, delta, quiet>>
  BY DEF Turn
<1>3. Form' = Form /\ Shown' = Shown /\ Meant' = Meant /\ Target' = Target /\ Target \subseteq Zones
  BY <1>1, <1>2, TargetTypes DEF Form, Shown, Meant, Target
<1>4. RequestInHand'
  BY <1>1, <1>2, <1>3 DEF RequestInHand, ToVolume
<1>5. Steps'
  <2>1. round' <= MaxVol + 1
    BY <1>1, <1>2, RoundsAreEnough, KeypadAssumption DEF TypeOK
  <2> QED
    BY <1>1, <1>2, <1>3, <2>1 DEF Steps
<1>6. Truth' /\ Informed' /\ VolumeReached'
  BY <1>1, <1>2 DEF Truth, ToVolume, Informed, VolumeReached
<1>7. Way'
  <2> SUFFICES ASSUME quiet, NEW z \in Target
               PROVE  OnTheWay(z)'
    BY <1>2, <1>3 DEF Way
  <2>1. /\ cable /\ amp[z].vol \in HwVolumes /\ z \in Zones /\ amp[z] \in ZoneState
        /\ delta[z] \in -(MaxVol + 1)..(MaxVol + 1) /\ round \in Nat
    BY <1>1, <1>3 DEF Truth, TypeOK, ZoneState, Steps
  <2>2. OnTheWay(z)
    BY <1>1, <1>2 DEF Way
  <2>3. Pos(amp[z].vol) \in Positions
    BY <2>1, ScaleIsALine
  <2>4. Pos(amp'[z].vol) + Left(delta[z], round') = Pos(amp[z].vol) + Left(delta[z], round)
    <3>1. CASE Abs(delta[z]) <= round
      <4>1. amp'[z] = amp[z]
        BY <1>2, <2>1, <3>1
      <4>2. Left(delta[z], round) = 0 /\ Left(delta[z], round') = 0
        BY <1>2, <2>1, <3>1, KeypadAssumption DEF Left, Abs
      <4> QED
        BY <4>1, <4>2
    <3>2. CASE Abs(delta[z]) > round /\ delta[z] > 0
      <4>1. amp'[z].vol = Up(amp[z].vol)
        BY <1>2, <2>1, <3>2 DEF Abs, ZoneState
      <4>2. /\ Left(delta[z], round) = delta[z] - round
            /\ Left(delta[z], round') = delta[z] - round - 1
        BY <1>2, <2>1, <3>2, KeypadAssumption DEF Left, Abs
      <4>3. Pos(amp[z].vol) <= MaxVol
        BY <2>1, <2>2, <2>3, <3>2, <4>2, KeypadAssumption DEF OnTheWay, Positions, Abs
      <4>4. Pos(amp'[z].vol) = Pos(amp[z].vol) + 1
        BY <2>1, <4>1, <4>3, UpIsOneStep
      <4> QED
        BY <2>1, <2>3, <4>2, <4>4, KeypadAssumption DEF Positions
    <3>3. CASE Abs(delta[z]) > round /\ ~(delta[z] > 0)
      <4>1. amp'[z].vol = Down(amp[z].vol)
        BY <1>2, <2>1, <3>3 DEF Abs, ZoneState
      <4>2. /\ Left(delta[z], round) = delta[z] + round
            /\ Left(delta[z], round') = delta[z] + round + 1
        BY <1>2, <2>1, <3>3, KeypadAssumption DEF Left, Abs
      <4>3. Pos(amp[z].vol) >= 1
        BY <2>1, <2>2, <2>3, <3>3, <4>2, KeypadAssumption DEF OnTheWay, Positions, Abs
      <4>4. Pos(amp'[z].vol) = Pos(amp[z].vol) - 1
        BY <2>1, <4>1, <4>3, DownIsOneStep
      <4> QED
        BY <2>1, <2>3, <4>2, <4>4, KeypadAssumption DEF Positions
    <3> QED
      BY <2>1, <3>1, <3>2, <3>3, KeypadAssumption DEF Abs
  <2> QED
    BY <1>2, <1>3, <2>2, <2>4 DEF OnTheWay
<1> QED
  BY <1>4, <1>5, <1>6, <1>7 DEF Rest

LEMMA TurnsDoneRest ==
  ASSUME Inv, TypeOK', TurnsDone
  PROVE  Rest'
<1>1. TypeOK /\ RequestInHand /\ Steps /\ Truth /\ Way
  BY DEF Inv
<1>2. /\ pc = "turn" /\ round = Rounds /\ pc' = "print" /\ round' = 0
      /\ ui' = [ui EXCEPT !.grpvol = GroupVolume]
      /\ UNCHANGED <<amp, cable, page, req, todo, delta, quiet>>
  BY DEF TurnsDone
<1>3. coherent' => cable' /\ table' = amp'
  BY <1>1, <1>2, QueryIsTrue DEF TurnsDone
<1>4. /\ ui'.isgrp = ui.isgrp /\ ui'.mask = ui.mask /\ ui'.zone = ui.zone
      /\ Form' = Form /\ Target' = Target /\ Target \subseteq Zones
  BY <1>1, <1>2, TargetTypes DEF TypeOK, Ui, Form, Target
<1>5. RequestInHand' /\ Steps' /\ Truth' /\ Way' /\ Informed'
  BY <1>1, <1>2, <1>3, KeypadAssumption
     DEF RequestInHand, ToVolume, Steps, Truth, Way, Informed
<1>6. VolumeReached'
  <2> SUFFICES ASSUME quiet PROVE VolumeReached'
    BY <1>2 DEF VolumeReached
  <2>1. \A z \in Target : Display(amp[z].vol) = Form.vol
    <3> SUFFICES ASSUME NEW z \in Target
                 PROVE  Display(amp[z].vol) = Form.vol
      OBVIOUS
    <3>1. z \in Zones /\ amp[z].vol \in HwVolumes /\ delta[z] \in Int /\ round \in Nat
      BY <1>1, <1>4 DEF TypeOK, ZoneState
    <3>2. Left(delta[z], round) = 0
      BY <1>1, <1>2, <3>1, RoundsAreEnough DEF Left, Abs
    <3>3. Pos(amp[z].vol) \in Positions /\ Display(amp[z].vol) = Shows(Pos(amp[z].vol))
      BY <3>1, ScaleIsALine
    <3>4. OnTheWay(z)
      BY <1>1, <1>2 DEF Way
    <3> QED
      BY <3>2, <3>3, <3>4, KeypadAssumption DEF OnTheWay, Positions
  <2>2. coherent' /\ ui.isgrp /\ ui.mask # {} => Display(ui'.grpvol) = Form.vol
    <3> SUFFICES ASSUME coherent', ui.isgrp, ui.mask # {}
                 PROVE  Display(ui'.grpvol) = Form.vol
      OBVIOUS
    <3> DEFINE near == {z \in ui.mask : Abs(Display(table'[z].vol) - Form.vol) < 2}
               last == CHOOSE x \in near : \A y \in near : y <= x
    <3>1. Form.vol \in 0..MaxVol
      BY <1>1, <1>2 DEF RequestInHand, ToVolume
    <3>2. \A z \in ui.mask : Display(table'[z].vol) = Form.vol
      BY <1>2, <1>3, <2>1 DEF Target
    <3>3. near = ui.mask
      BY <3>1, <3>2 DEF Abs
    <3>4. last \in ui.mask
      BY <1>1, <3>3, LastOfZones DEF TypeOK, Ui
    <3>5. GroupVolume = Hw(Display(table'[last].vol))
      BY <3>3 DEF GroupVolume
    <3>6. ui'.grpvol = GroupVolume
      BY <1>1, <1>2 DEF TypeOK, Ui
    <3> QED
      BY <3>1, <3>2, <3>4, <3>5, <3>6, HwShows
  <2> QED
    BY <1>2, <1>4, <2>1, <2>2 DEF VolumeReached
<1> QED
  BY <1>5, <1>6 DEF Rest

LEMMA PrintRest ==
  ASSUME Inv, PrintKeypad
  PROVE  Rest'
<1>1. /\ pc = "print" /\ pc' = "idle" /\ quiet' = FALSE
      /\ delta' = [z \in Zones |-> 0]
      /\ UNCHANGED <<amp, cable, table, ui, round, coherent>>
  BY DEF PrintKeypad, env
<1>2. Steps'
  BY <1>1, KeypadAssumption DEF Inv, Steps
<1> QED
  BY <1>1, <1>2
     DEF Inv, Rest, RequestInHand, ToVolume, Truth, Way, Informed, VolumeReached

LEMMA DisturbedRest ==
  ASSUME Inv, Disturbed
  PROVE  Rest'
<1>1. /\ quiet' = FALSE /\ coherent' = FALSE
      /\ UNCHANGED <<ui, page, pc, req, todo, delta, round>>
  BY DEF Disturbed
<1>2. RequestInHand' /\ Steps'
  BY <1>1 DEF Inv, RequestInHand, ToVolume, Steps, Form, Shown, Meant, Target
<1> QED
  BY <1>1, <1>2 DEF Rest, Truth, Way, Informed, VolumeReached

-----------------------------------------------------------------------------
(***************************************************************************)
(* The theorems.                                                           *)
(***************************************************************************)
LEMMA InvInit == Init => Inv
<1> SUFFICES ASSUME Init PROVE Inv
  OBVIOUS
<1>1. TypeOK
  BY TypeInit
<1>2. pc = "idle" /\ quiet = FALSE /\ round = 0 /\ delta = [z \in Zones |-> 0]
  BY DEF Init
<1>3. Steps
  BY <1>2, KeypadAssumption DEF Steps
<1>4. Truth
  <2>1. PICK k \in IF cable THEN 0..MaxZones ELSE {0} :
          /\ table = [z \in Zones |-> IF z <= k THEN amp[z] ELSE Blank]
          /\ coherent = (k = MaxZones)
    BY DEF Init
  <2>2. k = MaxZones => cable /\ table = [z \in Zones |-> amp[z]]
    BY <2>1, KeypadAssumption DEF Zones
  <2> QED
    BY <1>1, <1>2, <2>1, <2>2 DEF Truth, TypeOK
<1> QED
  BY <1>1, <1>2, <1>3, <1>4 DEF Inv, RequestInHand, ToVolume, Way, Informed, VolumeReached

LEMMA InvStep == Inv /\ [Next]_vars => Inv'
<1> SUFFICES ASSUME Inv, [Next]_vars PROVE Inv'
  OBVIOUS
<1>1. TypeOK'
  BY TypeStep DEF Inv
<1>2. Rest'
  <2>1. CASE UNCHANGED vars
    BY <2>1 DEF vars, env, Inv, Rest, RequestInHand, ToVolume, Steps, Truth, Way, OnTheWay,
                Informed, VolumeReached, Form, Shown, Meant, Target
  <2>2. CASE WallKeypad \/ Cable
    BY <2>2, DisturbedRest DEF WallKeypad, Cable
  <2> QED
    BY <1>1, <2>1, <2>2, SubmitRest, FirstRest, ButtonsRest, SelectZoneRest, DropDownRest,
       SendRest, RefreshRest, VolumeRest, TurnRest, TurnsDoneRest, PrintRest DEF Next, Answer
<1> QED
  BY <1>1, <1>2 DEF Inv, Rest

LEMMA Invariance == Spec => []Inv
BY InvInit, InvStep, PTL DEF Spec

\* The state of the keypad page stays in its type.
THEOREM KeypadTypeCorrectness == Spec => []TypeOK
<1>1. Inv => TypeOK
  BY DEF Inv
<1> QED
  BY <1>1, Invariance, PTL

\* Whatever the scale, the volume asked for is reached from wherever a zone was,
\* by one zone in as many steps as were worked out and by a group in the rounds
\* its loop makes, if nothing comes in between.
THEOREM VolumesAreReached == Spec => []VolumeReached
<1>1. Inv => VolumeReached
  BY DEF Inv
<1> QED
  BY <1>1, Invariance, PTL

\* However many answers are cut short, or come so late that they are taken for
\* the next, the firmware's table is what the amplifier has from the next full
\* answer on that nothing older came before, and until something the table is
\* not told of.
THEOREM TheTableStaysTrue == Spec => []TableIsTrue
<1>1. Inv => TableIsTrue
  BY DEF Inv, Truth, TableIsTrue
<1> QED
  BY <1>1, Invariance, PTL

LEMMA SentToOne ==
  ASSUME Inv, Send
  PROVE  \E z \in todo.zones :
           /\ z \in Zones
           /\ todo.cmd \in Command =>
                amp' = IF cable THEN [amp EXCEPT ![z] = Commanded(@, todo.cmd)] ELSE amp
           /\ todo.cmd \notin Command => \A x \in Zones : amp'[x].src = amp[x].src
<1>1. /\ pc = "send" /\ todo.zones # {} /\ todo.zones \in SUBSET Zones
      /\ todo.cmd \in Sendable /\ TypeOK
  BY DEF Inv, TypeOK, RequestInHand, Send
<1> DEFINE z == CHOOSE x \in todo.zones : \A y \in todo.zones : x <= y
<1>2. z \in todo.zones /\ z \in Zones
  BY <1>1, LastOfZones
<1>3. amp' \in IF cable THEN Carried(z, todo.cmd) ELSE {amp}
  BY DEF Send
<1> QED
  BY <1>1, <1>2, <1>3, CarriedTypes

LEMMA ApartStep ==
  Inv /\ [Next]_vars =>
    [Answer /\ (Send => todo.cmd \in Command)
       => \A z \in Zones : amp'[z] # amp[z] => z \in Meant]_vars
<1> SUFFICES ASSUME Inv, Answer, Send => todo.cmd \in Command, NEW z \in Zones, amp'[z] # amp[z]
             PROVE  z \in Meant
  OBVIOUS
<1>1. TypeOK /\ RequestInHand /\ Steps
  BY DEF Inv
<1>2. CASE Send
  <2>1. PICK x \in todo.zones :
          amp' = IF cable THEN [amp EXCEPT ![x] = Commanded(@, todo.cmd)] ELSE amp
    BY <1>2, SentToOne
  <2>2. z = x
    BY <1>1, <2>1 DEF TypeOK
  <2> QED
    BY <1>1, <1>2, <2>2 DEF Send, RequestInHand
<1>3. CASE Turn
  <2>1. pc = "turn" /\ Abs(delta[z]) > round
    BY <1>1, <1>3 DEF Turn, TypeOK, Abs
  <2>2. z \in Target
    BY <1>1, <2>1 DEF Steps, TypeOK, Abs
  <2> QED
    BY <1>1, <2>1, <2>2 DEF RequestInHand, ToVolume, Target, Meant
<1>4. CASE ~Send /\ ~Turn
  BY <1>4 DEF Answer, First, AllPower, Power, Mute, Status, SelectZone, ToggleZone, GroupButton,
              DropDown, Quietly, Process, Refresh, Volume, TurnsDone, PrintKeypad
<1> QED
  BY <1>2, <1>3, <1>4

\* However many sessions there are, a request reaches the zones its own page has
\* selected and no others, with every command that the keypad has.
THEOREM SessionsStayApart == Spec => SessionsAreApart
BY Invariance, ApartStep, PTL DEF Spec, SessionsAreApart

LEMMA InformedStep ==
  Inv /\ [Next]_vars =>
    [\A z \in Zones : (quiet /\ Send /\ amp'[z].src # amp[z].src)
        => /\ Form.btn = "Drop"
           /\ ui.isgrp \/ Shown.zsrc = amp[z].src]_vars
<1> SUFFICES ASSUME Inv, Send, quiet, NEW z \in Zones, amp'[z].src # amp[z].src
             PROVE  Form.btn = "Drop" /\ (ui.isgrp \/ Shown.zsrc = amp[z].src)
  OBVIOUS
<1>1. TypeOK /\ RequestInHand /\ Informed /\ pc = "send"
  BY DEF Inv, Send
<1>2. PICK x \in todo.zones :
        /\ todo.cmd \in Command =>
             amp' = IF cable THEN [amp EXCEPT ![x] = Commanded(@, todo.cmd)] ELSE amp
        /\ todo.cmd \notin Command => \A y \in Zones : amp'[y].src = amp[y].src
  BY SentToOne
<1>3. todo.cmd \in Command /\ amp[z] \in ZoneState
  BY <1>1, <1>2 DEF TypeOK
<1>4. z = x /\ amp'[z] = Commanded(amp[z], todo.cmd)
  BY <1>1, <1>2, <1>3 DEF TypeOK
<1>5. todo.cmd.kind = "src"
  BY <1>3, <1>4, CommandedTypes
<1>6. todo.cmd.src # amp[z].src
  BY <1>3, <1>4, <1>5 DEF Commanded, ZoneState
<1>7. todo.then = "volume" /\ (ui.isgrp \/ (todo.zones = {Shown.zone} /\ Shown.zsrc = amp[Shown.zone].src))
  BY <1>1, <1>2, <1>4, <1>5, <1>6 DEF Informed
<1>8. Form.btn = "Drop"
  BY <1>1, <1>7 DEF RequestInHand, ToVolume
<1> QED
  BY <1>2, <1>4, <1>7, <1>8

\* A source changes only by a choice from the lists, and for a single zone only
\* by one made from a page that shows the source the zone has.
THEOREM ChoicesStayInformed == Spec => ChoicesAreInformed
BY Invariance, InformedStep, PTL DEF Spec, ChoicesAreInformed
=============================================================================
