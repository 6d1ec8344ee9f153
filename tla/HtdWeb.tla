------------------------------- MODULE HtdWeb -------------------------------
(***************************************************************************)
(* The web server of the htd firmware (src/htd/htd.c): several web tasks   *)
(* run web_request_callback() with one common buffer, one serial line and  *)
(* one flash page.  Tasks change over only in nice(), so what lies between *)
(* two calls of it is one step here.  The power may fail at any time, and  *)
(* a client may stop sending or reading, or send more than it announced.   *)
(* What a request does to the amplifier is in HtdKeypad; here it is a      *)
(* number of exchanges.                                                    *)
(***************************************************************************)
EXTENDS Naturals, FiniteSets

CONSTANTS
  Tasks,        \* web tasks of the firmware
  Main,         \* the task of htd(), which saves the names of a new device
  Cells,        \* names of zones and sources, 1..Cells in the flash page
  Values,       \* the names there may be
  Default,      \* stands for "Zone i" and "Src i"
  Lost,         \* what a restart finds of names that were not saved
  Pieces,       \* the form of the setup page, which arrives in pieces
  Buffer,       \* pieces that sbuffer has room for
  Sent,         \* pieces that a client sends at most
  Erases,       \* flsh_clr is compiled in: neither XPORT nor M100 is defined
  MaxExchanges, MaxRequests, MaxCuts \* bounds

ASSUME WebAssumption ==
  /\ Main \notin Tasks /\ Default \in Values
  /\ Cells \in Nat \ {0} /\ Pieces \in Nat \ {0}
  /\ Buffer \in Nat \ {0} /\ Sent \in Nat \ {0} /\ Erases \in BOOLEAN
  /\ MaxExchanges \in Nat \ {0} /\ MaxRequests \in Nat /\ MaxCuts \in Nat
  /\ Lost \notin [1..Cells -> Values]

VARIABLES
  lock,     \* lock
  sbuffer,  \* how many pieces of each task's request sbuffer holds
  names,    \* g_zoneNames and g_srcNames
  flash,    \* the cells of the flash page
  key,      \* is g_htdKey in the flash page?
  pc,       \* where each task is
  form,     \* what its client asks for
  got,      \* pieces it has received
  astray,   \* bytes past the end of sbuffer have overwritten what is in use
  late,     \* its 15 ticks are over
  conn,     \* w->t->State == ESTABLISHED
  pending,  \* w->t->XmitFifo is not empty
  left,     \* exchanges with the amplifier it has to do
  pos,      \* cells it has written in writeSettingsToFlash()
  requests, cuts \* counted for the bounds

net == <<form, got, late, conn, pending, left>>
store == <<names, flash, key>>
vars == <<lock, sbuffer, astray, store, pc, net, pos, requests, cuts>>

Cell == 1..Cells
Erased == "erased"
Garbled == "garbled"
Defaults == [c \in Cell |-> Default]

Stored == Values \union {Erased, Garbled}

\* No form tags, the buttons of the keypad, or a name on the setup page; of a
\* size that the client announces (Content-Length), which need not be true.
Forms == [kind: {"look"}, size: {0}]
  \union [kind: {"keypad"}, size: {1, Sent}]
  \union [kind: {"rename"}, size: {Pieces}, cell: Cell, name: Values]

Holding == {"read", "serial", "save", "drain"}

TypeOK ==
  /\ lock \in BOOLEAN
  /\ sbuffer \in [Tasks -> 0..Buffer] /\ astray \in BOOLEAN
  /\ names \in [Cell -> Stored] /\ flash \in [Cell -> Stored] /\ key \in BOOLEAN
  /\ pc \in [Tasks \union {Main} -> {"none", "enter"} \union Holding]
  /\ form \in [Tasks -> Forms] /\ got \in [Tasks -> 0..Sent]
  /\ late \in [Tasks -> BOOLEAN] /\ conn \in [Tasks -> BOOLEAN]
  /\ pending \in [Tasks -> BOOLEAN]
  /\ left \in [Tasks -> 0..MaxExchanges]
  /\ pos \in [Tasks \union {Main} -> 0..Cells]
  /\ requests \in 0..MaxRequests /\ cuts \in 0..MaxCuts
-----------------------------------------------------------------------------
Look == [kind |-> "look", size |-> 0]

AllOff == [t \in Tasks |-> FALSE]
AllZero == [t \in Tasks |-> 0]

\* After a start; a page without the key is that of a new device, whose
\* default names are saved before the pages are registered.
Init ==
  /\ lock = FALSE /\ sbuffer = AllZero /\ astray = FALSE
  /\ names \in [Cell -> Values]
  /\ \/ key = TRUE /\ flash = names
     \/ key = FALSE /\ names = Defaults /\ flash = [c \in Cell |-> Erased]
  /\ pc = [t \in Tasks \union {Main} |-> IF t = Main /\ ~key THEN "save" ELSE "none"]
  /\ form = [t \in Tasks |-> Look] /\ got = AllZero
  /\ late = AllOff /\ conn = AllOff /\ pending = AllOff /\ left = AllZero
  /\ pos = [t \in Tasks \union {Main} |-> 0]
  /\ requests = 0 /\ cuts = 0

\* A client asks for a page; the pages are registered once htd() is ready.
Request(t, f) ==
  /\ pc[t] = "none" /\ pc[Main] = "none" /\ ~astray /\ requests < MaxRequests
  /\ pc' = [pc EXCEPT ![t] = "enter"]
  /\ form' = [form EXCEPT ![t] = f]
  /\ conn' = [conn EXCEPT ![t] = TRUE]
  /\ requests' = requests + 1
  /\ UNCHANGED <<lock, sbuffer, astray, store, got, late, pending, left, pos, cuts>>

\* while (lock) nice(); lock = 1; and the buffer is cleared.
BadUnlocked == TRUE
Unlocked == ~lock

BadCleared == sbuffer
Cleared == AllZero

Enter(t) ==
  /\ pc[t] = "enter" /\ Unlocked
  /\ lock' = TRUE
  /\ pc' = [pc EXCEPT ![t] = "read"]
  /\ sbuffer' = Cleared
  /\ UNCHANGED <<astray, store, net, pos, requests, cuts>>

\* The callback returns, and the web server closes the connection.
Return(t) ==
  /\ pc' = [pc EXCEPT ![t] = "none"]
  /\ conn' = [conn EXCEPT ![t] = FALSE]
  /\ pending' = [pending EXCEPT ![t] = FALSE]
  /\ form' = [form EXCEPT ![t] = Look] \* and with it the task's locals
  /\ got' = [got EXCEPT ![t] = 0]
  /\ late' = [late EXCEPT ![t] = FALSE]

\* MBufGet() has nothing: the lock is given back in the same step.
NoBuffer(t) ==
  /\ pc[t] = "enter" /\ Unlocked
  /\ Return(t)
  /\ UNCHANGED <<lock, sbuffer, astray, store, left, pos, requests, cuts>>

BadTimedOut(t) == FALSE
TimedOut(t) == late[t]

(***************************************************************************)
(* One turn of the loop that reads the form tags: it takes all that has    *)
(* come, be it more than was announced or than sbuffer holds, and gives up *)
(* when late.  What lies behind sbuffer may not matter; or the firmware    *)
(* goes astray, and what it does from then to the next power cut is not    *)
(* modelled.                                                               *)
(***************************************************************************)
Kept(n) == IF n <= Buffer THEN n ELSE Buffer

Read(t) ==
  /\ pc[t] = "read" /\ got[t] < form[t].size
  /\ \E n \in (got[t])..Sent :
       /\ n > got[t] => conn[t]
       /\ sbuffer' = [sbuffer EXCEPT ![t] = Kept(@ + n - got[t])]
       /\ astray' \in IF n > Buffer /\ n > got[t] THEN BOOLEAN ELSE {FALSE}
       /\ IF TimedOut(t)
          THEN lock' = FALSE /\ Return(t)
          ELSE got' = [got EXCEPT ![t] = n] /\ UNCHANGED <<lock, pc, conn, pending, form, late>>
  /\ UNCHANGED <<store, left, pos, requests, cuts>>

TimePasses(t) ==
  /\ pc[t] = "read" /\ ~late[t] /\ ~astray
  /\ late' = [late EXCEPT ![t] = TRUE]
  /\ UNCHANGED <<lock, sbuffer, astray, store, pc, form, got, conn, pending, left, pos,
                 requests, cuts>>

\* What every page does once it has its form tags: http_reply(200).
Answer(t, next) ==
  /\ pc[t] = "read" /\ got[t] >= form[t].size
  /\ pc' = [pc EXCEPT ![t] = next]
  /\ pending' = [pending EXCEPT ![t] = TRUE]
  /\ UNCHANGED <<lock, sbuffer, astray, form, got, late, conn, pos, requests, cuts>>

Page(t) ==
  /\ form[t].kind = "look"
  /\ Answer(t, "drain") /\ UNCHANGED <<store, left>>

\* process_form_tags_keypad(): one exchange on the serial line, or more.
Keypad(t) ==
  /\ form[t].kind = "keypad"
  /\ Answer(t, "serial") /\ UNCHANGED store
  /\ \E n \in 1..MaxExchanges : left' = [left EXCEPT ![t] = n]

\* raw_gflash_clr()
Clear == IF Erases THEN flash' = [c \in Cell |-> Erased] /\ key' = FALSE
         ELSE UNCHANGED <<flash, key>>

\* process_form_tags_options(): the name is set, and the page cleared.  (It
\* also selects the zone or source that has been named, as any page does.)
Rename(t) ==
  /\ form[t].kind = "rename"
  /\ Answer(t, "save") /\ UNCHANGED left
  /\ names' = [names EXCEPT ![form[t].cell] = form[t].name]
  /\ Clear

\* A frame and its answer, for which serialRcv() waits 500 ticks at most.
Exchange(t) ==
  /\ pc[t] = "serial"
  /\ left' = [left EXCEPT ![t] = @ - 1]
  /\ pc' = [pc EXCEPT ![t] = IF left[t] = 1 THEN "drain" ELSE @]
  /\ UNCHANGED <<lock, sbuffer, astray, store, form, got, late, conn, pending, pos,
                 requests, cuts>>

\* raw_gwrite() without an erase can only take bits away.
Written(old, new) == IF old \in {Erased, new} THEN new ELSE Garbled

BadMoreNames(p) == pos[p] <= Cells
MoreNames(p) == pos[p] < Cells

WriteName(p) ==
  /\ pc[p] = "save" /\ MoreNames(p)
  /\ pos' = [pos EXCEPT ![p] = @ + 1]
  /\ flash' = [flash EXCEPT ![pos'[p]] = Written(@, names[pos'[p]])]
  /\ UNCHANGED <<lock, sbuffer, astray, names, key, pc, net, requests, cuts>>

WriteKey(p) ==
  /\ pc[p] = "save" /\ pos[p] = Cells
  /\ key' = TRUE
  /\ pos' = [pos EXCEPT ![p] = 0]
  /\ pc' = [pc EXCEPT ![p] = IF p = Main THEN "none" ELSE "drain"]
  /\ UNCHANGED <<lock, sbuffer, astray, names, flash, net, requests, cuts>>

\* The answer is on its way, or there is nobody to take it.
Leave(t) ==
  /\ pc[t] = "drain" /\ ~(conn[t] /\ pending[t])
  /\ lock' = FALSE /\ Return(t)
  /\ UNCHANGED <<sbuffer, astray, store, left, pos, requests, cuts>>

ClientReads(t) ==
  /\ conn[t] /\ pending[t]
  /\ pending' = [pending EXCEPT ![t] = FALSE]
  /\ UNCHANGED <<lock, sbuffer, astray, store, pc, form, got, late, conn, left, pos,
                 requests, cuts>>

ClientLeaves(t) ==
  /\ conn[t]
  /\ conn' = [conn EXCEPT ![t] = FALSE]
  /\ UNCHANGED <<lock, sbuffer, astray, store, pc, form, got, late, pending, left, pos,
                 requests, cuts>>

\* The power fails, and htd() starts again: readSettingsFromFlash(), and
\* initializeFlashDefaults() on a page without its key.
Restart ==
  /\ cuts < MaxCuts /\ cuts' = cuts + 1
  /\ lock' = FALSE /\ sbuffer' = AllZero /\ astray' = FALSE
  /\ IF key THEN names' = flash /\ UNCHANGED <<flash, key>>
            ELSE names' = Defaults /\ Clear
  /\ pc' = [t \in Tasks \union {Main} |-> IF t = Main /\ ~key THEN "save" ELSE "none"]
  /\ form' = [t \in Tasks |-> Look] /\ got' = AllZero
  /\ late' = AllOff /\ conn' = AllOff /\ pending' = AllOff /\ left' = AllZero
  /\ pos' = [t \in Tasks \union {Main} |-> 0]
  /\ UNCHANGED requests

Works(t) ==
  /\ ~astray
  /\ \/ Enter(t) \/ NoBuffer(t) \/ Read(t) \/ Page(t) \/ Keypad(t) \/ Rename(t)
     \/ Exchange(t) \/ Leave(t)
Saves(p) == ~astray /\ (WriteName(p) \/ WriteKey(p))

Next ==
  \/ \E t \in Tasks : \/ \E f \in Forms : Request(t, f)
                      \/ Works(t) \/ TimePasses(t)
                      \/ ClientReads(t) \/ ClientLeaves(t)
  \/ \E p \in Tasks \union {Main} : Saves(p)
  \/ Restart

\* nice() gives every task its turn, and the clock runs.  Nothing is assumed
\* of the clients.
Fairness ==
  /\ \A t \in Tasks : WF_vars(Works(t)) /\ WF_vars(TimePasses(t))
  /\ \A p \in Tasks \union {Main} : WF_vars(Saves(p))

Spec == Init /\ [][Next]_vars /\ Fairness
-----------------------------------------------------------------------------
\* The common buffer holds the form of the task that goes on to use it, whole
\* unless it is longer than the buffer, and nothing of another's: whatever else
\* this client or those before it have sent, and unless the firmware is astray.
FormIsMine ==
  \A t \in Tasks : (pc[t] = "read" /\ got[t] >= form[t].size /\ ~astray) =>
    /\ sbuffer[t] >= form[t].size \/ form[t].size > Buffer
    /\ \A x \in Tasks \ {t} : sbuffer[x] = 0

\* A restart finds the names of the last finished save, or a new device; two
\* saves never mix, and none is left undone: in a firmware that erases.
Store == INSTANCE SettingsStore WITH
  Cells <- Cell, kept <- IF key THEN flash ELSE Lost
ImplementsStore == Store!Spec

\* A task that has the lock gives it back, or has only its client left to wait
\* for: however the client sends, and whatever the amplifier answers; unless the
\* firmware has gone astray.
OnlyTheClientHoldsUp ==
  \A t \in Tasks :
    (pc[t] \in Holding) ~> \/ pc[t] \notin Holding \/ astray
                           \/ pc[t] = "drain" /\ conn[t] /\ pending[t]
=============================================================================
