---------------------------- MODULE HtdWebProofs ----------------------------
(***************************************************************************)
(* What holds of the web tasks and of the settings for any number of       *)
(* tasks, names, requests and power cuts: the common buffer is one task's  *)
(* at a time, and the flash page is a store in the sense of SettingsStore. *)
(***************************************************************************)
EXTENDS HtdWeb, TLAPS

-----------------------------------------------------------------------------
(***************************************************************************)
(* The inductive invariant.  A task that holds the lock is alone with the  *)
(* buffer, the serial line and the flash page; the buffer holds what it    *)
(* has received, as far as there is room; and in a firmware that erases    *)
(* the page has the key, and the names, unless a save is going on, which   *)
(* has written as many names as it has gone through.                       *)
(***************************************************************************)
Savers == Tasks \union {Main}

OneHolder ==
  /\ pc[Main] \in {"none", "save"}
  /\ pc[Main] = "save" => \A t \in Tasks : pc[t] = "none"
  /\ \A t \in Tasks : pc[t] \in Holding =>
       lock /\ \A u \in Tasks \ {t} : pc[u] \notin Holding

Received ==
  \A t \in Tasks :
    /\ pc[t] \in {"none", "enter"} => got[t] = 0
    /\ pc[t] = "read" => sbuffer = [x \in Tasks |-> IF x = t THEN Kept(got[t]) ELSE 0]
    /\ pc[t] = "serial" => left[t] >= 1

Saved ==
  /\ names \in [Cell -> Values]
  /\ key => flash = names /\ \A p \in Savers : pc[p] # "save"
  /\ ~key => \E p \in Savers : pc[p] = "save"
  /\ \A p \in Savers : pc[p] = "save" =>
       \A c \in Cell : flash[c] = IF c <= pos[p] THEN names[c] ELSE Erased
  /\ \A p \in Savers : pc[p] # "save" => pos[p] = 0

Saving == Erases => Saved

Inv == TypeOK /\ OneHolder /\ Received /\ Saving

LEMMA FormTypes ==
  ASSUME NEW f \in Forms
  PROVE  /\ f.size \in Nat
         /\ f.kind = "rename" => f.cell \in Cell /\ f.name \in Values
BY WebAssumption DEF Forms

LEMMA LookIsAForm == Look \in Forms
BY DEF Look, Forms

LEMMA BufferIsKept ==
  ASSUME NEW g \in Nat, NEW n \in Nat, g <= n
  PROVE  /\ Kept(n) \in 0..Buffer /\ Kept(0) = 0
         /\ Kept(Kept(g) + n - g) = Kept(n)
         /\ n <= Buffer => Kept(n) = n
         /\ n > Buffer => Kept(n) = Buffer
BY WebAssumption DEF Kept

LEMMA InvInit == Init => Inv
<1> SUFFICES ASSUME Init PROVE Inv
  OBVIOUS
<1>1. Defaults \in [Cell -> Values]
  BY WebAssumption DEF Defaults
<1>2. TypeOK
  <2>1. form \in [Tasks -> Forms]
    BY LookIsAForm DEF Init
  <2>2. /\ got \in [Tasks -> 0..Sent] /\ sbuffer \in [Tasks -> 0..Buffer]
        /\ left \in [Tasks -> 0..MaxExchanges] /\ pos \in [Tasks \union {Main} -> 0..Cells]
    BY WebAssumption DEF Init, AllZero
  <2>3. pc \in [Tasks \union {Main} -> {"none", "enter"} \union Holding]
    BY DEF Init, Holding
  <2>4. names \in [Cell -> Stored] /\ flash \in [Cell -> Stored]
    BY <1>1 DEF Init, Stored
  <2>5. lock \in BOOLEAN /\ key \in BOOLEAN /\ astray \in BOOLEAN
    BY DEF Init
  <2>6. late \in [Tasks -> BOOLEAN] /\ conn \in [Tasks -> BOOLEAN] /\ pending \in [Tasks -> BOOLEAN]
    BY DEF Init, AllOff
  <2>7. requests \in 0..MaxRequests /\ cuts \in 0..MaxCuts
    BY WebAssumption DEF Init
  <2> QED
    BY <2>1, <2>2, <2>3, <2>4, <2>5, <2>6, <2>7 DEF TypeOK
<1>3. OneHolder
  BY WebAssumption DEF Init, OneHolder, Holding
<1>4. Received
  BY WebAssumption DEF Init, Received, AllZero
<1>5. Saving
  BY <1>1, <1>2, WebAssumption DEF Init, Saving, Saved, Savers, Cell
<1> QED
  BY <1>2, <1>3, <1>4, <1>5 DEF Inv

-----------------------------------------------------------------------------
(***************************************************************************)
(* Steps.                                                                  *)
(***************************************************************************)
LEMMA TasksArePlaces ==
  /\ Tasks \subseteq Savers /\ Main \in Savers /\ Main \notin Tasks
  /\ \A p \in Savers : p = Main \/ p \in Tasks
BY WebAssumption DEF Savers

\* A step of one task that takes or gives back nothing but what is its own, and
\* leaves the settings alone.
LEMMA OwnStep ==
  ASSUME Inv, TypeOK', NEW t \in Tasks, NEW to \in {"none", "enter", "read", "serial", "drain"},
         pc' = [pc EXCEPT ![t] = to], pc[t] # "save", pc[t] = "none" => pc[Main] = "none",
         UNCHANGED <<names, flash, key, pos>>,
         to \in Holding => /\ pc[t] \in Holding \/ ~lock
                           /\ lock',
         \/ lock' = lock
         \/ pc[t] \in Holding \/ ~lock
  PROVE  OneHolder' /\ Saving'
<1>1. /\ TypeOK /\ OneHolder /\ Saving
      /\ pc'[t] = to /\ \A p \in Savers : p # t => pc'[p] = pc[p]
  BY TasksArePlaces DEF Inv, TypeOK, Savers
<1>2. pc[Main] # "save" /\ pc'[Main] = pc[Main]
  BY <1>1, TasksArePlaces DEF OneHolder, Holding
<1>3. OneHolder'
  BY <1>1, <1>2, TasksArePlaces DEF OneHolder, Holding, TypeOK
<1>4. Saving'
  <2>1. \A p \in Savers : pc'[p] = "save" <=> pc[p] = "save"
    BY <1>1, TasksArePlaces
  <2> QED
    BY <1>1, <2>1 DEF Saving, Saved
<1> QED
  BY <1>3, <1>4

LEMMA RequestStep ==
  ASSUME Inv, NEW t \in Tasks, NEW f \in Forms, Request(t, f)
  PROVE  Inv'
<1>1. TypeOK'
  BY WebAssumption DEF Inv, TypeOK, Request, store
<1>2. OneHolder' /\ Saving'
  BY <1>1, OwnStep DEF Request, store, Holding
<1>3. Received'
  BY DEF Inv, TypeOK, Received, Request
<1> QED
  BY <1>1, <1>2, <1>3 DEF Inv

LEMMA EnterStep ==
  ASSUME Inv, NEW t \in Tasks, Enter(t)
  PROVE  Inv'
<1>1. TypeOK'
  BY WebAssumption DEF Inv, TypeOK, Enter, store, net, Cleared, AllZero, Holding
<1>2. OneHolder' /\ Saving'
  BY <1>1, OwnStep DEF Enter, store, Unlocked, Inv, TypeOK
<1>3. Received'
  <2>1. ASSUME NEW u \in Tasks, u # t
        PROVE  pc'[u] = pc[u] /\ pc[u] # "read"
    BY <2>1 DEF Inv, TypeOK, Enter, Unlocked, OneHolder, Holding
  <2>2. pc'[t] = "read" /\ got[t] = 0
    BY DEF Inv, TypeOK, Received, Enter
  <2>3. Kept(0) = 0
    BY BufferIsKept
  <2> QED
    BY <2>1, <2>2, <2>3 DEF Inv, Received, Enter, Cleared, AllZero, net
<1> QED
  BY <1>1, <1>2, <1>3 DEF Inv

LEMMA ReturnTypes ==
  ASSUME TypeOK, NEW t \in Tasks, Return(t)
  PROVE  /\ pc' \in [Tasks \union {Main} -> {"none", "enter"} \union Holding]
         /\ conn' \in [Tasks -> BOOLEAN] /\ pending' \in [Tasks -> BOOLEAN]
         /\ late' \in [Tasks -> BOOLEAN]
         /\ form' \in [Tasks -> Forms] /\ got' \in [Tasks -> 0..Sent]
BY WebAssumption, LookIsAForm DEF Return, TypeOK

LEMMA ReturnReceived ==
  ASSUME TypeOK, Received, NEW t \in Tasks, Return(t), UNCHANGED left,
         \A u \in Tasks \ {t} : pc[u] = "read" => sbuffer' = sbuffer
  PROVE  Received'
BY DEF Return, Received, TypeOK

LEMMA ReadStep ==
  ASSUME Inv, NEW t \in Tasks, Read(t)
  PROVE  Inv'
<1>1. PICK n \in (got[t])..Sent :
        /\ sbuffer' = [sbuffer EXCEPT ![t] = Kept(@ + n - got[t])]
        /\ astray' \in IF n > Buffer /\ n > got[t] THEN BOOLEAN ELSE {FALSE}
        /\ IF TimedOut(t)
           THEN lock' = FALSE /\ Return(t)
           ELSE got' = [got EXCEPT ![t] = n] /\ UNCHANGED <<lock, pc, conn, pending, form, late>>
  BY DEF Read
<1>2. /\ pc[t] = "read" /\ UNCHANGED <<names, flash, key, left, pos, requests, cuts>>
      /\ TypeOK /\ OneHolder /\ Received
  BY DEF Read, store, Inv
<1>3. /\ got[t] \in Nat /\ n \in 0..Sent /\ n \in Nat /\ got[t] <= n
      /\ sbuffer = [x \in Tasks |-> IF x = t THEN Kept(got[t]) ELSE 0]
      /\ \A u \in Tasks \ {t} : pc[u] # "read"
  <2>1. got[t] \in 0..Sent
    BY <1>2 DEF TypeOK
  <2>2. n \in 0..Sent /\ n \in Nat /\ got[t] <= n
    BY <1>1, <2>1, WebAssumption
  <2>3. \A u \in Tasks \ {t} : pc[u] # "read"
    BY <1>2 DEF OneHolder, Holding
  <2> QED
    BY <1>2, <2>1, <2>2, <2>3 DEF Received
<1>4. /\ sbuffer' = [x \in Tasks |-> IF x = t THEN Kept(n) ELSE 0]
      /\ sbuffer' \in [Tasks -> 0..Buffer]
  <2>1. sbuffer[t] = Kept(got[t]) /\ Kept(n) \in 0..Buffer /\ 0 \in 0..Buffer
    <3>1. sbuffer[t] = Kept(got[t])
      BY <1>3
    <3>2. n \in Nat
      BY <1>3
    <3>3. Kept(n) \in 0..Buffer
      BY <3>2, BufferIsKept
    <3>4. 0 \in 0..Buffer
      BY WebAssumption
    <3> QED
      BY <3>1, <3>3, <3>4
  <2>2. Kept(sbuffer[t] + n - got[t]) = Kept(n)
    BY <1>3, <2>1, BufferIsKept
  <2> QED
    BY <1>1, <1>3, <2>1, <2>2
<1>5. TypeOK'
  <2>1. astray' \in BOOLEAN
    BY <1>1
  <2>2. CASE TimedOut(t)
    BY <1>1, <1>2, <1>4, <2>1, <2>2, ReturnTypes DEF TypeOK
  <2>3. CASE ~TimedOut(t)
    BY <1>1, <1>2, <1>3, <1>4, <2>1, <2>3 DEF TypeOK
  <2> QED
    BY <2>2, <2>3
<1>6. CASE TimedOut(t)
  <2>1. OneHolder' /\ Saving'
    BY <1>1, <1>2, <1>5, <1>6, OwnStep DEF Return, Holding
  <2>2. Received'
    BY <1>1, <1>2, <1>3, <1>6, ReturnReceived
  <2> QED
    BY <1>5, <2>1, <2>2 DEF Inv
<1>7. CASE ~TimedOut(t)
  <2>1. OneHolder' /\ Saving'
    BY <1>1, <1>2, <1>7 DEF Inv, OneHolder, Saving, Saved
  <2>2. got'[t] = n /\ \A u \in Tasks \ {t} : got'[u] = got[u]
    BY <1>1, <1>2, <1>7 DEF TypeOK
  <2>3. Received'
    BY <1>1, <1>2, <1>3, <1>4, <1>7, <2>2 DEF Received
  <2> QED
    BY <1>5, <2>1, <2>3 DEF Inv
<1> QED
  BY <1>6, <1>7

\* Page(), Keypad() and the end of Exchange() and Leave().
LEMMA WorkStep ==
  ASSUME Inv, NEW t \in Tasks,
         NoBuffer(t) \/ Page(t) \/ Keypad(t) \/ Exchange(t) \/ Leave(t)
  PROVE  Inv'
<1>1. TypeOK /\ OneHolder /\ Received
  BY DEF Inv
<1>2. CASE NoBuffer(t) \/ Leave(t)
  <2>1. TypeOK'
    BY <1>1, <1>2, ReturnTypes DEF NoBuffer, Leave, TypeOK, store
  <2>2. OneHolder' /\ Saving'
    BY <1>2, <2>1, OwnStep DEF NoBuffer, Leave, Return, Unlocked, Holding, store
  <2>3. Received'
    BY <1>1, <1>2, ReturnReceived DEF NoBuffer, Leave
  <2> QED
    BY <2>1, <2>2, <2>3 DEF Inv
<1>3. CASE Page(t) \/ Keypad(t)
  <2>1. PICK next \in {"drain", "serial"} :
          /\ Answer(t, next) /\ UNCHANGED store
          /\ left' \in [Tasks -> 0..MaxExchanges]
          /\ next = "serial" => left'[t] >= 1
          /\ \A u \in Tasks \ {t} : left'[u] = left[u]
    <3>1. CASE Page(t)
      BY <1>1, <3>1 DEF Page, TypeOK, store
    <3>2. CASE Keypad(t)
      <4>1. PICK n \in 1..MaxExchanges : left' = [left EXCEPT ![t] = n]
        BY <3>2 DEF Keypad
      <4>2. left' \in [Tasks -> 0..MaxExchanges] /\ left'[t] >= 1
        BY <1>1, <4>1, WebAssumption DEF TypeOK
      <4> QED
        BY <1>1, <3>2, <4>1, <4>2 DEF Keypad, TypeOK
    <3> QED
      BY <1>3, <3>1, <3>2
  <2>2. TypeOK'
    BY <1>1, <2>1 DEF Answer, TypeOK, store, Holding
  <2>3. OneHolder' /\ Saving'
    BY <1>1, <2>1, <2>2, OwnStep DEF Answer, store, Holding, OneHolder
  <2>4. Received'
    BY <1>1, <2>1 DEF Answer, Received, TypeOK
  <2> QED
    BY <2>2, <2>3, <2>4 DEF Inv
<1>4. CASE Exchange(t)
  <2>1. left[t] \in 1..MaxExchanges /\ pc[t] = "serial"
    BY <1>1, <1>4 DEF Exchange, Received, TypeOK
  <2>2. /\ left' = [left EXCEPT ![t] = left[t] - 1]
        /\ pc' = [pc EXCEPT ![t] = IF left[t] = 1 THEN "drain" ELSE "serial"]
        /\ UNCHANGED <<lock, sbuffer, astray, store, form, got, late, conn, pending, pos, requests, cuts>>
    BY <1>4, <2>1 DEF Exchange
  <2>3. TypeOK'
    <3>1. left' \in [Tasks -> 0..MaxExchanges]
      BY <1>1, <2>1, <2>2, WebAssumption DEF TypeOK
    <3> QED
      BY <1>1, <2>2, <3>1 DEF TypeOK, store, Holding
  <2>4. OneHolder' /\ Saving'
    BY <1>1, <2>1, <2>2, <2>3, OwnStep DEF store, Holding, OneHolder
  <2>5. Received'
    BY <1>1, <2>1, <2>2 DEF Received, TypeOK
  <2> QED
    BY <2>3, <2>4, <2>5 DEF Inv
<1> QED
  BY <1>2, <1>3, <1>4

LEMMA ClearTypes ==
  ASSUME TypeOK, Clear
  PROVE  flash' \in [Cell -> Stored] /\ key' \in BOOLEAN
BY DEF TypeOK, Clear, Stored

LEMMA RenameStep ==
  ASSUME Inv, NEW t \in Tasks, Rename(t)
  PROVE  Inv' /\ (Erases => key)
<1>1. TypeOK /\ OneHolder /\ Received /\ Saving
  BY DEF Inv
<1>2. /\ pc[t] = "read" /\ pc' = [pc EXCEPT ![t] = "save"]
      /\ pending' = [pending EXCEPT ![t] = TRUE]
      /\ names' = [names EXCEPT ![form[t].cell] = form[t].name]
      /\ Clear
      /\ form[t].kind = "rename"
      /\ UNCHANGED <<lock, sbuffer, astray, form, got, late, conn, left, pos, requests, cuts>>
  BY DEF Rename, Answer
<1>3. \A p \in Savers : p # t => pc[p] # "save" /\ pc'[p] = pc[p]
  BY <1>1, <1>2, TasksArePlaces DEF OneHolder, Holding, TypeOK, Savers
<1>4. Erases => key
  BY <1>1, <1>2, <1>3, TasksArePlaces DEF Saving, Saved
<1>5. TypeOK'
  <2>1. names' \in [Cell -> Stored]
    BY <1>1, <1>2, FormTypes DEF TypeOK, Stored
  <2> QED
    BY <1>1, <1>2, <2>1, ClearTypes DEF TypeOK, Holding
<1>6. pc'[t] = "save"
  BY <1>1, <1>2 DEF TypeOK
<1>7. OneHolder'
  BY <1>1, <1>2, <1>3, <1>6, TasksArePlaces DEF OneHolder, Holding
<1>8. Received'
  BY <1>1, <1>2, <1>3, <1>6, TasksArePlaces DEF Received
<1>9. Saving'
  <2> SUFFICES ASSUME Erases PROVE Saved'
    BY DEF Saving
  <2>1. pos[t] = 0 /\ t \in Savers /\ names \in [Cell -> Values]
    BY <1>1, <1>2, TasksArePlaces DEF Saving, Saved
  <2>2. names' \in [Cell -> Values]
    BY <1>1, <1>2, <2>1, FormTypes DEF TypeOK
  <2>3. flash' = [c \in Cell |-> Erased] /\ ~key'
    BY <1>2 DEF Clear
  <2>4. \A p \in Savers : pc[p] # "save" => pos[p] = 0
    BY <1>1 DEF Saving, Saved
  <2> QED
    BY <1>2, <1>3, <1>6, <2>1, <2>2, <2>3, <2>4 DEF Saved, Cell
<1> QED
  BY <1>4, <1>5, <1>7, <1>8, <1>9 DEF Inv

LEMMA OneSaver ==
  ASSUME OneHolder, NEW p \in Savers, pc[p] = "save"
  PROVE  \A q \in Savers : q # p => pc[q] # "save"
BY TasksArePlaces DEF OneHolder, Holding

LEMMA WriteNameStep ==
  ASSUME Inv, NEW p \in Savers, WriteName(p)
  PROVE  Inv' /\ (Erases => ~key) /\ UNCHANGED <<names, key>>
<1>1. TypeOK /\ OneHolder /\ Received /\ Saving
  BY DEF Inv
<1>2. /\ pc[p] = "save" /\ pos[p] < Cells
      /\ pos' = [pos EXCEPT ![p] = @ + 1]
      /\ flash' = [flash EXCEPT ![pos'[p]] = Written(@, names[pos'[p]])]
      /\ UNCHANGED <<lock, sbuffer, astray, names, key, pc, form, got, late, conn, pending, left,
                     requests, cuts>>
  BY DEF WriteName, MoreNames, net
<1>3. pos[p] \in 0..Cells /\ pos'[p] = pos[p] + 1 /\ pos'[p] \in Cell
  BY <1>1, <1>2, WebAssumption DEF TypeOK, Savers, Cell
<1>4. Erases => flash[pos'[p]] = Erased
  BY <1>1, <1>2, <1>3 DEF Saving, Saved
<1>5. Erases => flash' = [flash EXCEPT ![pos'[p]] = names[pos'[p]]]
  BY <1>2, <1>4 DEF Written
<1>6. TypeOK'
  <2>1. pos' \in [Tasks \union {Main} -> 0..Cells]
    BY <1>1, <1>2, <1>3, WebAssumption DEF TypeOK, Cell
  <2>2. Written(flash[pos'[p]], names[pos'[p]]) \in Stored
    BY <1>1, <1>3 DEF TypeOK, Written, Stored
  <2>3. flash' \in [Cell -> Stored]
    BY <1>1, <1>2, <2>2 DEF TypeOK
  <2> QED
    BY <1>1, <1>2, <2>1, <2>3 DEF TypeOK
<1>7. OneHolder' /\ Received'
  BY <1>1, <1>2 DEF OneHolder, Received
<1>8. Erases => ~key
  BY <1>1, <1>2 DEF Saving, Saved
<1>9. Saving'
  <2> SUFFICES ASSUME Erases PROVE Saved'
    BY DEF Saving
  <2>0. Saved
    BY <1>1 DEF Saving
  <2>1. \A c \in Cell : flash'[c] = IF c <= pos'[p] THEN names[c] ELSE Erased
    <3> SUFFICES ASSUME NEW c \in Cell
                 PROVE  flash'[c] = IF c <= pos'[p] THEN names[c] ELSE Erased
      OBVIOUS
    <3>1. flash[c] = IF c <= pos[p] THEN names[c] ELSE Erased
      BY <1>2, <2>0 DEF Saved
    <3>2. c <= pos'[p] <=> c <= pos[p] \/ c = pos'[p]
      BY <1>3 DEF Cell
    <3>3. flash'[c] = IF c = pos'[p] THEN names[c] ELSE flash[c]
      BY <1>1, <1>5 DEF TypeOK
    <3> QED
      BY <3>1, <3>2, <3>3
  <2>2. \A q \in Savers : q # p => pc[q] # "save" /\ pos'[q] = pos[q]
    BY <1>1, <1>2, OneSaver DEF TypeOK, Savers
  <2> QED
    BY <1>2, <1>8, <2>0, <2>1, <2>2 DEF Saved
<1> QED
  BY <1>2, <1>6, <1>7, <1>8, <1>9 DEF Inv

LEMMA WriteKeyStep ==
  ASSUME Inv, NEW p \in Savers, WriteKey(p)
  PROVE  Inv' /\ key' /\ UNCHANGED names /\ (Erases => ~key /\ flash' = names)
<1>1. TypeOK /\ OneHolder /\ Received /\ Saving
  BY DEF Inv
<1>2. /\ pc[p] = "save" /\ pos[p] = Cells /\ key' = TRUE
      /\ pos' = [pos EXCEPT ![p] = 0]
      /\ pc' = [pc EXCEPT ![p] = IF p = Main THEN "none" ELSE "drain"]
      /\ UNCHANGED <<lock, sbuffer, astray, names, flash, form, got, late, conn, pending, left,
                     requests, cuts>>
  BY DEF WriteKey, net
<1>3. Erases => flash = names
  <2> SUFFICES ASSUME Erases PROVE flash = names
    OBVIOUS
  <2>1. \A c \in Cell : flash[c] = names[c]
    BY <1>1, <1>2, WebAssumption DEF Saving, Saved, Cell
  <2> QED
    BY <1>1, <2>1 DEF TypeOK
<1>4. TypeOK'
  BY <1>1, <1>2, WebAssumption DEF TypeOK, Holding, Savers
<1>5. /\ pc'[p] = (IF p = Main THEN "none" ELSE "drain") /\ pos'[p] = 0
      /\ \A q \in Savers : q # p => pc'[q] = pc[q] /\ pos'[q] = pos[q] /\ pc[q] # "save"
  BY <1>1, <1>2, OneSaver DEF TypeOK, Savers
<1>6. OneHolder'
  BY <1>1, <1>2, <1>5, TasksArePlaces DEF OneHolder, Holding
<1>7. Received'
  BY <1>1, <1>2, <1>5, TasksArePlaces DEF Received, OneHolder
<1>8. Saving'
  BY <1>1, <1>2, <1>3, <1>5 DEF Saving, Saved
<1>9. Erases => ~key
  BY <1>1, <1>2 DEF Saving, Saved
<1> QED
  BY <1>2, <1>3, <1>4, <1>6, <1>7, <1>8, <1>9 DEF Inv

LEMMA RestartStep ==
  ASSUME Inv, Restart
  PROVE  /\ Inv' /\ key' = key
         /\ key => names' = flash /\ flash' = flash
         /\ ~key => names' = Defaults
<1>1. TypeOK /\ Saving
  BY DEF Inv
<1>2. /\ lock' = FALSE /\ sbuffer' = AllZero /\ astray' = FALSE
      /\ key => names' = flash /\ UNCHANGED <<flash, key>>
      /\ ~key => names' = Defaults /\ Clear
      /\ pc' = [t \in Tasks \union {Main} |-> IF t = Main /\ ~key THEN "save" ELSE "none"]
      /\ form' = [t \in Tasks |-> Look] /\ got' = AllZero
      /\ late' = AllOff /\ conn' = AllOff /\ pending' = AllOff /\ left' = AllZero
      /\ pos' = [t \in Tasks \union {Main} |-> 0]
      /\ UNCHANGED requests /\ cuts < MaxCuts /\ cuts' = cuts + 1
  BY DEF Restart
<1>3. key' = key /\ key \in BOOLEAN
  BY <1>1, <1>2 DEF TypeOK, Clear
<1>4. Defaults \in [Cell -> Values]
  BY WebAssumption DEF Defaults
<1>5. names' \in [Cell -> Stored] /\ flash' \in [Cell -> Stored]
  BY <1>1, <1>2, <1>4, ClearTypes DEF TypeOK, Stored
<1>6. TypeOK'
  <2>1. form' \in [Tasks -> Forms]
    BY <1>2, LookIsAForm
  <2>2. /\ got' \in [Tasks -> 0..Sent] /\ sbuffer' \in [Tasks -> 0..Buffer]
        /\ left' \in [Tasks -> 0..MaxExchanges] /\ pos' \in [Tasks \union {Main} -> 0..Cells]
    BY <1>2, WebAssumption DEF AllZero
  <2>3. pc' \in [Tasks \union {Main} -> {"none", "enter"} \union Holding]
    BY <1>2 DEF Holding
  <2>4. late' \in [Tasks -> BOOLEAN] /\ conn' \in [Tasks -> BOOLEAN] /\ pending' \in [Tasks -> BOOLEAN]
    BY <1>2 DEF AllOff
  <2>5. requests' \in 0..MaxRequests /\ cuts' \in 0..MaxCuts
    BY <1>1, <1>2, WebAssumption DEF TypeOK
  <2> QED
    BY <1>2, <1>3, <1>5, <2>1, <2>2, <2>3, <2>4, <2>5 DEF TypeOK
<1>7. OneHolder'
  BY <1>2, WebAssumption DEF OneHolder, Holding
<1>8. Received'
  BY <1>2, WebAssumption DEF Received, AllZero
<1>9. Saving'
  <2> SUFFICES ASSUME Erases PROVE Saved'
    BY DEF Saving
  <2>1. names' \in [Cell -> Values] /\ (key => flash' = names') /\ (~key => \A c \in Cell : flash'[c] = Erased)
    BY <1>1, <1>2, <1>4 DEF Saving, Saved, Clear
  <2> QED
    BY <1>2, <1>3, <2>1, WebAssumption DEF Saved, Savers, Cell
<1> QED
  BY <1>2, <1>3, <1>6, <1>7, <1>8, <1>9 DEF Inv

LEMMA OutsideStep ==
  ASSUME Inv, NEW t \in Tasks, TimePasses(t) \/ ClientReads(t) \/ ClientLeaves(t)
  PROVE  Inv'
<1>1. /\ late' \in [Tasks -> BOOLEAN] /\ conn' \in [Tasks -> BOOLEAN]
      /\ pending' \in [Tasks -> BOOLEAN]
      /\ UNCHANGED <<lock, sbuffer, astray, names, flash, key, pc, form, got, left, pos, requests, cuts>>
  BY DEF Inv, TypeOK, TimePasses, ClientReads, ClientLeaves, store
<1> QED
  BY <1>1 DEF Inv, TypeOK, OneHolder, Received, Saving, Saved

-----------------------------------------------------------------------------
(***************************************************************************)
(* The theorems.                                                           *)
(***************************************************************************)
LEMMA InvStep == Inv /\ [Next]_vars => Inv'
<1> SUFFICES ASSUME Inv, [Next]_vars PROVE Inv'
  OBVIOUS
<1>1. CASE UNCHANGED vars
  BY <1>1 DEF vars, store, net, Inv, TypeOK, OneHolder, Received, Saving, Saved
<1>2. CASE Next
  BY <1>2, RequestStep, EnterStep, ReadStep, WorkStep, RenameStep, WriteNameStep,
     WriteKeyStep, RestartStep, OutsideStep DEF Next, Works, Saves, Savers
<1> QED
  BY <1>1, <1>2

LEMMA Invariance == Spec => []Inv
BY InvInit, InvStep, PTL DEF Spec

\* The state of the web tasks and of the settings stays in its type.
THEOREM WebTypeCorrectness == Spec => []TypeOK
<1>1. Inv => TypeOK
  BY DEF Inv
<1> QED
  BY <1>1, Invariance, PTL

LEMMA HeldIsMine ==
  ASSUME Inv, NEW t \in Tasks, pc[t] = "read", got[t] >= form[t].size
  PROVE  /\ sbuffer[t] >= form[t].size \/ form[t].size > Buffer
         /\ \A x \in Tasks \ {t} : sbuffer[x] = 0
<1>1. sbuffer = [x \in Tasks |-> IF x = t THEN Kept(got[t]) ELSE 0]
  BY DEF Inv, Received
<1>2. got[t] \in Nat /\ form[t].size \in Nat
  BY FormTypes DEF Inv, TypeOK
<1> QED
  <2>1. sbuffer[t] = Kept(got[t]) /\ \A x \in Tasks \ {t} : sbuffer[x] = 0
    BY <1>1
  <2>2. Kept(got[t]) = IF got[t] <= Buffer THEN got[t] ELSE Buffer
    BY DEF Kept
  <2>3. Kept(got[t]) >= form[t].size \/ form[t].size > Buffer
    BY <1>2, <2>2, WebAssumption
  <2> QED
    BY <2>1, <2>3

\* However many web tasks there are and whatever their clients send, the common
\* buffer holds the form of the one that goes on to use it, whole if it has room
\* for it, and nothing of another's.
THEOREM BufferIsNotShared == Spec => []FormIsMine
<1>1. Inv => FormIsMine
  BY HeldIsMine DEF FormIsMine
<1> QED
  BY <1>1, Invariance, PTL

InFlash == IF key THEN flash ELSE Lost

LEMMA StoreInit == Init => Store!Init
BY DEF Init, Store!Init

LEMMA StoreStep ==
  ASSUME Erases
  PROVE  Inv /\ [Next]_vars => [Store!Next]_<<names, InFlash>>
<1> SUFFICES ASSUME Inv, [Next]_vars PROVE [Store!Next]_<<names, InFlash>>
  OBVIOUS
<1>1. TypeOK /\ Saved /\ Lost \notin [Cell -> Values]
  BY WebAssumption DEF Inv, Saving, Cell
<1>2. ASSUME NEW t \in Tasks, Rename(t)
      PROVE  Store!Rename
  <2>1. key /\ ~key' /\ names' = [names EXCEPT ![form[t].cell] = form[t].name]
    BY <1>2, RenameStep DEF Rename, Clear
  <2>2. flash = names /\ flash # Lost
    BY <1>1, <2>1 DEF Saved, TypeOK
  <2>3. form[t].cell \in Cell /\ form[t].name \in Values
    BY <1>1, <1>2, FormTypes DEF Rename, TypeOK
  <2> QED
    BY <2>1, <2>2, <2>3 DEF Store!Rename
<1>3. ASSUME NEW p \in Savers, WriteName(p)
      PROVE  UNCHANGED <<names, InFlash>>
  BY <1>3, WriteNameStep DEF InFlash
<1>4. ASSUME NEW p \in Savers, WriteKey(p)
      PROVE  Store!Finish
  BY <1>4, WriteKeyStep DEF Store!Finish
<1>5. ASSUME Restart
      PROVE  Store!Restart
  <2>1. CASE key
    <3>1. flash # Lost
      BY <1>1, <2>1 DEF Saved, TypeOK
    <3> QED
      BY <1>5, <2>1, <3>1, RestartStep DEF Store!Restart
  <2>2. CASE ~key
    BY <1>5, <2>2, RestartStep DEF Store!Restart
  <2> QED
    BY <2>1, <2>2
<1>6. ASSUME NEW t \in Tasks,
             \/ \E f \in Forms : Request(t, f)
             \/ Enter(t) \/ NoBuffer(t) \/ Read(t) \/ Page(t) \/ Keypad(t) \/ Exchange(t)
             \/ Leave(t) \/ TimePasses(t) \/ ClientReads(t) \/ ClientLeaves(t)
      PROVE  UNCHANGED <<names, InFlash>>
  <2>1. CASE \E f \in Forms : Request(t, f)
    BY <2>1 DEF Request, store, InFlash
  <2>2. CASE Read(t)
    BY <2>2 DEF Read, store, InFlash
  <2>3. CASE Enter(t) \/ NoBuffer(t) \/ Exchange(t) \/ Leave(t)
    BY <2>3 DEF Enter, NoBuffer, Exchange, Leave, store, InFlash
  <2>4. CASE Page(t) \/ Keypad(t)
    BY <2>4 DEF Page, Keypad, store, InFlash
  <2>5. CASE TimePasses(t) \/ ClientReads(t) \/ ClientLeaves(t)
    BY <2>5 DEF TimePasses, ClientReads, ClientLeaves, store, InFlash
  <2> QED
    BY <1>6, <2>1, <2>2, <2>3, <2>4, <2>5
<1>7. CASE UNCHANGED vars
  BY <1>7 DEF vars, store, InFlash
<1>8. CASE Next
  BY <1>8, <1>2, <1>3, <1>4, <1>5, <1>6 DEF Next, Works, Saves, Savers, Store!Next
<1> QED
  BY <1>7, <1>8

\* In a firmware that erases, however many tasks rename zones and sources, and
\* whenever the power fails, a restart finds the names of the last save that was
\* finished, all of them, or those of a new device.
THEOREM SettingsAreAStore ==
  ASSUME Erases
  PROVE  Spec => Store!Safety
<1>1. Inv /\ [Next]_vars => [Store!Next]_<<names, InFlash>>
  BY StoreStep
<1> QED
  BY <1>1, Invariance, StoreInit, PTL DEF Spec, Store!Safety, InFlash
=============================================================================
