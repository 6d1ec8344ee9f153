----------------------------- MODULE CntlProofs -----------------------------
(***************************************************************************)
(* What holds of cntl: of SerialLink for any number of invocations, any    *)
(* requests and any packet size; and of the control language for every     *)
(* request, every range of the controls and any number of invocations:     *)
(* which requests reach beyond the entries of their zone in codes[], and   *)
(* that the entries of the level commands carry the operation the words    *)
(* ask for.                                                                *)
(***************************************************************************)
EXTENDS SerialLink, Cntl, WellFoundedInduction, TLAPS

-----------------------------------------------------------------------------
(***************************************************************************)
(* The serial line.                                                        *)
(***************************************************************************)

LEMMA RequestsType ==
  ASSUME TypeOK, NEW p \in Procs
  PROVE  argv[p] \in RequestType
<1>1. NoRequest \in RequestType
  BY DEF NoRequest, RequestType, FirstWord, ThirdWord
<1> QED
  BY <1>1, RequestsAssumption DEF TypeOK

\* The end of a process keeps the variables it touches in their types.
LEMMA ExitType ==
  ASSUME TypeOK, NEW p \in Procs, NEW s \in Outcome, NEW n \in Nat, Exit(p, s, n)
  PROVE  /\ pc' \in [Procs -> Location]
         /\ status' \in [Procs -> Outcome]
         /\ fd' \in [Procs -> BOOLEAN]
         /\ rx' \in Nat
BY DEF TypeOK, Location, Exit, Left, Goto

LEMMA CountsAreNaturals ==
  /\ \A c : Toread(c) \in Nat
  /\ \A i : Response(i) \in Nat
BY DEF Toread, Response, MuteBurst

\* The outcomes of the two halves of main().
LEMMA MainValues ==
  /\ \A r : Prologue(r) \in {"usage", "abort", "init"}
  /\ \A r : Dispatch(r) \in {"usage", "invalid", "crash", "nothing", "send"}
BY DEF Prologue, Dispatch

-----------------------------------------------------------------------------
(***************************************************************************)
(* Type correctness.                                                       *)
(***************************************************************************)

\* Every step keeps each variable in its type: the frames handed over are
\* entries of codes[], the bytes never run below zero.
LEMMA TypeStep ==
  ASSUME TypeOK, OnItsWay, [Next]_vars
  PROVE  TypeOK'
<1> USE DEF TypeOK, Location, AfterInit, Reading, Outcome, line
<1>1. ASSUME NEW p \in Procs, NEW r \in Requests, Start(p, r)
      PROVE  TypeOK'
  BY <1>1, MainValues DEF Start, Goto
<1>2. ASSUME NEW p \in Procs, Open(p)
      PROVE  TypeOK'
  BY <1>2 DEF Open, Goto
<1>3. ASSUME NEW p \in Procs, SetInterfaceAttribs(p)
      PROVE  TypeOK'
  BY <1>3 DEF SetInterfaceAttribs, Goto
<1>4. ASSUME NEW p \in Procs, SetBlocking(p)
      PROVE  TypeOK'
  BY <1>4 DEF SetBlocking, Goto
<1>5. ASSUME NEW p \in Procs, Main(p)
      PROVE  TypeOK'
  <2>1. Dispatch(argv[p]) \in {"usage", "invalid", "crash", "nothing", "send"}
    BY MainValues
  <2>2. CASE Dispatch(argv[p]) = "send"
    BY <1>5, <2>2 DEF Main, Goto
  <2>3. CASE Dispatch(argv[p]) # "send"
    <3> DEFINE s == IF Dispatch(argv[p]) = "nothing" THEN "ok" ELSE Dispatch(argv[p])
    <3>1. s \in Outcome
      BY <2>1, <2>3
    <3>2. Exit(p, s, rx)
      BY <1>5, <2>3 DEF Main
    <3> HIDE DEF s
    <3>3. /\ pc' \in [Procs -> Location]
          /\ status' \in [Procs -> Outcome]
          /\ fd' \in [Procs -> BOOLEAN]
          /\ rx' \in Nat
      BY <3>1, <3>2, ExitType
    <3> QED
      BY <1>5, <3>3 DEF Main
  <2> QED
    BY <2>2, <2>3
<1>6. ASSUME NEW p \in Procs, Write(p)
      PROVE  TypeOK'
  <2>1. CodeSent(argv[p]) \in CodeIndex
    BY <1>6 DEF Write, InTable
  <2>2. <<p, CodeSent(argv[p])>> \in Procs \X CodeIndex
    BY <2>1
  <2>3. sent' \in Seq(Procs \X CodeIndex)
    <3>1. Append(sent, <<p, CodeSent(argv[p])>>) \in Seq(Procs \X CodeIndex)
      BY <2>2
    <3> QED
      BY <1>6, <3>1 DEF Write
  <2>4. out' \in Nat
    BY <1>6, CountsAreNaturals DEF Write
  <2> QED
    BY <1>6, <2>3, <2>4 DEF Write, Goto
<1>15. ASSUME NEW p \in Procs, WriteBeyond(p)
       PROVE  TypeOK'
  <2>1. CASE Exit(p, "crash", rx)
    <3>1. /\ pc' \in [Procs -> Location]
          /\ status' \in [Procs -> Outcome]
          /\ fd' \in [Procs -> BOOLEAN]
          /\ rx' \in Nat
      BY <2>1, ExitType
    <3> QED
      BY <1>15, <3>1 DEF WriteBeyond
  <2>2. CASE Goto(p, "read") /\ UNCHANGED <<fd, status, rx>>
    BY <1>15, <2>2 DEF WriteBeyond, Goto
  <2> QED
    BY <1>15, <2>1, <2>2 DEF WriteBeyond
<1>7. ASSUME NEW p \in Procs, ReadByte(p)
      PROVE  TypeOK'
  <2>1. CASE got[p] < Want(p)
    <3>1. got' \in [Procs -> Nat] /\ rx' \in Nat
      BY <1>7, <2>1 DEF ReadByte
    <3>2. pc' \in [Procs -> Location]
      BY <1>7, <2>1 DEF ReadByte, Goto
    <3> QED
      BY <1>7, <2>1, <3>1, <3>2 DEF ReadByte
  <2>2. CASE ~(got[p] < Want(p))
    <3>1. "ok" \in Outcome /\ rx - 1 \in Nat /\ Exit(p, "ok", rx - 1)
      BY <1>7, <2>2 DEF ReadByte
    <3>2. /\ pc' \in [Procs -> Location]
          /\ status' \in [Procs -> Outcome]
          /\ fd' \in [Procs -> BOOLEAN]
          /\ rx' \in Nat
      BY <3>1, ExitType
    <3> QED
      BY <1>7, <2>2, <3>2 DEF ReadByte
  <2> QED
    BY <2>1, <2>2
<1>8. ASSUME NEW p \in Procs, Wait(p)
      PROVE  TypeOK'
  BY <1>8 DEF Wait, Goto
<1>9. ASSUME NEW p \in Procs, Timeout(p)
      PROVE  TypeOK'
  BY <1>9 DEF Timeout, Exit, Left, Goto
<1>10. ASSUME NEW p \in Procs, Hangup(p)
       PROVE  TypeOK'
  BY <1>10 DEF Hangup, Exit, Left, Goto
<1>11. ASSUME NEW p \in Procs, ReadFailing(p)
       PROVE  TypeOK'
  BY <1>11, CountsAreNaturals DEF ReadFailing, Want, Exit, Left, Goto
<1>12. CASE Deliver
  BY <1>12, PacketAssumption DEF Deliver
<1>13. CASE Unplug
  BY <1>13 DEF Unplug
<1>14. CASE UNCHANGED vars
  BY <1>14 DEF vars
<1> QED
  BY <1>1, <1>2, <1>3, <1>4, <1>5, <1>6, <1>7, <1>8, <1>9, <1>10, <1>11, <1>12,
     <1>13, <1>14, <1>15 DEF Next, Step

-----------------------------------------------------------------------------
(***************************************************************************)
(* The invariant behind ShortReadsAreRaces, a conjunct at a time.          *)
(***************************************************************************)

\* main() decides on the request of a process before the process moves on.
LEMMA OnItsWayStep ==
  ASSUME TypeOK, OnItsWay, [Next]_vars
  PROVE  OnItsWay'
<1> USE DEF TypeOK, OnItsWay, Location, AfterInit, Reading, line
<1>1. ASSUME NEW p \in Procs, NEW r \in Requests, Start(p, r)
      PROVE  OnItsWay'
  BY <1>1 DEF Start, Goto
<1>2. ASSUME NEW p \in Procs, Open(p)
      PROVE  OnItsWay'
  BY <1>2 DEF Open, Goto
<1>3. ASSUME NEW p \in Procs, SetInterfaceAttribs(p)
      PROVE  OnItsWay'
  BY <1>3 DEF SetInterfaceAttribs, Goto
<1>4. ASSUME NEW p \in Procs, SetBlocking(p)
      PROVE  OnItsWay'
  BY <1>4 DEF SetBlocking, Goto
<1>5. ASSUME NEW p \in Procs, Main(p)
      PROVE  OnItsWay'
  <2>1. CASE Dispatch(argv[p]) = "send"
    <3>1. Sends(argv[p])
      BY <1>5, <2>1 DEF Main, Sends
    <3> QED
      BY <1>5, <2>1, <3>1 DEF Main, Goto
  <2>2. CASE Dispatch(argv[p]) # "send"
    BY <1>5, <2>2 DEF Main, Goto, Exit
  <2> QED
    BY <2>1, <2>2
<1>6. ASSUME NEW p \in Procs, Write(p)
      PROVE  OnItsWay'
  BY <1>6 DEF Write, Goto
<1>15. ASSUME NEW p \in Procs, WriteBeyond(p)
       PROVE  OnItsWay'
  BY <1>15 DEF WriteBeyond, Goto, Exit
<1>7. ASSUME NEW p \in Procs, ReadByte(p)
      PROVE  OnItsWay'
  BY <1>7 DEF ReadByte, Goto, Exit
<1>8. ASSUME NEW p \in Procs, Wait(p)
      PROVE  OnItsWay'
  BY <1>8 DEF Wait, Goto
<1>9. ASSUME NEW p \in Procs, Timeout(p)
      PROVE  OnItsWay'
  BY <1>9 DEF Timeout, Goto, Exit
<1>10. ASSUME NEW p \in Procs, Hangup(p)
      PROVE  OnItsWay'
  BY <1>10 DEF Hangup, Goto, Exit
<1>11. ASSUME NEW p \in Procs, ReadFailing(p)
      PROVE  OnItsWay'
  BY <1>11 DEF ReadFailing, Goto, Exit
<1>12. CASE Deliver
  BY <1>12 DEF Deliver
<1>13. CASE Unplug
  BY <1>13 DEF Unplug
<1>14. CASE UNCHANGED vars
  BY <1>14 DEF vars
<1> QED
  BY <1>1, <1>2, <1>3, <1>4, <1>5, <1>6, <1>7, <1>8, <1>9, <1>10, <1>11, <1>12,
     <1>13, <1>14, <1>15 DEF Next, Step

\* VMIN drops to 0 only in the set_interface_attribs() of a process, which marks
\* every other one that is past init_audio(), and is 1 again when that process
\* gets past it.
LEMMA VminStep ==
  ASSUME TypeOK, VminZeroIsForeign, [Next]_vars
  PROVE  VminZeroIsForeign'
<1> USE DEF TypeOK, VminZeroIsForeign, Location, AfterInit, Reading, line
<1>1. ASSUME NEW p \in Procs, NEW r \in Requests, Start(p, r)
      PROVE  VminZeroIsForeign'
  BY <1>1 DEF Start, Goto
<1>2. ASSUME NEW p \in Procs, Open(p)
      PROVE  VminZeroIsForeign'
  BY <1>2 DEF Open, Goto
<1>3. ASSUME NEW p \in Procs, SetInterfaceAttribs(p)
      PROVE  VminZeroIsForeign'
  BY <1>3 DEF SetInterfaceAttribs, Goto
<1>4. ASSUME NEW p \in Procs, SetBlocking(p)
      PROVE  VminZeroIsForeign'
  BY <1>4 DEF SetBlocking, Goto
<1>5. ASSUME NEW p \in Procs, Main(p)
      PROVE  VminZeroIsForeign'
  BY <1>5 DEF Main, Goto, Exit
<1>6. ASSUME NEW p \in Procs, Write(p)
      PROVE  VminZeroIsForeign'
  BY <1>6 DEF Write, Goto
<1>15. ASSUME NEW p \in Procs, WriteBeyond(p)
       PROVE  VminZeroIsForeign'
  BY <1>15 DEF WriteBeyond, Goto, Exit
<1>7. ASSUME NEW p \in Procs, ReadByte(p)
      PROVE  VminZeroIsForeign'
  BY <1>7 DEF ReadByte, Goto, Exit
<1>8. ASSUME NEW p \in Procs, Wait(p)
      PROVE  VminZeroIsForeign'
  BY <1>8 DEF Wait, Goto
<1>9. ASSUME NEW p \in Procs, Timeout(p)
      PROVE  VminZeroIsForeign'
  BY <1>9 DEF Timeout, Goto, Exit
<1>10. ASSUME NEW p \in Procs, Hangup(p)
      PROVE  VminZeroIsForeign'
  BY <1>10 DEF Hangup, Goto, Exit
<1>11. ASSUME NEW p \in Procs, ReadFailing(p)
      PROVE  VminZeroIsForeign'
  BY <1>11 DEF ReadFailing, Goto, Exit
<1>12. CASE Deliver
  BY <1>12 DEF Deliver
<1>13. CASE Unplug
  BY <1>13 DEF Unplug
<1>14. CASE UNCHANGED vars
  BY <1>14 DEF vars
<1> QED
  BY <1>1, <1>2, <1>3, <1>4, <1>5, <1>6, <1>7, <1>8, <1>9, <1>10, <1>11, <1>12,
     <1>13, <1>14, <1>15 DEF Next, Step

\* A process waits with a timeout only if it found VMIN = 0.
LEMMA TimedStep ==
  ASSUME TypeOK, VminZeroIsForeign, TimedReadIsForeign, [Next]_vars
  PROVE  TimedReadIsForeign'
<1> USE DEF TypeOK, VminZeroIsForeign, TimedReadIsForeign, Location, AfterInit, Reading, line
<1>1. ASSUME NEW p \in Procs, NEW r \in Requests, Start(p, r)
      PROVE  TimedReadIsForeign'
  BY <1>1 DEF Start, Goto
<1>2. ASSUME NEW p \in Procs, Open(p)
      PROVE  TimedReadIsForeign'
  BY <1>2 DEF Open, Goto
<1>3. ASSUME NEW p \in Procs, SetInterfaceAttribs(p)
      PROVE  TimedReadIsForeign'
  BY <1>3 DEF SetInterfaceAttribs, Goto
<1>4. ASSUME NEW p \in Procs, SetBlocking(p)
      PROVE  TimedReadIsForeign'
  BY <1>4 DEF SetBlocking, Goto
<1>5. ASSUME NEW p \in Procs, Main(p)
      PROVE  TimedReadIsForeign'
  BY <1>5 DEF Main, Goto, Exit
<1>6. ASSUME NEW p \in Procs, Write(p)
      PROVE  TimedReadIsForeign'
  BY <1>6 DEF Write, Goto
<1>15. ASSUME NEW p \in Procs, WriteBeyond(p)
       PROVE  TimedReadIsForeign'
  BY <1>15 DEF WriteBeyond, Goto, Exit
<1>7. ASSUME NEW p \in Procs, ReadByte(p)
      PROVE  TimedReadIsForeign'
  BY <1>7 DEF ReadByte, Goto, Exit
<1>8. ASSUME NEW p \in Procs, Wait(p)
      PROVE  TimedReadIsForeign'
  BY <1>8 DEF Wait, Goto
<1>9. ASSUME NEW p \in Procs, Timeout(p)
      PROVE  TimedReadIsForeign'
  BY <1>9 DEF Timeout, Goto, Exit
<1>10. ASSUME NEW p \in Procs, Hangup(p)
      PROVE  TimedReadIsForeign'
  BY <1>10 DEF Hangup, Goto, Exit
<1>11. ASSUME NEW p \in Procs, ReadFailing(p)
      PROVE  TimedReadIsForeign'
  BY <1>11 DEF ReadFailing, Goto, Exit
<1>12. CASE Deliver
  BY <1>12 DEF Deliver
<1>13. CASE Unplug
  BY <1>13 DEF Unplug
<1>14. CASE UNCHANGED vars
  BY <1>14 DEF vars
<1> QED
  BY <1>1, <1>2, <1>3, <1>4, <1>5, <1>6, <1>7, <1>8, <1>9, <1>10, <1>11, <1>12,
     <1>13, <1>14, <1>15 DEF Next, Step

\* A process that ends short of its count does so by a timeout.
LEMMA ShortReadStep ==
  ASSUME TypeOK, OnItsWay, TimedReadIsForeign, ShortReadsAreRaces, [Next]_vars
  PROVE  ShortReadsAreRaces'
<1> USE DEF TypeOK, OnItsWay, TimedReadIsForeign, ShortReadsAreRaces, Location, AfterInit,
           Reading, Want, line
<1>1. ASSUME NEW p \in Procs, NEW r \in Requests, Start(p, r)
      PROVE  ShortReadsAreRaces'
  BY <1>1, MainValues DEF Start, Goto
<1>2. ASSUME NEW p \in Procs, Open(p)
      PROVE  ShortReadsAreRaces'
  BY <1>2 DEF Open, Goto
<1>3. ASSUME NEW p \in Procs, SetInterfaceAttribs(p)
      PROVE  ShortReadsAreRaces'
  BY <1>3 DEF SetInterfaceAttribs, Goto
<1>4. ASSUME NEW p \in Procs, SetBlocking(p)
      PROVE  ShortReadsAreRaces'
  BY <1>4 DEF SetBlocking, Goto
<1>5. ASSUME NEW p \in Procs, Main(p)
      PROVE  ShortReadsAreRaces'
  BY <1>5, MainValues DEF Main, Goto, Exit, Sends
<1>6. ASSUME NEW p \in Procs, Write(p)
      PROVE  ShortReadsAreRaces'
  BY <1>6 DEF Write, Goto
<1>15. ASSUME NEW p \in Procs, WriteBeyond(p)
       PROVE  ShortReadsAreRaces'
  BY <1>15 DEF WriteBeyond, Goto, Exit
<1>7. ASSUME NEW p \in Procs, ReadByte(p)
      PROVE  ShortReadsAreRaces'
  BY <1>7 DEF ReadByte, Goto, Exit
<1>8. ASSUME NEW p \in Procs, Wait(p)
      PROVE  ShortReadsAreRaces'
  BY <1>8 DEF Wait, Goto
<1>9. ASSUME NEW p \in Procs, Timeout(p)
      PROVE  ShortReadsAreRaces'
  BY <1>9 DEF Timeout, Goto, Exit
<1>10. ASSUME NEW p \in Procs, Hangup(p)
      PROVE  ShortReadsAreRaces'
  BY <1>10 DEF Hangup, Goto, Exit
<1>11. ASSUME NEW p \in Procs, ReadFailing(p)
      PROVE  ShortReadsAreRaces'
  BY <1>11, CountsAreNaturals DEF ReadFailing, Goto, Exit
<1>12. CASE Deliver
  BY <1>12 DEF Deliver
<1>13. CASE Unplug
  BY <1>13 DEF Unplug
<1>14. CASE UNCHANGED vars
  BY <1>14 DEF vars
<1> QED
  BY <1>1, <1>2, <1>3, <1>4, <1>5, <1>6, <1>7, <1>8, <1>9, <1>10, <1>11, <1>12,
     <1>13, <1>14, <1>15 DEF Next, Step

\* IInv is inductive.
LEMMA IInvStep == IInv /\ [Next]_vars => IInv'
BY TypeStep, OnItsWayStep, VminStep, TimedStep, ShortReadStep DEF IInv

LEMMA IInvInit == Init => IInv
<1> SUFFICES ASSUME Init
             PROVE  IInv
  OBVIOUS
<1>1. TypeOK
  BY DEF Init, TypeOK, Location, Outcome
<1>2. OnItsWay /\ VminZeroIsForeign /\ TimedReadIsForeign /\ ShortReadsAreRaces
  BY DEF Init, OnItsWay, VminZeroIsForeign, TimedReadIsForeign, ShortReadsAreRaces,
         AfterInit, Reading
<1> QED
  BY <1>1, <1>2 DEF IInv

\* The invariant the other theorems rest on: what each process knows and holds at
\* each of its steps, and why VMIN is what it is.
THEOREM Invariance == Spec => []IInv
BY IInvInit, IInvStep, PTL DEF Spec

\* Every variable stays in its type, whatever the requests, also those that index
\* beyond codes[]: no byte is read that has not come, and the amplifier gets only
\* entries of the table, each from an invocation.
THEOREM TypeCorrectness == Spec => []TypeOK
BY Invariance, PTL DEF IInv

\* With any number of invocations, one that ends well short of its count was
\* interfered with by the init_audio() of another.
THEOREM ShortReads == Spec => []ShortReadsAreRaces
BY Invariance, PTL DEF IInv
-----------------------------------------------------------------------------
(***************************************************************************)
(* SerialLink implements CommandRun.                                       *)
(***************************************************************************)

\* What a process has handed over by the place it is at.  One that has its frame
\* written without the adapter (or without ever having opened it) has not, and
\* then the adapter is gone for good.
Handing ==
  \A p \in Procs :
    /\ pc[p] = "off" => argv[p] = NoRequest
    /\ pc[p] \notin {"exit"} \cup Reading => ~Sender(p)
    /\ pc[p] \in {"attr", "block"} => fd[p]
    /\ pc[p] \in AfterInit /\ ~fd[p] => ~plugged
    /\ pc[p] \in Reading /\ ~Sender(p) /\ InTable(argv[p]) => ~plugged

\* A frame that is appended to the log makes its sender a sender, and nobody
\* else.
LEMMA SenderOfAppend ==
  ASSUME TypeOK, NEW p \in Procs, NEW i \in CodeIndex, sent' = Append(sent, <<p, i>>)
  PROVE  \A q \in Procs : Sender(q)' <=> Sender(q) \/ q = p
<1>1. /\ DOMAIN sent = 1..Len(sent) /\ DOMAIN sent' = 1..(Len(sent) + 1)
      /\ Len(sent) \in Nat
      /\ \A k \in 1..Len(sent) : sent'[k] = sent[k]
      /\ sent'[Len(sent) + 1] = <<p, i>>
  BY DEF TypeOK
<1>2. ASSUME NEW q \in Procs
      PROVE  Sender(q)' <=> Sender(q) \/ q = p
  <2>1. Sender(q) => Sender(q)'
    BY <1>1 DEF Sender
  <2>2. q = p => Sender(q)'
    BY <1>1 DEF Sender
  <2>3. ASSUME Sender(q)', q # p
        PROVE  Sender(q)
    <3>1. PICK k \in 1..(Len(sent) + 1) : sent'[k][1] = q
      BY <1>1, <2>3 DEF Sender
    <3>2. k # Len(sent) + 1
      BY <1>1, <2>3, <3>1
    <3> QED
      BY <1>1, <3>1, <3>2 DEF Sender
  <2> QED
    BY <2>1, <2>2, <2>3
<1> QED
  BY <1>2

\* A step that leaves the log alone makes nobody a sender.
LEMMA SenderOfSame ==
  ASSUME sent' = sent
  PROVE  \A q \in Procs : Sender(q)' <=> Sender(q)
BY DEF Sender

\* Where a frame is written, it is one of codes[].
LEMMA WriteType ==
  ASSUME OnItsWay, NEW p \in Procs, Write(p)
  PROVE  CodeSent(argv[p]) \in CodeIndex /\ Sends(argv[p])
BY DEF OnItsWay, Write, InTable

LEMMA HandingStep ==
  ASSUME TypeOK, OnItsWay, Handing, [Next]_vars
  PROVE  Handing'
<1> USE SenderOfSame DEF TypeOK, Handing, Location, AfterInit, Reading, line
<1>1. ASSUME NEW p \in Procs, NEW r \in Requests, Start(p, r)
      PROVE  Handing'
  BY <1>1 DEF Start, Goto
<1>2. ASSUME NEW p \in Procs, Open(p)
      PROVE  Handing'
  BY <1>2 DEF Open, Goto
<1>3. ASSUME NEW p \in Procs, SetInterfaceAttribs(p)
      PROVE  Handing'
  BY <1>3 DEF SetInterfaceAttribs, Goto
<1>4. ASSUME NEW p \in Procs, SetBlocking(p)
      PROVE  Handing'
  BY <1>4 DEF SetBlocking, Goto
<1>5. ASSUME NEW p \in Procs, Main(p)
      PROVE  Handing'
  BY <1>5 DEF Main, Goto, Exit
<1>6. ASSUME NEW p \in Procs, Write(p)
      PROVE  Handing'
  <2>1. CASE fd[p] /\ plugged
    <3>1. \A q \in Procs : Sender(q)' <=> Sender(q) \/ q = p
      BY <1>6, <2>1, WriteType, SenderOfAppend DEF Write
    <3> QED
      BY <1>6, <2>1, <3>1 DEF Write, Goto
  <2>2. CASE ~(fd[p] /\ plugged)
    BY <1>6, <2>2 DEF Write, Goto
  <2> QED
    BY <2>1, <2>2
<1>15. ASSUME NEW p \in Procs, WriteBeyond(p)
       PROVE  Handing'
  BY <1>15 DEF WriteBeyond, Goto, Exit
<1>7. ASSUME NEW p \in Procs, ReadByte(p)
      PROVE  Handing'
  BY <1>7 DEF ReadByte, Goto, Exit
<1>8. ASSUME NEW p \in Procs, Wait(p)
      PROVE  Handing'
  BY <1>8 DEF Wait, Goto
<1>9. ASSUME NEW p \in Procs, Timeout(p)
      PROVE  Handing'
  BY <1>9 DEF Timeout, Goto, Exit
<1>10. ASSUME NEW p \in Procs, Hangup(p)
       PROVE  Handing'
  BY <1>10 DEF Hangup, Goto, Exit
<1>11. ASSUME NEW p \in Procs, ReadFailing(p)
       PROVE  Handing'
  BY <1>11 DEF ReadFailing, Goto, Exit
<1>12. CASE Deliver
  BY <1>12 DEF Deliver
<1>13. CASE Unplug
  BY <1>13 DEF Unplug
<1>14. CASE UNCHANGED vars
  BY <1>14 DEF vars
<1> QED
  BY <1>1, <1>2, <1>3, <1>4, <1>5, <1>6, <1>7, <1>8, <1>9, <1>10, <1>11, <1>12,
     <1>13, <1>14, <1>15 DEF Next, Step

LEMMA NobodyAsksAtFirst == ~Sends(NoRequest)
BY DEF Sends, Prologue, NoRequest

\* A step that changes neither the request, the log nor the adapter, and takes no
\* process past a boundary of CommandRun, is not seen there.
LEMMA Unseen ==
  ASSUME NEW p \in Procs, pc \in [Procs -> Location],
         UNCHANGED <<argv, plugged, sent>>,
         pc[p] \in Location \ {"off", "exit"},
         NEW l \in Location \ {"off", "exit"}, pc' = [pc EXCEPT ![p] = l]
  PROVE  UNCHANGED CR!crVars
<1>1. \A q \in Procs : Sender(q)' <=> Sender(q)
  BY SenderOfSame
<1>2. Phase' = Phase
  BY <1>1 DEF Phase
<1>3. Wanted' = Wanted
  BY DEF Wanted
<1> QED
  BY <1>2, <1>3 DEF CR!crVars

\* A process that ends with its frame handed over, with none to hand over, or
\* without the adapter ends as CommandRun has it.
LEMMA EndIsEnd ==
  ASSUME TypeOK, NEW p \in Procs, UNCHANGED <<argv, plugged, sent>>,
         pc[p] \notin {"off", "exit"}, pc' = [pc EXCEPT ![p] = "exit"],
         Sender(p) \/ ~Sends(argv[p]) \/ ~InTable(argv[p]) \/ ~plugged
  PROVE  CR!End(p)
<1>1. \A q \in Procs : Sender(q)' <=> Sender(q)
  BY SenderOfSame
<1>2. Phase' = [Phase EXCEPT ![p] = "ended"]
  BY <1>1 DEF Phase, TypeOK
<1>3. Wanted' = Wanted
  BY DEF Wanted
<1>4. Phase[p] = IF Sender(p) THEN "handed" ELSE "asked"
  BY DEF Phase, TypeOK
<1>5. ~Sends(argv[p]) \/ ~InTable(argv[p]) => Wanted[p] = NoCode
  BY DEF Wanted
<1> QED
  BY <1>2, <1>3, <1>4, <1>5 DEF CR!End

\* Every step of the processes is one of the abstract invocations or is not
\* seen there.
LEMMA RunStep ==
  ASSUME TypeOK, OnItsWay, Handing, [Next]_vars
  PROVE  [CR!CRNext]_CR!crVars
<1> USE DEF line
<1>1. ASSUME NEW p \in Procs, NEW r \in Requests, Start(p, r)
      PROVE  CR!CRNext
  <2>1. argv' = [argv EXCEPT ![p] = r] /\ argv[p] = NoRequest /\ ~Sender(p)
    BY <1>1 DEF Start, Handing, Reading
  <2>2. \A q \in Procs : Sender(q)' <=> Sender(q)
    BY <1>1, SenderOfSame DEF Start
  <2>3. Wanted' = [Wanted EXCEPT ![p] = IF Sends(r) /\ InTable(r) THEN CodeSent(r) ELSE NoCode]
    BY <2>1 DEF Wanted, TypeOK
  <2>4. Phase[p] = "idle"
    BY <1>1 DEF Start, Phase
  <2>5. CASE Prologue(r) = "init"
    <3> DEFINE f == IF Sends(r) /\ InTable(r) THEN CodeSent(r) ELSE NoCode
    <3>1. f \in CodeIndex \cup {NoCode}
      BY DEF InTable
    <3>2. Phase' = [Phase EXCEPT ![p] = "asked"]
      BY <1>1, <2>1, <2>2, <2>5 DEF Start, Goto, Phase, TypeOK, Location
    <3>3. CR!Ask(p, f)
      BY <1>1, <2>3, <2>4, <3>2 DEF Start, CR!Ask
    <3> HIDE DEF f
    <3> QED
      BY <3>1, <3>3 DEF CR!CRNext
  <2>6. CASE Prologue(r) # "init"
    <3>1. Phase' = [Phase EXCEPT ![p] = "ended"]
      BY <1>1, <2>2, <2>6 DEF Start, Goto, Phase, TypeOK
    <3>2. ~Sends(r) /\ Wanted[p] = NoCode
      BY <2>1, <2>6, NobodyAsksAtFirst DEF Sends, Wanted
    <3>3. Wanted' = Wanted
      BY <2>3, <3>2 DEF Wanted
    <3>4. CR!TurnDown(p)
      BY <1>1, <2>4, <3>1, <3>3 DEF Start, CR!TurnDown
    <3> QED
      BY <3>4 DEF CR!CRNext
  <2> QED
    BY <2>5, <2>6
<1>2. ASSUME NEW p \in Procs, Open(p) \/ SetInterfaceAttribs(p) \/ SetBlocking(p) \/ Wait(p)
      PROVE  UNCHANGED CR!crVars
  <2>1. PICK l \in Location \ {"off", "exit"} : pc' = [pc EXCEPT ![p] = l]
    BY <1>2 DEF Open, SetInterfaceAttribs, SetBlocking, Wait, Goto, Location, AfterInit, Reading
  <2>2. pc[p] \in Location \ {"off", "exit"} /\ UNCHANGED <<argv, plugged, sent>>
    BY <1>2 DEF Open, SetInterfaceAttribs, SetBlocking, Wait, Location, AfterInit, Reading
  <2> QED
    BY <2>1, <2>2, Unseen DEF TypeOK
<1>3. ASSUME NEW p \in Procs, Main(p)
      PROVE  CR!End(p) \/ UNCHANGED CR!crVars
  <2>1. CASE Dispatch(argv[p]) = "send"
    <3>1. /\ pc' = [pc EXCEPT ![p] = "write"]
          /\ pc[p] = "parse" /\ UNCHANGED <<argv, plugged, sent>>
      BY <1>3, <2>1 DEF Main, Goto
    <3>2. {"parse", "write"} \subseteq Location \ {"off", "exit"}
      BY DEF Location, AfterInit
    <3> QED
      BY <3>1, <3>2, Unseen DEF TypeOK
  <2>2. CASE Dispatch(argv[p]) # "send"
    <3>1. /\ pc' = [pc EXCEPT ![p] = "exit"]
          /\ pc[p] = "parse" /\ UNCHANGED <<argv, plugged, sent>>
          /\ ~Sends(argv[p])
      BY <1>3, <2>2 DEF Main, Exit, Goto, Sends
    <3> QED
      BY <3>1, EndIsEnd
  <2> QED
    BY <2>1, <2>2
<1>4. ASSUME NEW p \in Procs, Write(p)
      PROVE  CR!HandOver(p) \/ UNCHANGED CR!crVars
  <2>1. CASE fd[p] /\ plugged
    <3>1. \A q \in Procs : Sender(q)' <=> Sender(q) \/ q = p
      BY <1>4, <2>1, WriteType, SenderOfAppend DEF Write
    <3>2. ~Sender(p) /\ pc[p] = "write" /\ pc' = [pc EXCEPT ![p] = "read"]
      BY <1>4 DEF Write, Goto, Handing, Reading
    <3>3. Phase[p] = "asked"
      BY <3>2 DEF Phase
    <3>4. Phase' = [Phase EXCEPT ![p] = "handed"]
      BY <3>1, <3>2 DEF Phase, TypeOK, Location, AfterInit, Reading
    <3>5. Wanted[p] = CodeSent(argv[p]) /\ Wanted[p] \in CodeIndex
      BY <1>4, WriteType DEF Wanted, InTable
    <3>6. Wanted' = Wanted
      BY <1>4 DEF Write, Wanted
    <3> QED
      BY <1>4, <2>1, <3>3, <3>4, <3>5, <3>6 DEF Write, CR!HandOver
  <2>2. CASE ~(fd[p] /\ plugged)
    <3>1. /\ pc' = [pc EXCEPT ![p] = "read"]
          /\ pc[p] = "write" /\ UNCHANGED <<argv, plugged, sent>>
      BY <1>4, <2>2 DEF Write, Goto
    <3>2. {"read", "write"} \subseteq Location \ {"off", "exit"}
      BY DEF Location, AfterInit, Reading
    <3> QED
      BY <3>1, <3>2, Unseen DEF TypeOK
  <2> QED
    BY <2>1, <2>2
<1>10. ASSUME NEW p \in Procs, WriteBeyond(p)
      PROVE  CR!End(p) \/ UNCHANGED CR!crVars
  <2>1. /\ UNCHANGED <<argv, plugged, sent>> /\ pc[p] = "write" /\ ~InTable(argv[p])
        /\ pc' = [pc EXCEPT ![p] = "exit"] \/ pc' = [pc EXCEPT ![p] = "read"]
    BY <1>10 DEF WriteBeyond, Exit, Goto
  <2>2. {"read", "write"} \subseteq Location \ {"off", "exit"}
    BY DEF Location, AfterInit, Reading
  <2> QED
    BY <2>1, <2>2, EndIsEnd, Unseen DEF TypeOK
<1>5. ASSUME NEW p \in Procs, ReadByte(p)
      PROVE  CR!End(p) \/ UNCHANGED CR!crVars
  <2>1. pc[p] \in Reading /\ UNCHANGED <<argv, plugged, sent>>
    BY <1>5 DEF ReadByte
  <2>2. CASE got[p] < Want(p)
    <3>1. pc' = [pc EXCEPT ![p] = "read"]
      BY <1>5, <2>2 DEF ReadByte, Goto
    <3>2. Reading \subseteq Location \ {"off", "exit"} /\ "read" \in Reading
      BY DEF Location, AfterInit, Reading
    <3> QED
      BY <2>1, <3>1, <3>2, Unseen DEF TypeOK
  <2>3. CASE ~(got[p] < Want(p))
    <3>1. pc' = [pc EXCEPT ![p] = "exit"]
      BY <1>5, <2>3 DEF ReadByte, Exit, Goto
    <3>2. pc[p] \notin {"off", "exit"} /\ (Sender(p) \/ ~InTable(argv[p]) \/ ~plugged)
      BY <2>1 DEF Reading, Handing
    <3> QED
      BY <2>1, <3>1, <3>2, EndIsEnd
  <2> QED
    BY <2>2, <2>3
<1>6. ASSUME NEW p \in Procs, Timeout(p) \/ Hangup(p) \/ ReadFailing(p)
      PROVE  CR!End(p)
  <2>1. pc[p] \in Reading /\ UNCHANGED <<argv, plugged, sent>> /\ pc' = [pc EXCEPT ![p] = "exit"]
    BY <1>6 DEF Timeout, Hangup, ReadFailing, Exit, Goto, Reading
  <2>2. pc[p] \notin {"off", "exit"} /\ (Sender(p) \/ ~InTable(argv[p]) \/ ~plugged)
    BY <2>1 DEF Reading, Handing
  <2> QED
    BY <2>1, <2>2, EndIsEnd
<1>7. CASE Deliver
  BY <1>7, SenderOfSame DEF Deliver, CR!crVars, Phase, Wanted
<1>8. CASE Unplug
  <2>1. Phase' = Phase /\ Wanted' = Wanted
    BY <1>8, SenderOfSame DEF Unplug, Phase, Wanted
  <2> QED
    BY <1>8, <2>1 DEF Unplug, CR!CRNext, CR!Fail
<1>9. CASE UNCHANGED vars
  BY <1>9, SenderOfSame DEF vars, CR!crVars, Phase, Wanted
<1> QED
  BY <1>1, <1>2, <1>3, <1>4, <1>5, <1>6, <1>7, <1>8, <1>9, <1>10 DEF Next, Step, CR!CRNext

\* With any number of invocations, whatever they do to each other's reads, each
\* hands over at most one frame, the one its words ask for, and none ends
\* empty-handed while the adapter is there.
THEOREM EveryRunHandsOver == Spec => ImplementsCommandRun
<1>1. Init => CR!CRInit
  <2> SUFFICES ASSUME Init
               PROVE  CR!CRInit
    OBVIOUS
  <2>1. Wanted = [p \in Procs |-> NoCode]
    BY NobodyAsksAtFirst DEF Init, Wanted
  <2>2. Phase = [p \in Procs |-> "idle"]
    BY DEF Init, Phase
  <2> QED
    BY <2>1, <2>2 DEF Init, CR!CRInit
<1>2. Init => Handing
  BY DEF Init, Handing, Sender, AfterInit, Reading
<1>3. IInv /\ Handing /\ [Next]_vars => Handing'
  BY HandingStep DEF IInv
<1>4. IInv /\ Handing /\ [Next]_vars => [CR!CRNext]_CR!crVars
  BY RunStep DEF IInv
<1> QED
  BY Invariance, <1>1, <1>2, <1>3, <1>4, PTL DEF Spec, ImplementsCommandRun, CR!CRSpec

-----------------------------------------------------------------------------
(***************************************************************************)
(* The bytes of the answers.                                               *)
(***************************************************************************)

\* An account of n answers: c[k] is what is left of the first k when the j-th has
\* s[j] bytes, of which t[j] are taken; and the last balance covers w.
Ledger(c, s, t, n, w) ==
  /\ c \in [0..n -> Int] /\ c[0] = 0
  /\ \A k \in 1..n : c[k] = c[k - 1] + s[k] - t[k]
  /\ w <= c[n]

LEMMA LedgerLess ==
  ASSUME NEW c, NEW s, NEW t, NEW n \in Nat, NEW w \in Nat, NEW v \in Nat,
         Ledger(c, s, t, n, w), v <= w
  PROVE  Ledger(c, s, t, n, v)
<1>1. c[n] \in Int /\ w <= c[n]
  BY DEF Ledger
<1>2. v <= c[n]
  BY <1>1
<1> QED
  BY <1>2 DEF Ledger

Raised(t, n, i, m) == [k \in 1..n |-> IF k = i THEN t[k] + m ELSE t[k]]

\* A byte of the i-th answer is taken, or a byte is lost.
LEMMA LedgerTaken ==
  ASSUME NEW n \in Nat, NEW s \in [1..n -> Nat], NEW t \in [1..n -> Nat], NEW c,
         NEW w \in Nat, NEW v \in Nat, Ledger(c, s, t, n, w), v <= w - 1,
         NEW i \in 1..n, NEW m \in {0, 1}
  PROVE  \E d : Ledger(d, s, Raised(t, n, i, m), n, v)
<1> DEFINE d == [k \in 0..n |-> IF k < i THEN c[k] ELSE c[k] - m]
           u == [k \in 1..n |-> IF k = i THEN t[k] + m ELSE t[k]]
<1>1. c \in [0..n -> Int] /\ c[0] = 0 /\ w <= c[n]
  BY DEF Ledger
<1>2. i \in Nat /\ i > 0 /\ i <= n /\ m \in Int
  OBVIOUS
<1>3. ASSUME NEW k \in 1..n
      PROVE  d[k] = d[k - 1] + s[k] - u[k]
  <2>1. k \in 0..n /\ k - 1 \in 0..n /\ k \in Nat
    OBVIOUS
  <2>2. c[k] \in Int /\ c[k - 1] \in Int /\ s[k] \in Nat /\ t[k] \in Nat
    BY <1>1, <2>1
  <2>3. c[k] = c[k - 1] + s[k] - t[k]
    BY DEF Ledger
  <2>4. /\ d[k] = IF k < i THEN c[k] ELSE c[k] - m
        /\ d[k - 1] = IF k - 1 < i THEN c[k - 1] ELSE c[k - 1] - m
        /\ u[k] = IF k = i THEN t[k] + m ELSE t[k]
    BY <2>1
  <2> HIDE DEF d, u
  <2>5. CASE k < i
    <3>1. d[k] = c[k] /\ d[k - 1] = c[k - 1] /\ u[k] = t[k]
      BY <1>2, <2>1, <2>4, <2>5
    <3> QED
      BY <2>3, <3>1
  <2>6. CASE k = i
    <3>1. d[k] = c[k] - m /\ d[k - 1] = c[k - 1] /\ u[k] = t[k] + m
      BY <1>2, <2>1, <2>4, <2>6
    <3> QED
      BY <1>2, <2>2, <2>3, <3>1
  <2>7. CASE k > i
    <3>1. d[k] = c[k] - m /\ d[k - 1] = c[k - 1] - m /\ u[k] = t[k]
      BY <1>2, <2>1, <2>4, <2>7
    <3> QED
      BY <1>2, <2>2, <2>3, <3>1
  <2> QED
    BY <1>2, <2>1, <2>5, <2>6, <2>7
<1>4. d \in [0..n -> Int] /\ d[0] = 0
  BY <1>1, <1>2
<1>5. v <= d[n]
  <2>1. d[n] = c[n] - m /\ c[n] \in Int
    BY <1>1, <1>2
  <2> HIDE DEF d
  <2> QED
    BY <1>1, <2>1
<1> HIDE DEF d
<1>6. Ledger(d, s, u, n, v)
  BY <1>3, <1>4, <1>5 DEF Ledger
<1> QED
  BY <1>6 DEF Raised

Extends(s2, s, n, b) == (\A k \in 1..n : s2[k] = s[k]) /\ s2[n + 1] = b

\* One more answer, of b bytes.
LEMMA LedgerMore ==
  ASSUME NEW n \in Nat, NEW b \in Nat, NEW s, NEW t, NEW c, NEW w \in Nat, NEW v \in Nat,
         Ledger(c, s, t, n, w), v <= w + b, NEW s2, NEW t2,
         Extends(s2, s, n, b), Extends(t2, t, n, 0)
  PROVE  \E d : Ledger(d, s2, t2, n + 1, v)
<1> DEFINE d == [k \in 0..(n + 1) |-> IF k = n + 1 THEN c[n] + b ELSE c[k]]
<1>1. c \in [0..n -> Int] /\ c[0] = 0 /\ w <= c[n] /\ c[n] \in Int
  BY DEF Ledger
<1>2. ASSUME NEW k \in 1..(n + 1)
      PROVE  d[k] = d[k - 1] + s2[k] - t2[k]
  <2>1. CASE k = n + 1
    <3>1. d[k] = c[n] + b /\ d[k - 1] = c[n]
      BY <2>1
    <3> HIDE DEF d
    <3> QED
      BY <1>1, <2>1, <3>1 DEF Extends
  <2>2. CASE k # n + 1
    <3>1. k \in 1..n
      BY <2>2
    <3>2. d[k] = c[k] /\ d[k - 1] = c[k - 1]
      BY <3>1
    <3> HIDE DEF d
    <3> QED
      BY <3>1, <3>2 DEF Ledger, Extends
  <2> QED
    BY <2>1, <2>2
<1>3. d \in [0..(n + 1) -> Int] /\ d[0] = 0
  BY <1>1
<1>4. v <= d[n + 1]
  <2>1. d[n + 1] = c[n] + b
    OBVIOUS
  <2> HIDE DEF d
  <2> QED
    BY <1>1, <2>1
<1> HIDE DEF d
<1>5. Ledger(d, s2, t2, n + 1, v)
  BY <1>2, <1>3, <1>4 DEF Ledger
<1> QED
  BY <1>5

\* Induction, for sets of numbers.
LEMMA NatSet ==
  ASSUME NEW S \in SUBSET Nat, 0 \in S, \A n \in S : n + 1 \in S
  PROVE  S = Nat
<1>1. SUFFICES ASSUME Nat \ S # {} PROVE FALSE
  OBVIOUS
<1>2. PICK x \in Nat \ S : \A y \in Nat \ S : <<y, x>> \notin OpToRel(<, Nat)
  BY <1>1, NatLessThanWellFounded, WFMin
<1>3. x - 1 \in Nat /\ x - 1 < x
  <2>1. x \in Nat /\ x # 0
    BY <1>2
  <2> QED
    BY <2>1
<1>4. x - 1 \in S
  BY <1>2, <1>3 DEF OpToRel
<1>5. (x - 1) + 1 = x
  <2>1. x \in Nat
    BY <1>2
  <2> QED
    BY <2>1
<1> QED
  BY <1>2, <1>4, <1>5

\* If more than there is is taken of each answer, the balance does not cover
\* anything.
LEMMA LedgerOverdrawn ==
  ASSUME NEW n \in Nat \ {0}, NEW s \in [1..n -> Nat], NEW t \in [1..n -> Nat], NEW c,
         NEW w \in Nat, \A k \in 1..n : s[k] < t[k]
  PROVE  ~Ledger(c, s, t, n, w)
<1> SUFFICES ASSUME Ledger(c, s, t, n, w) PROVE FALSE
  OBVIOUS
<1> DEFINE S == {k \in Nat : k <= n => c[k] <= -k}
<1>1. c \in [0..n -> Int] /\ c[0] = 0 /\ w <= c[n]
  BY DEF Ledger
<1>2. 0 \in S
  BY <1>1
<1>3. ASSUME NEW k \in S PROVE k + 1 \in S
  <2>1. SUFFICES ASSUME k + 1 <= n PROVE c[k + 1] <= -(k + 1)
    OBVIOUS
  <2>2. k \in Nat /\ k <= n /\ k + 1 \in 1..n /\ k \in 0..n /\ k + 1 \in 0..n /\ (k + 1) - 1 = k
    BY <2>1
  <2>3. c[k] <= -k
    BY <2>2
  <2>4. c[k + 1] = c[k] + s[k + 1] - t[k + 1]
    <3>1. c[k + 1] = c[(k + 1) - 1] + s[k + 1] - t[k + 1]
      BY <2>2 DEF Ledger
    <3> QED
      BY <2>2, <3>1
  <2>5. /\ c[k] \in Int /\ c[k + 1] \in Int /\ s[k + 1] \in Nat /\ t[k + 1] \in Nat
        /\ s[k + 1] < t[k + 1]
    BY <1>1, <2>2
  <2> QED
    BY <2>2, <2>3, <2>4, <2>5
<1>4. S = Nat
  <2> HIDE DEF S
  <2>1. S \in SUBSET Nat
    BY DEF S
  <2> QED
    BY <1>2, <1>3, <2>1, NatSet
<1>5. c[n] <= -n /\ c[n] \in Int
  <2>1. n \in S
    BY <1>4
  <2> QED
    BY <1>1, <2>1
<1> QED
  BY <1>1, <1>5

\* Each process that has handed over its frame has done so once, and has counted
\* all the bytes it wanted when it has ended, unless it has been interfered with.
Counting ==
  /\ \A k \in DOMAIN sent : sent[k][2] = CodeSent(argv[sent[k][1]])
  /\ \A j, k \in DOMAIN sent : sent[j][1] = sent[k][1] => j = k
  /\ \A p \in Procs :
       /\ pc[p] \notin {"exit"} \cup Reading => got[p] = 0
       /\ plugged /\ pc[p] = "exit" /\ Sender(p) /\ ~cut[p] => Want(p) <= got[p]

\* The bytes each process has taken from the line: one more than it has counted, if
\* nothing but the end of the loop made it stop.
Taken == [p \in Procs |-> got[p] + IF pc[p] = "exit" /\ ~cut[p] THEN 1 ELSE 0]

\* The answers to the frames handed over, and what their senders have of them.
Answers == [k \in 1..Len(sent) |-> Response(sent[k][2])]
Takings == [k \in 1..Len(sent) |-> Taken[sent[k][1]]]

Bytes == rx + out

\* Facts of arithmetic that the provers are given where they meet primed variables.
LEMMA Sums ==
  /\ \A a, b \in Nat : a + b \in Nat
  /\ \A a, b, o \in Nat : b <= a => b + o <= a + o
  /\ \A a, b, o \in Nat : b <= a - 1 => b + o <= (a + o) - 1
OBVIOUS

\* What is on its way and on the line has not been taken.
Accounts == plugged => \E c : Ledger(c, Answers, Takings, Len(sent), Bytes)

LEMMA SentFacts ==
  ASSUME TypeOK
  PROVE  /\ Len(sent) \in Nat /\ DOMAIN sent = 1..Len(sent) /\ Bytes \in Nat
         /\ \A k \in 1..Len(sent) : /\ sent[k][1] \in Procs /\ Sender(sent[k][1])
                                    /\ sent[k][2] \in CodeIndex
<1>1. sent \in Seq(Procs \X CodeIndex) /\ Bytes \in Nat
  BY DEF TypeOK, Bytes
<1>2. /\ Len(sent) \in Nat /\ DOMAIN sent = 1..Len(sent)
      /\ \A k \in 1..Len(sent) : sent[k] \in Procs \X CodeIndex
  BY <1>1
<1> QED
  BY <1>1, <1>2 DEF Sender

LEMMA TakenType ==
  ASSUME TypeOK
  PROVE  /\ Taken \in [Procs -> Nat]
         /\ Answers \in [1..Len(sent) -> Nat] /\ Takings \in [1..Len(sent) -> Nat]
<1>1. Taken \in [Procs -> Nat]
  BY DEF Taken, TypeOK
<1>2. Answers \in [1..Len(sent) -> Nat]
  BY CountsAreNaturals DEF Answers
<1> QED
  BY <1>1, <1>2, SentFacts DEF Takings

\* A step that moves no byte to a process.
LEMMA NothingTaken ==
  ASSUME TypeOK, Bytes' \in Nat, Accounts, plugged' => plugged, sent' = sent,
         Bytes' <= Bytes,
         \A p \in Procs : Sender(p) => Taken'[p] = Taken[p]
  PROVE  Accounts'
<1> SUFFICES ASSUME plugged'
             PROVE  \E c : Ledger(c, Answers', Takings', Len(sent'), Bytes')
  BY DEF Accounts
<1>1. PICK c : Ledger(c, Answers, Takings, Len(sent), Bytes)
  BY DEF Accounts
<1>2. Answers' = Answers
  BY DEF Answers
<1>3. Takings' = Takings
  BY SentFacts DEF Takings
<1> QED
  BY <1>1, <1>2, <1>3, SentFacts, LedgerLess

\* A byte goes to p, or p ends without one.
LEMMA OneByteTaken ==
  ASSUME TypeOK, Bytes' \in Nat, Counting, Accounts, plugged' => plugged, sent' = sent,
         NEW p \in Procs, NEW m \in {0, 1}, Taken'[p] = Taken[p] + m,
         Bytes' <= Bytes - 1,
         \A q \in Procs \ {p} : Taken'[q] = Taken[q]
  PROVE  Accounts'
<1> SUFFICES ASSUME plugged'
             PROVE  \E c : Ledger(c, Answers', Takings', Len(sent'), Bytes')
  BY DEF Accounts
<1> DEFINE n == Len(sent)
<1>1. PICK c : Ledger(c, Answers, Takings, n, Bytes)
  BY DEF Accounts
<1>2. Answers' = Answers
  BY DEF Answers
<1>3. Bytes \in Nat
  BY SentFacts
<1>4. CASE Sender(p)
  <2>1. PICK i \in 1..n : sent[i][1] = p
    BY <1>4, SentFacts DEF Sender
  <2>2. Takings' = Raised(Takings, n, i, m)
    <3>1. ASSUME NEW k \in 1..n
          PROVE  Taken'[sent[k][1]] = IF k = i THEN Takings[k] + m ELSE Takings[k]
      <4>1. k # i => sent[k][1] # p
        BY <2>1, SentFacts DEF Counting
      <4> QED
        BY <2>1, <4>1, SentFacts DEF Takings
    <3> QED
      BY <3>1 DEF Takings, Raised
  <2>3. /\ n \in Nat /\ Answers \in [1..n -> Nat] /\ Takings \in [1..n -> Nat]
    BY SentFacts, TakenType
  <2>4. \E d : Ledger(d, Answers, Raised(Takings, n, i, m), n, Bytes')
    <3> HIDE DEF n
    <3> QED
      BY <1>1, <1>3, <2>1, <2>3, LedgerTaken
  <2> QED
    BY <1>2, <2>2, <2>4
<1>5. CASE ~Sender(p)
  <2>1. Takings' = Takings
    BY <1>5, SentFacts DEF Takings
  <2>2. Bytes' <= Bytes
    BY <1>3
  <2> QED
    BY <1>1, <1>2, <1>3, <2>1, <2>2, SentFacts, LedgerLess
<1> QED
  BY <1>4, <1>5

\* p hands over its frame, and its answer is on its way.
LEMMA FrameHandedOver ==
  ASSUME TypeOK, Bytes' \in Nat, Accounts, plugged, NEW p \in Procs, NEW i \in CodeIndex,
         ~Sender(p), sent' = Append(sent, <<p, i>>), Taken'[p] = 0,
         Bytes' <= Bytes + Response(i),
         \A q \in Procs : Sender(q) => Taken'[q] = Taken[q]
  PROVE  Accounts'
<1> SUFFICES \E c : Ledger(c, Answers', Takings', Len(sent'), Bytes')
  BY DEF Accounts
<1> DEFINE n == Len(sent)
<1>1. PICK c : Ledger(c, Answers, Takings, n, Bytes)
  BY DEF Accounts
<1>2. /\ n \in Nat /\ Len(sent') = n + 1 /\ sent'[n + 1] = <<p, i>>
      /\ \A k \in 1..n : sent'[k] = sent[k]
  BY DEF TypeOK
<1>3. \A k \in 1..n : Answers'[k] = Answers[k] /\ Takings'[k] = Takings[k]
  <2>1. \A k \in 1..n : k \in 1..Len(sent') /\ Taken'[sent[k][1]] = Taken[sent[k][1]]
    BY <1>2, SentFacts
  <2> QED
    BY <1>2, <2>1 DEF Answers, Takings
<1>4. Answers'[n + 1] = Response(i) /\ Takings'[n + 1] = 0
  <2>1. n + 1 \in 1..Len(sent') /\ sent'[n + 1][1] = p /\ sent'[n + 1][2] = i
    BY <1>2
  <2> QED
    BY <2>1 DEF Answers, Takings
<1>5. Response(i) \in Nat /\ Bytes \in Nat
  BY CountsAreNaturals, SentFacts
<1>6. Extends(Answers', Answers, n, Response(i)) /\ Extends(Takings', Takings, n, 0)
  BY <1>3, <1>4 DEF Extends
<1> HIDE DEF n
<1>7. \E d : Ledger(d, Answers', Takings', n + 1, Bytes')
  BY <1>1, <1>2, <1>5, <1>6, LedgerMore
<1> QED
  BY <1>2, <1>7

\* A process counts no bytes before it reads, and hands over its frame once.
LEMMA CountingStep ==
  ASSUME TypeOK, OnItsWay, TimedReadIsForeign, Handing, Counting, [Next]_vars
  PROVE  Counting'
<1> USE SenderOfSame DEF TypeOK, Handing, Counting, Location, AfterInit, Reading, Want, line
<1>0. \A k \in DOMAIN sent : sent[k][1] \in Procs /\ Sender(sent[k][1])
  BY SentFacts
<1>1. ASSUME NEW p \in Procs, NEW r \in Requests, Start(p, r)
      PROVE  Counting'
  <2>1. /\ sent' = sent /\ cut' = cut /\ got' = got /\ plugged' = plugged
        /\ ~Sender(p) /\ pc[p] = "off"
    BY <1>1 DEF Start
  <2>2. \A q \in Procs : q # p => argv'[q] = argv[q] /\ pc'[q] = pc[q]
    BY <1>1 DEF Start, Goto
  <2>3. \A k \in DOMAIN sent : argv'[sent[k][1]] = argv[sent[k][1]]
    BY <1>0, <2>1, <2>2
  <2>4. \A q \in Procs : Sender(q)' <=> Sender(q)
    BY <2>1, SenderOfSame
  <2>5. \A q \in Procs : /\ pc'[q] \notin {"exit"} \cup Reading => got'[q] = 0
                         /\ Sender(q) => argv'[q] = argv[q] /\ pc'[q] = pc[q]
    BY <2>1, <2>2
  <2> QED
    BY <2>1, <2>3, <2>4, <2>5
<1>2. ASSUME NEW p \in Procs, Open(p)
      PROVE  Counting'
  BY <1>0, <1>2 DEF Open, Goto
<1>3. ASSUME NEW p \in Procs, SetInterfaceAttribs(p)
      PROVE  Counting'
  <2>1. /\ UNCHANGED <<argv, got, sent, plugged>> /\ pc[p] = "attr"
        /\ \A q \in Procs : cut[q] => cut'[q]
        /\ \E l \in {"block", "parse"} : pc' = [pc EXCEPT ![p] = l]
    BY <1>3 DEF SetInterfaceAttribs, Goto
  <2>2. ~Sender(p) /\ got[p] = 0
    BY <2>1
  <2> QED
    BY <1>0, <2>1, <2>2
<1>4. ASSUME NEW p \in Procs, SetBlocking(p)
      PROVE  Counting'
  BY <1>0, <1>4 DEF SetBlocking, Goto
<1>5. ASSUME NEW p \in Procs, Main(p)
      PROVE  Counting'
  BY <1>0, <1>5 DEF Main, Goto, Exit
<1>6. ASSUME NEW p \in Procs, Write(p)
      PROVE  Counting'
  <2>1. /\ ~Sender(p) /\ argv' = argv /\ cut' = cut /\ got' = got /\ plugged' = plugged
        /\ pc' = [pc EXCEPT ![p] = "read"]
    BY <1>6 DEF Write, Goto
  <2>2. CASE sent' = sent
    BY <1>0, <2>1, <2>2
  <2>3. CASE sent' = Append(sent, <<p, CodeSent(argv[p])>>)
    <3> DEFINE n == Len(sent)
    <3>1. /\ n \in Nat /\ DOMAIN sent = 1..n /\ DOMAIN sent' = 1..(n + 1)
          /\ \A k \in 1..n : sent'[k] = sent[k] /\ sent'[k][1] # p
          /\ sent'[n + 1] = <<p, CodeSent(argv[p])>>
      BY <1>0, <2>1, <2>3, SentFacts
    <3>2. \A q \in Procs : Sender(q)' <=> Sender(q) \/ q = p
      BY <1>6, <2>3, WriteType, SenderOfAppend DEF Write
    <3> HIDE DEF n
    <3>3. ASSUME NEW k \in DOMAIN sent'
          PROVE  sent'[k][2] = CodeSent(argv'[sent'[k][1]])
      <4>1. k \in 1..n \/ k = n + 1
        BY <3>1
      <4>2. k \in 1..n => sent[k][2] = CodeSent(argv[sent[k][1]])
        BY <3>1
      <4>3. sent'[n + 1][1] = p /\ sent'[n + 1][2] = CodeSent(argv[p])
        BY <3>1
      <4> QED
        BY <2>1, <3>1, <4>1, <4>2, <4>3
    <3>4. ASSUME NEW j \in DOMAIN sent', NEW k \in DOMAIN sent', sent'[j][1] = sent'[k][1]
          PROVE  j = k
      <4>1. (j \in 1..n \/ j = n + 1) /\ (k \in 1..n \/ k = n + 1)
        BY <3>1
      <4>2. sent'[n + 1][1] = p
        BY <3>1
      <4> QED
        BY <3>1, <3>4, <4>1, <4>2
    <3> QED
      BY <2>1, <3>2, <3>3, <3>4
  <2> QED
    BY <1>6, <2>2, <2>3 DEF Write
<1>15. ASSUME NEW p \in Procs, WriteBeyond(p)
       PROVE  Counting'
  BY <1>0, <1>15 DEF WriteBeyond, Goto, Exit
<1>7. ASSUME NEW p \in Procs, ReadByte(p)
      PROVE  Counting'
  <2>1. UNCHANGED <<argv, sent, cut, plugged>> /\ pc[p] \in Reading
    BY <1>7 DEF ReadByte
  <2>2. CASE got[p] < Want(p)
    <3>1. pc' = [pc EXCEPT ![p] = "read"] /\ got' = [got EXCEPT ![p] = got[p] + 1]
      BY <1>7, <2>2 DEF ReadByte, Goto
    <3> QED
      BY <1>0, <2>1, <3>1
  <2>3. CASE ~(got[p] < Want(p))
    <3>1. pc' = [pc EXCEPT ![p] = "exit"] /\ got' = got
      BY <1>7, <2>3 DEF ReadByte, Goto, Exit
    <3>2. Want(p) <= got[p]
      BY <2>3, CountsAreNaturals
    <3> QED
      BY <1>0, <2>1, <3>1, <3>2
  <2> QED
    BY <2>2, <2>3
<1>8. ASSUME NEW p \in Procs, Wait(p)
      PROVE  Counting'
  BY <1>0, <1>8 DEF Wait, Goto
<1>9. ASSUME NEW p \in Procs, Timeout(p)
      PROVE  Counting'
  BY <1>0, <1>9 DEF Timeout, Goto, Exit, TimedReadIsForeign
<1>10. ASSUME NEW p \in Procs, Hangup(p)
       PROVE  Counting'
  BY <1>0, <1>10 DEF Hangup, Goto, Exit
<1>11. ASSUME NEW p \in Procs, ReadFailing(p)
       PROVE  Counting'
  BY <1>0, <1>11, CountsAreNaturals DEF ReadFailing, Goto, Exit
<1>12. CASE Deliver
  BY <1>0, <1>12 DEF Deliver
<1>13. CASE Unplug
  BY <1>0, <1>13 DEF Unplug
<1>14. CASE UNCHANGED vars
  BY <1>0, <1>14 DEF vars
<1> QED
  BY <1>1, <1>2, <1>3, <1>4, <1>5, <1>6, <1>7, <1>8, <1>9, <1>10, <1>11, <1>12,
     <1>13, <1>14, <1>15 DEF Next, Step

\* Nothing is taken from the line that has not been sent as an answer, and nothing
\* twice.
LEMMA AccountsStep ==
  ASSUME TypeOK, TypeOK', OnItsWay, TimedReadIsForeign, Handing, Counting, Accounts,
         [Next]_vars
  PROVE  Accounts'
<1>0. /\ rx \in Nat /\ out \in Nat /\ rx' \in Nat /\ out' \in Nat
      /\ Bytes \in Nat /\ Bytes' \in Nat
  <2>1. rx \in Nat /\ out \in Nat /\ rx' \in Nat /\ out' \in Nat
    BY DEF TypeOK
  <2> QED
    BY <2>1, Sums DEF Bytes
<1>a. plugged' => plugged
  BY DEF Next, Step, Start, Open, SetInterfaceAttribs, SetBlocking, Main, Write,
         WriteBeyond, ReadByte, Wait, Timeout, Hangup, ReadFailing, Deliver, Unplug, line, vars
<1> USE DEF Location, AfterInit, Reading, line
<1>1. ASSUME NEW p \in Procs, NEW r \in Requests, Start(p, r)
      PROVE  Accounts'
  <2>1. \A q \in Procs : Sender(q) => Taken'[q] = Taken[q]
    BY <1>1 DEF Start, Goto, Taken, Handing, TypeOK
  <2>2. Bytes' = Bytes /\ sent' = sent
    BY <1>1 DEF Start, Bytes
  <2> QED
    BY <1>0, <1>a, <2>1, <2>2, NothingTaken
<1>2. ASSUME NEW p \in Procs,
             Open(p) \/ SetInterfaceAttribs(p) \/ SetBlocking(p) \/ Wait(p)
      PROVE  Accounts'
  <2>1. \A q \in Procs : Sender(q) => Taken'[q] = Taken[q]
    BY <1>2 DEF Open, SetInterfaceAttribs, SetBlocking, Wait, Goto, Taken, TypeOK
  <2>2. Bytes' = Bytes /\ sent' = sent
    BY <1>2 DEF Open, SetInterfaceAttribs, SetBlocking, Wait, Bytes
  <2> QED
    BY <1>0, <1>a, <2>1, <2>2, NothingTaken
<1>3. ASSUME NEW p \in Procs, Main(p)
      PROVE  Accounts'
  <2>1. \A q \in Procs : Sender(q) => Taken'[q] = Taken[q]
    BY <1>3 DEF Main, Exit, Goto, Taken, Handing, TypeOK
  <2>2. rx' <= rx /\ out' = out /\ sent' = sent
    BY <1>0, <1>3 DEF Main, Exit, Left
  <2>3. Bytes' <= Bytes
    BY <1>0, <2>2, Sums DEF Bytes
  <2> QED
    BY <1>0, <1>a, <2>1, <2>2, <2>3, NothingTaken
<1>4. ASSUME NEW p \in Procs, Write(p)
      PROVE  Accounts'
  <2>1. Taken'[p] = 0 /\ Taken[p] = 0 /\ ~Sender(p)
    BY <1>4 DEF Write, Goto, Taken, Handing, Counting, TypeOK
  <2>2. \A q \in Procs : Taken'[q] = Taken[q]
    <3>1. ASSUME NEW q \in Procs, q # p
          PROVE  Taken'[q] = Taken[q]
      BY <1>4, <3>1 DEF Write, Goto, Taken, TypeOK
    <3> QED
      BY <2>1, <3>1
  <2>3. CASE fd[p] /\ plugged
    <3> DEFINE i == CodeSent(argv[p])
    <3>1. i \in CodeIndex /\ sent' = Append(sent, <<p, i>>)
      BY <1>4, <2>3, WriteType DEF Write
    <3>2. Bytes' <= Bytes + Response(i)
      <4>1. rx' = rx /\ out' = out + Response(i) /\ Response(i) \in Nat
        BY <1>4, <2>3, CountsAreNaturals DEF Write
      <4> HIDE DEF i
      <4> QED
        BY <1>0, <4>1 DEF Bytes
    <3> HIDE DEF i
    <3> QED
      BY <1>0, <2>1, <2>2, <2>3, <3>1, <3>2, FrameHandedOver
  <2>4. CASE ~(fd[p] /\ plugged)
    <3>1. Bytes' = Bytes /\ sent' = sent
      BY <1>4, <2>4 DEF Write, Bytes
    <3> QED
      BY <1>0, <1>a, <2>2, <3>1, NothingTaken
  <2> QED
    BY <2>3, <2>4
<1>11. ASSUME NEW p \in Procs, WriteBeyond(p)
      PROVE  Accounts'
  <2>1. \A q \in Procs : Sender(q) => Taken'[q] = Taken[q]
    BY <1>11 DEF WriteBeyond, Exit, Goto, Taken, Handing, TypeOK
  <2>2. rx' <= rx /\ out' = out /\ sent' = sent
    BY <1>0, <1>11 DEF WriteBeyond, Exit, Left
  <2>3. Bytes' <= Bytes
    BY <1>0, <2>2, Sums DEF Bytes
  <2> QED
    BY <1>0, <1>a, <2>1, <2>2, <2>3, NothingTaken
<1>5. ASSUME NEW p \in Procs, ReadByte(p)
      PROVE  Accounts'
  <2>1. \A q \in Procs \ {p} : Taken'[q] = Taken[q]
    BY <1>5 DEF ReadByte, Exit, Goto, Taken, TypeOK
  <2>2. /\ rx' <= rx - 1 /\ out' = out /\ sent' = sent
    BY <1>0, <1>5 DEF ReadByte, Exit, Left
  <2>3. Bytes' <= Bytes - 1
    BY <1>0, <2>2, Sums DEF Bytes
  <2>4. \E m \in {0, 1} : Taken'[p] = Taken[p] + m
    <3>1. CASE got[p] < Want(p)
      BY <1>5, <3>1 DEF ReadByte, Goto, Taken, TypeOK
    <3>2. CASE ~(got[p] < Want(p))
      BY <1>5, <3>2 DEF ReadByte, Exit, Goto, Taken, TypeOK
    <3> QED
      BY <3>1, <3>2
  <2> QED
    BY <1>0, <1>a, <2>1, <2>2, <2>3, <2>4, OneByteTaken
<1>6. ASSUME NEW p \in Procs, Timeout(p)
      PROVE  Accounts'
  <2>1. cut[p] /\ cut' = cut
    BY <1>6 DEF Timeout, TimedReadIsForeign
  <2>2. \A q \in Procs : Taken'[q] = Taken[q]
    BY <1>6, <2>1 DEF Timeout, Exit, Goto, Taken, TypeOK
  <2>3. rx' <= rx /\ out' = out /\ sent' = sent
    BY <1>0, <1>6 DEF Timeout, Exit, Left
  <2>4. Bytes' <= Bytes
    BY <1>0, <2>3, Sums DEF Bytes
  <2> QED
    BY <1>0, <1>a, <2>2, <2>3, <2>4, NothingTaken
<1>7. ASSUME NEW p \in Procs, Hangup(p) \/ ReadFailing(p)
      PROVE  Accounts'
  <2>1. ~plugged
    BY <1>7 DEF Hangup, ReadFailing, Handing
  <2> QED
    BY <1>a, <2>1 DEF Accounts
<1>8. CASE Deliver
  <2>1. \A q \in Procs : Taken'[q] = Taken[q]
    BY <1>8 DEF Deliver, Taken
  <2>2. sent' = sent
    BY <1>8 DEF Deliver
  <2>3. Bytes' <= Bytes
    BY <1>0, <1>8, PacketAssumption DEF Deliver, Bytes
  <2> QED
    BY <1>0, <1>a, <2>1, <2>2, <2>3, NothingTaken
<1>9. CASE Unplug
  BY <1>9 DEF Unplug, Accounts
<1>10. CASE UNCHANGED vars
  <2>1. (\A q \in Procs : Taken'[q] = Taken[q]) /\ sent' = sent /\ Bytes' = Bytes
    BY <1>10 DEF vars, Taken, Bytes
  <2> QED
    BY <1>0, <1>a, <2>1, NothingTaken
<1> QED
  BY <1>1, <1>2, <1>3, <1>4, <1>5, <1>6, <1>7, <1>8, <1>9, <1>10, <1>11 DEF Next, Step

LEMMA AccountsInit == Init => Counting /\ Accounts
<1> SUFFICES ASSUME Init PROVE Counting /\ Accounts
  OBVIOUS
<1>1. Counting
  BY DEF Init, Counting, Sender, Reading
<1>2. Bytes = 0 /\ Len(sent) = 0
  BY DEF Init, Bytes
<1>3. Ledger([k \in 0..0 |-> 0], Answers, Takings, 0, 0)
  BY DEF Ledger
<1> QED
  BY <1>1, <1>2, <1>3 DEF Accounts

\* The loop of process_command() takes one byte more than it counts.  So when
\* nobody was interrupted and no answer was longer than the count its command has
\* in process_command(), the bytes cannot be enough for all: somebody who sent a
\* frame has not ended.
Exact(p) == Response(CodeSent(argv[p])) <= Want(p)

SomebodyIsLeftReading ==
  plugged /\ sent # <<>> /\ (\A p \in Procs : Sender(p) => Exact(p) /\ ~cut[p])
    => \E p \in Procs : Sender(p) /\ pc[p] \in Reading

\* If every sender has ended, each has taken a byte more than its answer has.
LEMMA SomebodyIsLeft ==
  ASSUME TypeOK, Handing, Counting, Accounts
  PROVE  SomebodyIsLeftReading
<1> SUFFICES ASSUME plugged, sent # <<>>, \A p \in Procs : Sender(p) => Exact(p) /\ ~cut[p],
                    \A p \in Procs : Sender(p) => pc[p] \notin Reading
             PROVE  FALSE
  BY DEF SomebodyIsLeftReading
<1> DEFINE n == Len(sent)
<1>1. n \in Nat \ {0}
  <2>1. sent \in Seq(Procs \X CodeIndex)
    BY DEF TypeOK
  <2> QED
    BY <2>1
<1>2. ASSUME NEW k \in 1..n
      PROVE  Answers[k] < Takings[k]
  <2> DEFINE p == sent[k][1]
  <2>1. p \in Procs /\ Sender(p) /\ sent[k][2] = CodeSent(argv[p])
    BY SentFacts DEF Counting
  <2>2. pc[p] = "exit" /\ ~cut[p] /\ Exact(p)
    BY <2>1 DEF Handing
  <2>3. Want(p) <= got[p] /\ Response(sent[k][2]) <= Want(p)
    BY <2>1, <2>2 DEF Counting, Exact
  <2>4. Answers[k] = Response(sent[k][2]) /\ Takings[k] = got[p] + 1
    BY <2>1, <2>2 DEF Answers, Takings, Taken
  <2>5. Want(p) \in Nat /\ got[p] \in Nat /\ Response(sent[k][2]) \in Nat
    BY <2>1, CountsAreNaturals DEF Want, TypeOK
  <2> HIDE DEF p, n
  <2> QED
    BY <2>3, <2>4, <2>5
<1>3. Answers \in [1..n -> Nat] /\ Takings \in [1..n -> Nat] /\ Bytes \in Nat
  BY TakenType, SentFacts
<1>4. PICK c : Ledger(c, Answers, Takings, n, Bytes)
  BY DEF Accounts
<1> HIDE DEF n
<1> QED
  BY <1>1, <1>2, <1>3, <1>4, LedgerOverdrawn

\* ProcessCommandReturns fails for more than the one invocation of its run: with
\* any number of them on the line, whoever reads it takes a byte more than it
\* counts, so answers no longer than the counts are not enough for all who wait
\* for them.
THEOREM AnswersAreTooShort == Spec => []SomebodyIsLeftReading
<1>1. Init => Handing
  BY DEF Init, Handing, Sender, AfterInit, Reading
<1>2. IInv /\ IInv' /\ Handing /\ Counting /\ Accounts /\ [Next]_vars
        => Handing' /\ Counting' /\ Accounts'
  BY HandingStep, CountingStep, AccountsStep DEF IInv
<1>3. IInv /\ Handing /\ Counting /\ Accounts => SomebodyIsLeftReading
  BY SomebodyIsLeft DEF IInv
<1> QED
  BY Invariance, AccountsInit, <1>1, <1>2, <1>3, PTL DEF Spec

-----------------------------------------------------------------------------
(***************************************************************************)
(* The arithmetic of codes[].                                              *)
(***************************************************************************)

\* The entry of a zone and a command is that zone's, at the command's offset.
LEMMA EntryOfCode ==
  ASSUME NEW z \in Zone, NEW c \in Command
  PROVE  /\ Code(ZoneBase(z), c) \in CodeIndex \ {0, 1}
         /\ ZoneOf(Code(ZoneBase(z), c)) = z
         /\ Entry(Code(ZoneBase(z), c)) = ZoneEntry(c)
<1>1. Code(ZoneBase(z), c) = 24 * (z - 1) + 2 + c
  BY DEF Code, ZoneBase, Zone, Command
<1>2. /\ (24 * (z - 1) + c) \div 24 = z - 1
      /\ (24 * (z - 1) + c) % 24 = c
  BY DEF Zone, Command
<1>3. 24 * (z - 1) + 2 + c \in 2..145
  BY DEF Zone, Command
<1> QED
  BY <1>1, <1>2, <1>3 DEF ZoneOf, Entry, CodeIndex, Zone, Command

\* The entries of a zone, offset by offset.
LEMMA EntriesOfAZone ==
  /\ \A k \in 0..5 : ZoneEntry(k) = [op |-> "input", arg |-> k + 1]
  /\ \A k \in 17..22 : ZoneEntry(k) = [op |-> "part", arg |-> k - 16]
  /\ ZoneEntry(6) = [op |-> "volume", arg |-> 1]
  /\ ZoneEntry(7) = [op |-> "volume", arg |-> -1]
  /\ ZoneEntry(8) = [op |-> "power", arg |-> 1]
  /\ ZoneEntry(9) = [op |-> "power", arg |-> 0]
  /\ ZoneEntry(10) = [op |-> "mute", arg |-> 0]
  /\ ZoneEntry(11) = [op |-> "bass", arg |-> 1]
  /\ ZoneEntry(12) = [op |-> "bass", arg |-> -1]
  /\ ZoneEntry(13) = [op |-> "treble", arg |-> 1]
  /\ ZoneEntry(14) = [op |-> "treble", arg |-> -1]
  /\ ZoneEntry(15) = [op |-> "balance", arg |-> 1]
  /\ ZoneEntry(16) = [op |-> "balance", arg |-> -1]
  /\ ZoneEntry(23) = [op |-> "query", arg |-> 0]
<1> USE DEF ZoneEntry, cmd_set_input_ch1, cmd_set_input_ch6, cmd_volume_up,
       cmd_volume_down, cmd_power_on, cmd_power_off, cmd_mute_toggle, cmd_bass_up,
       cmd_bass_down, cmd_treble_up, cmd_treble_down, cmd_balance_right, cmd_balance_left,
       cmd_part_mode_input_ch1, cmd_part_mode_input_ch6, cmd_query_zone_state
<1>1. ASSUME NEW k \in 0..5
      PROVE  ZoneEntry(k) = [op |-> "input", arg |-> k + 1]
  <2>1. k \in cmd_set_input_ch1..cmd_set_input_ch6
    OBVIOUS
  <2>2. k # 6 /\ k # 7 /\ k # 8 /\ k # 9 /\ k # 10 /\ k # 11 /\ k # 12 /\ k # 13 /\ k # 14
        /\ k # 15 /\ k # 16 /\ k # 23 /\ k \notin 17..22
    OBVIOUS
  <2> QED
    BY <2>1, <2>2
<1>2. ASSUME NEW k \in 17..22
      PROVE  ZoneEntry(k) = [op |-> "part", arg |-> k - 16]
  OBVIOUS
<1>3. ZoneEntry(6) = [op |-> "volume", arg |-> 1]
  OBVIOUS
<1>4. ZoneEntry(7) = [op |-> "volume", arg |-> -1]
  OBVIOUS
<1>5. ZoneEntry(8) = [op |-> "power", arg |-> 1]
  OBVIOUS
<1>6. ZoneEntry(9) = [op |-> "power", arg |-> 0]
  OBVIOUS
<1>7. ZoneEntry(10) = [op |-> "mute", arg |-> 0]
  OBVIOUS
<1>8. ZoneEntry(11) = [op |-> "bass", arg |-> 1]
  OBVIOUS
<1>9. ZoneEntry(12) = [op |-> "bass", arg |-> -1]
  OBVIOUS
<1>10. ZoneEntry(13) = [op |-> "treble", arg |-> 1]
  OBVIOUS
<1>11. ZoneEntry(14) = [op |-> "treble", arg |-> -1]
  OBVIOUS
<1>12. ZoneEntry(15) = [op |-> "balance", arg |-> 1]
  OBVIOUS
<1>13. ZoneEntry(16) = [op |-> "balance", arg |-> -1]
  OBVIOUS
<1>14. ZoneEntry(23) = [op |-> "query", arg |-> 0]
  OBVIOUS
<1> QED
  BY <1>1, <1>2, <1>3, <1>4, <1>5, <1>6, <1>7, <1>8,
     <1>9, <1>10, <1>11, <1>12, <1>13, <1>14

LEMMA ZoneEntryType ==
  ASSUME NEW k \in 0..23
  PROVE  /\ ZoneEntry(k).op = "power" => ZoneEntry(k).arg \in {0, 1}
         /\ ZoneEntry(k).op \in {"input", "part"} => ZoneEntry(k).arg \in 1..6
         /\ ZoneEntry(k).op = "part" <=> k \in 17..22
         /\ ZoneEntry(k).arg \in Int
<1>1. CASE k \in 0..5
  BY <1>1, EntriesOfAZone
<1>2. CASE k \in 17..22
  BY <1>2, EntriesOfAZone
<1>3. CASE k \notin 0..5 \cup 17..22
  BY <1>3, EntriesOfAZone
<1> QED
  BY <1>1, <1>2, <1>3

\* A frame with a zone's base changes that zone only, unless its command is
\* one of part mode.
LEMMA EffectOfCode ==
  ASSUME NEW z \in Zone, NEW c \in Command,
         c \notin cmd_part_mode_input_ch1..cmd_part_mode_input_ch6
  PROVE  Effect(amp, Code(ZoneBase(z), c)) =
           [y \in Zone |-> IF y \in {z} THEN ZoneEffect(amp[y], ZoneEntry(c)) ELSE amp[y]]
<1> DEFINE i == Code(ZoneBase(z), c)
<1>1. i \in CodeIndex \ {0, 1} /\ ZoneOf(i) = z /\ Entry(i) = ZoneEntry(c)
  BY EntryOfCode
<1>2. Entry(i).op # "part"
  BY <1>1, ZoneEntryType DEF Command, cmd_part_mode_input_ch1, cmd_part_mode_input_ch6
<1> HIDE DEF i
<1>3. Addressed(i) = {z}
  BY <1>1, <1>2 DEF Addressed, CodeIndex
<1> QED
  BY <1>1, <1>3 DEF Effect, i

-----------------------------------------------------------------------------
(***************************************************************************)
(* What main() selects.                                                    *)
(***************************************************************************)

LEMMA WordsType ==
  \A w \in Words : /\ w.cmd \notin {"INPUT", "QUERY"}
                   /\ w.c \in 0..16
                   /\ w.cmd # "POWER" => w.c \in 6..16
BY DEF Words, cmd_all_on, cmd_all_off, cmd_volume_up, cmd_volume_down, cmd_bass_up,
       cmd_bass_down, cmd_treble_up, cmd_treble_down, cmd_balance_left,
       cmd_balance_right, cmd_mute_toggle

\* What is sent is one of the commands selected: the number of INPUT as it is, the
\* query, or what stands in main()'s table.
LEMMA CmdType ==
  ASSUME NEW r \in RequestType, Sends(r)
  PROVE  /\ Cmd(r) \in Selected(r)
         /\ r.cmd = "INPUT" => Cmd(r) = r.ch
         /\ r.cmd = "QUERY" => Cmd(r) = 23
         /\ r.cmd \notin {"INPUT", "QUERY"} => Cmd(r) \in 0..16
         /\ r.cmd \notin {"INPUT", "QUERY", "POWER"} => Cmd(r) \in 6..16
<1>1. Selected(r) # {}
  BY DEF Sends, Dispatch
<1>2. Cmd(r) \in Selected(r)
  BY <1>1 DEF Cmd
<1>3. CASE r.cmd = "INPUT"
  BY <1>2, <1>3, WordsType DEF Selected, WordsOf
<1>4. CASE r.cmd = "QUERY"
  BY <1>2, <1>4, WordsType DEF Selected, WordsOf, cmd_query_zone_state
<1>5. CASE r.cmd \notin {"INPUT", "QUERY"}
  <2>1. PICK w \in Words : w.cmd = r.cmd /\ Cmd(r) = w.c
    BY <1>2, <1>5 DEF Selected, WordsOf
  <2> QED
    BY <1>2, <1>5, <2>1, WordsType
<1> QED
  BY <1>2, <1>3, <1>4, <1>5

\* The one command of a pair of words of main()'s table.
LEMMA CmdOfWords ==
  ASSUME NEW r \in RequestType, Sends(r), NEW w \in Words,
         r.cmd = w.cmd, r.arg = w.arg
  PROVE  Cmd(r) = w.c
<1>1. r.cmd \notin {"INPUT", "QUERY"}
  BY DEF Words
<1>2. \A v \in Words : v.cmd = w.cmd /\ v.arg = w.arg => v = w
  BY DEF Words
<1>3. Selected(r) = {w.c}
  BY <1>1, <1>2 DEF Selected, WordsOf
<1> QED
  BY <1>3 DEF Cmd

\* A command that main() takes a third word for is sent only with one it knows.
LEMMA KnownWords ==
  ASSUME NEW r \in RequestType, Sends(r), r.cmd \notin {"INPUT", "QUERY"}
  PROVE  \E w \in Words : w.cmd = r.cmd /\ w.arg = r.arg
BY DEF Sends, Dispatch, Selected, WordsOf

-----------------------------------------------------------------------------
(***************************************************************************)
(* What the commands do.                                                   *)
(***************************************************************************)

\* A request that does not reach beyond the entries of the zone it is taken for
\* sends one of them, and not one of part mode.
LEMMA WithinOwn ==
  ASSUME NEW r \in RequestType, Sends(r), ~Beyond(r)
  PROVE  /\ Own(r) \in Zone
         /\ \E c \in Command : /\ c \notin cmd_part_mode_input_ch1..cmd_part_mode_input_ch6
                             /\ CodeSent(r) = Code(ZoneBase(Own(r)), c)
<1> USE DEF Command, cmd_part_mode_input_ch1, cmd_part_mode_input_ch6
<1>1. CASE r.zone \in Zone
  <2>1. Own(r) = r.zone /\ CodeSent(r) = Code(ZoneBase(r.zone), Cmd(r))
    BY <1>1 DEF Own, CodeSent, tozone
  <2>2. Cmd(r) \in 0..16 \cup {23}
    BY <1>1, CmdType DEF Beyond
  <2> QED
    BY <1>1, <2>1, <2>2
<1>2. CASE r.zone \notin Zone
  <2>1. Own(r) = 1 /\ CodeSent(r) = 0 + Cmd(r)
    BY <1>2 DEF Own, CodeSent, tozone, nozone, Code
  <2>2. Cmd(r) \in 2..18
    BY <1>2, CmdType DEF Beyond
  <2>3. Cmd(r) - 2 \in 0..16 /\ CodeSent(r) = Code(ZoneBase(1), Cmd(r) - 2)
    BY <2>1, <2>2 DEF Code, ZoneBase
  <2> QED
    BY <2>1, <2>3 DEF Zone
<1> QED
  BY <1>1, <1>2

LEMMA NeighboursStep ==
  ASSUME NEW r \in Requests, Run(r), ~Beyond(r)
  PROVE  \A z \in Zone \ {Own(r)} : amp'[z] = amp[z]
<1>1. CASE Sends(r) /\ InTable(r)
  <2>1. PICK c \in Command : /\ c \notin cmd_part_mode_input_ch1..cmd_part_mode_input_ch6
                             /\ CodeSent(r) = Code(ZoneBase(Own(r)), c)
    BY <1>1, WithinOwn, RequestsAssumption
  <2>2. Own(r) \in Zone
    BY <1>1, WithinOwn, RequestsAssumption
  <2>3. Effect(amp, CodeSent(r)) =
          [y \in Zone |-> IF y \in {Own(r)} THEN ZoneEffect(amp[y], ZoneEntry(c)) ELSE amp[y]]
    BY <2>1, <2>2, EffectOfCode
  <2> QED
    BY <1>1, <2>3 DEF Run
<1>2. CASE ~(Sends(r) /\ InTable(r))
  BY <1>2 DEF Run
<1> QED
  BY <1>1, <1>2

\* For any numbers and settings, the requests that reach beyond the entries of
\* their zone are those of Beyond: all others disturb no zone but their own.
THEOREM ZonesAreApart == LanguageSpec => NeighboursUntouched
<1>1. [LanguageNext]_languageVars =>
        [~Beyond(last') => \A z \in Zone \ {Own(last')} : amp'[z] = amp[z]]_languageVars
  <2>1. ASSUME NEW r \in Requests, Run(r), ~Beyond(last')
        PROVE  \A z \in Zone \ {Own(last')} : amp'[z] = amp[z]
    BY <2>1, NeighboursStep DEF Run
  <2> QED
    BY <2>1 DEF LanguageNext
<1> QED
  BY <1>1, PTL DEF LanguageSpec, NeighboursUntouched

\* The settings of the six zones, whatever they are.
ZonesOnly == amp = [z \in Zone |-> amp[z]]

\* The words of a control and a direction select the offset whose entry turns
\* that control in that direction.
LEMMA TurnsAsAsked ==
  ASSUME NEW cmd \in DOMAIN ControlOf, NEW r \in RequestType, Zoned(r, cmd)
  PROVE  /\ Cmd(r) \in 0..16
         /\ ZoneEntry(Cmd(r)) = [op |-> ControlOf[cmd], arg |-> Direction[r.arg]]
<1>1. cmd \in {"VOLUME", "BASS", "TREBLE", "BALANCE"} /\ r.cmd = cmd /\ Sends(r)
  BY DEF ControlOf, Zoned
<1>2. PICK w \in Words : w.cmd = r.cmd /\ w.arg = r.arg
  BY <1>1, KnownWords
<1>3. Cmd(r) = w.c
  BY <1>1, <1>2, CmdOfWords
<1>4. w \in {[cmd |-> "VOLUME",  arg |-> "UP",    c |-> 6],
             [cmd |-> "VOLUME",  arg |-> "DOWN",  c |-> 7],
             [cmd |-> "BASS",    arg |-> "UP",    c |-> 11],
             [cmd |-> "BASS",    arg |-> "DOWN",  c |-> 12],
             [cmd |-> "TREBLE",  arg |-> "UP",    c |-> 13],
             [cmd |-> "TREBLE",  arg |-> "DOWN",  c |-> 14],
             [cmd |-> "BALANCE", arg |-> "RIGHT", c |-> 15],
             [cmd |-> "BALANCE", arg |-> "LEFT",  c |-> 16]}
  BY <1>1, <1>2 DEF Words, cmd_volume_up, cmd_volume_down, cmd_bass_up, cmd_bass_down,
       cmd_treble_up, cmd_treble_down, cmd_balance_left, cmd_balance_right
<1>5. /\ ZoneEntry(6)  = [op |-> "volume", arg |-> 1]
      /\ ZoneEntry(7)  = [op |-> "volume", arg |-> -1]
      /\ ZoneEntry(11) = [op |-> "bass", arg |-> 1]
      /\ ZoneEntry(12) = [op |-> "bass", arg |-> -1]
      /\ ZoneEntry(13) = [op |-> "treble", arg |-> 1]
      /\ ZoneEntry(14) = [op |-> "treble", arg |-> -1]
      /\ ZoneEntry(15) = [op |-> "balance", arg |-> 1]
      /\ ZoneEntry(16) = [op |-> "balance", arg |-> -1]
  BY EntriesOfAZone
<1>6. /\ ControlOf["VOLUME"] = "volume" /\ ControlOf["BASS"] = "bass"
      /\ ControlOf["TREBLE"] = "treble" /\ ControlOf["BALANCE"] = "balance"
      /\ Direction["UP"] = 1 /\ Direction["DOWN"] = -1
      /\ Direction["RIGHT"] = 1 /\ Direction["LEFT"] = -1
  BY DEF ControlOf, Direction
<1> QED
  BY <1>1, <1>2, <1>3, <1>4, <1>5, <1>6

\* An entry of a zone that is no entry of part mode is carried out in that zone.
LEMMA StepOfCode ==
  ASSUME NEW r \in Requests, Run(r), Sends(r), r.zone \in Zone,
         Cmd(r) \in 0..16 \cup {23}
  PROVE  Obeys(ZoneEntry(Cmd(r)), {r.zone})
<1>1. CodeSent(r) = Code(ZoneBase(r.zone), Cmd(r))
  BY DEF CodeSent, tozone
<1>2. Cmd(r) \in Command /\ Cmd(r) \notin cmd_part_mode_input_ch1..cmd_part_mode_input_ch6
  BY DEF Command, cmd_part_mode_input_ch1, cmd_part_mode_input_ch6
<1>3. InTable(r)
  BY <1>1, <1>2, EntryOfCode DEF InTable
<1>4. Effect(amp, CodeSent(r)) =
        [y \in Zone |-> IF y \in {r.zone} THEN ZoneEffect(amp[y], ZoneEntry(Cmd(r)))
                        ELSE amp[y]]
  BY <1>1, <1>2, EffectOfCode
<1> QED
  BY <1>3, <1>4 DEF Run, Obeys

LEMMA StepsAsAskedStep ==
  ASSUME NEW cmd \in DOMAIN ControlOf, NEW r \in Requests, Run(r), Zoned(r, cmd)
  PROVE  Obeys([op |-> ControlOf[cmd], arg |-> Direction[r.arg]], {r.zone})
<1>1. r \in RequestType /\ Sends(r) /\ r.zone \in Zone
  BY RequestsAssumption DEF Zoned
<1>2. Cmd(r) \in 0..16 /\ ZoneEntry(Cmd(r)) = [op |-> ControlOf[cmd], arg |-> Direction[r.arg]]
  BY <1>1, TurnsAsAsked
<1>3. Obeys(ZoneEntry(Cmd(r)), {r.zone})
  BY <1>1, <1>2, StepOfCode
<1> QED
  BY <1>2, <1>3

LEMMA PowerStep ==
  ASSUME NEW r \in Requests, Run(r), Sends(r), r.cmd = "POWER", r.zone \notin Zone
  PROVE  Obeys([op |-> "power", arg |-> IF r.arg = "ON" THEN 1 ELSE 0], Zone)
<1>1. r \in RequestType
  BY RequestsAssumption
<1>2. PICK w \in Words : w.cmd = r.cmd /\ w.arg = r.arg
  BY <1>1, KnownWords
<1>3. Cmd(r) = w.c
  BY <1>1, <1>2, CmdOfWords
<1>4. w \in {[cmd |-> "POWER", arg |-> "ON", c |-> 0], [cmd |-> "POWER", arg |-> "OFF", c |-> 1]}
  BY <1>2 DEF Words, cmd_all_on, cmd_all_off
<1>5. CodeSent(r) = IF r.arg = "ON" THEN 0 ELSE 1
  BY <1>2, <1>3, <1>4 DEF CodeSent, tozone, nozone, Code
<1>6. Entry(CodeSent(r)) = [op |-> "power", arg |-> IF r.arg = "ON" THEN 1 ELSE 0]
  BY <1>5 DEF Entry
<1>7. Addressed(CodeSent(r)) = Zone /\ InTable(r)
  BY <1>5 DEF Addressed, InTable, CodeIndex
<1> QED
  BY <1>6, <1>7 DEF Run, Effect, Obeys

\* What sends nothing and what asks for the state of a zone.
LEMMA NothingStep ==
  ASSUME ZonesOnly, NEW r \in Requests, Run(r), ~Sends(r) \/ Zoned(r, "QUERY")
  PROVE  amp' = amp
<1>1. CASE ~Sends(r)
  BY <1>1 DEF Run
<1>2. CASE Zoned(r, "QUERY")
  <2>1. Sends(r) /\ r.zone \in Zone /\ Cmd(r) = 23
    BY <1>2, CmdType, RequestsAssumption DEF Zoned
  <2>2. Obeys(ZoneEntry(23), {r.zone})
    BY <2>1, StepOfCode
  <2>3. \A s : ZoneEffect(s, ZoneEntry(23)) = s
    BY EntriesOfAZone DEF ZoneEffect, Control
  <2> QED
    BY <2>2, <2>3 DEF Obeys, ZonesOnly
<1> QED
  BY <1>1, <1>2

\* For any settings, VOLUME, BASS, TREBLE and BALANCE turn the control asked for
\* in the zone asked for, in the direction asked for, and POWER without a zone
\* switches every zone; nothing else changes.  The query of a zone and what is
\* turned down change nothing.
THEOREM LanguageIsObeyed == LanguageSpec => CommandsAsAsked
<1>1. ZonesOnly /\ [LanguageNext]_languageVars =>
        [/\ \A cmd \in DOMAIN ControlOf :
              Zoned(last', cmd) =>
                Obeys([op |-> ControlOf[cmd], arg |-> Direction[last'.arg]], {last'.zone})
         /\ Sends(last') /\ last'.cmd = "POWER" /\ last'.zone \notin Zone =>
              Obeys([op |-> "power", arg |-> IF last'.arg = "ON" THEN 1 ELSE 0], Zone)
         /\ ~Sends(last') \/ Zoned(last', "QUERY") => amp' = amp]_languageVars
  <2>1. ASSUME NEW r \in Requests, Run(r), NEW cmd \in DOMAIN ControlOf, Zoned(last', cmd)
        PROVE  Obeys([op |-> ControlOf[cmd], arg |-> Direction[last'.arg]], {last'.zone})
    <3>1. last' = r
      BY <2>1 DEF Run
    <3> QED
      BY <2>1, <3>1, StepsAsAskedStep
  <2>2. ASSUME NEW r \in Requests, Run(r), Sends(last'), last'.cmd = "POWER",
               last'.zone \notin Zone
        PROVE  Obeys([op |-> "power", arg |-> IF last'.arg = "ON" THEN 1 ELSE 0], Zone)
    <3>1. last' = r
      BY <2>2 DEF Run
    <3> QED
      BY <2>2, <3>1, PowerStep
  <2>3. ASSUME ZonesOnly, NEW r \in Requests, Run(r), ~Sends(last') \/ Zoned(last', "QUERY")
        PROVE  amp' = amp
    <3>1. last' = r
      BY <2>3 DEF Run
    <3> QED
      BY <2>3, <3>1, NothingStep
  <2> QED
    BY <2>1, <2>2, <2>3 DEF LanguageNext
<1>2. LanguageInit => ZonesOnly
  BY DEF LanguageInit, ZonesOnly
<1>3. ZonesOnly /\ [LanguageNext]_languageVars => ZonesOnly'
  <2>1. ASSUME ZonesOnly, NEW r \in Requests, Run(r)
        PROVE  ZonesOnly'
    BY <2>1 DEF ZonesOnly, Run, Effect
  <2>2. ASSUME ZonesOnly, UNCHANGED languageVars
        PROVE  ZonesOnly'
    BY <2>2 DEF ZonesOnly, languageVars
  <2> QED
    BY <2>1, <2>2 DEF LanguageNext
<1> QED
  BY <1>1, <1>2, <1>3, PTL DEF LanguageSpec, CommandsAsAsked
=============================================================================
