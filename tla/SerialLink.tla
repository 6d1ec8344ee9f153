----------------------------- MODULE SerialLink -----------------------------
(***************************************************************************)
(* Several invocations of cntl on the one serial line of the amplifier.    *)
(*                                                                         *)
(* libmca66 opens the line, sets its attributes in two steps (first        *)
(* VMIN = 0, a read gives up after half a second; then VMIN = 1, a read    *)
(* waits for a byte for ever), writes one six-byte frame and reads the     *)
(* answer a byte at a time.  The attributes and the received bytes belong  *)
(* to the line and are shared by every process that has it open; nothing   *)
(* in the code keeps two of them apart.  The kernel makes the write of a   *)
(* frame and each change of the attributes one step.                       *)
(***************************************************************************)
EXTENDS CntlMain, Sequences

CONSTANTS
  Procs,    \* the invocations of cntl, as process identities
  Packet    \* the bytes of the answer that reach the line at a time

ASSUME PacketAssumption == Packet \in Nat \ {0}

VARIABLES
  argv,     \* the request of each process
  pc,       \* what each process does next
  fd,       \* has the process opened the line?
  got,      \* i of process_command(): the bytes it has counted
  status,   \* how each process ended
  cut,      \* history: has another process run set_interface_attribs() since
            \* this one's set_blocking()?
  vmin,     \* VMIN of the line
  rx,       \* received bytes that nobody has read
  out,      \* bytes the amplifier has still to send
  plugged,  \* is the serial adapter there?
  sent      \* the frames the amplifier got, with their senders

vars == <<argv, pc, fd, got, status, cut, vmin, rx, out, plugged, sent>>
line == <<vmin, rx, out, plugged, sent>>

Reading == {"read", "blocked", "timed"}
AfterInit == {"parse", "write"} \cup Reading
Location == {"off", "open", "attr", "block", "exit"} \cup AfterInit
Outcome == {"running", "ok", "usage", "invalid", "abort", "crash"}

TypeOK ==
  /\ argv \in [Procs -> Requests \cup {NoRequest}]
  /\ pc \in [Procs -> Location]
  /\ fd \in [Procs -> BOOLEAN]
  /\ got \in [Procs -> Nat]
  /\ status \in [Procs -> Outcome]
  /\ cut \in [Procs -> BOOLEAN]
  /\ vmin \in {0, 1}
  /\ rx \in Nat
  /\ out \in Nat
  /\ plugged \in BOOLEAN
  /\ sent \in Seq(Procs \X CodeIndex)

\* The line has been opened before and keeps the VMIN it was left with.
Init ==
  /\ argv = [p \in Procs |-> NoRequest]
  /\ pc = [p \in Procs |-> "off"]
  /\ fd = [p \in Procs |-> FALSE]
  /\ got = [p \in Procs |-> 0]
  /\ status = [p \in Procs |-> "running"]
  /\ cut = [p \in Procs |-> FALSE]
  /\ vmin \in {0, 1}
  /\ rx = 0
  /\ out = 0
  /\ plugged = TRUE
  /\ sent = <<>>

-----------------------------------------------------------------------------
(***************************************************************************)
(* A process.                                                              *)
(***************************************************************************)

Goto(p, l) == pc' = [pc EXCEPT ![p] = l]

\* What is left of n unread bytes when p closes the line: the last close drops
\* them.
Left(p, n) == IF \E q \in Procs \ {p} : fd[q] THEN n ELSE 0

\* p ends as s, having left n bytes unread.
Exit(p, s, n) ==
  /\ Goto(p, "exit")
  /\ status' = [status EXCEPT ![p] = s]
  /\ fd' = [fd EXCEPT ![p] = FALSE]
  /\ rx' = Left(p, n)

\* The number of bytes process_command() wants to count.
Want(p) == Toread(Cmd(argv[p]))

\* main() up to init_audio().
Start(p, r) ==
  /\ pc[p] = "off"
  /\ argv' = [argv EXCEPT ![p] = r]
  /\ IF Prologue(r) = "init"
     THEN Goto(p, "open") /\ UNCHANGED status
     ELSE Goto(p, "exit") /\ status' = [status EXCEPT ![p] = Prologue(r)]
  /\ UNCHANGED <<fd, got, cut, line>>

\* open() in init_audio().  When it fails init_audio() returns -1, which main()
\* ignores, and serialfd stays -1.
Open(p) ==
  /\ pc[p] = "open"
  /\ fd' = [fd EXCEPT ![p] = plugged]
  /\ Goto(p, IF plugged THEN "attr" ELSE "parse")
  /\ UNCHANGED <<argv, got, status, cut, line>>

\* set_interface_attribs(): VMIN = 0 for everybody.
SetInterfaceAttribs(p) ==
  /\ pc[p] = "attr"
  /\ IF plugged
     THEN /\ vmin' = 0
          /\ cut' = [q \in Procs |-> cut[q] \/ (q # p /\ pc[q] \in AfterInit)]
          /\ Goto(p, "block")
     ELSE Goto(p, "parse") /\ UNCHANGED <<vmin, cut>>
  /\ UNCHANGED <<argv, fd, got, status, rx, out, plugged, sent>>

\* A plausible slip: the restored VMIN is the one read back from the line.
BadSetBlocking(p) ==
  /\ pc[p] = "block"
  /\ Goto(p, "parse")
  /\ UNCHANGED <<argv, fd, got, status, cut, line>>

\* set_blocking(serialfd, 1): VMIN = 1.
SetBlocking(p) ==
  /\ pc[p] = "block"
  /\ vmin' = IF plugged THEN 1 ELSE vmin
  /\ Goto(p, "parse")
  /\ UNCHANGED <<argv, fd, got, status, cut, rx, out, plugged, sent>>

\* main() from init_audio() to its return or to process_command().
Main(p) ==
  /\ pc[p] = "parse"
  /\ LET d == Dispatch(argv[p]) IN
       IF d = "send"
       THEN Goto(p, "write") /\ UNCHANGED <<fd, status, rx>>
       ELSE Exit(p, IF d = "nothing" THEN "ok" ELSE d, rx)
  /\ UNCHANGED <<argv, got, cut, vmin, out, plugged, sent>>

\* A plausible slip: the frame is written again until an answer comes.
BadWrite(p) ==
  /\ pc[p] = "write"
  /\ InTable(argv[p])
  /\ fd[p] /\ plugged
  /\ sent' = Append(sent, <<p, CodeSent(argv[p])>>)
  /\ out' = out + Response(CodeSent(argv[p]))
  /\ Goto(p, IF rx = 0 THEN "write" ELSE "read")
  /\ UNCHANGED <<argv, fd, got, status, cut, vmin, rx, plugged>>

\* write() in process_command(), whose result is ignored.
Write(p) ==
  /\ pc[p] = "write"
  /\ InTable(argv[p])
  /\ IF fd[p] /\ plugged
     THEN /\ sent' = Append(sent, <<p, CodeSent(argv[p])>>)
          /\ out' = out + Response(CodeSent(argv[p]))
     ELSE UNCHANGED <<sent, out>>
  /\ Goto(p, "read")
  /\ UNCHANGED <<argv, fd, got, status, cut, vmin, rx, plugged>>

\* printf() and write() of an entry beyond codes[]: a crash, or no frame.
WriteBeyond(p) ==
  /\ pc[p] = "write"
  /\ ~InTable(argv[p])
  /\ \/ Exit(p, "crash", rx)
     \/ Goto(p, "read") /\ UNCHANGED <<fd, status, rx>>
  /\ UNCHANGED <<argv, got, cut, vmin, out, plugged, sent>>

\* for (i = 0; read(serialfd, &ch, 1) && i < toread; i++): a byte is taken from
\* the line before i is compared.
ReadByte(p) ==
  /\ pc[p] \in Reading
  /\ fd[p] /\ plugged /\ rx > 0
  /\ IF got[p] < Want(p)
     THEN /\ got' = [got EXCEPT ![p] = @ + 1]
          /\ rx' = rx - 1
          /\ Goto(p, "read")
          /\ UNCHANGED <<fd, status>>
     ELSE Exit(p, "ok", rx - 1) /\ UNCHANGED got
  /\ UNCHANGED <<argv, cut, vmin, out, plugged, sent>>

\* read() finds nothing and waits, as VMIN has it when the call starts.
Wait(p) ==
  /\ pc[p] = "read"
  /\ fd[p] /\ plugged /\ rx = 0
  /\ Goto(p, IF vmin = 1 THEN "blocked" ELSE "timed")
  /\ UNCHANGED <<argv, fd, got, status, cut, line>>

\* VTIME passes: read() returns 0 and ends the loop.
Timeout(p) ==
  /\ pc[p] = "timed"
  /\ plugged /\ rx = 0
  /\ Exit(p, "ok", rx)
  /\ UNCHANGED <<argv, got, cut, vmin, out, plugged, sent>>

\* The adapter is gone: read() returns 0.
Hangup(p) ==
  /\ pc[p] \in Reading
  /\ fd[p] /\ ~plugged
  /\ Exit(p, "ok", rx)
  /\ UNCHANGED <<argv, got, cut, vmin, out, plugged, sent>>

\* read(-1, ...) returns -1, which counts as a byte, until i reaches toread.
ReadFailing(p) ==
  /\ pc[p] = "read"
  /\ ~fd[p]
  /\ got' = [got EXCEPT ![p] = Want(p)]
  /\ Exit(p, "ok", rx)
  /\ UNCHANGED <<argv, cut, vmin, out, plugged, sent>>

-----------------------------------------------------------------------------
(***************************************************************************)
(* The amplifier and the adapter (external).                               *)
(***************************************************************************)

\* The next packet of the answers arrives; nobody keeps it on a closed line.
Deliver ==
  /\ out > 0
  /\ LET n == IF out < Packet THEN out ELSE Packet IN
       /\ out' = out - n
       /\ rx' = IF \E p \in Procs : fd[p] THEN rx + n ELSE 0
  /\ UNCHANGED <<argv, pc, fd, got, status, cut, vmin, plugged, sent>>

Unplug ==
  /\ plugged
  /\ plugged' = FALSE
  /\ rx' = 0
  /\ out' = 0
  /\ UNCHANGED <<argv, pc, fd, got, status, cut, vmin, sent>>

-----------------------------------------------------------------------------
Step(p) ==
  \/ Open(p) \/ SetInterfaceAttribs(p) \/ SetBlocking(p) \/ Main(p) \/ Write(p)
  \/ WriteBeyond(p) \/ ReadByte(p) \/ Wait(p) \/ Timeout(p) \/ Hangup(p) \/ ReadFailing(p)

Next ==
  \/ \E p \in Procs : (\E r \in Requests : Start(p, r)) \/ Step(p)
  \/ Deliver
  \/ Unplug

Spec == Init /\ [][Next]_vars

\* The kernel schedules every process and the amplifier sends what it has to
\* send; nobody has to start an invocation or to pull the adapter out.
Fairness == (\A p \in Procs : WF_vars(Step(p))) /\ WF_vars(Deliver)

FairSpec == Spec /\ Fairness
-----------------------------------------------------------------------------
(***************************************************************************)
(* Properties.                                                             *)
(***************************************************************************)

Sender(p) == \E k \in DOMAIN sent : sent[k][1] = p

\* An invocation that has ended well although it counted fewer bytes than it
\* wanted had its reads cut short by another one: between its set_blocking()
\* and its last read another invocation went through init_audio().  With one
\* invocation at a time (and the adapter in place) no answer is ever truncated.
ShortReadsAreRaces ==
  \A p \in Procs :
    status[p] = "ok" /\ Sends(argv[p]) /\ got[p] < Want(p) /\ plugged => cut[p]

(***************************************************************************)
(* SerialLink implements CommandRun: the processes are the invocations and *)
(* the line is up while the adapter is there.                              *)
(***************************************************************************)
NoCode == -1
Wanted ==
  [p \in Procs |-> IF Sends(argv[p]) /\ InTable(argv[p]) THEN CodeSent(argv[p]) ELSE NoCode]
Phase ==
  [p \in Procs |-> CASE pc[p] = "off"  -> "idle"
                     [] pc[p] = "exit" -> "ended"
                     [] pc[p] \in Location \ {"off", "exit"} /\ Sender(p) -> "handed"
                     [] OTHER           -> "asked"]

CR == INSTANCE CommandRun WITH
        Runs <- Procs, Frames <- CodeIndex, NoFrame <- NoCode,
        wanted <- Wanted, phase <- Phase, up <- plugged, log <- sent

\* Every invocation hands over at most one frame, the one its words ask for, and
\* none ends empty-handed while the adapter is there, whatever the invocations
\* do to each other's reads.
ImplementsCommandRun == CR!CRSpec

(***************************************************************************)
(* The inductive invariant behind TypeOK and ShortReadsAreRaces.           *)
(***************************************************************************)

\* Only a request that gets so far is where it is.
OnItsWay ==
  \A p \in Procs :
    /\ pc[p] \notin {"off", "exit"} => Prologue(argv[p]) = "init"
    /\ pc[p] \in {"write"} \cup Reading => Sends(argv[p])
    /\ status[p] # "running" => pc[p] = "exit"

\* While VMIN is 0, whoever has finished init_audio() has been interfered with.
VminZeroIsForeign ==
  plugged /\ vmin = 0 => \A p \in Procs : pc[p] \in AfterInit /\ fd[p] => cut[p]

\* Only who has been interfered with waits with a timeout.
TimedReadIsForeign ==
  plugged => \A p \in Procs : pc[p] = "timed" => cut[p]

IInv ==
  /\ TypeOK
  /\ OnItsWay
  /\ VminZeroIsForeign
  /\ TimedReadIsForeign
  /\ ShortReadsAreRaces

\* The requests that send nothing, and those whose answer is longer than the 28
\* bytes process_command() counts for everything but power.
Ample(r) == Sends(r) => r.cmd # "POWER" /\ Answer(r) > 28

\* Every invocation that is started ends, as long as all that are on the line have
\* ample answers, whatever they take from each other.
EveryRunEnds ==
  \A p \in Procs : pc[p] # "off" ~> pc[p] = "exit" \/ \E q \in Procs : ~Ample(argv[q])

\* process_command() "returns 0 on a success" (CS490FinalPaper.ms): it returns.
ProcessCommandReturns == \A p \in Procs : pc[p] = "read" ~> pc[p] = "exit"
=============================================================================
