------------------------------ MODULE Service ------------------------------
(***************************************************************************)
(* The service commands of mca66d (install, remove, start, stop, status),  *)
(* as takama/daemon carries them out with each service manager it knows.   *)
(* Each command is a process that goes through the steps of its method;    *)
(* somebody else may run another one at the same time, any call to the     *)
(* system may fail, and a command may be interrupted between two steps.    *)
(***************************************************************************)
EXTENDS Naturals, Sequences

CONSTANTS Procs,       \* places a command is run from
          MaxCommands, \* bounds on commands and on
          MaxFaults    \* failures, interruptions and ends of the service

ASSUME ServiceAssumption == MaxCommands \in Nat /\ MaxFaults \in Nat

VARIABLES
  manager, \* the service manager of this machine
  sys,     \* what the machine knows of the service
  cmd,     \* the method each process runs
  pc,      \* its next step, 0 when it runs none
  result,  \* how it ended
  alone,   \* history: nobody else has taken a step since it began, nor has
           \* the service ended but for who waits for that
  overlooked, \* history: a call of its command has failed unnoticed
  crossed, \* history: an Install() and a Remove() have been under way at once
  commands, faults \* counted for the bounds

vars == <<manager, sys, cmd, pc, result, alone, overlooked, crossed, commands, faults>>
-----------------------------------------------------------------------------
(***************************************************************************)
(* The methods of the six records of takama/daemon, as the calls they      *)
(* make in order.  Each returns at the first one that is refused or fails. *)
(***************************************************************************)
Create == <<"privileges", "absent", "create", "path", "write">>
CreateAndChmod == <<"privileges", "absent", "create", "path", "write", "chmod">>
Drop == <<"privileges", "present", "unlink">>
Unix(install, remove) == [install |-> install, remove |-> remove,
                          start   |-> <<"privileges", "present", "stopped", "launch">>,
                          stop    |-> <<"privileges", "present", "running", "halt">>,
                          status  |-> <<"privileges", "present", "query">>]

\* A plausible bug: Remove() deletes the unit file before it is disabled.
BadSystemD == Unix(Create \o <<"reload", "enable">>,
                   <<"privileges", "present", "unlink", "disable">>)

SystemD == Unix(<<"privileges", "absent", "create", "path", "write", "reload", "enable">>,
                <<"privileges", "present", "disable", "unlink">>)

\* A plausible bug: Remove() takes away only the links that start the service.
BadSystemV == Unix(CreateAndChmod \o <<"linkS", "linkK">>,
                   <<"privileges", "present", "unlink", "unlinkS">>)

SystemV == Unix(<<"privileges", "absent", "create", "path", "write", "chmod", "linkS", "linkK">>,
                <<"privileges", "present", "unlink", "unlinkS", "unlinkK">>)
Upstart == Unix(CreateAndChmod, Drop)
Bsd     == Unix(CreateAndChmod, Drop)
Darwin  == Unix(Create, Drop)

\* A plausible bug: Stop() does not wait for the service.
BadWindows ==
  [install |-> <<"path", "connect", "vacant", "register">>,
   remove  |-> <<"connect", "open", "delete">>,
   start   |-> <<"connect", "open", "launch">>,
   stop    |-> <<"connect", "open", "control">>,
   status  |-> <<"connect", "open", "query">>]

Windows ==
  [install |-> <<"path", "connect", "vacant", "register">>,
   remove  |-> <<"connect", "open", "delete">>,
   start   |-> <<"connect", "open", "launch">>,
   stop    |-> <<"connect", "open", "control", "await">>,
   status  |-> <<"connect", "open", "query">>]

Methods == [systemd |-> SystemD, systemv |-> SystemV, upstart |-> Upstart,
            bsd |-> Bsd, darwin |-> Darwin, windows |-> Windows]
Managers == DOMAIN Methods
Commands == DOMAIN Windows
-----------------------------------------------------------------------------
(***************************************************************************)
(* file: the unit file (with windows, the entry of the service, "marked"   *)
(* when it is to go once the service has stopped); open: who has the file  *)
(* that is there now open for writing; links: those of the run levels.     *)
(***************************************************************************)
Sys == [file: {"none", "empty", "full", "marked"}, open: SUBSET Procs, exec: BOOLEAN,
        enabled: BOOLEAN, links: SUBSET {"S", "K"}, running: BOOLEAN, stopping: BOOLEAN]

NoService == [file |-> "none", open |-> {}, exec |-> FALSE, enabled |-> FALSE,
              links |-> {}, running |-> FALSE, stopping |-> FALSE]

\* What a step that looks or acts must find; isInstalled(), checkRunning(),
\* and the conditions of the service manager.  systemd takes an empty unit
\* file for a masked one.
Finds(m, s, step) ==
  CASE step \in {"absent", "vacant", "register"} -> s.file = "none"
    [] step \in {"present", "open", "disable", "unlink", "chmod"} -> s.file # "none"
    [] step = "stopped" -> ~s.running
    [] step \in {"running", "control"} -> s.running
    [] step = "delete"  -> s.file # "marked"
    [] step = "enable"  -> s.file = "full"
    [] step = "launch"  -> /\ s.file = "full"
                           /\ m \in {"systemv", "bsd"} => s.exec
                           /\ m = "windows" => ~s.running
    [] step = "linkS"   -> "S" \notin s.links
    [] step = "linkK"   -> "K" \notin s.links
    [] OTHER -> TRUE

\* What it leaves when process p takes it.
Done(s, step, p) ==
  CASE step = "create"   -> [s EXCEPT !.file = "empty", !.open = @ \union {p}]
    [] step = "write"    -> IF p \in s.open THEN [s EXCEPT !.file = "full"] ELSE s
    [] step = "register" -> [s EXCEPT !.file = "full"]
    [] step = "chmod"    -> [s EXCEPT !.exec = TRUE]
    [] step = "enable"   -> [s EXCEPT !.enabled = TRUE]
    [] step = "disable"  -> [s EXCEPT !.enabled = FALSE]
    [] step = "linkS"    -> [s EXCEPT !.links = @ \union {"S"}]
    [] step = "linkK"    -> [s EXCEPT !.links = @ \union {"K"}]
    [] step = "unlinkS"  -> [s EXCEPT !.links = @ \ {"S"}]
    [] step = "unlinkK"  -> [s EXCEPT !.links = @ \ {"K"}]
    [] step = "unlink"   -> [s EXCEPT !.file = "none", !.open = {}, !.exec = FALSE]
    [] step = "delete"   -> [s EXCEPT !.file = IF s.running THEN "marked" ELSE "none"]
    [] step = "launch"   -> [s EXCEPT !.running = TRUE]
    [] step = "halt"     -> [s EXCEPT !.running = FALSE]
    [] step = "control"  -> [s EXCEPT !.stopping = TRUE]
    [] OTHER             -> s

\* The service ends, told to or not.
Ended(s) == [s EXCEPT !.running = FALSE, !.stopping = FALSE,
                      !.file = IF @ = "marked" THEN "none" ELSE @]

\* A step that is refused or fails ends the command, with the error named
\* here where it is one of the package's own.  OpenService() finding the
\* service ends Install() with the error of that call, which is none: only the
\* text says that it has failed.
Refusals == [absent  |-> "ErrAlreadyInstalled", present |-> "ErrNotInstalled",
             stopped |-> "ErrAlreadyRunning",   running |-> "ErrAlreadyStopped",
             vacant  |-> "nil, FAILED"]
Refusal(step) == IF step \in DOMAIN Refusals THEN Refusals[step] ELSE "error"
Results == {"ok", "is running", "is stopped", "error", "killed"}
             \union {Refusals[step] : step \in DOMAIN Refusals}

\* A plausible bug: the loops of SystemV's Install() and Remove() return
\* the errors of the links.
BadIgnored == {}

\* Errors of os.Symlink() and of os.Remove() on the links are passed over.
Ignored == {"linkS", "linkK", "unlinkS", "unlinkK"}

\* os.Stat(), the status command or OpenService() failing is taken for a
\* "no": nothing is installed, nothing is running.  Only the Query() of Windows
\* is an error when it fails.
TakenForNo(m) == {"absent", "stopped", "vacant"} \union (IF m = "windows" THEN {} ELSE {"query"})

\* So it is where a "no" ends the command.
EndsWithNo == {"present", "running"}
-----------------------------------------------------------------------------
Init == /\ manager \in Managers
        /\ sys = NoService
        /\ cmd = [p \in Procs |-> "status"]
        /\ pc = [p \in Procs |-> 0]
        /\ result = [p \in Procs |-> "ok"]
        /\ alone = [p \in Procs |-> FALSE]
        /\ overlooked = [p \in Procs |-> FALSE] /\ crossed = FALSE
        /\ commands = 0 /\ faults = 0

Method(p) == Methods[manager][cmd[p]]
Due(p)  == Method(p)[pc[p]] \* the step p is at
ByItself(p) == [q \in Procs |-> q = p /\ alone[q]]

\* Whether a command c crosses one that is under way.
Crosses(c) == \E q \in Procs : pc[q] # 0 /\ {cmd[q], c} = {"install", "remove"}

\* supervisor(): a command is given.
Begin(p, c) ==
  /\ pc[p] = 0 /\ commands < MaxCommands
  /\ cmd' = [cmd EXCEPT ![p] = c]
  /\ pc' = [pc EXCEPT ![p] = 1]
  /\ alone' = [alone EXCEPT ![p] = TRUE]
  /\ overlooked' = [overlooked EXCEPT ![p] = FALSE]
  /\ crossed' = (crossed \/ Crosses(c))
  /\ commands' = commands + 1
  /\ UNCHANGED <<manager, sys, result, faults>>

\* What a method returns after its last step; up is what it has seen of the
\* service.
Told(p, up) == IF cmd[p] # "status" THEN "ok" ELSE IF up THEN "is running" ELSE "is stopped"

\* A plausible bug: the method does not return after its last step.
BadGoOn(p, up) == pc' = [pc EXCEPT ![p] = @ + 1] /\ UNCHANGED result

\* The command goes on to its next step, and ends well after the last.
GoOn(p, up) == IF pc[p] = Len(Method(p))
               THEN pc' = [pc EXCEPT ![p] = 0] /\ result' = [result EXCEPT ![p] = Told(p, up)]
               ELSE pc' = [pc EXCEPT ![p] = @ + 1] /\ UNCHANGED result
GiveUp(p, with) == pc' = [pc EXCEPT ![p] = 0] /\ result' = [result EXCEPT ![p] = with]

\* A plausible bug: stopAndWait() waits for the service to be stopping.
BadStopped(s) == s.stopping

\* What ends the loop of stopAndWait().  Its timeout only leaves the select.
Stopped(s) == ~s.running

Step(p) ==
  /\ pc[p] # 0
  /\ LET step == Due(p)
     IN  /\ step = "await" => Stopped(sys)
         /\ IF Finds(manager, sys, step)
            THEN GoOn(p, sys.running) /\ sys' = Done(sys, step, p)
            ELSE /\ IF step \in Ignored THEN GoOn(p, sys.running) ELSE GiveUp(p, Refusal(step))
                 /\ UNCHANGED sys
  /\ alone' = ByItself(p)
  /\ UNCHANGED <<manager, cmd, overlooked, crossed, commands, faults>>

\* The call of the step fails and does nothing.
Fail(p) ==
  /\ pc[p] # 0 /\ faults < MaxFaults
  /\ LET step == Due(p)
         passedOver == Ignored \union TakenForNo(manager)
     IN  /\ IF step \in passedOver THEN GoOn(p, FALSE)
            ELSE GiveUp(p, IF step \in EndsWithNo THEN Refusal(step) ELSE "error")
         /\ overlooked' = [overlooked EXCEPT ![p] = @ \/ step \in passedOver \union EndsWithNo]
  /\ faults' = faults + 1
  /\ alone' = ByItself(p)
  /\ UNCHANGED <<manager, sys, cmd, crossed, commands>>

\* The process of the command is killed between two steps.
Interrupt(p) ==
  /\ pc[p] # 0 /\ faults < MaxFaults
  /\ GiveUp(p, "killed")
  /\ faults' = faults + 1
  /\ UNCHANGED <<manager, sys, cmd, alone, overlooked, crossed, commands>>

ServiceEnds ==
  /\ sys.running
  /\ sys' = Ended(sys)
  /\ alone' = [p \in Procs |-> alone[p] /\ pc[p] # 0 /\ Due(p) = "await"]
  /\ UNCHANGED <<manager, cmd, pc, result, overlooked, crossed, commands>>

ServiceStops == sys.stopping /\ ServiceEnds /\ UNCHANGED faults
ServiceDies  == /\ ~sys.stopping /\ faults < MaxFaults
                /\ ServiceEnds /\ faults' = faults + 1

Next == \/ \E p \in Procs : Step(p) \/ Fail(p) \/ Interrupt(p)
        \/ \E p \in Procs, c \in Commands : Begin(p, c)
        \/ ServiceStops \/ ServiceDies

\* A command that has begun is run, and a service told to stop stops.
Spec == Init /\ [][Next]_vars /\ WF_vars(ServiceStops) /\ \A p \in Procs : WF_vars(Step(p))
-----------------------------------------------------------------------------
TypeOK == /\ manager \in Managers /\ sys \in Sys
          /\ cmd \in [Procs -> Commands]
          /\ pc \in [Procs -> Nat]
          /\ \A p \in Procs : pc[p] <= Len(Method(p))
          /\ result \in [Procs -> Results]
          /\ alone \in [Procs -> BOOLEAN]
          /\ overlooked \in [Procs -> BOOLEAN] /\ crossed \in BOOLEAN
          /\ commands \in 0..MaxCommands /\ faults \in 0..MaxFaults

Quiet == \A p \in Procs : pc[p] = 0

\* The unit of an installed service, and what makes it start at boot.
Written(s) == /\ s.file = "full"
              /\ manager \in {"systemv", "upstart", "bsd"} => s.exec
              /\ manager = "systemd" => s.enabled
Linked(s) == manager = "systemv" => s.links = {"S", "K"}
Whole(s) == Written(s) /\ Linked(s)

\* Nothing of it is left, but the entry Windows keeps of a service that runs.
Dropped(s)  == s.file \in {"none", "marked"} /\ (manager = "systemd" => ~s.enabled)
Unlinked(s) == manager = "systemv" => s.links = {}
Gone(s) == Dropped(s) /\ Unlinked(s)

\* What makes the end of a command true; sure says that no call of it has failed
\* unnoticed.
Achieved(c, sure) ==
  CASE c = "install" -> Written(sys) /\ (sure => Linked(sys))
    [] c = "remove"  -> Dropped(sys) /\ (sure => Unlinked(sys))
    [] c = "start"   -> sys.running
    [] c = "stop"    -> ~sys.running
    [] OTHER         -> FALSE

Truthful(c, told, sure) ==
  CASE told = "ok"                                     -> Achieved(c, sure)
    [] told \in {"nil, FAILED", "ErrAlreadyInstalled"} -> sys.file # "none"
    [] told \in {"is running", "ErrAlreadyRunning"}    -> sys.running
    [] told \in {"is stopped", "ErrAlreadyStopped"}    -> sure => ~sys.running
    [] told = "ErrNotInstalled"                        -> sure => sys.file = "none"
    [] OTHER                                           -> TRUE

\* What a command says when nobody else did anything meanwhile is so, whatever
\* was there before and whatever failed: without an error it has done what it is
\* for, and there is, is not, runs or does not run what its error or the status
\* says.  A call whose failure the code does not look at can only cost the links
\* of the run levels, or make a service that is there or runs seem not to.
SuccessMeansDone ==
  \A p \in Procs : pc[p] = 0 /\ alone[p] => Truthful(cmd[p], result[p], ~overlooked[p])

\* Commands run at the same time leave no half-installed service: when they
\* have all ended and nothing failed, the unit is not there, or is written,
\* executable where it must be, and enabled.  The links of the run levels are
\* all there with it and all gone without, and so is what enabled it, unless an
\* Install() and a Remove() were under way at once.
TogetherTheyLeaveAWhole ==
  Quiet /\ faults = 0 =>
    IF crossed THEN sys.file \in {"none", "marked"} \/ Written(sys)
    ELSE Gone(sys) \/ Whole(sys)

\* The next step of a command that is run without faults: on says that none
\* has ended it yet.
Somebody == CHOOSE p \in Procs : TRUE
Onward(r, step) ==
  CASE ~r.on -> r
    [] r.on /\ step = "await" -> [r EXCEPT !.sys = Ended(@)]
    [] r.on /\ step # "await" /\ Finds(manager, r.sys, step) ->
         [r EXCEPT !.sys = Done(@, step, Somebody)]
    [] OTHER -> [r EXCEPT !.on = step \in Ignored]

\* What such a command makes of the machine.
Run(s, c) ==
  LET method == Methods[manager][c]
      after[k \in 0..Len(method)] ==
        IF k = 0 THEN [on |-> TRUE, sys |-> s] ELSE Onward(after[k - 1], method[k])
  IN  after[Len(method)].sys

\* Whatever has failed, been interrupted or been run at the same time, the
\* commands themselves get out of it: stop, remove, install and start give
\* a running service that is whole, links included.
Repairable ==
  Quiet => LET s == Run(Run(Run(Run(sys, "stop"), "remove"), "install"), "start")
           IN  Whole(s) /\ s.running

\* A command that does not end waits for a service that runs: Stop() with
\* windows, when somebody has started the service again between two of its
\* queries.
OnlyTheServiceHoldsUp ==
  \A p \in Procs : pc[p] # 0 ~> pc[p] = 0 \/ sys.running
=============================================================================
