--------------------------- MODULE ServiceProofs ---------------------------
(***************************************************************************)
(* What holds of the service commands under each of the six service        *)
(* managers, for any number of people that give any number of commands,    *)
(* with any number of failures and interruptions: a command that says it   *)
(* has succeeded has, commands given at the same time leave no half a      *)
(* service behind, and whatever has been left there is a way out of it.    *)
(***************************************************************************)
EXTENDS Service, WellFoundedInduction, TLAPS

StepName ==
  {"privileges", "absent", "create", "path", "write", "reload", "enable", "chmod", "linkS",
   "linkK", "present", "disable", "unlink", "unlinkS", "unlinkK", "stopped", "launch",
   "running", "halt", "query", "connect", "vacant", "register", "open", "delete",
   "control", "await"}

-----------------------------------------------------------------------------
(***************************************************************************)
(* The methods, call by call.                                              *)
(***************************************************************************)

LEMMA Names ==
  /\ Managers = {"systemd", "systemv", "upstart", "bsd", "darwin", "windows"}
  /\ Commands = {"install", "remove", "start", "stop", "status"}
BY DEF Managers, Methods, Commands, Windows

\* What the proofs need to know of a step d of the method of command c under
\* manager m, and of the step n that follows it unless it is the last.
Edge(m, c, d, last, n) ==
  /\ d \in StepName
  /\ ~last => n \in StepName
  /\ last => CASE c = "install" -> d = (CASE m = "systemd" -> "enable"
                                          [] m = "systemv" -> "linkK"
                                          [] m = "darwin"  -> "write"
                                          [] m = "windows" -> "register"
                                          [] OTHER         -> "chmod")
               [] c = "remove"  -> d = (CASE m = "systemv" -> "unlinkK"
                                          [] m = "windows" -> "delete"
                                          [] OTHER         -> "unlink")
               [] c = "start"   -> d = "launch"
               [] c = "stop"    -> d = (IF m = "windows" THEN "await" ELSE "halt")
               [] OTHER         -> d = "query"
  \* What comes next,
  /\ d = "create" => m # "windows" /\ ~last /\ n = "path"
  /\ d = "path" /\ m # "windows" => ~last /\ n = "write"
  /\ d = "write" /\ m = "systemd" => ~last /\ n = "reload"
  /\ d = "write" /\ m \in {"systemv", "upstart", "bsd"} => ~last /\ n = "chmod"
  /\ d = "reload" => ~last /\ n = "enable"
  /\ d = "disable" => ~last /\ n = "unlink"
  /\ d = "chmod" /\ m = "systemv" => ~last /\ n = "linkS"
  /\ d = "linkS" => ~last /\ n = "linkK"
  /\ d = "unlink" /\ m = "systemv" => ~last /\ n = "unlinkS"
  /\ d = "unlinkS" => ~last /\ n = "unlinkK"
  \* what came before,
  /\ ~last /\ m # "windows" /\ n = "path" => d = "create"
  /\ ~last /\ n = "write" => d = "path" /\ m # "windows"
  /\ ~last /\ n \in {"chmod", "reload"} => d = "write"
  /\ ~last /\ n = "enable" => d = "reload"
  /\ ~last /\ n = "linkS" => d = "chmod"
  /\ ~last /\ n = "linkK" => d = "linkS"
  /\ ~last /\ n = "unlink" /\ m = "systemd" => d = "disable"
  /\ ~last /\ n = "unlinkS" => d = "unlink"
  /\ ~last /\ n = "unlinkK" => d = "unlinkS"
  \* and where a step belongs.
  /\ d \in {"register", "delete", "vacant", "await"} => m = "windows"
  /\ d \in {"create", "write", "halt"} => m # "windows"
  /\ d \in {"vacant", "create", "path", "write", "chmod", "enable", "linkS", "linkK"} => c = "install"
  /\ d \in {"unlink", "unlinkS", "unlinkK"} => c = "remove"
  /\ d = "chmod" => m \in {"systemv", "upstart", "bsd"}
  /\ d \in {"reload", "enable", "disable"} => m = "systemd"

LEMMA SystemDFlow ==
  ASSUME NEW c \in Commands, NEW k \in 1..Len(SystemD[c])
  PROVE  Edge("systemd", c, SystemD[c][k], k = Len(SystemD[c]), SystemD[c][k + 1])
<1>1. CASE c = "install"
  <2> DEFINE s == SystemD[c]
  <2>1. Len(s) = 7 /\ s[1] = "privileges" /\ s[2] = "absent" /\ s[3] = "create"
        /\ s[4] = "path" /\ s[5] = "write" /\ s[6] = "reload" /\ s[7] = "enable"
    BY <1>1 DEF SystemD, Unix
  <2> HIDE DEF s
  <2>2. k \in 1..7
    BY <2>1 DEF s
  <2>3. Edge("systemd", c, s[k], k = 7, s[k + 1])
    BY <1>1, <2>1, <2>2 DEF Edge, StepName
  <2> QED
    BY <2>1, <2>3 DEF s
<1>2. CASE c = "remove"
  <2> DEFINE s == SystemD[c]
  <2>1. Len(s) = 4 /\ s[1] = "privileges" /\ s[2] = "present" /\ s[3] = "disable"
        /\ s[4] = "unlink"
    BY <1>2 DEF SystemD, Unix
  <2> HIDE DEF s
  <2>2. k \in 1..4
    BY <2>1 DEF s
  <2>3. Edge("systemd", c, s[k], k = 4, s[k + 1])
    BY <1>2, <2>1, <2>2 DEF Edge, StepName
  <2> QED
    BY <2>1, <2>3 DEF s
<1>3. CASE c = "start"
  <2> DEFINE s == SystemD[c]
  <2>1. Len(s) = 4 /\ s[1] = "privileges" /\ s[2] = "present" /\ s[3] = "stopped"
        /\ s[4] = "launch"
    BY <1>3 DEF SystemD, Unix
  <2> HIDE DEF s
  <2>2. k \in 1..4
    BY <2>1 DEF s
  <2>3. Edge("systemd", c, s[k], k = 4, s[k + 1])
    BY <1>3, <2>1, <2>2 DEF Edge, StepName
  <2> QED
    BY <2>1, <2>3 DEF s
<1>4. CASE c = "stop"
  <2> DEFINE s == SystemD[c]
  <2>1. Len(s) = 4 /\ s[1] = "privileges" /\ s[2] = "present" /\ s[3] = "running" /\ s[4] = "halt"
    BY <1>4 DEF SystemD, Unix
  <2> HIDE DEF s
  <2>2. k \in 1..4
    BY <2>1 DEF s
  <2>3. Edge("systemd", c, s[k], k = 4, s[k + 1])
    BY <1>4, <2>1, <2>2 DEF Edge, StepName
  <2> QED
    BY <2>1, <2>3 DEF s
<1>5. CASE c = "status"
  <2> DEFINE s == SystemD[c]
  <2>1. Len(s) = 3 /\ s[1] = "privileges" /\ s[2] = "present" /\ s[3] = "query"
    BY <1>5 DEF SystemD, Unix
  <2> HIDE DEF s
  <2>2. k \in 1..3
    BY <2>1 DEF s
  <2>3. Edge("systemd", c, s[k], k = 3, s[k + 1])
    BY <1>5, <2>1, <2>2 DEF Edge, StepName
  <2> QED
    BY <2>1, <2>3 DEF s
<1> QED
  BY Names, <1>1, <1>2, <1>3, <1>4, <1>5

LEMMA SystemVFlow ==
  ASSUME NEW c \in Commands, NEW k \in 1..Len(SystemV[c])
  PROVE  Edge("systemv", c, SystemV[c][k], k = Len(SystemV[c]), SystemV[c][k + 1])
<1>1. CASE c = "install"
  <2> DEFINE s == SystemV[c]
  <2>1. Len(s) = 8 /\ s[1] = "privileges" /\ s[2] = "absent" /\ s[3] = "create"
        /\ s[4] = "path" /\ s[5] = "write" /\ s[6] = "chmod" /\ s[7] = "linkS"
        /\ s[8] = "linkK"
    BY <1>1 DEF SystemV, Unix
  <2> HIDE DEF s
  <2>2. k \in 1..8
    BY <2>1 DEF s
  <2>3. Edge("systemv", c, s[k], k = 8, s[k + 1])
    BY <1>1, <2>1, <2>2 DEF Edge, StepName
  <2> QED
    BY <2>1, <2>3 DEF s
<1>2. CASE c = "remove"
  <2> DEFINE s == SystemV[c]
  <2>1. Len(s) = 5 /\ s[1] = "privileges" /\ s[2] = "present" /\ s[3] = "unlink"
        /\ s[4] = "unlinkS" /\ s[5] = "unlinkK"
    BY <1>2 DEF SystemV, Unix
  <2> HIDE DEF s
  <2>2. k \in 1..5
    BY <2>1 DEF s
  <2>3. Edge("systemv", c, s[k], k = 5, s[k + 1])
    BY <1>2, <2>1, <2>2 DEF Edge, StepName
  <2> QED
    BY <2>1, <2>3 DEF s
<1>3. CASE c = "start"
  <2> DEFINE s == SystemV[c]
  <2>1. Len(s) = 4 /\ s[1] = "privileges" /\ s[2] = "present" /\ s[3] = "stopped"
        /\ s[4] = "launch"
    BY <1>3 DEF SystemV, Unix
  <2> HIDE DEF s
  <2>2. k \in 1..4
    BY <2>1 DEF s
  <2>3. Edge("systemv", c, s[k], k = 4, s[k + 1])
    BY <1>3, <2>1, <2>2 DEF Edge, StepName
  <2> QED
    BY <2>1, <2>3 DEF s
<1>4. CASE c = "stop"
  <2> DEFINE s == SystemV[c]
  <2>1. Len(s) = 4 /\ s[1] = "privileges" /\ s[2] = "present" /\ s[3] = "running" /\ s[4] = "halt"
    BY <1>4 DEF SystemV, Unix
  <2> HIDE DEF s
  <2>2. k \in 1..4
    BY <2>1 DEF s
  <2>3. Edge("systemv", c, s[k], k = 4, s[k + 1])
    BY <1>4, <2>1, <2>2 DEF Edge, StepName
  <2> QED
    BY <2>1, <2>3 DEF s
<1>5. CASE c = "status"
  <2> DEFINE s == SystemV[c]
  <2>1. Len(s) = 3 /\ s[1] = "privileges" /\ s[2] = "present" /\ s[3] = "query"
    BY <1>5 DEF SystemV, Unix
  <2> HIDE DEF s
  <2>2. k \in 1..3
    BY <2>1 DEF s
  <2>3. Edge("systemv", c, s[k], k = 3, s[k + 1])
    BY <1>5, <2>1, <2>2 DEF Edge, StepName
  <2> QED
    BY <2>1, <2>3 DEF s
<1> QED
  BY Names, <1>1, <1>2, <1>3, <1>4, <1>5

LEMMA UpstartFlow ==
  ASSUME NEW c \in Commands, NEW k \in 1..Len(Upstart[c])
  PROVE  Edge("upstart", c, Upstart[c][k], k = Len(Upstart[c]), Upstart[c][k + 1])
<1>1. CASE c = "install"
  <2> DEFINE s == Upstart[c]
  <2>1. Len(s) = 6 /\ s[1] = "privileges" /\ s[2] = "absent" /\ s[3] = "create"
        /\ s[4] = "path" /\ s[5] = "write" /\ s[6] = "chmod"
    BY <1>1 DEF Upstart, Unix, CreateAndChmod
  <2> HIDE DEF s
  <2>2. k \in 1..6
    BY <2>1 DEF s
  <2>3. Edge("upstart", c, s[k], k = 6, s[k + 1])
    BY <1>1, <2>1, <2>2 DEF Edge, StepName
  <2> QED
    BY <2>1, <2>3 DEF s
<1>2. CASE c = "remove"
  <2> DEFINE s == Upstart[c]
  <2>1. Len(s) = 3 /\ s[1] = "privileges" /\ s[2] = "present" /\ s[3] = "unlink"
    BY <1>2 DEF Upstart, Unix, Drop
  <2> HIDE DEF s
  <2>2. k \in 1..3
    BY <2>1 DEF s
  <2>3. Edge("upstart", c, s[k], k = 3, s[k + 1])
    BY <1>2, <2>1, <2>2 DEF Edge, StepName
  <2> QED
    BY <2>1, <2>3 DEF s
<1>3. CASE c = "start"
  <2> DEFINE s == Upstart[c]
  <2>1. Len(s) = 4 /\ s[1] = "privileges" /\ s[2] = "present" /\ s[3] = "stopped"
        /\ s[4] = "launch"
    BY <1>3 DEF Upstart, Unix
  <2> HIDE DEF s
  <2>2. k \in 1..4
    BY <2>1 DEF s
  <2>3. Edge("upstart", c, s[k], k = 4, s[k + 1])
    BY <1>3, <2>1, <2>2 DEF Edge, StepName
  <2> QED
    BY <2>1, <2>3 DEF s
<1>4. CASE c = "stop"
  <2> DEFINE s == Upstart[c]
  <2>1. Len(s) = 4 /\ s[1] = "privileges" /\ s[2] = "present" /\ s[3] = "running" /\ s[4] = "halt"
    BY <1>4 DEF Upstart, Unix
  <2> HIDE DEF s
  <2>2. k \in 1..4
    BY <2>1 DEF s
  <2>3. Edge("upstart", c, s[k], k = 4, s[k + 1])
    BY <1>4, <2>1, <2>2 DEF Edge, StepName
  <2> QED
    BY <2>1, <2>3 DEF s
<1>5. CASE c = "status"
  <2> DEFINE s == Upstart[c]
  <2>1. Len(s) = 3 /\ s[1] = "privileges" /\ s[2] = "present" /\ s[3] = "query"
    BY <1>5 DEF Upstart, Unix
  <2> HIDE DEF s
  <2>2. k \in 1..3
    BY <2>1 DEF s
  <2>3. Edge("upstart", c, s[k], k = 3, s[k + 1])
    BY <1>5, <2>1, <2>2 DEF Edge, StepName
  <2> QED
    BY <2>1, <2>3 DEF s
<1> QED
  BY Names, <1>1, <1>2, <1>3, <1>4, <1>5

LEMMA BsdFlow ==
  ASSUME NEW c \in Commands, NEW k \in 1..Len(Bsd[c])
  PROVE  Edge("bsd", c, Bsd[c][k], k = Len(Bsd[c]), Bsd[c][k + 1])
<1>1. CASE c = "install"
  <2> DEFINE s == Bsd[c]
  <2>1. Len(s) = 6 /\ s[1] = "privileges" /\ s[2] = "absent" /\ s[3] = "create"
        /\ s[4] = "path" /\ s[5] = "write" /\ s[6] = "chmod"
    BY <1>1 DEF Bsd, Unix, CreateAndChmod
  <2> HIDE DEF s
  <2>2. k \in 1..6
    BY <2>1 DEF s
  <2>3. Edge("bsd", c, s[k], k = 6, s[k + 1])
    BY <1>1, <2>1, <2>2 DEF Edge, StepName
  <2> QED
    BY <2>1, <2>3 DEF s
<1>2. CASE c = "remove"
  <2> DEFINE s == Bsd[c]
  <2>1. Len(s) = 3 /\ s[1] = "privileges" /\ s[2] = "present" /\ s[3] = "unlink"
    BY <1>2 DEF Bsd, Unix, Drop
  <2> HIDE DEF s
  <2>2. k \in 1..3
    BY <2>1 DEF s
  <2>3. Edge("bsd", c, s[k], k = 3, s[k + 1])
    BY <1>2, <2>1, <2>2 DEF Edge, StepName
  <2> QED
    BY <2>1, <2>3 DEF s
<1>3. CASE c = "start"
  <2> DEFINE s == Bsd[c]
  <2>1. Len(s) = 4 /\ s[1] = "privileges" /\ s[2] = "present" /\ s[3] = "stopped"
        /\ s[4] = "launch"
    BY <1>3 DEF Bsd, Unix
  <2> HIDE DEF s
  <2>2. k \in 1..4
    BY <2>1 DEF s
  <2>3. Edge("bsd", c, s[k], k = 4, s[k + 1])
    BY <1>3, <2>1, <2>2 DEF Edge, StepName
  <2> QED
    BY <2>1, <2>3 DEF s
<1>4. CASE c = "stop"
  <2> DEFINE s == Bsd[c]
  <2>1. Len(s) = 4 /\ s[1] = "privileges" /\ s[2] = "present" /\ s[3] = "running" /\ s[4] = "halt"
    BY <1>4 DEF Bsd, Unix
  <2> HIDE DEF s
  <2>2. k \in 1..4
    BY <2>1 DEF s
  <2>3. Edge("bsd", c, s[k], k = 4, s[k + 1])
    BY <1>4, <2>1, <2>2 DEF Edge, StepName
  <2> QED
    BY <2>1, <2>3 DEF s
<1>5. CASE c = "status"
  <2> DEFINE s == Bsd[c]
  <2>1. Len(s) = 3 /\ s[1] = "privileges" /\ s[2] = "present" /\ s[3] = "query"
    BY <1>5 DEF Bsd, Unix
  <2> HIDE DEF s
  <2>2. k \in 1..3
    BY <2>1 DEF s
  <2>3. Edge("bsd", c, s[k], k = 3, s[k + 1])
    BY <1>5, <2>1, <2>2 DEF Edge, StepName
  <2> QED
    BY <2>1, <2>3 DEF s
<1> QED
  BY Names, <1>1, <1>2, <1>3, <1>4, <1>5

LEMMA DarwinFlow ==
  ASSUME NEW c \in Commands, NEW k \in 1..Len(Darwin[c])
  PROVE  Edge("darwin", c, Darwin[c][k], k = Len(Darwin[c]), Darwin[c][k + 1])
<1>1. CASE c = "install"
  <2> DEFINE s == Darwin[c]
  <2>1. Len(s) = 5 /\ s[1] = "privileges" /\ s[2] = "absent" /\ s[3] = "create"
        /\ s[4] = "path" /\ s[5] = "write"
    BY <1>1 DEF Darwin, Unix, Create
  <2> HIDE DEF s
  <2>2. k \in 1..5
    BY <2>1 DEF s
  <2>3. Edge("darwin", c, s[k], k = 5, s[k + 1])
    BY <1>1, <2>1, <2>2 DEF Edge, StepName
  <2> QED
    BY <2>1, <2>3 DEF s
<1>2. CASE c = "remove"
  <2> DEFINE s == Darwin[c]
  <2>1. Len(s) = 3 /\ s[1] = "privileges" /\ s[2] = "present" /\ s[3] = "unlink"
    BY <1>2 DEF Darwin, Unix, Drop
  <2> HIDE DEF s
  <2>2. k \in 1..3
    BY <2>1 DEF s
  <2>3. Edge("darwin", c, s[k], k = 3, s[k + 1])
    BY <1>2, <2>1, <2>2 DEF Edge, StepName
  <2> QED
    BY <2>1, <2>3 DEF s
<1>3. CASE c = "start"
  <2> DEFINE s == Darwin[c]
  <2>1. Len(s) = 4 /\ s[1] = "privileges" /\ s[2] = "present" /\ s[3] = "stopped"
        /\ s[4] = "launch"
    BY <1>3 DEF Darwin, Unix
  <2> HIDE DEF s
  <2>2. k \in 1..4
    BY <2>1 DEF s
  <2>3. Edge("darwin", c, s[k], k = 4, s[k + 1])
    BY <1>3, <2>1, <2>2 DEF Edge, StepName
  <2> QED
    BY <2>1, <2>3 DEF s
<1>4. CASE c = "stop"
  <2> DEFINE s == Darwin[c]
  <2>1. Len(s) = 4 /\ s[1] = "privileges" /\ s[2] = "present" /\ s[3] = "running" /\ s[4] = "halt"
    BY <1>4 DEF Darwin, Unix
  <2> HIDE DEF s
  <2>2. k \in 1..4
    BY <2>1 DEF s
  <2>3. Edge("darwin", c, s[k], k = 4, s[k + 1])
    BY <1>4, <2>1, <2>2 DEF Edge, StepName
  <2> QED
    BY <2>1, <2>3 DEF s
<1>5. CASE c = "status"
  <2> DEFINE s == Darwin[c]
  <2>1. Len(s) = 3 /\ s[1] = "privileges" /\ s[2] = "present" /\ s[3] = "query"
    BY <1>5 DEF Darwin, Unix
  <2> HIDE DEF s
  <2>2. k \in 1..3
    BY <2>1 DEF s
  <2>3. Edge("darwin", c, s[k], k = 3, s[k + 1])
    BY <1>5, <2>1, <2>2 DEF Edge, StepName
  <2> QED
    BY <2>1, <2>3 DEF s
<1> QED
  BY Names, <1>1, <1>2, <1>3, <1>4, <1>5

LEMMA WindowsFlow ==
  ASSUME NEW c \in Commands, NEW k \in 1..Len(Windows[c])
  PROVE  Edge("windows", c, Windows[c][k], k = Len(Windows[c]), Windows[c][k + 1])
<1>1. CASE c = "install"
  <2> DEFINE s == Windows[c]
  <2>1. Len(s) = 4 /\ s[1] = "path" /\ s[2] = "connect" /\ s[3] = "vacant" /\ s[4] = "register"
    BY <1>1 DEF Windows
  <2> HIDE DEF s
  <2>2. k \in 1..4
    BY <2>1 DEF s
  <2>3. Edge("windows", c, s[k], k = 4, s[k + 1])
    BY <1>1, <2>1, <2>2 DEF Edge, StepName
  <2> QED
    BY <2>1, <2>3 DEF s
<1>2. CASE c = "remove"
  <2> DEFINE s == Windows[c]
  <2>1. Len(s) = 3 /\ s[1] = "connect" /\ s[2] = "open" /\ s[3] = "delete"
    BY <1>2 DEF Windows
  <2> HIDE DEF s
  <2>2. k \in 1..3
    BY <2>1 DEF s
  <2>3. Edge("windows", c, s[k], k = 3, s[k + 1])
    BY <1>2, <2>1, <2>2 DEF Edge, StepName
  <2> QED
    BY <2>1, <2>3 DEF s
<1>3. CASE c = "start"
  <2> DEFINE s == Windows[c]
  <2>1. Len(s) = 3 /\ s[1] = "connect" /\ s[2] = "open" /\ s[3] = "launch"
    BY <1>3 DEF Windows
  <2> HIDE DEF s
  <2>2. k \in 1..3
    BY <2>1 DEF s
  <2>3. Edge("windows", c, s[k], k = 3, s[k + 1])
    BY <1>3, <2>1, <2>2 DEF Edge, StepName
  <2> QED
    BY <2>1, <2>3 DEF s
<1>4. CASE c = "stop"
  <2> DEFINE s == Windows[c]
  <2>1. Len(s) = 4 /\ s[1] = "connect" /\ s[2] = "open" /\ s[3] = "control" /\ s[4] = "await"
    BY <1>4 DEF Windows
  <2> HIDE DEF s
  <2>2. k \in 1..4
    BY <2>1 DEF s
  <2>3. Edge("windows", c, s[k], k = 4, s[k + 1])
    BY <1>4, <2>1, <2>2 DEF Edge, StepName
  <2> QED
    BY <2>1, <2>3 DEF s
<1>5. CASE c = "status"
  <2> DEFINE s == Windows[c]
  <2>1. Len(s) = 3 /\ s[1] = "connect" /\ s[2] = "open" /\ s[3] = "query"
    BY <1>5 DEF Windows
  <2> HIDE DEF s
  <2>2. k \in 1..3
    BY <2>1 DEF s
  <2>3. Edge("windows", c, s[k], k = 3, s[k + 1])
    BY <1>5, <2>1, <2>2 DEF Edge, StepName
  <2> QED
    BY <2>1, <2>3 DEF s
<1> QED
  BY Names, <1>1, <1>2, <1>3, <1>4, <1>5

\* A method has a step, and what that step is.
LEMMA Beginnings ==
  ASSUME NEW m \in Managers, NEW c \in Commands
  PROVE  /\ Len(Methods[m][c]) \in Nat \ {0}
         /\ Methods[m][c][1] \in IF m = "windows" THEN {"path", "connect"} ELSE {"privileges"}
<1>1. CASE m = "systemd"
  <2>1. CASE c = "install"
    <3>1. Methods[m][c] = SystemD.install
      BY <1>1, <2>1 DEF Methods
    <3>2. Len(SystemD.install) \in Nat \ {0} /\ SystemD.install[1] = "privileges"
      BY DEF SystemD, Unix
    <3> QED
      BY <1>1, <3>1, <3>2
  <2>2. CASE c = "remove"
    <3>1. Methods[m][c] = SystemD.remove
      BY <1>1, <2>2 DEF Methods
    <3>2. Len(SystemD.remove) \in Nat \ {0} /\ SystemD.remove[1] = "privileges"
      BY DEF SystemD, Unix
    <3> QED
      BY <1>1, <3>1, <3>2
  <2>3. CASE c = "start"
    <3>1. Methods[m][c] = SystemD.start
      BY <1>1, <2>3 DEF Methods
    <3>2. Len(SystemD.start) \in Nat \ {0} /\ SystemD.start[1] = "privileges"
      BY DEF SystemD, Unix
    <3> QED
      BY <1>1, <3>1, <3>2
  <2>4. CASE c = "stop"
    <3>1. Methods[m][c] = SystemD.stop
      BY <1>1, <2>4 DEF Methods
    <3>2. Len(SystemD.stop) \in Nat \ {0} /\ SystemD.stop[1] = "privileges"
      BY DEF SystemD, Unix
    <3> QED
      BY <1>1, <3>1, <3>2
  <2>5. CASE c = "status"
    <3>1. Methods[m][c] = SystemD.status
      BY <1>1, <2>5 DEF Methods
    <3>2. Len(SystemD.status) \in Nat \ {0} /\ SystemD.status[1] = "privileges"
      BY DEF SystemD, Unix
    <3> QED
      BY <1>1, <3>1, <3>2
  <2> QED
    BY Names, <2>1, <2>2, <2>3, <2>4, <2>5
<1>2. CASE m = "systemv"
  <2>1. CASE c = "install"
    <3>1. Methods[m][c] = SystemV.install
      BY <1>2, <2>1 DEF Methods
    <3>2. Len(SystemV.install) \in Nat \ {0} /\ SystemV.install[1] = "privileges"
      BY DEF SystemV, Unix
    <3> QED
      BY <1>2, <3>1, <3>2
  <2>2. CASE c = "remove"
    <3>1. Methods[m][c] = SystemV.remove
      BY <1>2, <2>2 DEF Methods
    <3>2. Len(SystemV.remove) \in Nat \ {0} /\ SystemV.remove[1] = "privileges"
      BY DEF SystemV, Unix
    <3> QED
      BY <1>2, <3>1, <3>2
  <2>3. CASE c = "start"
    <3>1. Methods[m][c] = SystemV.start
      BY <1>2, <2>3 DEF Methods
    <3>2. Len(SystemV.start) \in Nat \ {0} /\ SystemV.start[1] = "privileges"
      BY DEF SystemV, Unix
    <3> QED
      BY <1>2, <3>1, <3>2
  <2>4. CASE c = "stop"
    <3>1. Methods[m][c] = SystemV.stop
      BY <1>2, <2>4 DEF Methods
    <3>2. Len(SystemV.stop) \in Nat \ {0} /\ SystemV.stop[1] = "privileges"
      BY DEF SystemV, Unix
    <3> QED
      BY <1>2, <3>1, <3>2
  <2>5. CASE c = "status"
    <3>1. Methods[m][c] = SystemV.status
      BY <1>2, <2>5 DEF Methods
    <3>2. Len(SystemV.status) \in Nat \ {0} /\ SystemV.status[1] = "privileges"
      BY DEF SystemV, Unix
    <3> QED
      BY <1>2, <3>1, <3>2
  <2> QED
    BY Names, <2>1, <2>2, <2>3, <2>4, <2>5
<1>3. CASE m = "upstart"
  BY <1>3, Names DEF Methods, Upstart, Unix, CreateAndChmod, Drop
<1>4. CASE m = "bsd"
  BY <1>4, Names DEF Methods, Bsd, Unix, CreateAndChmod, Drop
<1>5. CASE m = "darwin"
  BY <1>5, Names DEF Methods, Darwin, Unix, Create, Drop
<1>6. CASE m = "windows"
  BY <1>6, Names DEF Methods, Windows
<1> QED
  BY Names, <1>1, <1>2, <1>3, <1>4, <1>5, <1>6

\* Every step of every method.
LEMMA Flow ==
  ASSUME NEW m \in Managers, NEW c \in Commands, NEW k \in 1..Len(Methods[m][c])
  PROVE  Edge(m, c, Methods[m][c][k], k = Len(Methods[m][c]), Methods[m][c][k + 1])
<1>1. CASE m = "systemd"
  <2>1. Methods[m] = SystemD
    BY <1>1 DEF Methods
  <2> QED
    BY <1>1, <2>1, SystemDFlow
<1>2. CASE m = "systemv"
  <2>1. Methods[m] = SystemV
    BY <1>2 DEF Methods
  <2> QED
    BY <1>2, <2>1, SystemVFlow
<1>3. CASE m = "upstart"
  <2>1. Methods[m] = Upstart
    BY <1>3 DEF Methods
  <2> QED
    BY <1>3, <2>1, UpstartFlow
<1>4. CASE m = "bsd"
  <2>1. Methods[m] = Bsd
    BY <1>4 DEF Methods
  <2> QED
    BY <1>4, <2>1, BsdFlow
<1>5. CASE m = "darwin"
  <2>1. Methods[m] = Darwin
    BY <1>5 DEF Methods
  <2> QED
    BY <1>5, <2>1, DarwinFlow
<1>6. CASE m = "windows"
  <2>1. Methods[m] = Windows
    BY <1>6 DEF Methods
  <2> QED
    BY <1>6, <2>1, WindowsFlow
<1> QED
  BY Names, <1>1, <1>2, <1>3, <1>4, <1>5, <1>6

-----------------------------------------------------------------------------
(***************************************************************************)
(* What a step leaves.                                                     *)
(***************************************************************************)

\* What step d of p leaves of each part of what the machine knows.
Leaves(s, d, p, r) ==
  /\ r.file = IF d = "create" THEN "empty"
              ELSE IF d = "register" \/ (d = "write" /\ p \in s.open) THEN "full"
              ELSE IF d = "unlink" THEN "none"
              ELSE IF d = "delete" THEN (IF s.running THEN "marked" ELSE "none")
              ELSE s.file
  /\ r.open = IF d = "create" THEN s.open \union {p}
              ELSE IF d = "unlink" THEN {} ELSE s.open
  /\ r.exec = IF d = "chmod" THEN TRUE ELSE IF d = "unlink" THEN FALSE ELSE s.exec
  /\ r.enabled = IF d = "enable" THEN TRUE ELSE IF d = "disable" THEN FALSE ELSE s.enabled
  /\ r.running = IF d = "launch" THEN TRUE ELSE IF d = "halt" THEN FALSE ELSE s.running

LeavesLinks(s, d, r) ==
  r.links = IF d = "linkS" THEN s.links \union {"S"}
            ELSE IF d = "linkK" THEN s.links \union {"K"}
            ELSE IF d = "unlinkS" THEN s.links \ {"S"}
            ELSE IF d = "unlinkK" THEN s.links \ {"K"}
            ELSE s.links

\* What a machine knows of a service that the members of P write the file of.
SysOf(P) ==
  [file: {"none", "empty", "full", "marked"}, open: SUBSET P, exec: BOOLEAN,
   enabled: BOOLEAN, links: SUBSET {"S", "K"}, running: BOOLEAN, stopping: BOOLEAN]

LEMMA DoneFieldsOf ==
  ASSUME NEW P, NEW s \in SysOf(P), NEW p \in P, NEW d \in StepName
  PROVE  /\ Done(s, d, p) \in SysOf(P)
         /\ Leaves(s, d, p, Done(s, d, p)) /\ LeavesLinks(s, d, Done(s, d, p))
<1> USE DEF SysOf, Leaves, LeavesLinks
<1>1. CASE d = "create"
  BY <1>1 DEF Done
<1>2. CASE d = "write"
  BY <1>2 DEF Done
<1>3. CASE d = "register"
  BY <1>3 DEF Done
<1>4. CASE d \in {"chmod", "enable", "disable"}
  BY <1>4 DEF Done
<1>5. CASE d \in {"linkS", "unlinkS"}
  BY <1>5 DEF Done
<1>6. CASE d \in {"linkK", "unlinkK"}
  BY <1>6 DEF Done
<1>7. CASE d = "unlink"
  BY <1>7 DEF Done
<1>8. CASE d = "delete"
  BY <1>8 DEF Done
<1>9. CASE d \in {"launch", "halt", "control"}
  BY <1>9 DEF Done
<1>10. CASE d \notin {"create", "write", "register", "chmod", "enable", "disable", "linkS",
                      "unlinkS", "linkK", "unlinkK", "unlink", "delete", "launch", "halt",
                      "control"}
  BY <1>10 DEF Done
<1> QED
  BY <1>1, <1>2, <1>3, <1>4, <1>5, <1>6, <1>7, <1>8, <1>9, <1>10

LEMMA DoneFields ==
  ASSUME NEW s \in Sys, NEW p \in Procs, NEW d \in StepName
  PROVE  Done(s, d, p) \in Sys /\ Leaves(s, d, p, Done(s, d, p))
<1>1. Sys = SysOf(Procs)
  BY DEF Sys, SysOf
<1> QED
  BY <1>1, DoneFieldsOf

LEMMA EndedFieldsOf ==
  ASSUME NEW P, NEW s \in SysOf(P)
  PROVE  /\ Ended(s) \in SysOf(P)
         /\ Ended(s).file = IF s.file = "marked" THEN "none" ELSE s.file
         /\ Ended(s).open = s.open /\ Ended(s).exec = s.exec
         /\ Ended(s).enabled = s.enabled /\ Ended(s).running = FALSE
         /\ Ended(s).links = s.links
BY DEF SysOf, Ended

LEMMA EndedFields ==
  ASSUME NEW s \in Sys
  PROVE  /\ Ended(s) \in Sys
         /\ Ended(s).file = IF s.file = "marked" THEN "none" ELSE s.file
         /\ Ended(s).open = s.open /\ Ended(s).exec = s.exec
         /\ Ended(s).enabled = s.enabled /\ Ended(s).running = FALSE
BY DEF Sys, Ended

\* The step after the one p is at, and whether there is none.
After(p) == Method(p)[pc[p] + 1]
AtEnd(p) == pc[p] = Len(Method(p))

LEMMA FlowHere ==
  ASSUME TypeOK, NEW p \in Procs, pc[p] # 0
  PROVE  Edge(manager, cmd[p], Due(p), AtEnd(p), After(p))
<1>1. manager \in Managers /\ cmd[p] \in Commands /\ pc[p] \in 1..Len(Methods[manager][cmd[p]])
  <2>1. Method(p) = Methods[manager][cmd[p]]
    BY DEF Method
  <2>2. pc[p] \in Nat /\ pc[p] <= Len(Method(p))
    BY DEF TypeOK
  <2>3. Len(Method(p)) \in Nat
    BY Beginnings, <2>1 DEF TypeOK
  <2> QED
    BY <2>1, <2>2, <2>3 DEF TypeOK
<1> QED
  BY <1>1, Flow DEF Due, After, AtEnd, Method

LEMMA RefusalType ==
  ASSUME NEW d \in StepName
  PROVE  /\ Refusal(d) \in Results /\ Refusal(d) # "ok"
         /\ {"ok", "is running", "is stopped", "error", "killed"} \subseteq Results
<1>1. DOMAIN Refusals = {"absent", "present", "stopped", "running", "vacant"}
  BY DEF Refusals
<1>2. /\ Refusals["absent"] = "ErrAlreadyInstalled" /\ Refusals["present"] = "ErrNotInstalled"
      /\ Refusals["stopped"] = "ErrAlreadyRunning" /\ Refusals["running"] = "ErrAlreadyStopped"
      /\ Refusals["vacant"] = "nil, FAILED"
  BY DEF Refusals
<1> QED
  BY <1>1, <1>2 DEF Refusal, Results

\* Whoever is refused is told the truth.
LEMMA RefusalIsSo ==
  ASSUME NEW d \in StepName, ~Finds(manager, sys, d), NEW c, NEW sure
  PROVE  Truthful(c, Refusal(d), sure)
<1>1. DOMAIN Refusals = {"absent", "present", "stopped", "running", "vacant"}
  BY DEF Refusals
<1>2. CASE d = "absent"
  <2>1. Refusal(d) = "ErrAlreadyInstalled" /\ sys.file # "none"
    BY <1>1, <1>2 DEF Refusal, Refusals, Finds
  <2> QED
    BY <2>1 DEF Truthful
<1>3. CASE d = "present"
  <2>1. Refusal(d) = "ErrNotInstalled" /\ sys.file = "none"
    BY <1>1, <1>3 DEF Refusal, Refusals, Finds
  <2> QED
    BY <2>1 DEF Truthful
<1>4. CASE d = "stopped"
  <2>1. Refusal(d) = "ErrAlreadyRunning" /\ sys.running
    BY <1>1, <1>4 DEF Refusal, Refusals, Finds
  <2> QED
    BY <2>1 DEF Truthful
<1>5. CASE d = "running"
  <2>1. Refusal(d) = "ErrAlreadyStopped" /\ ~sys.running
    BY <1>1, <1>5 DEF Refusal, Refusals, Finds
  <2> QED
    BY <2>1 DEF Truthful
<1>6. CASE d = "vacant"
  <2>1. Refusal(d) = "nil, FAILED" /\ sys.file # "none"
    BY <1>1, <1>6 DEF Refusal, Refusals, Finds
  <2> QED
    BY <2>1 DEF Truthful
<1>7. CASE d \notin DOMAIN Refusals
  BY <1>7 DEF Refusal, Truthful
<1> QED
  BY <1>1, <1>2, <1>3, <1>4, <1>5, <1>6, <1>7

\* A process that goes on or gives up is at a step of its method or at none.
LEMMA MoveType ==
  ASSUME TypeOK, NEW p \in Procs, pc[p] # 0, UNCHANGED <<manager, cmd>>,
         NEW r \in Results, NEW up \in BOOLEAN, GoOn(p, up) \/ GiveUp(p, r)
  PROVE  /\ pc' \in [Procs -> Nat]
         /\ \A q \in Procs : pc'[q] <= Len(Method(q))'
         /\ result' \in [Procs -> Results]
<1>1. \A q \in Procs : Len(Method(q)) \in Nat /\ Method(q)' = Method(q)
  BY Beginnings DEF TypeOK, Method
<1>2. Told(p, up) \in Results
  BY DEF Told, Results
<1>3. CASE GiveUp(p, r)
  BY <1>1, <1>3 DEF TypeOK, GiveUp
<1>4. CASE GoOn(p, up) /\ pc[p] = Len(Method(p))
  <2>1. pc' = [pc EXCEPT ![p] = 0] /\ result' = [result EXCEPT ![p] = Told(p, up)]
    BY <1>4 DEF GoOn
  <2>2. \A q \in Procs : pc'[q] <= Len(Method(q))
    BY <1>1, <2>1 DEF TypeOK
  <2> QED
    BY <1>1, <1>2, <2>1, <2>2 DEF TypeOK
<1>5. CASE GoOn(p, up) /\ pc[p] # Len(Method(p))
  <2>1. pc' = [pc EXCEPT ![p] = pc[p] + 1] /\ result' = result
    BY <1>5 DEF GoOn
  <2>2. pc[p] \in Nat /\ pc[p] <= Len(Method(p))
    BY DEF TypeOK
  <2>3. pc' \in [Procs -> Nat] /\ result' \in [Procs -> Results]
    BY <2>1, <2>2 DEF TypeOK
  <2>4. Len(Method(p)) \in Nat /\ pc[p] + 1 <= Len(Method(p))
    BY <1>1, <1>5, <2>2
  <2>5. \A q \in Procs : pc'[q] <= Len(Method(q))
    BY <2>1, <2>4 DEF TypeOK
  <2> QED
    BY <1>1, <2>3, <2>5
<1> QED
  BY <1>3, <1>4, <1>5

LEMMA TypeStep == TypeOK /\ [Next]_vars => TypeOK'
<1> SUFFICES ASSUME TypeOK, [Next]_vars
             PROVE  TypeOK'
  OBVIOUS
<1>1. ASSUME NEW p \in Procs, Step(p)
      PROVE  TypeOK'
  <2>1. Due(p) \in StepName
    BY <1>1, FlowHere DEF Step, Edge
  <2>2. sys' \in Sys
    <3>1. Done(sys, Due(p), p) \in Sys
      BY <2>1, DoneFields DEF TypeOK
    <3> QED
      BY <1>1, <3>1 DEF Step, TypeOK
  <2>3. \E r \in Results, up \in BOOLEAN : GoOn(p, up) \/ GiveUp(p, r)
    <3>1. sys.running \in BOOLEAN
      BY DEF TypeOK, Sys
    <3> QED
      BY <1>1, <2>1, <3>1, RefusalType DEF Step
  <2>4. pc[p] # 0 /\ UNCHANGED <<manager, cmd>>
    BY <1>1 DEF Step
  <2>5. /\ pc' \in [Procs -> Nat]
        /\ \A q \in Procs : pc'[q] <= Len(Method(q))'
        /\ result' \in [Procs -> Results]
    BY <2>3, <2>4, MoveType
  <2> QED
    BY <1>1, <2>2, <2>5 DEF Step, TypeOK, ByItself
<1>2. ASSUME NEW p \in Procs, Fail(p)
      PROVE  TypeOK'
  <2>1. Due(p) \in StepName
    BY <1>2, FlowHere DEF Fail, Edge
  <2>2. \E r \in Results, up \in BOOLEAN : GoOn(p, up) \/ GiveUp(p, r)
    BY <1>2, <2>1, RefusalType DEF Fail
  <2>3. pc[p] # 0 /\ UNCHANGED <<manager, cmd>>
    BY <1>2 DEF Fail
  <2>4. /\ pc' \in [Procs -> Nat]
        /\ \A q \in Procs : pc'[q] <= Len(Method(q))'
        /\ result' \in [Procs -> Results]
    BY <2>2, <2>3, MoveType
  <2>5. faults' \in 0..MaxFaults
    BY <1>2, ServiceAssumption DEF Fail, TypeOK
  <2>6. overlooked' \in [Procs -> BOOLEAN]
    <3>1. PICK b \in BOOLEAN : overlooked' = [overlooked EXCEPT ![p] = b]
      BY <1>2 DEF Fail, TypeOK
    <3> QED
      BY <3>1 DEF TypeOK
  <2> QED
    BY <1>2, <2>4, <2>5, <2>6 DEF Fail, TypeOK, ByItself
<1>3. ASSUME NEW p \in Procs, Interrupt(p)
      PROVE  TypeOK'
  <2>1. "killed" \in Results /\ TRUE \in BOOLEAN
    BY DEF Results
  <2>2. /\ pc' \in [Procs -> Nat]
        /\ \A q \in Procs : pc'[q] <= Len(Method(q))'
        /\ result' \in [Procs -> Results]
    BY <1>3, <2>1, MoveType DEF Interrupt
  <2>3. faults' \in 0..MaxFaults
    BY <1>3, ServiceAssumption DEF Interrupt, TypeOK
  <2> QED
    BY <1>3, <2>2, <2>3 DEF Interrupt, TypeOK
<1>4. ASSUME NEW p \in Procs, NEW c \in Commands, Begin(p, c)
      PROVE  TypeOK'
  <2>1. cmd' \in [Procs -> Commands] /\ pc' \in [Procs -> Nat] /\ alone' \in [Procs -> BOOLEAN]
    BY <1>4 DEF Begin, TypeOK
  <2>2. ASSUME NEW q \in Procs
        PROVE  pc'[q] <= Len(Method(q))'
    <3>1. Len(Method(q))' \in Nat \ {0}
      BY <1>4, <2>1, Beginnings DEF Begin, TypeOK, Method
    <3>2. CASE q = p
      BY <1>4, <3>1, <3>2 DEF Begin, TypeOK
    <3>3. CASE q # p
      BY <1>4, <3>3 DEF Begin, TypeOK, Method
    <3> QED
      BY <3>2, <3>3
  <2>3. commands' \in 0..MaxCommands
    BY <1>4, ServiceAssumption DEF Begin, TypeOK
  <2>4. overlooked' \in [Procs -> BOOLEAN] /\ crossed' \in BOOLEAN
    BY <1>4 DEF Begin, TypeOK, Crosses
  <2> QED
    BY <1>4, <2>1, <2>2, <2>3, <2>4 DEF Begin, TypeOK
<1>5. CASE ServiceStops \/ ServiceDies
  <2>1. sys' \in Sys /\ UNCHANGED <<manager, cmd, pc, result, overlooked, crossed, commands>>
    BY <1>5, EndedFields DEF ServiceStops, ServiceDies, ServiceEnds, TypeOK
  <2>2. alone' \in [Procs -> BOOLEAN]
    BY <1>5 DEF ServiceStops, ServiceDies, ServiceEnds, TypeOK
  <2>3. faults' \in 0..MaxFaults
    BY <1>5, ServiceAssumption DEF ServiceStops, ServiceDies, TypeOK
  <2> QED
    BY <2>1, <2>2, <2>3 DEF TypeOK, Method
<1>6. CASE UNCHANGED vars
  BY <1>6 DEF vars, TypeOK, Method
<1> QED
  BY <1>1, <1>2, <1>3, <1>4, <1>5, <1>6 DEF Next

LEMMA TypeInit == Init => TypeOK
<1> SUFFICES ASSUME Init
             PROVE  TypeOK
  OBVIOUS
<1>1. NoService \in Sys
  BY DEF NoService, Sys
<1>2. \A p \in Procs : Len(Method(p)) \in Nat /\ cmd[p] \in Commands
  BY Names, Beginnings DEF Init, Method
<1>3. [p \in Procs |-> "ok"] \in [Procs -> Results]
  BY DEF Results
<1>4. [p \in Procs |-> FALSE] \in [Procs -> BOOLEAN] /\ FALSE \in BOOLEAN
  OBVIOUS
<1>5. alone \in [Procs -> BOOLEAN] /\ overlooked \in [Procs -> BOOLEAN] /\ crossed \in BOOLEAN
      /\ result \in [Procs -> Results]
  BY <1>3, <1>4, Zenon DEF Init
<1>6. /\ manager \in Managers /\ sys \in Sys /\ cmd \in [Procs -> Commands]
      /\ pc \in [Procs -> Nat]
      /\ \A p \in Procs : pc[p] <= Len(Method(p))
      /\ commands \in 0..MaxCommands /\ faults \in 0..MaxFaults
  BY <1>1, <1>2, Names, ServiceAssumption DEF Init
<1> QED
  BY <1>5, <1>6 DEF TypeOK

\* Nobody is ever beyond the last step of a method, and the system stays a
\* system, however many commands are given and whatever fails.
THEOREM ServiceTypeCorrectness == Spec => []TypeOK
BY TypeInit, TypeStep, PTL DEF Spec

-----------------------------------------------------------------------------
(***************************************************************************)
(* A command that is alone.                                                *)
(***************************************************************************)

\* Only the others make an empty unit file of what is installed.
NoDraft == manager = "windows" => sys.file # "empty"

\* What the steps behind p have done, which its next steps build on.
Ready(p) ==
  LET d == Due(p) IN
  /\ d \in {"path", "write"} /\ manager # "windows" => p \in sys.open /\ sys.file # "none"
  /\ d \in {"reload", "enable", "chmod", "linkS", "linkK"} => sys.file = "full"
  /\ d \in {"linkS", "linkK"} => sys.exec
  /\ d = "unlink" /\ manager = "systemd" => ~sys.enabled
  /\ d \in {"unlinkS", "unlinkK"} => sys.file = "none"
  /\ d = "linkK" /\ ~overlooked[p] => "S" \in sys.links
  /\ d = "unlinkK" /\ ~overlooked[p] => "S" \notin sys.links

Diligent == \A p \in Procs : pc[p] # 0 /\ alone[p] => Ready(p)

IInv == TypeOK /\ NoDraft /\ Diligent /\ SuccessMeansDone

\* p gets past its step d: it has done what there was to do, or what it could not
\* do does not matter.  What it sees of the service is so, and the links are as
\* the step would have them, unless a call has failed.
Passes(p) ==
  /\ \E up \in BOOLEAN : /\ GoOn(p, up)
                         /\ up => sys.running
                         /\ ~overlooked'[p] => up = sys.running
  /\ UNCHANGED <<manager, cmd>>
  /\ \/ sys' = Done(sys, Due(p), p)
     \/ sys' = sys /\ Due(p) \in Ignored \cup TakenForNo(manager)
  /\ Due(p) = "await" => ~sys.running
  /\ ~overlooked'[p] => ~overlooked[p] /\ LeavesLinks(sys, Due(p), sys')

\* What getting past a step leaves of the service.
LEMMA PassesFields ==
  ASSUME TypeOK, NEW p \in Procs, pc[p] # 0, Passes(p)
  PROVE  Leaves(sys, Due(p), p, sys')
<1>1. sys \in Sys /\ Due(p) \in StepName
  BY FlowHere DEF TypeOK, Edge
<1>2. CASE sys' = Done(sys, Due(p), p)
  BY <1>1, <1>2, DoneFields
<1>3. CASE sys' = sys /\ Due(p) \in Ignored \cup TakenForNo(manager)
  <2>1. Due(p) \notin {"create", "register", "write", "unlink", "delete", "chmod", "enable",
                     "disable", "launch", "halt"}
    BY <1>3 DEF Ignored, TakenForNo
  <2> QED
    BY <1>3, <2>1 DEF Leaves
<1> QED
  BY <1>2, <1>3 DEF Passes

\* Where a process that has got past its step is.
LEMMA PassesWhere ==
  ASSUME TypeOK, NEW p \in Procs, pc[p] # 0, Passes(p)
  PROVE  /\ AtEnd(p) => /\ pc'[p] = 0
                        /\ IF cmd[p] # "status" THEN result'[p] = "ok"
                           ELSE \/ result'[p] = "is running" /\ sys.running
                                \/ result'[p] = "is stopped" /\ (~overlooked'[p] => ~sys.running)
         /\ ~AtEnd(p) => pc'[p] # 0 /\ Due(p)' = After(p)
         /\ \A q \in Procs \ {p} : pc'[q] = pc[q] /\ Due(q)' = Due(q) /\ result'[q] = result[q]
<1>1. \A q \in Procs : Method(q)' = Method(q)
  BY DEF Passes, Method
<1>2. pc[p] \in Nat /\ pc \in [Procs -> Nat] /\ result \in [Procs -> Results]
  BY DEF TypeOK
<1>0. PICK up \in BOOLEAN : /\ GoOn(p, up)
                            /\ up => sys.running
                            /\ ~overlooked'[p] => up = sys.running
  BY DEF Passes
<1>3. CASE AtEnd(p)
  <2>1. pc' = [pc EXCEPT ![p] = 0] /\ result' = [result EXCEPT ![p] = Told(p, up)]
    BY <1>0, <1>3 DEF GoOn, AtEnd
  <2>2. result'[p] = Told(p, up) /\ sys.running \in BOOLEAN
    BY <1>2, <2>1 DEF TypeOK, Sys
  <2> QED
    BY <1>0, <1>1, <1>2, <1>3, <2>1, <2>2 DEF Due, Told
<1>4. CASE ~AtEnd(p)
  <2>1. pc' = [pc EXCEPT ![p] = pc[p] + 1] /\ result' = result
    BY <1>0, <1>4 DEF GoOn, AtEnd
  <2>2. pc'[p] # 0 /\ Due(p)' = After(p)
    BY <1>1, <1>2, <2>1 DEF Due, After
  <2>3. \A q \in Procs \ {p} : pc'[q] = pc[q] /\ Due(q)' = Due(q) /\ result'[q] = result[q]
    BY <1>1, <1>2, <2>1 DEF Due
  <2> QED
    BY <1>4, <2>2, <2>3
<1> QED
  BY <1>3, <1>4

\* The last step of a command makes what it tells true,
LEMMA LastStepAchieves ==
  ASSUME TypeOK, NEW p \in Procs, pc[p] # 0, Passes(p), Ready(p), AtEnd(p)
  PROVE  Truthful(cmd[p], result[p], ~overlooked[p])'
<1>1. Edge(manager, cmd[p], Due(p), TRUE, After(p))
  BY FlowHere
<1>2. manager \in Managers /\ cmd[p] \in Commands /\ UNCHANGED <<manager, cmd>>
  BY DEF TypeOK, Passes
<1>3. ~overlooked'[p] => ~overlooked[p] /\ LeavesLinks(sys, Due(p), sys') /\ sys.links \subseteq {"S", "K"}
  BY DEF Passes, TypeOK, Sys
<1>4. cmd[p] # "status" => result'[p] = "ok"
  BY PassesWhere
<1>5. CASE cmd[p] = "install"
  <2>1. ASSUME manager = "systemd" PROVE Achieved(cmd[p], ~overlooked[p])'
    BY <1>1, <1>2, <1>5, <2>1, PassesFields DEF Leaves, Edge, Ready, Achieved, Written, Linked
  <2>2. ASSUME manager = "systemv" PROVE Achieved(cmd[p], ~overlooked[p])'
    <3>1. Due(p) = "linkK"
      BY <1>1, <1>5, <2>2 DEF Edge
    <3>2. ~overlooked'[p] => sys'.links = {"S", "K"}
      BY <1>3, <3>1 DEF LeavesLinks, Ready
    <3>3. sys'.file = "full" /\ sys'.exec
      BY <3>1, PassesFields DEF Leaves, Ready
    <3> QED
      BY <1>2, <1>5, <2>2, <3>2, <3>3 DEF Achieved, Written, Linked
  <2>3. ASSUME manager = "darwin" PROVE Achieved(cmd[p], ~overlooked[p])'
    BY <1>1, <1>2, <1>5, <2>3, PassesFields DEF Leaves, Edge, Ready, Achieved, Written, Linked
  <2>4. ASSUME manager = "windows" PROVE Achieved(cmd[p], ~overlooked[p])'
    BY <1>1, <1>2, <1>5, <2>4, PassesFields DEF Leaves, Edge, Ready, Achieved, Written, Linked
  <2>5. ASSUME manager \in {"upstart", "bsd"} PROVE Achieved(cmd[p], ~overlooked[p])'
    BY <1>1, <1>2, <1>5, <2>5, PassesFields DEF Leaves, Edge, Ready, Achieved, Written, Linked
  <2>6. Achieved(cmd[p], ~overlooked[p])'
    BY <1>2, Names, <2>1, <2>2, <2>3, <2>4, <2>5
  <2> QED
    BY <1>4, <1>5, <2>6 DEF Truthful
<1>6. CASE cmd[p] = "remove"
  <2>1. ASSUME manager = "systemv" PROVE Achieved(cmd[p], ~overlooked[p])'
    <3>1. Due(p) = "unlinkK"
      BY <1>1, <1>6, <2>1 DEF Edge
    <3>2. ~overlooked'[p] => sys'.links = {}
      BY <1>3, <3>1 DEF LeavesLinks, Ready
    <3>3. sys'.file = "none"
      BY <3>1, PassesFields DEF Leaves, Ready
    <3> QED
      BY <1>2, <1>6, <2>1, <3>2, <3>3 DEF Achieved, Dropped, Unlinked
  <2>2. ASSUME manager = "windows" PROVE Achieved(cmd[p], ~overlooked[p])'
    BY <1>1, <1>2, <1>6, <2>2, PassesFields DEF Leaves, Edge, Ready, Achieved, Dropped, Unlinked
  <2>3. ASSUME manager \notin {"systemv", "windows"} PROVE Achieved(cmd[p], ~overlooked[p])'
    BY <1>1, <1>2, <1>6, <2>3, PassesFields DEF Leaves, Edge, Ready, Achieved, Dropped, Unlinked
  <2>4. Achieved(cmd[p], ~overlooked[p])'
    BY <2>1, <2>2, <2>3
  <2> QED
    BY <1>4, <1>6, <2>4 DEF Truthful
<1>7. CASE cmd[p] = "start"
  <2>1. Achieved(cmd[p], ~overlooked[p])'
    BY <1>1, <1>2, <1>7, PassesFields DEF Leaves, Edge, Achieved
  <2> QED
    BY <1>4, <1>7, <2>1 DEF Truthful
<1>8. CASE cmd[p] = "stop"
  <2>1. ASSUME manager = "windows" PROVE Achieved(cmd[p], ~overlooked[p])'
    BY <1>1, <1>2, <1>8, <2>1, PassesFields DEF Leaves, Edge, Achieved, Passes
  <2>2. ASSUME manager # "windows" PROVE Achieved(cmd[p], ~overlooked[p])'
    BY <1>1, <1>2, <1>8, <2>2, PassesFields DEF Leaves, Edge, Achieved
  <2>3. Achieved(cmd[p], ~overlooked[p])'
    BY <2>1, <2>2
  <2> QED
    BY <1>4, <1>8, <2>3 DEF Truthful
<1>9. CASE cmd[p] = "status"
  <2>1. Due(p) = "query"
    BY <1>1, <1>9 DEF Edge
  <2>2. sys'.running = sys.running
    BY <2>1, PassesFields DEF Leaves
  <2> QED
    BY <1>9, <2>2, PassesWhere DEF Truthful
<1> QED
  BY <1>2, Names, <1>5, <1>6, <1>7, <1>8, <1>9

\* and each of the others leaves what the next one builds on.
LEMMA NextStepIsReady ==
  ASSUME TypeOK, NEW p \in Procs, pc[p] # 0, Passes(p), Ready(p), ~AtEnd(p)
  PROVE  Ready(p)'
<1>1. Edge(manager, cmd[p], Due(p), FALSE, After(p))
  <2>1. AtEnd(p) = FALSE
    BY DEF AtEnd
  <2> QED
    BY <2>1, FlowHere
<1>2. Due(p)' = After(p) /\ manager' = manager
  BY PassesWhere DEF Passes
<1>3. After(p) \in {"path", "write"} /\ manager # "windows" => p \in sys'.open
      /\ sys'.file # "none"
  BY <1>1, PassesFields DEF Leaves, Edge, Ready
<1>4. After(p) \in {"reload", "enable", "chmod", "linkS", "linkK"} => sys'.file = "full"
  <2>1. After(p) \in {"reload", "chmod"} => sys'.file = "full"
    BY <1>1, PassesFields DEF Leaves, Edge, Ready
  <2>2. After(p) \in {"enable", "linkS", "linkK"} => sys'.file = "full"
    BY <1>1, PassesFields DEF Leaves, Edge, Ready
  <2> QED
    BY <2>1, <2>2
<1>5. After(p) \in {"linkS", "linkK"} => sys'.exec
  BY <1>1, PassesFields DEF Leaves, Edge, Ready
<1>6. After(p) = "unlink" /\ manager = "systemd" => ~sys'.enabled
  BY <1>1, PassesFields DEF Leaves, Edge, Ready
<1>7. After(p) \in {"unlinkS", "unlinkK"} => sys'.file = "none"
  BY <1>1, PassesFields DEF Leaves, Edge, Ready
<1>8. After(p) = "linkK" /\ ~overlooked'[p] => "S" \in sys'.links
  BY <1>1 DEF Passes, LeavesLinks, Edge
<1>9. After(p) = "unlinkK" /\ ~overlooked'[p] => "S" \notin sys'.links
  BY <1>1 DEF Passes, LeavesLinks, Edge
<1> QED
  BY <1>2, <1>3, <1>4, <1>5, <1>6, <1>7, <1>8, <1>9 DEF Ready

\* Every step of a process gets it past what it was at or ends its command.
LEMMA StepPasses ==
  ASSUME TypeOK, NEW p \in Procs, Step(p)
  PROVE  \/ Passes(p) /\ LeavesLinks(sys, Due(p), sys')
         \/ /\ GiveUp(p, Refusal(Due(p)))
            /\ ~Finds(manager, sys, Due(p)) /\ Due(p) \notin Ignored
            /\ UNCHANGED <<manager, cmd, sys>>
<1>1. sys \in Sys /\ sys.running \in BOOLEAN /\ Due(p) \in StepName
  BY FlowHere DEF Step, TypeOK, Sys, Edge
<1>2. UNCHANGED <<manager, cmd, overlooked>> /\ (Due(p) = "await" => ~sys.running)
  BY DEF Step, Stopped
<1>3. CASE Finds(manager, sys, Due(p))
  <2>1. GoOn(p, sys.running) /\ sys' = Done(sys, Due(p), p)
    BY <1>3 DEF Step
  <2>2. LeavesLinks(sys, Due(p), sys')
    <3>1. Sys = SysOf(Procs)
      BY DEF Sys, SysOf
    <3> QED
      BY <1>1, <2>1, <3>1, DoneFieldsOf
  <2> QED
    BY <1>1, <1>2, <2>1, <2>2 DEF Passes
<1>4. CASE ~Finds(manager, sys, Due(p)) /\ Due(p) \in Ignored
  <2>1. GoOn(p, sys.running) /\ sys' = sys
    BY <1>4 DEF Step
  <2>2. LeavesLinks(sys, Due(p), sys')
    BY <1>1, <1>4, <2>1 DEF LeavesLinks, Finds, Ignored, Sys
  <2> QED
    BY <1>1, <1>2, <1>4, <2>1, <2>2 DEF Passes
<1> QED
  BY <1>3, <1>4 DEF Step

LEMMA FailPasses ==
  ASSUME NEW p \in Procs, Fail(p), Due(p) \in StepName, overlooked \in [Procs -> BOOLEAN]
  PROVE  \/ Passes(p)
         \/ \E r \in Results \ {"ok"} :
              /\ GiveUp(p, r) /\ UNCHANGED <<manager, cmd, sys>>
              /\ Truthful(cmd[p], r, ~overlooked'[p])
<1>1. CASE Due(p) \in Ignored \cup TakenForNo(manager)
  <2>1. overlooked'[p]
    BY <1>1 DEF Fail
  <2> QED
    BY <1>1, <2>1 DEF Fail, Passes, Ignored, TakenForNo
<1>2. CASE Due(p) \notin Ignored \cup TakenForNo(manager) /\ Due(p) \in EndsWithNo
  <2>1. GiveUp(p, Refusal(Due(p))) /\ UNCHANGED <<manager, cmd, sys>> /\ overlooked'[p]
    BY <1>2 DEF Fail
  <2>2. Refusal(Due(p)) \in {"ErrNotInstalled", "ErrAlreadyStopped"}
    <3>1. DOMAIN Refusals = {"absent", "present", "stopped", "running", "vacant"}
          /\ Refusals["present"] = "ErrNotInstalled"
          /\ Refusals["running"] = "ErrAlreadyStopped"
      BY DEF Refusals
    <3> QED
      BY <1>2, <3>1 DEF EndsWithNo, Refusal
  <2>3. Truthful(cmd[p], Refusal(Due(p)), ~overlooked'[p])
    BY <2>1, <2>2 DEF Truthful
  <2> QED
    BY <2>1, <2>3, RefusalType
<1>3. CASE Due(p) \notin Ignored \cup TakenForNo(manager) /\ Due(p) \notin EndsWithNo
  <2>1. GiveUp(p, "error") /\ UNCHANGED <<manager, cmd, sys>>
    BY <1>3 DEF Fail
  <2>2. "error" \in Results \ {"ok"}
    BY DEF Results
  <2> QED
    BY <2>1, <2>2 DEF Truthful
<1> QED
  BY <1>1, <1>2, <1>3

\* Nobody drafts a unit file with windows.
LEMMA NoDraftPasses ==
  ASSUME TypeOK, NoDraft, NEW p \in Procs, pc[p] # 0, Passes(p)
  PROVE  NoDraft'
<1>1. Edge(manager, cmd[p], Due(p), AtEnd(p), After(p))
  BY FlowHere
<1>2. manager' = manager
  BY DEF Passes
<1> QED
  BY <1>1, <1>2, PassesFields DEF Leaves, Edge, NoDraft

\* p gets past a step, and everybody else is no longer alone.
LEMMA PassesStep ==
  ASSUME IInv, NEW p \in Procs, pc[p] # 0, Passes(p), alone' = ByItself(p)
  PROVE  NoDraft' /\ Diligent' /\ SuccessMeansDone'
<1>1. TypeOK /\ NoDraft /\ Diligent /\ SuccessMeansDone
  BY DEF IInv
<1>2. alone'[p] = alone[p] /\ \A q \in Procs \ {p} : ~alone'[q]
  BY <1>1 DEF ByItself, TypeOK
<1>3. Diligent'
  <2>1. alone[p] /\ pc'[p] # 0 => Ready(p)'
    BY <1>1, NextStepIsReady, PassesWhere DEF Diligent
  <2> QED
    BY <1>2, <2>1 DEF Diligent
<1>4. SuccessMeansDone'
  <2>1. alone[p] /\ pc'[p] = 0 => Truthful(cmd[p], result[p], ~overlooked[p])'
    BY <1>1, LastStepAchieves, PassesWhere DEF Diligent
  <2> QED
    BY <1>2, <2>1 DEF SuccessMeansDone
<1> QED
  BY <1>1, <1>3, <1>4, NoDraftPasses

\* p gives up and is told the truth, and nothing changes.
LEMMA GivesUpStep ==
  ASSUME IInv, NEW p \in Procs, NEW r \in Results, GiveUp(p, r),
         Truthful(cmd[p], r, ~overlooked'[p]),
         UNCHANGED <<manager, cmd, sys>>, \A q \in Procs : alone'[q] => alone[q],
         \A q \in Procs \ {p} : overlooked'[q] = overlooked[q]
  PROVE  NoDraft' /\ Diligent' /\ SuccessMeansDone'
<1>1. NoDraft'
  BY DEF IInv, NoDraft
<1>2. /\ pc'[p] = 0 /\ result'[p] = r
      /\ \A q \in Procs \ {p} : pc'[q] = pc[q] /\ result'[q] = result[q]
  BY DEF GiveUp, IInv, TypeOK
<1>3. \A q \in Procs \ {p} : pc'[q] # 0 => (Ready(q) => Ready(q)')
  BY <1>2 DEF Ready, Due, Method
<1>4. Diligent'
  BY <1>2, <1>3 DEF IInv, Diligent
<1>5. ASSUME NEW q \in Procs, pc'[q] = 0, alone'[q]
      PROVE  Truthful(cmd[q], result[q], ~overlooked[q])'
  <2>1. CASE q = p
    BY <1>2, <2>1 DEF Truthful, Achieved, Written, Linked, Dropped, Unlinked
  <2>2. CASE q # p
    <3>1. Truthful(cmd[q], result[q], ~overlooked[q])
      BY <1>2, <1>5, <2>2 DEF IInv, SuccessMeansDone
    <3> QED
      BY <1>2, <2>2, <3>1 DEF Truthful, Achieved, Written, Linked, Dropped, Unlinked
  <2> QED
    BY <2>1, <2>2
<1> QED
  BY <1>1, <1>4, <1>5 DEF SuccessMeansDone

LEMMA IInvStep == IInv /\ [Next]_vars => IInv'
<1> SUFFICES ASSUME IInv, [Next]_vars
             PROVE  NoDraft' /\ Diligent' /\ SuccessMeansDone'
  BY TypeStep DEF IInv
<1>1. TypeOK /\ NoDraft /\ Diligent /\ SuccessMeansDone
  BY DEF IInv
<1>2. ASSUME NEW p \in Procs, Step(p)
      PROVE  NoDraft' /\ Diligent' /\ SuccessMeansDone'
  <2>1. pc[p] # 0 /\ alone' = ByItself(p)
    BY <1>2 DEF Step
  <2>2. Due(p) \in StepName /\ Edge(manager, cmd[p], Due(p), AtEnd(p), After(p))
    BY <1>1, <2>1, FlowHere DEF Edge
  <2>3. CASE Passes(p)
    BY <2>1, <2>3, PassesStep
  <2>4. CASE /\ GiveUp(p, Refusal(Due(p))) /\ ~Finds(manager, sys, Due(p))
             /\ UNCHANGED <<manager, cmd, sys>>
    <3>1. \A q \in Procs : alone'[q] => alone[q] /\ overlooked'[q] = overlooked[q]
      BY <1>2, <2>1 DEF ByItself, Step
    <3>2. Truthful(cmd[p], Refusal(Due(p)), ~overlooked'[p])
      BY <2>2, <2>4, RefusalIsSo
    <3>3. \A q \in Procs \ {p} : overlooked'[q] = overlooked[q]
      BY <1>2 DEF Step
    <3> QED
      BY <2>2, <2>4, <3>1, <3>2, <3>3, RefusalType, GivesUpStep
  <2> QED
    BY <1>1, <1>2, <2>3, <2>4, StepPasses
<1>3. ASSUME NEW p \in Procs, Fail(p)
      PROVE  NoDraft' /\ Diligent' /\ SuccessMeansDone'
  <2>1. pc[p] # 0 /\ alone' = ByItself(p)
    BY <1>3 DEF Fail
  <2>2. Due(p) \in StepName
    BY <1>1, <2>1, FlowHere DEF Edge
  <2>3. \A q \in Procs : alone'[q] => alone[q]
    BY <2>1 DEF ByItself
  <2>4. \A q \in Procs \ {p} : overlooked'[q] = overlooked[q]
    BY <1>1, <1>3 DEF Fail, TypeOK
  <2>5. overlooked \in [Procs -> BOOLEAN]
    BY <1>1 DEF TypeOK
  <2>6. CASE Passes(p)
    BY <2>1, <2>6, PassesStep
  <2>7. ASSUME NEW r \in Results, GiveUp(p, r), UNCHANGED <<manager, cmd, sys>>,
               Truthful(cmd[p], r, ~overlooked'[p])
        PROVE  NoDraft' /\ Diligent' /\ SuccessMeansDone'
    BY <2>3, <2>4, <2>7, GivesUpStep
  <2> QED
    BY <1>3, <2>2, <2>5, <2>6, <2>7, FailPasses
<1>4. ASSUME NEW p \in Procs, Interrupt(p)
      PROVE  NoDraft' /\ Diligent' /\ SuccessMeansDone'
  <2>1. "killed" \in Results /\ Truthful(cmd[p], "killed", ~overlooked'[p])
    BY DEF Results, Truthful
  <2> QED
    BY <1>4, <2>1, GivesUpStep DEF Interrupt
<1>5. ASSUME NEW p \in Procs, NEW c \in Commands, Begin(p, c)
      PROVE  NoDraft' /\ Diligent' /\ SuccessMeansDone'
  <2>1. /\ pc' = [pc EXCEPT ![p] = 1] /\ cmd' = [cmd EXCEPT ![p] = c]
        /\ alone' = [alone EXCEPT ![p] = TRUE] /\ UNCHANGED <<manager, sys, result>>
        /\ pc \in [Procs -> Nat] /\ cmd \in [Procs -> Commands]
    BY <1>1, <1>5 DEF Begin, TypeOK
  <2>2. Due(p)' = Methods[manager][c][1]
    BY <2>1 DEF Due, Method
  <2>3. Due(p)' \in IF manager = "windows" THEN {"path", "connect"} ELSE {"privileges"}
    BY <1>1, <2>2, Beginnings DEF TypeOK
  <2>4. Ready(p)'
    BY <2>1, <2>3 DEF Ready
  <2>5. \A q \in Procs \ {p} : /\ pc'[q] = pc[q] /\ cmd'[q] = cmd[q] /\ alone'[q] = alone[q]
                               /\ Due(q)' = Due(q) /\ overlooked'[q] = overlooked[q]
    BY <1>1, <1>5, <2>1 DEF Due, Method, Begin, TypeOK
  <2>6. Diligent'
    BY <1>1, <2>1, <2>4, <2>5 DEF Diligent, Ready
  <2>7. SuccessMeansDone'
    <3>1. ASSUME NEW q \in Procs, pc'[q] = 0, alone'[q]
          PROVE  Truthful(cmd[q], result[q], ~overlooked[q])'
      <4>1. q # p
        BY <2>1, <3>1
      <4>2. Truthful(cmd[q], result[q], ~overlooked[q])
        BY <1>1, <2>5, <3>1, <4>1 DEF SuccessMeansDone
      <4> QED
        BY <2>1, <2>5, <4>1, <4>2 DEF Truthful, Achieved, Written, Linked, Dropped, Unlinked
    <3> QED
      BY <3>1 DEF SuccessMeansDone
  <2> QED
    BY <1>1, <2>1, <2>6, <2>7 DEF NoDraft
<1>6. CASE ServiceStops \/ ServiceDies
  <2>1. /\ sys' = Ended(sys) /\ UNCHANGED <<manager, cmd, pc, result>>
        /\ \A p \in Procs : alone'[p] => alone[p] /\ pc[p] # 0 /\ Due(p) = "await"
    BY <1>6 DEF ServiceStops, ServiceDies, ServiceEnds
  <2>2. NoDraft'
    BY <1>1, <2>1, EndedFields DEF NoDraft, TypeOK
  <2>3. \A p \in Procs : Due(p)' = Due(p)
    BY <2>1 DEF Due, Method
  <2>4. Diligent'
    BY <2>1, <2>3 DEF Diligent, Ready
  <2>5. SuccessMeansDone'
    BY <2>1 DEF SuccessMeansDone
  <2> QED
    BY <2>2, <2>4, <2>5
<1>7. CASE UNCHANGED vars
  BY <1>1, <1>7 DEF vars, NoDraft, Diligent, Ready, Due, Method, SuccessMeansDone, Truthful,
                    Achieved, Written, Linked, Dropped, Unlinked
<1> QED
  BY <1>2, <1>3, <1>4, <1>5, <1>6, <1>7 DEF Next

LEMMA IInvInit == Init => IInv
<1> SUFFICES ASSUME Init
             PROVE  IInv
  OBVIOUS
<1>1. sys.file = "none" /\ \A p \in Procs : pc[p] = 0 /\ ~alone[p]
  BY DEF Init, NoService
<1> QED
  BY <1>1, TypeInit DEF IInv, NoDraft, Diligent, SuccessMeansDone

LEMMA Invariance == Spec => []IInv
BY IInvInit, IInvStep, PTL DEF Spec

\* Under every service manager what a command says at its end is so, unless
\* somebody else acted meanwhile: whatever was there when it began, and however
\* many commands failed or were interrupted before.  What a call that failed
\* unnoticed may cost is in SuccessMeansDone.
THEOREM SuccessIsReal == Spec => []SuccessMeansDone
BY Invariance, PTL DEF IInv

-----------------------------------------------------------------------------
(***************************************************************************)
(* Commands that are not alone, when nothing fails: somebody is on the way *)
(* to give a unit file whatever it lacks.                                  *)
(***************************************************************************)

\* q will write the unit file that is there now.
Drafts(q) == pc[q] # 0 /\ q \in sys.open /\ Due(q) \in {"path", "write"}

\* q will make it executable.
Chmods(q) == Drafts(q) \/ (pc[q] # 0 /\ Due(q) = "chmod")

\* q will enable it or take it away.
Settles(q) == \/ Drafts(q)
              \/ pc[q] # 0 /\ Due(q) \in {"reload", "enable"} /\ sys.file = "full"
              \/ pc[q] # 0 /\ Due(q) = "unlink"

ByMode == {"systemv", "upstart", "bsd"}
There == sys.file \in {"empty", "full"}

Attended ==
  /\ manager = "windows" => sys.file # "empty"
  /\ manager # "windows" => sys.file # "marked"
  /\ sys.open # {} => manager # "windows" /\ There
  /\ sys.file = "empty" => \E q \in Procs : Drafts(q)
  /\ manager \in ByMode /\ There /\ ~sys.exec => \E q \in Procs : Chmods(q)
  /\ manager = "systemd" /\ There /\ ~sys.enabled => \E q \in Procs : Settles(q)

\* A process that is not at p's step stays where it is while p gets past it, and
\* keeps the unit file open as long as it is there.
LEMMA OthersStay ==
  ASSUME TypeOK, NEW p \in Procs, pc[p] # 0, Passes(p), NEW q \in Procs \ {p},
         sys'.file # "none"
  PROVE  /\ Drafts(q) => Drafts(q)'
         /\ pc[q] # 0 => pc'[q] # 0 /\ Due(q)' = Due(q)
<1>1. pc'[q] = pc[q] /\ Due(q)' = Due(q)
  BY PassesWhere
<1>2. sys.open \subseteq sys'.open
  BY PassesFields DEF Leaves
<1> QED
  BY <1>1, <1>2 DEF Drafts

\* p gets past a step: it goes on attending, or what it attended is done.
LEMMA PassesAttends ==
  ASSUME TypeOK, Attended, NEW p \in Procs, pc[p] # 0, Passes(p)
  PROVE  Attended'
<1> DEFINE d == Due(p)
<1>1. Edge(manager, cmd[p], d, AtEnd(p), After(p)) /\ AtEnd(p) \in BOOLEAN
  BY FlowHere DEF AtEnd
<1>2. manager' = manager /\ Leaves(sys, d, p, sys')
  BY PassesFields DEF Passes
<1>3. ~AtEnd(p) => pc'[p] # 0 /\ Due(p)' = After(p)
  BY PassesWhere
<1> HIDE DEF d
<1>4. /\ manager = "windows" => sys'.file # "empty"
      /\ manager # "windows" => sys'.file # "marked"
  BY <1>1, <1>2 DEF Edge, Leaves, Attended
<1>5. sys'.open # {} => manager # "windows" /\ sys'.file \in {"empty", "full"}
  <2>1. sys.open # {} => manager # "windows" /\ sys.file \in {"empty", "full"}
    BY DEF Attended, There
  <2>2. CASE d = "create"
    BY <1>1, <1>2, <2>2 DEF Edge, Leaves
  <2>3. CASE d # "create"
    BY <1>1, <1>2, <2>1, <2>3 DEF Edge, Leaves
  <2> QED
    BY <2>2, <2>3
<1>6. d \notin {"create", "register", "delete", "unlink"} /\ sys'.file \in {"empty", "full"}
         => There
  <2>1. p \in sys.open => There
    BY DEF Attended
  <2> QED
    BY <1>2, <2>1 DEF Leaves, There
<1>7. d = "create" => Drafts(p)'
  BY <1>1, <1>2, <1>3 DEF Edge, Leaves, Drafts
<1>8. d = "path" /\ p \in sys.open /\ manager # "windows" => Drafts(p)'
  BY <1>1, <1>2, <1>3 DEF Edge, Leaves, Drafts
<1>9. ASSUME sys'.file = "empty"
      PROVE  \E q \in Procs : Drafts(q)'
  <2>1. CASE d = "create"
    BY <1>7, <2>1
  <2>2. CASE d # "create"
    <3>1. sys.file = "empty" /\ manager # "windows" /\ ~(d = "write" /\ p \in sys.open)
      BY <1>2, <1>9, <2>2 DEF Leaves, Attended
    <3>2. PICK q \in Procs : Drafts(q)
      BY <3>1 DEF Attended
    <3>3. CASE q = p
      BY <1>8, <3>1, <3>2, <3>3 DEF Drafts, d
    <3>4. CASE q # p
      BY <1>9, <3>2, <3>4, OthersStay
    <3> QED
      BY <3>3, <3>4
  <2> QED
    BY <2>1, <2>2
<1>10. ASSUME manager \in ByMode, sys'.file \in {"empty", "full"}, ~sys'.exec
      PROVE  \E q \in Procs : Chmods(q)'
  <2>1. CASE d = "create"
    BY <1>7, <2>1 DEF Chmods
  <2>2. CASE d # "create"
    <3>1. manager # "windows" /\ d \notin {"register", "delete", "chmod", "unlink"}
      BY <1>1, <1>2, <1>10 DEF Edge, Leaves, ByMode
    <3>2. There /\ ~sys.exec
      BY <1>2, <1>10, <1>6, <2>2, <3>1 DEF Leaves
    <3>3. PICK q \in Procs : Chmods(q)
      BY <1>10, <3>2 DEF Attended
    <3>4. CASE q = p
      <4>1. Drafts(p) /\ d \in {"path", "write"}
        BY <3>1, <3>3, <3>4 DEF Chmods, Drafts, d
      <4>2. CASE d = "path"
        BY <1>8, <3>1, <4>1, <4>2 DEF Drafts, Chmods
      <4>3. CASE d = "write"
        BY <1>1, <1>3, <1>10, <4>3 DEF Edge, ByMode, Chmods
      <4> QED
        BY <4>1, <4>2, <4>3
    <3>5. CASE q # p
      BY <1>10, <3>3, <3>5, OthersStay DEF Chmods
    <3> QED
      BY <3>4, <3>5
  <2> QED
    BY <2>1, <2>2
<1>11. ASSUME manager = "systemd", sys'.file \in {"empty", "full"}, ~sys'.enabled
      PROVE  \E q \in Procs : Settles(q)'
  <2>1. CASE d = "create"
    BY <1>7, <2>1 DEF Settles
  <2>2. CASE d = "disable"
    BY <1>1, <1>3, <2>2 DEF Edge, Settles
  <2>3. CASE d \notin {"create", "disable"}
    <3>1. d \notin {"register", "delete", "enable", "unlink"}
      BY <1>1, <1>2, <1>11 DEF Edge, Leaves
    <3>2. There /\ ~sys.enabled
      BY <1>2, <1>11, <1>6, <2>3, <3>1 DEF Leaves
    <3>3. PICK q \in Procs : Settles(q)
      BY <1>11, <3>2 DEF Attended
    <3>4. CASE q = p
      <4>1. \/ Drafts(p) /\ d \in {"path", "write"} /\ p \in sys.open
            \/ d = "reload" /\ sys.file = "full"
        BY <3>1, <3>3, <3>4 DEF Settles, Drafts, d
      <4>2. CASE d = "path" /\ p \in sys.open
        BY <1>8, <1>11, <4>2 DEF Settles
      <4>3. CASE d = "write" /\ p \in sys.open
        BY <1>1, <1>2, <1>3, <1>11, <4>3 DEF Edge, Leaves, Settles
      <4>4. CASE d = "reload" /\ sys.file = "full"
        BY <1>1, <1>2, <1>3, <4>4 DEF Edge, Leaves, Settles
      <4> QED
        BY <4>1, <4>2, <4>3, <4>4
    <3>5. CASE q # p
      <4>1. sys.file = "full" => sys'.file = "full"
        BY <1>2, <2>3, <3>1 DEF Leaves
      <4> QED
        BY <1>11, <3>3, <3>5, <4>1, OthersStay DEF Settles
    <3> QED
      BY <3>4, <3>5
  <2> QED
    BY <2>1, <2>2, <2>3
<1> QED
  BY <1>2, <1>4, <1>9, <1>10, <1>11, <1>5 DEF Attended, There

\* p is refused, which nobody that attends the unit file is.
LEMMA RefusedAttends ==
  ASSUME TypeOK, Attended, NEW p \in Procs, pc[p] # 0, ~Finds(manager, sys, Due(p)),
         GiveUp(p, Refusal(Due(p))), UNCHANGED <<manager, cmd, sys>>
  PROVE  Attended'
<1>1. \A q \in Procs \ {p} : pc'[q] = pc[q] /\ Due(q)' = Due(q)
  BY DEF GiveUp, TypeOK, Due, Method
<1>2. Due(p) \notin {"path", "write", "reload"}
  BY DEF Finds
<1>3. There => Due(p) \notin {"chmod", "unlink"}
  BY DEF Finds, There
<1>4. Due(p) = "enable" => sys.file # "full"
  BY DEF Finds
<1>5. ~Drafts(p)
  BY <1>2 DEF Drafts
<1>6. There => ~Chmods(p) /\ ~Settles(p)
  BY <1>2, <1>3, <1>4, <1>5 DEF Chmods, Settles
<1>7. \A q \in Procs \ {p} : /\ Drafts(q)' <=> Drafts(q)
                             /\ Chmods(q)' <=> Chmods(q)
                             /\ Settles(q)' <=> Settles(q)
  BY <1>1 DEF Drafts, Chmods, Settles
<1> QED
  BY <1>5, <1>6, <1>7 DEF Attended, There

\* Nobody who attends the unit file is at rest, and others leave it to him.
LEMMA OtherwiseAttends ==
  ASSUME TypeOK, Attended, UNCHANGED manager,
         \A q \in Procs : pc[q] # 0 => pc'[q] # 0 /\ Due(q)' = Due(q),
         sys'.open = sys.open, sys'.exec = sys.exec, sys'.enabled = sys.enabled,
         sys'.file = IF sys.file = "marked" THEN sys'.file ELSE sys.file,
         sys.file = "marked" => sys'.file \in {"marked", "none"}
  PROVE  Attended'
<1>1. There' => There /\ sys'.file = sys.file
  BY DEF There
<1>2. \A q \in Procs : /\ Drafts(q) => Drafts(q)'
                       /\ There' /\ Chmods(q) => Chmods(q)'
                       /\ There' /\ Settles(q) => Settles(q)'
  BY <1>1 DEF Drafts, Chmods, Settles
<1>3. sys'.file = "empty" => sys.file = "empty" /\ There'
  BY DEF There
<1> QED
  BY <1>1, <1>2, <1>3 DEF Attended, There

\* A step without a fault.
LEMMA WithoutFaults ==
  ASSUME TypeOK, [Next]_vars, faults' = 0
  PROVE  /\ faults = 0
         /\ \/ \E p \in Procs : Step(p)
            \/ \E p \in Procs, c \in Commands : Begin(p, c)
            \/ ServiceStops
            \/ UNCHANGED vars
<1>1. faults \in Nat
  BY ServiceAssumption DEF TypeOK
<1>2. ASSUME NEW p \in Procs, Fail(p) \/ Interrupt(p)
      PROVE  FALSE
  <2>1. faults' = faults + 1
    BY <1>2 DEF Fail, Interrupt
  <2> QED
    BY <1>1, <2>1
<1>3. ~ServiceDies
  BY <1>1 DEF ServiceDies
<1>4. (\E p \in Procs : Step(p)) \/ (\E p \in Procs, c \in Commands : Begin(p, c)) => faults' = faults
  BY DEF Step, Begin
<1>5. ServiceStops \/ UNCHANGED vars => faults' = faults
  BY DEF ServiceStops, vars
<1> QED
  BY <1>2, <1>3, <1>4, <1>5 DEF Next

LEMMA AttendedStep ==
  TypeOK /\ (faults = 0 => Attended) /\ [Next]_vars => (faults = 0 => Attended)'
<1> SUFFICES ASSUME TypeOK, faults = 0 => Attended, [Next]_vars, faults' = 0
             PROVE  Attended'
  OBVIOUS
<1>3. Attended
  BY WithoutFaults
<1>4. ASSUME NEW p \in Procs, Step(p)
      PROVE  Attended'
  <2>1. pc[p] # 0
    BY <1>4 DEF Step
  <2> QED
    BY <1>3, <1>4, <2>1, StepPasses, PassesAttends, RefusedAttends
<1>5. ASSUME NEW p \in Procs, NEW c \in Commands, Begin(p, c)
      PROVE  Attended'
  <2>1. \A q \in Procs : pc[q] # 0 => pc'[q] # 0 /\ Due(q)' = Due(q)
    BY <1>5 DEF Begin, TypeOK, Due, Method
  <2> QED
    BY <1>3, <1>5, <2>1, OtherwiseAttends DEF Begin
<1>6. CASE ServiceStops
  <2>1. sys' = Ended(sys) /\ UNCHANGED <<manager, cmd, pc>>
    BY <1>6 DEF ServiceStops, ServiceEnds
  <2>2. \A q \in Procs : Due(q)' = Due(q)
    BY <2>1 DEF Due, Method
  <2> QED
    BY <1>3, <2>1, <2>2, EndedFields, OtherwiseAttends DEF TypeOK
<1>7. CASE UNCHANGED vars
  <2>1. \A q \in Procs : Due(q)' = Due(q)
    BY <1>7 DEF vars, Due, Method
  <2> QED
    BY <1>3, <1>7, <2>1, OtherwiseAttends DEF vars
<1> QED
  BY <1>4, <1>5, <1>6, <1>7, WithoutFaults

\* The end of the unit file and of what goes with it, while no Install() and
\* Remove() are under way at once.
Active(q, c) == pc[q] # 0 /\ cmd[q] = c
Apart == \A q, r \in Procs : ~(Active(q, "install") /\ Active(r, "remove"))

LEMMA ApartStep == TypeOK /\ (~crossed => Apart) /\ [Next]_vars => (~crossed => Apart)'
<1> SUFFICES ASSUME TypeOK, ~crossed => Apart, [Next]_vars, ~crossed'
             PROVE  Apart'
  OBVIOUS
<1>1. ASSUME NEW p \in Procs, Step(p) \/ Fail(p) \/ Interrupt(p)
      PROVE  Apart'
  <2>1. cmd' = cmd /\ crossed' = crossed /\ pc[p] # 0
    BY <1>1 DEF Step, Fail, Interrupt
  <2>2. \A q \in Procs : pc'[q] # 0 => pc[q] # 0
    BY <1>1, <2>1 DEF Step, Fail, Interrupt, GoOn, GiveUp, TypeOK
  <2> QED
    BY <2>1, <2>2 DEF Apart, Active
<1>2. ASSUME NEW p \in Procs, NEW c \in Commands, Begin(p, c)
      PROVE  Apart'
  <2>1. Apart /\ ~Crosses(c)
    BY <1>2 DEF Begin
  <2>2. /\ cmd'[p] = c /\ pc[p] = 0
        /\ \A q \in Procs \ {p} : pc'[q] = pc[q] /\ cmd'[q] = cmd[q]
    BY <1>2 DEF Begin, TypeOK
  <2>3. \A q \in Procs : pc[q] # 0 => {cmd[q], c} # {"install", "remove"}
    BY <2>1 DEF Crosses
  <2>4. \A q \in Procs : /\ Active(q, "install") => c # "remove"
                         /\ Active(q, "remove") => c # "install"
    BY <2>3 DEF Active
  <2> QED
    BY <2>1, <2>2, <2>4 DEF Apart, Active
<1>3. CASE ServiceStops \/ ServiceDies \/ UNCHANGED vars
  BY <1>3 DEF ServiceStops, ServiceDies, ServiceEnds, vars, Apart, Active
<1> QED
  BY <1>1, <1>2, <1>3 DEF Next

\* q will make link l, or take it away.
At(q, steps) == pc[q] # 0 /\ Due(q) \in steps
Links(q, l)   == Drafts(q) \/ At(q, {"chmod", "linkS"}) \/ (l = "K" /\ At(q, {"linkK"}))
Unlinks(q, l) == At(q, {"unlinkS"}) \/ (l = "K" /\ At(q, {"unlinkK"}))

\* With systemv somebody is on the way to whatever links there are too few or
\* too many.
Tidy ==
  /\ There => \A l \in {"S", "K"} \ sys.links : \E q \in Procs : Links(q, l)
  /\ sys.file = "none" => \A l \in sys.links : \E q \in Procs : Unlinks(q, l)
  /\ \A q \in Procs : At(q, {"unlinkS", "unlinkK"}) => sys.file = "none"
  /\ \A q \in Procs : At(q, {"path", "write", "chmod", "linkS", "linkK"}) => There

\* With systemd what is not there is not enabled.
Disabled ==
  /\ sys.file = "none" => ~sys.enabled
  /\ \A q \in Procs : At(q, {"unlink"}) => ~sys.enabled

\* p gets past a step and leaves the links tidy.
LEMMA PassesTidy ==
  ASSUME TypeOK, Apart, Attended, Tidy, manager = "systemv", NEW p \in Procs, pc[p] # 0,
         Passes(p), LeavesLinks(sys, Due(p), sys')
  PROVE  Tidy'
<1> DEFINE d == Due(p)
<1>1. Edge(manager, cmd[p], d, AtEnd(p), After(p)) /\ AtEnd(p) \in BOOLEAN
  BY FlowHere DEF AtEnd
<1>2. /\ manager' = manager /\ Leaves(sys, d, p, sys') /\ LeavesLinks(sys, d, sys')
      /\ sys.links \subseteq {"S", "K"}
  BY PassesFields DEF Passes, TypeOK, Sys
<1>3. ~AtEnd(p) => pc'[p] # 0 /\ Due(p)' = After(p)
  BY PassesWhere
<1>4. AtEnd(p) => pc'[p] = 0
  BY PassesWhere
<1>5. \A q \in Procs \ {p} : pc'[q] = pc[q] /\ Due(q)' = Due(q)
  BY PassesWhere
<1>6. \A q \in Procs : pc[q] # 0 => Edge(manager, cmd[q], Due(q), AtEnd(q), After(q))
  BY FlowHere
<1> HIDE DEF d
<1>7. sys.file \in {"none", "empty", "full"} /\ (There <=> sys.file # "none")
  BY DEF TypeOK, Sys, Attended, There
<1>8. d \in {"write", "path", "chmod", "linkS", "linkK"} => There
  BY DEF Tidy, At, d
<1>9. d \in {"unlinkS", "unlinkK"} => sys.file = "none"
  BY DEF Tidy, At, d
<1>10. d \notin {"register", "delete"}
  BY <1>1 DEF Edge
<1>11. CASE d = "create"
  <2>1. There' /\ sys'.file # "none" /\ sys'.links = sys.links
    BY <1>2, <1>11 DEF Leaves, LeavesLinks, There
  <2>2. Drafts(p)'
    BY <1>1, <1>2, <1>3, <1>11 DEF Edge, Leaves, Drafts
  <2>3. Active(p, "install")
    BY <1>1, <1>11 DEF Edge, Active
  <2>4. \A q \in Procs : ~At(q, {"unlinkS", "unlinkK"})'
    <3>1. \A q \in Procs : At(q, {"unlinkS", "unlinkK"}) => Active(q, "remove")
      BY <1>6 DEF Edge, At, Active
    <3>2. \A q \in Procs \ {p} : ~At(q, {"unlinkS", "unlinkK"})'
      BY <1>5, <2>3, <3>1 DEF Apart, At
    <3>3. ~At(p, {"unlinkS", "unlinkK"})'
      BY <2>2 DEF Drafts, At
    <3> QED
      BY <3>2, <3>3
  <2> QED
    BY <2>1, <2>2, <2>4 DEF Tidy, Links
<1>12. CASE d = "unlink"
  <2>1. ~There' /\ sys'.file = "none" /\ sys'.links = sys.links
    BY <1>2, <1>12 DEF Leaves, LeavesLinks, There
  <2>2. pc'[p] # 0 /\ Due(p)' = "unlinkS"
    BY <1>1, <1>3, <1>12, manager = "systemv" DEF Edge
  <2>3. Active(p, "remove")
    BY <1>1, <1>12 DEF Edge, Active
  <2>4. \A q \in Procs : ~At(q, {"path", "write", "chmod", "linkS", "linkK"})'
    <3>1. \A q \in Procs : At(q, {"path", "write", "chmod", "linkS", "linkK"})
                             => Active(q, "install")
      BY <1>6 DEF Edge, At, Active
    <3>2. \A q \in Procs \ {p} : ~At(q, {"path", "write", "chmod", "linkS", "linkK"})'
      BY <1>5, <2>3, <3>1 DEF Apart, At
    <3>3. ~At(p, {"path", "write", "chmod", "linkS", "linkK"})'
      BY <2>2 DEF At
    <3> QED
      BY <3>2, <3>3
  <2>5. \A l : Unlinks(p, l)'
    BY <2>2 DEF Unlinks, At
  <2> QED
    BY <2>1, <2>4, <2>5 DEF Tidy
<1>13. CASE d \notin {"create", "unlink"}
  <2>1. (There' <=> There) /\ (sys'.file = "none" <=> sys.file = "none") /\ sys.open = sys'.open
    BY <1>2, <1>7, <1>8, <1>10, <1>13 DEF Leaves, There
  <2>2. \A q \in Procs \ {p} : \A steps : At(q, steps)' <=> At(q, steps)
    BY <1>5 DEF At
  <2>3. \A q \in Procs \ {p} : Drafts(q)' <=> Drafts(q)
    BY <1>5, <2>1 DEF Drafts
  <2>4. ASSUME There', NEW l \in {"S", "K"} \ sys'.links
        PROVE  \E q \in Procs : Links(q, l)'
    <3>1. d \notin {"unlinkS", "unlinkK"} /\ sys'.file # "none"
      BY <1>9, <2>1, <2>4 DEF There
    <3>2. l \notin sys.links /\ There
      BY <1>2, <2>1, <2>4, <3>1 DEF LeavesLinks
    <3>3. PICK q \in Procs : Links(q, l)
      BY <2>4, <3>2 DEF Tidy
    <3>4. CASE q # p
      BY <2>2, <2>3, <3>3, <3>4 DEF Links
    <3>5. CASE q = p
      <4>1. CASE d = "path" /\ p \in sys.open
        BY <1>1, <1>3, <2>1, <4>1, manager = "systemv" DEF Edge, Links, Drafts
      <4>2. CASE d = "write"
        BY <1>1, <1>3, <4>2, manager = "systemv" DEF Edge, Links, At
      <4>3. CASE d = "chmod"
        BY <1>1, <1>3, <4>3, manager = "systemv" DEF Edge, Links, At
      <4>4. CASE d = "linkS"
        <5>1. l = "K"
          BY <1>2, <2>4, <4>4 DEF LeavesLinks
        <5> QED
          BY <1>1, <1>3, <4>4, <5>1 DEF Edge, Links, At
      <4>5. d # "linkK" \/ l # "K"
        BY <1>2, <2>4 DEF LeavesLinks
      <4> QED
        BY <3>3, <3>5, <4>1, <4>2, <4>3, <4>4, <4>5 DEF Links, Drafts, At, d
    <3> QED
      BY <3>4, <3>5
  <2>5. ASSUME sys'.file = "none", NEW l \in sys'.links
        PROVE  \E q \in Procs : Unlinks(q, l)'
    <3>1. d \notin {"linkS", "linkK"} /\ sys.file = "none"
      BY <1>7, <1>8, <2>1, <2>5
    <3>2. l \in sys.links /\ (d = "unlinkS" => l # "S") /\ (d = "unlinkK" => l # "K")
      BY <1>2, <2>5, <3>1 DEF LeavesLinks
    <3>3. PICK q \in Procs : Unlinks(q, l)
      BY <3>1, <3>2 DEF Tidy
    <3>4. CASE q # p
      BY <2>2, <3>3, <3>4 DEF Unlinks
    <3>5. CASE q = p
      <4>1. d = "unlinkS" /\ l = "K"
        BY <1>2, <3>2, <3>3, <3>5 DEF Unlinks, At, d
      <4> QED
        BY <1>1, <1>3, <4>1 DEF Edge, Unlinks, At
    <3> QED
      BY <3>4, <3>5
  <2>6. ASSUME NEW q \in Procs, At(q, {"unlinkS", "unlinkK"})'
        PROVE  sys'.file = "none"
    <3>1. CASE q # p
      BY <2>1, <2>2, <2>6, <3>1 DEF Tidy
    <3>2. CASE q = p
      <4>1. ~AtEnd(p) /\ After(p) \in {"unlinkS", "unlinkK"}
        BY <1>3, <1>4, <2>6, <3>2 DEF At
      <4>2. d = "unlinkS"
        BY <1>1, <1>13, <4>1 DEF Edge
      <4> QED
        BY <1>9, <2>1, <4>2
    <3> QED
      BY <3>1, <3>2
  <2>7. ASSUME NEW q \in Procs, At(q, {"path", "write", "chmod", "linkS", "linkK"})'
        PROVE  There'
    <3>1. CASE q # p
      BY <2>1, <2>2, <2>7, <3>1 DEF Tidy
    <3>2. CASE q = p
      <4>1. ~AtEnd(p) /\ After(p) \in {"path", "write", "chmod", "linkS", "linkK"}
        BY <1>3, <1>4, <2>7, <3>2 DEF At
      <4>2. d \in {"path", "write", "chmod", "linkS"}
        BY <1>1, <1>13, <4>1, manager = "systemv" DEF Edge
      <4> QED
        BY <1>8, <2>1, <4>2
    <3> QED
      BY <3>1, <3>2
  <2> QED
    BY <2>4, <2>5, <2>6, <2>7 DEF Tidy
<1> QED
  BY <1>11, <1>12, <1>13

\* p gets past a step and enables nothing that is being removed.
LEMMA PassesDisabled ==
  ASSUME TypeOK, Apart, Attended, Disabled, manager = "systemd", NEW p \in Procs, pc[p] # 0,
         Passes(p), Finds(manager, sys, Due(p)) \/ Due(p) # "enable"
  PROVE  Disabled'
<1> DEFINE d == Due(p)
<1>1. Edge(manager, cmd[p], d, AtEnd(p), After(p)) /\ AtEnd(p) \in BOOLEAN
  BY FlowHere DEF AtEnd
<1>2. Leaves(sys, d, p, sys')
  BY PassesFields
<1>3. /\ ~AtEnd(p) => pc'[p] # 0 /\ Due(p)' = After(p)
      /\ AtEnd(p) => pc'[p] = 0
      /\ \A q \in Procs \ {p} : pc'[q] = pc[q] /\ Due(q)' = Due(q)
  BY PassesWhere
<1>4. \A q \in Procs : At(q, {"unlink"}) => Active(q, "remove")
  BY FlowHere DEF Edge, At, Active
<1> HIDE DEF d
<1>5. d = "enable" => sys.file = "full" /\ Active(p, "install")
  BY <1>1 DEF Finds, Edge, Active, d
<1>6. d = "unlink" => ~sys.enabled
  BY DEF Disabled, At, d
<1>7. sys'.file = "none" => ~sys'.enabled
  BY <1>1, <1>2, <1>5, <1>6 DEF Leaves, Disabled, Edge
<1>8. ASSUME NEW q \in Procs, At(q, {"unlink"})'
      PROVE  ~sys'.enabled
  <2>1. CASE q = p
    <3>1. d = "disable"
      BY <1>1, <1>3, <1>8, <2>1, manager = "systemd" DEF At, Edge
    <3> QED
      BY <1>2, <3>1 DEF Leaves
  <2>2. CASE q # p
    <3>1. At(q, {"unlink"})
      BY <1>3, <1>8, <2>2 DEF At
    <3>2. d # "enable" /\ ~sys.enabled
      BY <1>4, <1>5, <3>1 DEF Apart, Disabled
    <3> QED
      BY <1>2, <3>2 DEF Leaves
  <2> QED
    BY <2>1, <2>2
<1> QED
  BY <1>7, <1>8 DEF Disabled

Clean == /\ manager = "systemv" => Tidy
         /\ manager = "systemd" => Disabled

\* Whoever is not at a step of importance may leave it or begin.
LEMMA OtherwiseClean ==
  ASSUME TypeOK, Attended, Clean, manager' = manager, NEW p,
         \A q \in Procs \ {p} : pc[q] # 0 => pc'[q] # 0 /\ Due(q)' = Due(q),
         \A q \in Procs \ {p} : pc'[q] # 0 => pc[q] # 0,
         p \in Procs => pc'[p] = 0 \/ Due(p)' \in {"privileges", "path", "connect"},
         p \in Procs /\ manager # "windows" => pc'[p] = 0 \/ Due(p)' = "privileges",
         p \in Procs => pc[p] = 0 \/ (Due(p) \notin Ignored \cup {"path", "write"}
                                       /\ (There => Due(p) # "chmod")),
         sys'.open = sys.open, sys'.links = sys.links, sys'.enabled = sys.enabled,
         manager # "windows" => sys'.file = sys.file
  PROVE  Clean'
<1>1. ASSUME manager = "systemv"
      PROVE  Tidy'
  <2>1. Tidy /\ sys'.file = sys.file /\ (There' <=> There)
    BY <1>1 DEF Clean, There
  <2>2. \A q \in Procs : \A steps : At(q, steps)' => At(q, steps) \/ (q = p /\ "privileges" \in steps)
    BY <1>1 DEF At
  <2>3. \A q \in Procs \ {p} : \A steps : At(q, steps) => At(q, steps)'
    BY DEF At
  <2>4. \A q \in Procs : Drafts(q) => q # p /\ Drafts(q)'
    BY DEF Drafts
  <2>5. \A q \in Procs : \A l : There /\ Links(q, l) => Links(q, l)'
    <3>1. There => \A q \in Procs : At(q, {"chmod", "linkS", "linkK"}) => q # p
      BY DEF At, Ignored
    <3> QED
      BY <2>3, <2>4, <3>1 DEF Links, At
  <2>6. \A q \in Procs : \A l : Unlinks(q, l) => Unlinks(q, l)'
    <3>1. \A q \in Procs : At(q, {"unlinkS", "unlinkK"}) => q # p
      BY DEF At, Ignored
    <3> QED
      BY <2>3, <3>1 DEF Unlinks, At
  <2> QED
    BY <2>1, <2>2, <2>5, <2>6 DEF Tidy
<1>2. ASSUME manager = "systemd"
      PROVE  Disabled'
  <2>1. Disabled /\ sys'.file = sys.file
    BY <1>2 DEF Clean
  <2>2. \A q \in Procs : At(q, {"unlink"})' => At(q, {"unlink"})
    BY <1>2 DEF At
  <2> QED
    BY <2>1, <2>2 DEF Disabled
<1> QED
  BY <1>1, <1>2 DEF Clean

LEMMA CleanStep ==
  /\ TypeOK /\ (faults = 0 => Attended) /\ (~crossed => Apart)
  /\ faults = 0 /\ ~crossed => Clean
  /\ [Next]_vars
  => (faults = 0 /\ ~crossed => Clean)'
<1> SUFFICES ASSUME TypeOK, faults = 0 => Attended, ~crossed => Apart,
                    faults = 0 /\ ~crossed => Clean, [Next]_vars, faults' = 0, ~crossed'
             PROVE  Clean'
  OBVIOUS
<1>1. \/ \E p \in Procs : Step(p)
      \/ \E p \in Procs, c \in Commands : Begin(p, c)
      \/ ServiceStops
      \/ UNCHANGED vars
  BY WithoutFaults
<1>2. ~crossed
  BY <1>1 DEF Step, Begin, ServiceStops, ServiceEnds, vars
<1>3. Attended /\ Apart /\ Clean
  BY <1>2, WithoutFaults
<1>4. ASSUME NEW p \in Procs, Step(p)
      PROVE  Clean'
  <2>1. pc[p] # 0 /\ manager' = manager
    BY <1>4 DEF Step
  <2>2. CASE Passes(p) /\ LeavesLinks(sys, Due(p), sys')
    <3>1. Finds(manager, sys, Due(p)) \/ Due(p) # "enable"
      <4>1. ASSUME ~Finds(manager, sys, Due(p)), Due(p) = "enable"
            PROVE  FALSE
        <5>1. GiveUp(p, Refusal(Due(p)))
          BY <1>4, <4>1 DEF Step, Ignored
        <5>2. result'[p] = "error"
          BY <4>1, <5>1 DEF GiveUp, TypeOK, Refusal, Refusals
        <5>3. Edge(manager, cmd[p], Due(p), AtEnd(p), After(p))
          BY <2>1, FlowHere
        <5>4. cmd[p] = "install"
          BY <4>1, <5>3 DEF Edge
        <5>5. AtEnd(p) => result'[p] = "ok"
          BY <2>1, <2>2, <5>4, PassesWhere
        <5>6. ~AtEnd(p) => pc'[p] # 0
          BY <2>1, <2>2, PassesWhere
        <5>7. pc'[p] = 0
          BY <5>1 DEF GiveUp, TypeOK
        <5> QED
          BY <5>2, <5>5, <5>6, <5>7
      <4> QED
        BY <4>1
    <3> QED
      BY <1>3, <2>1, <2>2, <3>1, PassesTidy, PassesDisabled DEF Clean
  <2>3. CASE /\ GiveUp(p, Refusal(Due(p)))
             /\ ~Finds(manager, sys, Due(p)) /\ Due(p) \notin Ignored
             /\ UNCHANGED <<manager, cmd, sys>>
    <3>1. pc'[p] = 0 /\ \A q \in Procs \ {p} : pc'[q] = pc[q] /\ Due(q)' = Due(q)
      BY <2>3 DEF GiveUp, TypeOK, Due, Method
    <3>2. Due(p) \notin {"path", "write"} /\ (There => Due(p) # "chmod")
      BY <2>3 DEF Finds, There
    <3> QED
      BY <1>3, <2>3, <3>1, <3>2, OtherwiseClean
  <2> QED
    BY <1>4, <2>2, <2>3, StepPasses
<1>5. ASSUME NEW p \in Procs, NEW c \in Commands, Begin(p, c)
      PROVE  Clean'
  <2>1. /\ pc[p] = 0 /\ UNCHANGED <<manager, sys>> /\ Due(p)' = Methods[manager][c][1]
        /\ \A q \in Procs \ {p} : pc'[q] = pc[q] /\ Due(q)' = Due(q)
    BY <1>5 DEF Begin, TypeOK, Due, Method
  <2>2. Due(p)' \in IF manager = "windows" THEN {"path", "connect"} ELSE {"privileges"}
    BY <2>1, Beginnings DEF TypeOK
  <2> QED
    BY <1>3, <2>1, <2>2, OtherwiseClean
<1>6. CASE ServiceStops \/ UNCHANGED vars
  <2>1. UNCHANGED <<manager, cmd, pc>> /\ (sys' = Ended(sys) \/ sys' = sys)
    BY <1>6 DEF ServiceStops, ServiceEnds, vars
  <2>2. \A q \in Procs : Due(q)' = Due(q)
    BY <2>1 DEF Due, Method
  <2>3. Sys = SysOf(Procs)
    BY DEF Sys, SysOf
  <2>4. /\ sys'.open = sys.open /\ sys'.links = sys.links /\ sys'.enabled = sys.enabled
        /\ manager # "windows" => sys'.file = sys.file
    BY <1>3, <2>1, <2>3, EndedFieldsOf DEF TypeOK, Attended
  <2>5. PICK p : p \notin Procs
    <3>1. (CHOOSE x : x \notin Procs) \notin Procs
      BY NoSetContainsEverything
    <3> QED
      BY <3>1
  <2> QED
    BY <1>3, <2>1, <2>2, <2>4, <2>5, OtherwiseClean
<1> QED
  BY <1>1, <1>4, <1>5, <1>6

\* However many people give commands at the same time, in whatever order the
\* steps of the commands come, they leave no half of a unit when they are done and
\* nothing failed, and no half of what goes with it unless an Install() and a
\* Remove() were under way at once.
THEOREM TogetherIsWhole == Spec => []TogetherTheyLeaveAWhole
<1>1. Init => Attended /\ Apart /\ Clean
  BY DEF Init, NoService, Attended, There, Apart, Active, Clean, Tidy, Disabled, At
<1>2. /\ TypeOK /\ (faults = 0 => Attended) /\ (faults = 0 /\ ~crossed => Clean)
      => TogetherTheyLeaveAWhole
  <2> SUFFICES ASSUME TypeOK, Attended, ~crossed => Clean, Quiet
               PROVE  IF crossed THEN sys.file \in {"none", "marked"} \/ Written(sys)
                      ELSE Gone(sys) \/ Whole(sys)
    BY DEF TogetherTheyLeaveAWhole
  <2>1. \A q \in Procs : ~Drafts(q) /\ ~Chmods(q) /\ ~Settles(q) /\ \A steps : ~At(q, steps)
    BY DEF Quiet, Drafts, Chmods, Settles, At
  <2>2. sys.file \in {"none", "empty", "full", "marked"} /\ sys.links \subseteq {"S", "K"}
    BY DEF TypeOK, Sys
  <2>3. sys.file \in {"none", "marked"} \/ Written(sys)
    BY <2>1, <2>2 DEF Attended, There, ByMode, Written
  <2>4. ASSUME Clean, sys.file = "full"
        PROVE  Linked(sys)
    BY <2>1, <2>2, <2>4 DEF Clean, Tidy, There, Links, Linked
  <2>5. ASSUME Clean, sys.file \in {"none", "marked"}
        PROVE  Gone(sys)
    <3>1. manager \in {"systemv", "systemd"} => sys.file = "none"
      BY <2>5 DEF Attended
    <3> QED
      BY <2>1, <2>2, <2>5, <3>1 DEF Clean, Tidy, Disabled, Unlinks, Gone, Dropped, Unlinked
  <2> QED
    BY <2>3, <2>4, <2>5 DEF Whole, Written
<1> QED
  BY <1>1, <1>2, ApartStep, AttendedStep, CleanStep, ServiceTypeCorrectness, PTL DEF Spec

-----------------------------------------------------------------------------
(***************************************************************************)
(* Getting out of it: stop, remove, install and start, one after another.  *)
(***************************************************************************)

\* With windows what is marked for removal is a service that runs.
MarkedRuns == manager = "windows" /\ sys.file = "marked" => sys.running

LEMMA MarkedPasses ==
  ASSUME TypeOK, MarkedRuns, NEW p \in Procs, pc[p] # 0, Passes(p)
  PROVE  MarkedRuns'
<1>1. Edge(manager, cmd[p], Due(p), AtEnd(p), After(p))
  BY FlowHere
<1>2. manager' = manager
  BY DEF Passes
<1> QED
  BY <1>1, <1>2, PassesFields DEF Leaves, Edge, MarkedRuns

LEMMA MarkedStep == TypeOK /\ MarkedRuns /\ [Next]_vars => MarkedRuns'
<1> SUFFICES ASSUME TypeOK, MarkedRuns, [Next]_vars
             PROVE  MarkedRuns'
  OBVIOUS
<1>1. ASSUME NEW p \in Procs, Step(p)
      PROVE  MarkedRuns'
  <2>1. pc[p] # 0
    BY <1>1 DEF Step
  <2> QED
    BY <1>1, <2>1, StepPasses, MarkedPasses DEF MarkedRuns
<1>2. ASSUME NEW p \in Procs, Fail(p)
      PROVE  MarkedRuns'
  BY <1>2 DEF Fail, MarkedRuns
<1>3. ASSUME NEW p \in Procs, Interrupt(p)
      PROVE  MarkedRuns'
  BY <1>3 DEF Interrupt, MarkedRuns
<1>4. ASSUME NEW p \in Procs, NEW c \in Commands, Begin(p, c)
      PROVE  MarkedRuns'
  BY <1>4 DEF Begin, MarkedRuns
<1>5. CASE ServiceStops \/ ServiceDies
  <2>1. sys' = Ended(sys)
    BY <1>5 DEF ServiceStops, ServiceDies, ServiceEnds
  <2> QED
    BY <2>1, EndedFields DEF MarkedRuns, TypeOK, Sys
<1>6. CASE UNCHANGED vars
  BY <1>6 DEF vars, MarkedRuns
<1> QED
  BY <1>1, <1>2, <1>3, <1>4, <1>5, <1>6 DEF Next

-----------------------------------------------------------------------------
(***************************************************************************)
(* A command that is run to its end, one step after another.               *)
(***************************************************************************)

Machine == SysOf(Procs \union {Somebody})
Going == [on: BOOLEAN, sys: Machine]

\* Step d of a command takes r to n.
Goes(r, d, n) ==
  /\ n \in Going
  /\ ~r.on => n = r
  /\ r.on /\ d = "await" => n.on /\ n.sys = Ended(r.sys)
  /\ r.on /\ d # "await" /\ Finds(manager, r.sys, d) =>
       n.on /\ Leaves(r.sys, d, Somebody, n.sys) /\ LeavesLinks(r.sys, d, n.sys)
  /\ r.on /\ d # "await" /\ ~Finds(manager, r.sys, d) =>
       n.sys = r.sys /\ n.on = (d \in Ignored)

LEMMA OnwardGoes ==
  ASSUME NEW r \in Going, NEW d \in StepName
  PROVE  Goes(r, d, Onward(r, d))
<1>1. r.on \in BOOLEAN /\ r.sys \in Machine /\ Somebody \in Procs \union {Somebody}
  BY DEF Going
<1>2. CASE ~r.on
  BY <1>2 DEF Onward, Goes
<1>3. CASE r.on /\ d = "await"
  <2>1. Onward(r, d) = [r EXCEPT !.sys = Ended(r.sys)]
    BY <1>3 DEF Onward
  <2>2. Ended(r.sys) \in Machine
    BY <1>1, EndedFieldsOf DEF Machine
  <2> QED
    BY <1>3, <2>1, <2>2 DEF Goes, Going
<1>4. CASE r.on /\ d # "await" /\ Finds(manager, r.sys, d)
  <2>1. Onward(r, d) = [r EXCEPT !.sys = Done(r.sys, d, Somebody)]
    BY <1>4 DEF Onward
  <2>2. /\ Done(r.sys, d, Somebody) \in Machine
        /\ Leaves(r.sys, d, Somebody, Done(r.sys, d, Somebody))
        /\ LeavesLinks(r.sys, d, Done(r.sys, d, Somebody))
    BY <1>1, DoneFieldsOf DEF Machine
  <2> QED
    BY <1>4, <2>1, <2>2 DEF Goes, Going
<1>5. CASE r.on /\ d # "await" /\ ~Finds(manager, r.sys, d)
  <2>1. Onward(r, d) = [r EXCEPT !.on = d \in Ignored]
    BY <1>5 DEF Onward
  <2>2. (d \in Ignored) \in BOOLEAN
    OBVIOUS
  <2>3. Onward(r, d) \in Going /\ Onward(r, d).sys = r.sys
    BY <1>1, <2>1, <2>2 DEF Going
  <2>4. Onward(r, d).on = (d \in Ignored)
    <3>1. "on" \in DOMAIN r
      BY DEF Going
    <3> QED
      BY <2>1, <3>1, Zenon
  <2> QED
    BY <1>5, <2>3, <2>4 DEF Goes
<1> QED
  BY <1>1, <1>2, <1>3, <1>4, <1>5

\* f follows the first n steps of a method.
Follows(f, s, method, n) ==
  f = [k \in 0..n |-> IF k = 0 THEN [on |-> TRUE, sys |-> s] ELSE Onward(f[k - 1], method[k])]

\* The function Run() is defined by.
Followed(s, method) == CHOOSE f : Follows(f, s, method, Len(method))

LEMMA RunIsFollowed ==
  ASSUME NEW s, NEW c
  PROVE  Run(s, c) = Followed(s, Methods[manager][c])[Len(Methods[manager][c])].sys
BY DEF Run, Followed, Follows

\* Induction over the numbers, as a statement about sets.
LEMMA NatSet ==
  ASSUME NEW S \in SUBSET Nat, 0 \in S, \A n \in S : n + 1 \in S
  PROVE  S = Nat
<1>1. SUFFICES ASSUME Nat \ S # {} PROVE FALSE
  OBVIOUS
<1>2. PICK x \in Nat \ S : \A y \in Nat \ S : <<y, x>> \notin OpToRel(<, Nat)
  BY <1>1, NatLessThanWellFounded, WFMin
<1>3. x - 1 \in Nat /\ x - 1 < x
  <2>1. x \in Nat /\ x # 0
    BY <1>2
  <2> QED
    BY <2>1
<1>4. x - 1 \in S
  BY <1>2, <1>3 DEF OpToRel
<1>5. (x - 1) + 1 = x
  <2>1. x \in Nat
    BY <1>2
  <2> QED
    BY <2>1
<1> QED
  BY <1>2, <1>4, <1>5

LEMMA FollowedExists ==
  ASSUME NEW s, NEW method, Len(method) \in Nat
  PROVE  Follows(Followed(s, method), s, method, Len(method))
<1> DEFINE S == {n \in Nat : \E f : Follows(f, s, method, n)}
<1>1. 0 \in S
  <2> DEFINE f == [k \in 0..0 |-> [on |-> TRUE, sys |-> s]]
  <2>1. \A k \in 0..0 : k = 0
    OBVIOUS
  <2>2. Follows(f, s, method, 0)
    BY <2>1 DEF Follows
  <2> QED
    BY <2>2
<1>2. ASSUME NEW n \in S PROVE n + 1 \in S
  <2>1. PICK f : Follows(f, s, method, n)
    OBVIOUS
  <2> DEFINE g == [k \in 0..(n + 1) |-> IF k = n + 1 THEN Onward(f[k - 1], method[k]) ELSE f[k]]
  <2>2. n \in Nat
    OBVIOUS
  <2>3. \A k \in 0..(n + 1) : k # 0 => g[k - 1] = f[k - 1]
    BY <2>2
  <2>4. \A k \in 0..n : f[k] = IF k = 0 THEN [on |-> TRUE, sys |-> s]
                               ELSE Onward(f[k - 1], method[k])
    BY <2>1 DEF Follows
  <2>5. \A k \in 0..(n + 1) : g[k] = IF k = 0 THEN [on |-> TRUE, sys |-> s]
                                     ELSE Onward(g[k - 1], method[k])
    <3> SUFFICES ASSUME NEW k \in 0..(n + 1)
                 PROVE  g[k] = IF k = 0 THEN [on |-> TRUE, sys |-> s]
                               ELSE Onward(g[k - 1], method[k])
      OBVIOUS
    <3>1. CASE k = n + 1
      <4>1. k # 0 /\ g[k] = Onward(f[k - 1], method[k])
        BY <2>2, <3>1
      <4> QED
        BY <2>3, <4>1
    <3>2. CASE k # n + 1
      <4>1. k \in 0..n /\ g[k] = f[k]
        BY <2>2, <3>2
      <4> HIDE DEF g
      <4> QED
        BY <2>3, <2>4, <4>1
    <3> QED
      BY <3>1, <3>2
  <2>6. Follows(g, s, method, n + 1)
    BY <2>5 DEF Follows
  <2> QED
    BY <2>2, <2>6
<1>3. S = Nat
  <2> HIDE DEF S
  <2>1. S \in SUBSET Nat
    BY DEF S
  <2> QED
    BY <1>1, <1>2, <2>1, NatSet
<1>4. \E f : Follows(f, s, method, Len(method))
  BY <1>3
<1> QED
  BY <1>4 DEF Followed

\* The states f a command goes through, from s to what becomes of it.
Course(f, s, method) ==
  /\ f[0] = [on |-> TRUE, sys |-> s]
  /\ \A k \in 0..Len(method) : f[k] \in Going
  /\ \A k \in 1..Len(method) : Goes(f[k - 1], method[k], f[k])

LEMMA RunTakesItsCourse ==
  ASSUME manager \in Managers, NEW s \in Machine, NEW c \in Commands
  PROVE  LET method == Methods[manager][c]
         IN  /\ Course(Followed(s, method), s, method)
             /\ Run(s, c) = Followed(s, method)[Len(method)].sys
             /\ Run(s, c) \in Machine
<1> DEFINE method == Methods[manager][c]
           f == Followed(s, method)
           start == [on |-> TRUE, sys |-> s]
<1>1. Len(method) \in Nat /\ \A k \in 1..Len(method) : method[k] \in StepName
  BY Beginnings, Flow DEF Edge
<1>2. Run(s, c) = f[Len(method)].sys
  BY RunIsFollowed
<1> HIDE DEF method
<1>3. \A k \in 0..Len(method) : f[k] = IF k = 0 THEN start ELSE Onward(f[k - 1], method[k])
  <2>1. Follows(f, s, method, Len(method))
    BY <1>1, FollowedExists
  <2> HIDE DEF f
  <2> QED
    BY <2>1 DEF Follows
<1> HIDE DEF f
<1>4. start \in Going
  BY DEF Going
<1> HIDE DEF start
<1>5. f[0] = start
  <2>1. 0 \in 0..Len(method)
    BY <1>1
  <2> QED
    BY <1>3, <2>1, Zenon
<1>6. \A k \in 1..Len(method) : f[k - 1] \in Going => Goes(f[k - 1], method[k], f[k])
  BY <1>1, <1>3, OnwardGoes
<1> DEFINE S == {n \in Nat : n <= Len(method) => f[n] \in Going}
<1>7. S = Nat
  <2>1. 0 \in S
    BY <1>4, <1>5
  <2>2. ASSUME NEW n \in S PROVE n + 1 \in S
    <3>1. n \in Nat /\ (n + 1) - 1 = n
      OBVIOUS
    <3>2. SUFFICES ASSUME n + 1 <= Len(method) PROVE f[n + 1] \in Going
      BY <3>1
    <3>3. n + 1 \in 1..Len(method) /\ n <= Len(method)
      BY <1>1, <3>1, <3>2
    <3> QED
      BY <1>6, <3>1, <3>3 DEF Goes
  <2>3. S \in SUBSET Nat
    OBVIOUS
  <2> HIDE DEF S
  <2> QED
    BY <2>1, <2>2, <2>3, NatSet
<1>8. \A k \in 0..Len(method) : f[k] \in Going
  BY <1>1, <1>7
<1>9. Course(f, s, method)
  <2>1. \A k \in 1..Len(method) : k - 1 \in 0..Len(method)
    BY <1>1
  <2> QED
    BY <1>5, <1>6, <1>8, <2>1 DEF Course, start
<1>10. f[Len(method)].sys \in Machine
  BY <1>1, <1>8 DEF Going
<1> QED
  BY <1>2, <1>9, <1>10 DEF f, method

\* The steps that find what they look for, whatever there is.
LEMMA AlwaysFinds ==
  ASSUME NEW m, NEW s,
         NEW d \in {"privileges", "create", "path", "write", "reload", "connect", "unlinkS",
                    "unlinkK"}
  PROVE  Finds(m, s, d) /\ d # "await"
BY DEF Finds

\* What there is of the service after the first five steps of an Install() that
\* finds nothing installed.
LEMMA CreateCourse ==
  ASSUME NEW s \in Machine, s.file = "none", NEW f, NEW method, Course(f, s, method),
         Len(method) \in Nat, Len(method) >= 5,
         method[1] = "privileges", method[2] = "absent", method[3] = "create",
         method[4] = "path", method[5] = "write"
  PROVE  /\ f[5].on /\ f[5].sys.file = "full" /\ f[5].sys.links = s.links
<1>0. 1 \in 1..Len(method) /\ 2 \in 1..Len(method) /\ 3 \in 1..Len(method)
      /\ 4 \in 1..Len(method) /\ 5 \in 1..Len(method)
  OBVIOUS
<1>1. f[1].on /\ f[1].sys.file = "none" /\ f[1].sys.links = s.links
  <2>1. Goes(f[0], "privileges", f[1]) /\ f[0].on /\ f[0].sys = s
    BY <1>0 DEF Course
  <2> QED
    BY <2>1, AlwaysFinds DEF Goes, Leaves, LeavesLinks
<1>2. f[2].on /\ f[2].sys.file = "none" /\ f[2].sys.links = s.links
  <2>1. Goes(f[1], "absent", f[2])
    BY <1>0 DEF Course
  <2>2. Finds(manager, f[1].sys, "absent")
    BY <1>1 DEF Finds
  <2> QED
    BY <1>1, <2>1, <2>2 DEF Goes, Leaves, LeavesLinks
<1>3. f[3].on /\ Somebody \in f[3].sys.open /\ f[3].sys.links = s.links
  <2>1. Goes(f[2], "create", f[3])
    BY <1>0 DEF Course
  <2> QED
    BY <1>2, <2>1, AlwaysFinds DEF Goes, Leaves, LeavesLinks
<1>4. f[4].on /\ Somebody \in f[4].sys.open /\ f[4].sys.links = s.links
  <2>1. Goes(f[3], "path", f[4])
    BY <1>0 DEF Course
  <2> QED
    BY <1>3, <2>1, AlwaysFinds DEF Goes, Leaves, LeavesLinks
<1>5. Goes(f[4], "write", f[5])
  BY <1>0 DEF Course
<1> QED
  BY <1>4, <1>5, AlwaysFinds DEF Goes, Leaves, LeavesLinks

\* What Install() makes of a machine without the service.
LEMMA InstallCourse ==
  ASSUME manager \in Managers, NEW s \in Machine, s.file = "none"
  PROVE  LET n == Run(s, "install")
         IN  n \in Machine /\ Whole(n)
<1> DEFINE method == Methods[manager]["install"]
           f == Followed(s, method)
<1>1. Course(f, s, method) /\ Run(s, "install") = f[Len(method)].sys /\ Run(s, "install") \in Machine
  BY Names, RunTakesItsCourse
<1>2. CASE manager = "systemd"
  <2>1. Len(method) = 7 /\ method[1] = "privileges" /\ method[2] = "absent"
        /\ method[3] = "create" /\ method[4] = "path" /\ method[5] = "write"
        /\ method[6] = "reload" /\ method[7] = "enable"
    BY <1>2 DEF Methods, SystemD, Unix
  <2> HIDE DEF f, method
  <2>2. f[5].on /\ f[5].sys.file = "full"
    BY <1>1, <2>1, CreateCourse
  <2>3. f[6].on /\ f[6].sys.file = "full"
    <3>1. Goes(f[5], "reload", f[6])
      BY <1>1, <2>1 DEF Course
    <3> QED
      BY <2>2, <3>1, AlwaysFinds DEF Goes, Leaves
  <2>4. f[7].sys.file = "full" /\ f[7].sys.enabled
    <3>1. Goes(f[6], "enable", f[7])
      BY <1>1, <2>1 DEF Course
    <3>2. Finds(manager, f[6].sys, "enable")
      BY <2>3 DEF Finds
    <3> QED
      BY <2>3, <3>1, <3>2 DEF Goes, Leaves
  <2> QED
    BY <1>1, <1>2, <2>1, <2>4 DEF Whole, Written, Linked
<1>3. CASE manager = "systemv"
  <2>1. Len(method) = 8 /\ method[1] = "privileges" /\ method[2] = "absent"
        /\ method[3] = "create" /\ method[4] = "path" /\ method[5] = "write"
        /\ method[6] = "chmod" /\ method[7] = "linkS" /\ method[8] = "linkK"
    BY <1>3 DEF Methods, SystemV, Unix
  <2> HIDE DEF f, method
  <2>2. f[5].on /\ f[5].sys.file = "full"
    BY <1>1, <2>1, CreateCourse
  <2>3. f[6].on /\ f[6].sys.file = "full" /\ f[6].sys.exec
    <3>1. Goes(f[5], "chmod", f[6])
      BY <1>1, <2>1 DEF Course
    <3>2. Finds(manager, f[5].sys, "chmod")
      BY <2>2 DEF Finds
    <3> QED
      BY <2>2, <3>1, <3>2 DEF Goes, Leaves
  <2>4. f[7].on /\ f[7].sys.file = "full" /\ f[7].sys.exec /\ "S" \in f[7].sys.links
    <3>1. Goes(f[6], "linkS", f[7])
      BY <1>1, <2>1 DEF Course
    <3>2. "S" \in f[6].sys.links \/ Finds(manager, f[6].sys, "linkS")
      BY DEF Finds
    <3>3. "linkS" \in Ignored /\ "linkS" # "await"
      BY DEF Ignored
    <3>4. CASE Finds(manager, f[6].sys, "linkS")
      BY <2>3, <3>1, <3>4 DEF Goes, Leaves, LeavesLinks
    <3>5. CASE ~Finds(manager, f[6].sys, "linkS")
      BY <2>3, <3>1, <3>2, <3>3, <3>5 DEF Goes
    <3> QED
      BY <3>4, <3>5
  <2>5. f[8].sys.file = "full" /\ f[8].sys.exec /\ {"S", "K"} \subseteq f[8].sys.links
    <3>1. Goes(f[7], "linkK", f[8])
      BY <1>1, <2>1 DEF Course
    <3>2. "K" \in f[7].sys.links \/ Finds(manager, f[7].sys, "linkK")
      BY DEF Finds
    <3>3. "linkK" \in Ignored /\ "linkK" # "await"
      BY DEF Ignored
    <3>4. CASE Finds(manager, f[7].sys, "linkK")
      BY <2>4, <3>1, <3>4 DEF Goes, Leaves, LeavesLinks
    <3>5. CASE ~Finds(manager, f[7].sys, "linkK")
      BY <2>4, <3>1, <3>2, <3>3, <3>5 DEF Goes
    <3> QED
      BY <3>4, <3>5
  <2>6. f[8].sys.links \subseteq {"S", "K"}
    BY <1>1, <2>1 DEF Machine, SysOf
  <2> QED
    BY <1>1, <1>3, <2>1, <2>5, <2>6 DEF Whole, Written, Linked
<1>4. CASE manager \in {"upstart", "bsd"}
  <2>1. Len(method) = 6 /\ method[1] = "privileges" /\ method[2] = "absent"
        /\ method[3] = "create" /\ method[4] = "path" /\ method[5] = "write"
        /\ method[6] = "chmod"
    BY <1>4 DEF Methods, Upstart, Bsd, Unix, CreateAndChmod
  <2> HIDE DEF f, method
  <2>2. f[5].on /\ f[5].sys.file = "full"
    BY <1>1, <2>1, CreateCourse
  <2>3. f[6].sys.file = "full" /\ f[6].sys.exec
    <3>1. Goes(f[5], "chmod", f[6])
      BY <1>1, <2>1 DEF Course
    <3>2. Finds(manager, f[5].sys, "chmod")
      BY <2>2 DEF Finds
    <3> QED
      BY <2>2, <3>1, <3>2 DEF Goes, Leaves
  <2> QED
    BY <1>1, <1>4, <2>1, <2>3 DEF Whole, Written, Linked
<1>5. CASE manager = "darwin"
  <2>1. Len(method) = 5 /\ method[1] = "privileges" /\ method[2] = "absent"
        /\ method[3] = "create" /\ method[4] = "path" /\ method[5] = "write"
    BY <1>5 DEF Methods, Darwin, Unix, Create
  <2> HIDE DEF f, method
  <2>2. f[5].sys.file = "full"
    BY <1>1, <2>1, CreateCourse
  <2> QED
    BY <1>1, <1>5, <2>1, <2>2 DEF Whole, Written, Linked
<1>6. CASE manager = "windows"
  <2>1. Len(method) = 4 /\ method[1] = "path" /\ method[2] = "connect"
        /\ method[3] = "vacant" /\ method[4] = "register"
    BY <1>6 DEF Methods, Windows
  <2> HIDE DEF f, method
  <2>2. f[0].on /\ f[0].sys.file = "none" /\ Goes(f[0], "path", f[1])
        /\ Goes(f[1], "connect", f[2]) /\ Goes(f[2], "vacant", f[3])
        /\ Goes(f[3], "register", f[4])
    BY <1>1, <2>1 DEF Course
  <2>3. f[1].on /\ f[1].sys.file = "none"
    BY <2>2, AlwaysFinds DEF Goes, Leaves
  <2>4. f[2].on /\ f[2].sys.file = "none"
    BY <2>2, <2>3, AlwaysFinds DEF Goes, Leaves
  <2>5. f[3].on /\ f[3].sys.file = "none"
    <3>1. Finds(manager, f[2].sys, "vacant")
      BY <2>4 DEF Finds
    <3> QED
      BY <2>2, <2>4, <3>1 DEF Goes, Leaves
  <2>6. f[4].sys.file = "full"
    <3>1. Finds(manager, f[3].sys, "register")
      BY <2>5 DEF Finds
    <3> QED
      BY <2>2, <2>5, <3>1 DEF Goes, Leaves
  <2> QED
    BY <1>1, <1>6, <2>1, <2>6 DEF Whole, Written, Linked
<1> QED
  BY <1>2, <1>3, <1>4, <1>5, <1>6, Names

\* What Stop() makes of a machine with windows.
LEMMA StopCourse ==
  ASSUME manager = "windows", NEW s \in Machine, s.file = "marked" => s.running
  PROVE  LET n == Run(s, "stop")
         IN  n \in Machine /\ (n.file = "none" \/ (~n.running /\ n.file # "marked"))
<1> DEFINE method == Methods[manager]["stop"]
           f == Followed(s, method)
<1>1. /\ Course(f, s, method) /\ Run(s, "stop") = f[Len(method)].sys
      /\ Run(s, "stop") \in Machine
  BY Names, RunTakesItsCourse
<1>2. Len(method) = 4 /\ method[1] = "connect" /\ method[2] = "open"
      /\ method[3] = "control" /\ method[4] = "await"
  BY DEF Methods, Windows
<1> HIDE DEF f, method
<1>3. /\ f[0].on /\ f[0].sys = s /\ Goes(f[0], "connect", f[1]) /\ Goes(f[1], "open", f[2])
      /\ Goes(f[2], "control", f[3]) /\ Goes(f[3], "await", f[4])
  BY <1>1, <1>2 DEF Course
<1>4. f[1].on /\ f[1].sys.file = s.file /\ f[1].sys.running = s.running
  BY <1>3, AlwaysFinds DEF Goes, Leaves
<1>5. Finds(manager, f[1].sys, "open") = (s.file # "none")
  BY <1>4 DEF Finds
<1>6. CASE s.file = "none"
  <2>1. f[2].sys = f[1].sys /\ ~f[2].on
    BY <1>3, <1>4, <1>5, <1>6 DEF Goes, Ignored
  <2>2. f[4].sys = f[1].sys
    BY <1>3, <2>1 DEF Goes
  <2> QED
    BY <1>1, <1>2, <1>4, <1>6, <2>2
<1>7. CASE s.file # "none"
  <2>1. f[2].on /\ f[2].sys.file = s.file /\ f[2].sys.running = s.running /\ f[2] \in Going
    BY <1>3, <1>4, <1>5, <1>7 DEF Goes, Leaves
  <2>2. Finds(manager, f[2].sys, "control") = s.running
    BY <2>1 DEF Finds, Going, Machine, SysOf
  <2>3. CASE s.running
    <3>1. f[3].on /\ f[3].sys \in Machine
      BY <1>3, <2>1, <2>2, <2>3 DEF Goes, Going
    <3>2. f[4].sys = Ended(f[3].sys)
      BY <1>3, <3>1 DEF Goes
    <3>3. f[4].sys.running = FALSE /\ f[4].sys.file # "marked"
      <4> DEFINE r == f[3].sys
                 P == Procs \union {Somebody}
      <4>1. r \in SysOf(P)
        BY <3>1 DEF Machine
      <4> HIDE DEF r, P
      <4>2. /\ Ended(r).running = FALSE
            /\ Ended(r).file = IF r.file = "marked" THEN "none" ELSE r.file
        BY <4>1, EndedFieldsOf
      <4> QED
        BY <3>2, <4>2 DEF r
    <3> QED
      BY <1>1, <1>2, <3>3
  <2>4. CASE ~s.running
    <3>1. f[3].sys = f[2].sys /\ ~f[3].on
      BY <1>3, <2>1, <2>2, <2>4 DEF Goes, Ignored
    <3>2. f[4].sys = f[2].sys
      BY <1>3, <3>1 DEF Goes
    <3> QED
      BY <1>1, <1>2, <2>1, <2>4, <3>2
  <2> QED
    BY <2>3, <2>4
<1> QED
  BY <1>6, <1>7

\* Remove() leaves nothing installed; with windows, of a service that does not run.
LEMMA RemoveCourse ==
  ASSUME manager \in Managers, NEW s \in Machine,
         manager = "windows" => s.file = "none" \/ (~s.running /\ s.file # "marked")
  PROVE  LET n == Run(s, "remove")
         IN  n \in Machine /\ n.file = "none"
<1> DEFINE method == Methods[manager]["remove"]
           f == Followed(s, method)
<1>1. /\ Course(f, s, method) /\ Run(s, "remove") = f[Len(method)].sys
      /\ Run(s, "remove") \in Machine
  BY Names, RunTakesItsCourse
<1>2. CASE manager = "windows"
  <2>1. Len(method) = 3 /\ method[1] = "connect" /\ method[2] = "open" /\ method[3] = "delete"
    BY <1>2 DEF Methods, Windows
  <2> HIDE DEF f, method
  <2>2. /\ f[0].on /\ f[0].sys = s /\ Goes(f[0], "connect", f[1]) /\ Goes(f[1], "open", f[2])
        /\ Goes(f[2], "delete", f[3])
    BY <1>1, <2>1 DEF Course
  <2>3. f[1].on /\ f[1].sys.file = s.file /\ f[1].sys.running = s.running
    BY <2>2, AlwaysFinds DEF Goes, Leaves
  <2>4. Finds(manager, f[1].sys, "open") = (s.file # "none")
    BY <2>3 DEF Finds
  <2>5. CASE s.file = "none"
    BY <1>1, <2>1, <2>2, <2>3, <2>4, <2>5 DEF Goes, Ignored
  <2>6. CASE s.file # "none"
    <3>1. f[2].on /\ f[2].sys.file = s.file /\ f[2].sys.running = s.running
      BY <2>2, <2>3, <2>4, <2>6 DEF Goes, Leaves
    <3>2. Finds(manager, f[2].sys, "delete")
      BY <1>2, <2>6, <3>1 DEF Finds
    <3> QED
      BY <1>1, <1>2, <2>1, <2>2, <2>6, <3>1, <3>2 DEF Goes, Leaves
  <2> QED
    BY <2>5, <2>6
<1>3. CASE manager # "windows"
  <2>1. /\ method[1] = "privileges" /\ method[2] = "present"
        /\ \/ /\ Len(method) = 4 /\ method[3] = "disable" /\ method[4] = "unlink"
           \/ /\ Len(method) = 5 /\ method[3] = "unlink" /\ method[4] = "unlinkS"
              /\ method[5] = "unlinkK"
           \/ /\ Len(method) = 3 /\ method[3] = "unlink"
    <3>1. CASE manager = "systemd"
      BY <3>1 DEF Methods, SystemD, Unix
    <3>2. CASE manager = "systemv"
      BY <3>2 DEF Methods, SystemV, Unix
    <3>3. CASE manager \in {"upstart", "bsd", "darwin"}
      BY <3>3 DEF Methods, Upstart, Bsd, Darwin, Unix, Drop
    <3> QED
      BY <1>3, <3>1, <3>2, <3>3, Names
  <2> HIDE DEF f, method
  <2>2. /\ f[0].on /\ f[0].sys = s /\ Goes(f[0], "privileges", f[1])
        /\ Goes(f[1], "present", f[2]) /\ Goes(f[2], method[3], f[3])
        /\ Len(method) >= 4 => Goes(f[3], method[4], f[4])
        /\ Len(method) = 5 => Goes(f[4], method[5], f[5])
    BY <1>1, <2>1 DEF Course
  <2>3. f[1].on /\ f[1].sys.file = s.file
    BY <2>2, AlwaysFinds DEF Goes, Leaves
  <2>4. Finds(manager, f[1].sys, "present") = (s.file # "none")
    BY <2>3 DEF Finds
  <2>5. CASE s.file = "none"
    <3>1. ~f[2].on /\ f[2].sys.file = "none"
      BY <2>2, <2>3, <2>4, <2>5 DEF Goes, Ignored
    <3>2. ~f[3].on /\ f[3].sys.file = "none"
      BY <2>2, <3>1 DEF Goes
    <3>3. Len(method) >= 4 => ~f[4].on /\ f[4].sys.file = "none"
      BY <2>2, <3>2 DEF Goes
    <3>4. Len(method) = 5 => f[5].sys.file = "none"
      BY <2>2, <3>3 DEF Goes
    <3>5. f[Len(method)].sys.file = "none"
      <4>1. Len(method) = 3 \/ Len(method) = 4 \/ Len(method) = 5
        BY <2>1
      <4>2. CASE Len(method) = 3
        BY <3>2, <4>2
      <4>3. CASE Len(method) = 4
        BY <3>3, <4>3
      <4>4. CASE Len(method) = 5
        BY <3>4, <4>4
      <4> QED
        BY <4>1, <4>2, <4>3, <4>4
    <3> QED
      BY <1>1, <3>5
  <2>6. CASE s.file # "none"
    <3>1. f[2].on /\ f[2].sys.file # "none"
      BY <2>2, <2>3, <2>4, <2>6 DEF Goes, Leaves
    <3>2. Finds(manager, f[2].sys, "disable") /\ Finds(manager, f[2].sys, "unlink")
      BY <3>1 DEF Finds
    <3>3. CASE Len(method) = 4
      <4>1. f[3].on /\ f[3].sys.file # "none"
        <5>1. Goes(f[2], "disable", f[3])
          BY <2>1, <2>2, <3>3
        <5> QED
          BY <3>1, <3>2, <5>1 DEF Goes, Leaves
      <4>2. Finds(manager, f[3].sys, "unlink")
        BY <4>1 DEF Finds
      <4>3. f[4].sys.file = "none"
        <5>1. Goes(f[3], "unlink", f[4])
          BY <2>1, <2>2, <3>3
        <5> QED
          BY <4>1, <4>2, <5>1 DEF Goes, Leaves
      <4> QED
        BY <1>1, <3>3, <4>3
    <3>4. CASE Len(method) # 4
      <4>1. f[3].on /\ f[3].sys.file = "none"
        <5>1. Goes(f[2], "unlink", f[3])
          BY <2>1, <2>2, <3>4
        <5> QED
          BY <3>1, <3>2, <5>1 DEF Goes, Leaves
      <4>2. CASE Len(method) = 3
        BY <1>1, <4>1, <4>2
      <4>3. CASE Len(method) = 5
        <5>0. Goes(f[3], "unlinkS", f[4]) /\ Goes(f[4], "unlinkK", f[5])
          BY <2>1, <2>2, <4>3
        <5>1. f[4].on /\ f[4].sys.file = "none"
          BY <4>1, <5>0, AlwaysFinds DEF Goes, Leaves
        <5>2. f[5].sys.file = "none"
          BY <5>0, <5>1, AlwaysFinds DEF Goes, Leaves
        <5> QED
          BY <1>1, <4>3, <5>2
      <4> QED
        BY <2>1, <3>4, <4>2, <4>3
    <3> QED
      BY <3>3, <3>4
  <2> QED
    BY <2>5, <2>6
<1> QED
  BY <1>2, <1>3

\* Start() gives a whole service that runs, if there is a whole one.
LEMMA StartCourse ==
  ASSUME manager \in Managers, NEW s \in Machine, Whole(s)
  PROVE  LET n == Run(s, "start")
         IN  Whole(n) /\ n.running
<1> DEFINE method == Methods[manager]["start"]
           f == Followed(s, method)
           Same(n) == n.file = s.file /\ n.exec = s.exec /\ n.enabled = s.enabled
                      /\ n.links = s.links
<1>1. Course(f, s, method) /\ Run(s, "start") = f[Len(method)].sys
  BY Names, RunTakesItsCourse
<1>2. ASSUME NEW n, Same(n), n.running, n = Run(s, "start")
      PROVE  Whole(Run(s, "start")) /\ Run(s, "start").running
  BY <1>2 DEF Whole, Written, Linked
<1>3. s.file = "full" /\ (manager \in {"systemv", "bsd"} => s.exec)
  BY DEF Whole, Written, Linked
<1>4. CASE manager = "windows"
  <2>1. Len(method) = 3 /\ method[1] = "connect" /\ method[2] = "open" /\ method[3] = "launch"
    BY <1>4 DEF Methods, Windows
  <2> HIDE DEF f, method
  <2>2. /\ f[0].on /\ f[0].sys = s /\ Goes(f[0], "connect", f[1]) /\ Goes(f[1], "open", f[2])
        /\ Goes(f[2], "launch", f[3])
    BY <1>1, <2>1 DEF Course
  <2>3. f[1].on /\ Same(f[1].sys)
    BY <2>2, AlwaysFinds DEF Goes, Leaves, LeavesLinks
  <2>4. f[2].on /\ Same(f[2].sys)
    <3>1. Finds(manager, f[1].sys, "open")
      BY <1>3, <2>3 DEF Finds
    <3> QED
      BY <2>2, <2>3, <3>1 DEF Goes, Leaves, LeavesLinks
  <2>5. Same(f[3].sys) /\ f[3].sys.running
    <3>1. CASE f[2].sys.running
      <4>1. ~Finds(manager, f[2].sys, "launch")
        BY <1>4, <3>1 DEF Finds
      <4> QED
        BY <2>2, <2>4, <3>1, <4>1 DEF Goes
    <3>2. CASE ~f[2].sys.running
      <4>1. Finds(manager, f[2].sys, "launch")
        BY <1>3, <1>4, <2>4, <3>2 DEF Finds
      <4> QED
        BY <2>2, <2>4, <4>1 DEF Goes, Leaves, LeavesLinks
    <3> QED
      BY <3>1, <3>2
  <2> QED
    BY <1>1, <1>2, <2>1, <2>5
<1>5. CASE manager # "windows"
  <2>1. Len(method) = 4 /\ method[1] = "privileges" /\ method[2] = "present"
        /\ method[3] = "stopped" /\ method[4] = "launch"
    BY <1>5, Names DEF Methods, SystemD, SystemV, Upstart, Bsd, Darwin, Unix
  <2> HIDE DEF f, method
  <2>2. /\ f[0].on /\ f[0].sys = s /\ Goes(f[0], "privileges", f[1])
        /\ Goes(f[1], "present", f[2]) /\ Goes(f[2], "stopped", f[3])
        /\ Goes(f[3], "launch", f[4])
    BY <1>1, <2>1 DEF Course
  <2>3. f[1].on /\ Same(f[1].sys)
    BY <2>2, AlwaysFinds DEF Goes, Leaves, LeavesLinks
  <2>4. f[2].on /\ Same(f[2].sys)
    <3>1. Finds(manager, f[1].sys, "present")
      BY <1>3, <2>3 DEF Finds
    <3> QED
      BY <2>2, <2>3, <3>1 DEF Goes, Leaves, LeavesLinks
  <2>5. Same(f[4].sys) /\ f[4].sys.running
    <3>1. CASE f[2].sys.running
      <4>1. ~Finds(manager, f[2].sys, "stopped")
        BY <3>1 DEF Finds
      <4>2. f[3].sys = f[2].sys /\ ~f[3].on
        BY <2>2, <2>4, <4>1 DEF Goes, Ignored
      <4>3. f[4] = f[3]
        BY <2>2, <4>2 DEF Goes
      <4> QED
        BY <2>4, <3>1, <4>2, <4>3
    <3>2. CASE ~f[2].sys.running
      <4>1. Finds(manager, f[2].sys, "stopped")
        BY <3>2 DEF Finds
      <4>2. f[3].on /\ Same(f[3].sys)
        BY <2>2, <2>4, <4>1 DEF Goes, Leaves, LeavesLinks
      <4>3. Finds(manager, f[3].sys, "launch")
        BY <1>3, <1>5, <4>2 DEF Finds
      <4> QED
        BY <2>2, <4>2, <4>3 DEF Goes, Leaves, LeavesLinks
    <3> QED
      BY <3>1, <3>2
  <2> QED
    BY <1>1, <1>2, <2>1, <2>5
<1> QED
  BY <1>4, <1>5

\* Under every service manager, whatever any number of people have done at the
\* same time, and whatever has failed or been interrupted: once all commands
\* have ended, stop, remove, install and start lead to a running service that is
\* whole.
THEOREM CommandsRepair == Spec => []Repairable
<1>1. Init => MarkedRuns
  BY DEF Init, NoService, MarkedRuns
<1>2. TypeOK /\ MarkedRuns => Repairable
  <2> SUFFICES ASSUME TypeOK, MarkedRuns
               PROVE  LET s == Run(Run(Run(Run(sys, "stop"), "remove"), "install"), "start")
                      IN  Whole(s) /\ s.running
    BY DEF Repairable
  <2> DEFINE stopped   == Run(sys, "stop")
             removed   == Run(stopped, "remove")
             installed == Run(removed, "install")
  <2>1. manager \in Managers /\ sys \in Machine
    BY DEF TypeOK, Sys, Machine, SysOf
  <2>2. /\ stopped \in Machine
        /\ manager = "windows" =>
             stopped.file = "none" \/ (~stopped.running /\ stopped.file # "marked")
    <3>1. stopped \in Machine
      BY <2>1, Names, RunTakesItsCourse
    <3> QED
      BY <2>1, <3>1, StopCourse DEF MarkedRuns
  <2> HIDE DEF stopped
  <2>3. removed \in Machine /\ removed.file = "none"
    BY <2>1, <2>2, RemoveCourse
  <2> HIDE DEF removed
  <2>4. installed \in Machine /\ Whole(installed)
    BY <2>1, <2>3, InstallCourse
  <2> HIDE DEF installed
  <2>5. Whole(Run(installed, "start")) /\ Run(installed, "start").running
    BY <2>1, <2>4, StartCourse
  <2> QED
    BY <2>4, <2>5 DEF stopped, removed, installed
<1> QED
  BY <1>1, <1>2, MarkedStep, ServiceTypeCorrectness, PTL DEF Spec
=============================================================================
