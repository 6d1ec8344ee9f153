------------------------------- MODULE Docmd --------------------------------
(***************************************************************************)
(* docmd() of the daemon (main.go): from the words of a command to an      *)
(* invocation of cntl.  NUL stands for a word with zeros in it.            *)
(***************************************************************************)
EXTENDS CntlMain, Sequences, TLC

\* strconv.Atoi(), whose error is ignored: it returns 0 with it.  The numbers of
\* the lines have one digit.
Numeral == [n \in -1..9 |-> ToString(n)]
Atoi(w) == IF \E n \in DOMAIN Numeral : Numeral[n] = w
           THEN CHOOSE n \in DOMAIN Numeral : Numeral[n] = w
           ELSE 0

\* The commands that take an on/off or up/down word after the zone.
ZoneWord == {"POWER", "VOLUME", "BASS", "TREBLE", "BALANCE", "MUTE"}

\* The commands docmd() knows.
CommandWord == ZoneWord \cup {"INPUT", "QUERY", "STATUS"}

\* The number of words docmd() takes from parts.
Arity(cmd) ==
  CASE cmd \in ZoneWord -> 3
    [] cmd = "INPUT"    -> 4
    [] cmd = "QUERY"    -> 2
    [] OTHER            -> 1

\* The cntl invocation for the words; mkzone() finds a zone out of range but
\* what it finds is overwritten by the output of cntl.  getopt() takes a
\* negative number anywhere for an option.
Invocation(parts) ==
  LET cmd  == parts[1]
      n    == Arity(cmd)
      zone == IF n > 1 THEN Atoi(parts[2]) ELSE 0
      arg  == IF n > 2 THEN parts[3] ELSE "none"
  IN  [opt  |-> IF \E k \in 2..n : Atoi(parts[k]) < 0 THEN "bad" ELSE "none",
       argc |-> n,
       cmd  |-> cmd,
       zone |-> zone,
       arg  |-> IF arg \in ThirdWord THEN arg ELSE "none",
       ch   |-> IF cmd = "INPUT" /\ Atoi(arg) >= 0 THEN Atoi(arg) ELSE 0]

\* What becomes of the words: docmd() does not know the command, it takes a word
\* that is not there and panics, exec() refuses an argument with a zero in it, or
\* cntl runs.
Docmd(parts) ==
  IF parts = <<>> THEN "panic"
  ELSE IF parts[1] \notin CommandWord THEN "unknown"
  ELSE IF Len(parts) < Arity(parts[1]) THEN "panic"
  ELSE IF \E k \in 3..Arity(parts[1]) : parts[k] = "NUL" THEN "refused"
  ELSE "run"

\* Does cntl exit with status 0?
Succeeds(r) == Prologue(r) = "init" /\ Dispatch(r) \in {"nothing", "send"}

\* Alone on the serial line, does it wait for a byte that never comes?
Hangs(r) == Sends(r) /\ Answer(r) <= Toread(Cmd(r))
=============================================================================
