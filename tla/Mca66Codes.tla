----------------------------- MODULE Mca66Codes -----------------------------
(***************************************************************************)
(* The vocabulary of libmca66: the zone and command numbers of mca66.h,    *)
(* the table of command frames codes[] that process_command() indexes with *)
(* their sum, the number of bytes process_command() reads back for each    *)
(* command, and what the MCA-66 amplifier does with a frame.               *)
(*                                                                         *)
(* An entry of codes[] is described by what its name and its bytes say:    *)
(* the zone it addresses (AllZones for the two entries without one), the   *)
(* operation and the operation's argument.                                 *)
(***************************************************************************)
EXTENDS Integers

Zone == 1..6
AllZones == 0

\* enum zone: the number of a zone is the index in codes[] of its first entry.
nozone == 0
ZoneBase(z) == 24 * (z - 1) + 2

\* enum command: the offset of a command in the 24 entries of a zone.  The two
\* all-zone commands share the numbers 0 and 1 with the first two channels.
cmd_all_on == 0
cmd_all_off == 1
cmd_set_input_ch1 == 0
cmd_set_input_ch6 == 5
cmd_volume_up == 6
cmd_volume_down == 7
cmd_power_on == 8
cmd_power_off == 9
cmd_mute_toggle == 10
cmd_bass_up == 11
cmd_bass_down == 12
cmd_treble_up == 13
cmd_treble_down == 14
cmd_balance_right == 15
cmd_balance_left == 16
cmd_part_mode_input_ch1 == 17
cmd_part_mode_input_ch6 == 22
cmd_query_zone_state == 23
Command == 0..23

(***************************************************************************)
(* codes[]                                                                 *)
(***************************************************************************)

\* The operation and argument that the 24 entries of a zone carry, by offset.
ZoneEntry(k) ==
  CASE k \in cmd_set_input_ch1..cmd_set_input_ch6 -> [op |-> "input", arg |-> k + 1]
    [] k = cmd_volume_up     -> [op |-> "volume", arg |-> 1]
    [] k = cmd_volume_down   -> [op |-> "volume", arg |-> -1]
    [] k = cmd_power_on      -> [op |-> "power", arg |-> 1]
    [] k = cmd_power_off     -> [op |-> "power", arg |-> 0]
    [] k = cmd_mute_toggle   -> [op |-> "mute", arg |-> 0]
    [] k = cmd_bass_up       -> [op |-> "bass", arg |-> 1]
    [] k = cmd_bass_down     -> [op |-> "bass", arg |-> -1]
    [] k = cmd_treble_up     -> [op |-> "treble", arg |-> 1]
    [] k = cmd_treble_down   -> [op |-> "treble", arg |-> -1]
    [] k = cmd_balance_right -> [op |-> "balance", arg |-> 1]
    [] k = cmd_balance_left  -> [op |-> "balance", arg |-> -1]
    [] k \in cmd_part_mode_input_ch1..cmd_part_mode_input_ch6
                             -> [op |-> "part", arg |-> k - cmd_part_mode_input_ch1 + 1]
    [] k = cmd_query_zone_state -> [op |-> "query", arg |-> 0]

CodeIndex == 0..145

ZoneOf(i) == IF i < 2 THEN AllZones ELSE ((i - 2) \div 24) + 1
Entry(i) == IF i < 2 THEN [op |-> "power", arg |-> 1 - i] ELSE ZoneEntry((i - 2) % 24)

\* A plausible slip: the table counted from 1.
BadCode(z, c) == z + c + 1

\* The entry that process_command(z, c) sends.
Code(z, c) == z + c

\* The counts as the answers were measured.
BadToread(c) == IF c = cmd_volume_down THEN 42 ELSE 28

(***************************************************************************)
(* The bytes process_command() wants back.  The test "cmd_mute_toggle"     *)
(* is on the constant 10, not on c, so it is true of every command that    *)
(* reaches it and the three branches below it are dead.                    *)
(***************************************************************************)
Toread(c) ==
  CASE c \in cmd_all_on..cmd_all_off                -> 168
    [] c \in (cmd_all_off + 1)..cmd_set_input_ch6   -> 28
    [] c \in cmd_volume_up..cmd_volume_down         -> 28
    [] c \in cmd_power_on..cmd_power_off            -> 61
    [] OTHER                                        -> 28

(***************************************************************************)
(* The amplifier (external): the length of its answer to each frame, as    *)
(* recorded in mca66cntl-test.txt by the earlier program that read until   *)
(* the line fell silent.  MUTE never fell silent within 512 bytes.         *)
(***************************************************************************)
MuteBurst == 512

Response(i) ==
  LET e == Entry(i) IN
  CASE i < 2                            -> 168
    [] e.op = "mute"                    -> MuteBurst
    [] e.op = "part"                    -> 182
    [] e.op = "volume" /\ e.arg = -1    -> 42
    [] e.op = "power" /\ i >= 2 /\ e.arg = 0 -> 61
    [] e.op = "query" /\ ZoneOf(i) = 6  -> 112
    [] OTHER                            -> 28
=============================================================================
