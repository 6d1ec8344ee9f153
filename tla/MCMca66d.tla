------------------------------ MODULE MCMca66d ------------------------------
(***************************************************************************)
(* Instances of Mca66d for TLC.                                            *)
(***************************************************************************)
EXTENDS Mca66d

\* A line whose command ends, one whose command waits for ever when it is alone
\* (28 bytes for 28), one with fewer words, one without a zone, and lines docmd()
\* or the handler turns down.
VolumeDown == <<"VOLUME", "1", "DOWN">>
VolumeUp == <<"VOLUME", "1", "UP">>
Query6 == <<"QUERY", "6">>
Status == <<"STATUS">>
Unknown == <<"HELLO">>
TooLong == <<"BASS", "1", "UP", "NOW", "PLEASE">>

\* A line short of a word, for which docmd() panics.
Short == <<"POWER">>

OneByOne == {VolumeDown, VolumeUp, Status, Short, TooLong}
Pipelined == {VolumeDown, Query6, Status, Unknown, TooLong}
=============================================================================
