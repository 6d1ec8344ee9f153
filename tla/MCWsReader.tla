----------------------------- MODULE MCWsReader -----------------------------
(* A handshake that may be taken and one that is not, frames of no or two    *)
(* bytes and a limit of three, and two lengths that get round it: one that   *)
(* is negative and one with which readLength wraps.                          *)
EXTENDS WsReader
MCRequests ==
  {[connection |-> c, upgrade |-> TRUE, get |-> TRUE, version |-> TRUE,
    origin |-> "other", key |-> TRUE] : c \in BOOLEAN}
MCFrames ==
  [op: {"data", "cont"}, fin: BOOLEAN, len: {0, 2}, wrong: {FALSE}]
    \union {[op |-> "data", fin |-> FALSE, len |-> -2, wrong |-> FALSE],
            [op |-> "cont", fin |-> TRUE, len |-> 5, wrong |-> FALSE]}
    \union [op: {"ping", "close"}, fin: {TRUE}, len: {0}, wrong: {FALSE}]
    \union [op: {"pong"}, fin: {TRUE}, len: {0}, wrong: {TRUE}]
=============================================================================
