---------------------------- MODULE MCWsSession -----------------------------
(***************************************************************************)
(* Instances of WsSession for TLC.                                         *)
(***************************************************************************)
EXTENDS WsSession

Goroutines == {"handler", "keeper"}
MessageCalls == [handler |-> {"text"}, keeper |-> {"ping"}]
ControlCalls == [handler |-> {"pong", "close"}, keeper |-> {}]

\* A message docmd() has cntl run for, one it turns down and one it panics for.
MCMessages == {<<"VOLUME", "1", "DOWN">>, <<"HELLO">>, <<"INPUT", "1", "2">>}
=============================================================================
