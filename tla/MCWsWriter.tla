----------------------------- MODULE MCWsWriter -----------------------------
(***************************************************************************)
(* An instance of WsWriter for TLC: one goroutine that writes messages and *)
(* one that answers pings and close frames, as doc.go allows.              *)
(***************************************************************************)
EXTENDS WsWriter, TLC

CONSTANTS writer, reader

OneWriter == (writer :> {"text", "close"}) @@ (reader :> {})
Controls == (writer :> {}) @@ (reader :> {"pong", "close"})
=============================================================================
