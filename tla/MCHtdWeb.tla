----------------------------- MODULE MCHtdWeb -----------------------------
(***************************************************************************)
(* Instances of HtdWeb for TLC.                                            *)
(***************************************************************************)
EXTENDS HtdWeb
=============================================================================
