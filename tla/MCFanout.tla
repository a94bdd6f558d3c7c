------------------------------ MODULE MCFanout ------------------------------
(***************************************************************************)
(* Small instances of Fanout for TLC.                                      *)
(***************************************************************************)
EXTENDS Fanout
=============================================================================
