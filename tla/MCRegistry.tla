----------------------------- MODULE MCRegistry -----------------------------
(***************************************************************************)
(* Small instances of Registry and its refinement for TLC.                 *)
(***************************************************************************)
EXTENDS RegistryRefinement
=============================================================================
