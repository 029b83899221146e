---------------------------- MODULE MCWorkflows ----------------------------
(***************************************************************************)
(* Small instances of Workflows.                                           *)
(***************************************************************************)
EXTENDS Workflows, TLC

Interchangeable == Permutations(Calls)
=============================================================================
