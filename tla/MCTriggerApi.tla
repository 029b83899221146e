---------------------------- MODULE MCTriggerApi ----------------------------
(***************************************************************************)
(* Small instances of TriggerApi.                                          *)
(***************************************************************************)
EXTENDS TriggerApi, TLC

Interchangeable == Permutations(Requests)
=============================================================================
