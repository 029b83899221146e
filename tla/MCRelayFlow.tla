---------------------------- MODULE MCRelayFlow ----------------------------
(***************************************************************************)
(* A small instance of RelayFlow.                                          *)
(***************************************************************************)
EXTENDS RelayFlow, TLC

Interchangeable == Permutations(Calls)
=============================================================================
