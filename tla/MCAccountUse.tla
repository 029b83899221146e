---------------------------- MODULE MCAccountUse ----------------------------
(***************************************************************************)
(* A small instance of AccountUse: two spellings of one address and one of *)
(* another.                                                                *)
(***************************************************************************)
EXTENDS AccountUse

MCNormalised == [spelling \in {"A@x", "a@x", "b@x"} |-> IF spelling = "b@x" THEN "b@x" ELSE "a@x"]
=============================================================================
