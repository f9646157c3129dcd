----------------------------- MODULE MCTacReader -----------------------------
(***************************************************************************)
(* The calls of MCTac on a table of two slots and one edge per entity, so  *)
(* that slots are reused while they are read.                              *)
(***************************************************************************)
EXTENDS MCTac, TacReader
=============================================================================
