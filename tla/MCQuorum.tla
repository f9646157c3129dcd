------------------------------- MODULE MCQuorum -------------------------------
(***************************************************************************)
(* Two slots; the probe chain of k1 is the first one, that of k2 is both,  *)
(* so that the first slot is reused and k2 moves between slots.            *)
(***************************************************************************)
EXTENDS QuorumSweep, TLC

CONSTANTS k1, k2

MCChain == k1 :> {0} @@ k2 :> {0, 1}
=============================================================================
