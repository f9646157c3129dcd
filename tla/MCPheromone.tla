----------------------------- MODULE MCPheromone -----------------------------
(***************************************************************************)
(* Instances of the pheromone table for TLC.  Both entities hash to slot 1 *)
(* of a table of two, so probes collide and wrap round; the hash of e1 is  *)
(* the EMPTY sentinel.                                                     *)
(***************************************************************************)
EXTENDS Pheromone, TLC

CONSTANTS e1, e2, writer, other, reader

MCHash == e1 :> 0 @@ e2 :> 5

\* Two processes deposit while a third removes or runs the decay pass.
Evicting == writer :> {"deposit", "reinforce"} @@ other :> {"deposit", "lookup"}
            @@ reader :> {"remove", "decay"}

\* Two processes deposit while a third reads; nothing is evicted.
Depositing == writer :> {"reinforce"} @@ other :> {"deposit"} @@ reader :> {"read"}

\* The second process goes on after the others have stopped.
OneTwoOne == writer :> 1 @@ other :> 2 @@ reader :> 1

=============================================================================
