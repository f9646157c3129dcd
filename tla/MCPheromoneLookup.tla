-------------------------- MODULE MCPheromoneLookup --------------------------
(***************************************************************************)
(* PheromoneLookup on the instances of MCPheromone.                        *)
(***************************************************************************)
EXTENDS PheromoneLookup, MCPheromone

=============================================================================
