-------------------------------- MODULE MCTac --------------------------------
(***************************************************************************)
(* Two entities whose edges collide: a is allowed one edge and is called   *)
(* with pairs in both orders and with a window of three activations; b has *)
(* one edge.  Source 4 is SRC_OTHER itself, the catch-all.                 *)
(***************************************************************************)
EXTENDS Tac

CONSTANTS a, b, none

MCEdges == {<<a, 1, 2>>, <<a, 1, 3>>, <<a, 2, 3>>, <<b, 1, 2>>}

MCHome == [k \in MCEdges |-> IF k[3] = 3 THEN 1 ELSE 0]

MCOccHome == [e \in {a, b, none} |-> 0]

R(e, x, y, eta, s) == [entity |-> e, a |-> x, b |-> y, eta |-> eta, source |-> s]

MCReinforcements == {R(a, 2, 1, 2, 1), R(b, 1, 2, 1, 2)}

A(t, eta, s) == [technique |-> t, eta |-> eta, source |-> s]

MCBatches == {[entity |-> a, acts |-> <<A(1, 2, 1), A(2, 4, 4), A(3, 4, 2)>>]}
=============================================================================
