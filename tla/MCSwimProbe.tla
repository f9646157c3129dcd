----------------------------- MODULE MCSwimProbe -----------------------------
(***************************************************************************)
(* Instances of SwimProbe for TLC.                                         *)
(***************************************************************************)
EXTENDS SwimProbe, TLC

\* Peers other than Self are interchangeable.
PeerSymmetry == Permutations(NodeId \ {Self})

=============================================================================
