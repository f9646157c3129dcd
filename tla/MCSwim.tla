------------------------------- MODULE MCSwim -------------------------------
(***************************************************************************)
(* The instance of Swim for TLC.                                           *)
(***************************************************************************)
EXTENDS Swim

\* One overrun, one clean round (the deltas wake_swim.h names).
BothWays == {1, -1}

=============================================================================
