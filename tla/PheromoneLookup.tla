--------------------------- MODULE PheromoneLookup ---------------------------
(***************************************************************************)
(* Pheromone with a history variable: held[p] is the set of slots that     *)
(* have held p's key ever since p's call began.  It observes the table and *)
(* never restricts it.                                                     *)
(***************************************************************************)
EXTENDS Pheromone

VARIABLE held

HoldInit == Init /\ held = [p \in Proc |-> {}]

\* A call that begins starts with the slots that hold its key now; any step
\* takes away the slots whose key changed.
HoldNext ==
    /\ Next
    /\ held' = [p \in Proc |->
          IF call'[p].e = NoEntity THEN {}
          ELSE {i \in (IF call[p].e = NoEntity THEN Slot ELSE held[p]) :
                   key'[i] = entity_key_hash(call'[p].e)}]

HoldSpec == HoldInit /\ [][HoldNext]_<<vars, held>>

\* The probe loop of p ended without a match.
Missed(p) ==
    \/ pc[p] = "claim"
    \/ pc[p] = "ret" /\ call[p].e # NoEntity /\ call[p].avail = NoSlot

\* A lookup or a removal that reports "absent", and a deposit that inserts or
\* gives up, is right: no slot has held the key during the whole call.
NoFalseMiss == \A p \in Proc : Missed(p) => held[p] = {}

=============================================================================
