-------------------------------- MODULE Alarm --------------------------------
(***************************************************************************)
(* What a quorum evaluator promises, slot by slot, without the table, the  *)
(* thresholds or the sweep: for each slot the entity it last reported on   *)
(* and the tier it reported, and whether the host heard of it.             *)
(*                                                                         *)
(*   - a tier only rises while the slot keeps its entity;                  *)
(*   - it falls only to nothing, by a retraction of an ALERT, or because   *)
(*     the slot is forgotten (its entity has left, or the evaluator was    *)
(*     reset or restarted), which tells the host nothing;                  *)
(*   - the host is told of a rise or a retraction when it happens, or, for *)
(*     a dry sweep or a full hits array, never.                            *)
(***************************************************************************)
CONSTANTS Slots, Names, Tiers, NONE, ALERT, Quiet, Rises(_, _)

VARIABLES alarm,  \* alarm[i]: the entity last reported for slot i and its tier
          told    \* told[i]: that report if the host heard it, else nothing

vars == <<alarm, told>>

Report == [key : Names, tier : Tiers]

Init == alarm = [i \in Slots |-> Quiet] /\ told = [i \in Slots |-> Quiet]

\* The reported state of slot i becomes r, and the host is told, or is not.
Becomes(i, r) == /\ alarm' = [alarm EXCEPT ![i] = r]
                 /\ \/ told' = [told EXCEPT ![i] = r]
                    \/ told' = [told EXCEPT ![i] = Quiet]

\* The entity of slot i is reported at a tier above the one reported so far.
Raise(i, r) == /\ r.key = alarm[i].key => Rises(alarm[i].tier, r.tier)
               /\ r.tier # NONE
               /\ Becomes(i, r)

Retract(i) == alarm[i].tier = ALERT /\ Becomes(i, Quiet)

\* Slot i is seen without an entity, or with one nothing was reported about.
Forget(i, r) == /\ r.tier = NONE
                /\ r.key = alarm[i].key => r = alarm[i]
                /\ alarm' = [alarm EXCEPT ![i] = r]
                /\ told' = [told EXCEPT ![i] = Quiet]

\* The evaluator starts again and has reported nothing.
StartAgain == /\ alarm' = [i \in Slots |-> Quiet]
              /\ told' = [i \in Slots |-> Quiet]

Next == \/ \E i \in Slots, r \in Report : Raise(i, r) \/ Forget(i, r)
        \/ \E i \in Slots : Retract(i)
        \/ StartAgain

Spec == Init /\ [][Next]_vars
=============================================================================
