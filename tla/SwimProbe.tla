------------------------------ MODULE SwimProbe ------------------------------
(***************************************************************************)
(* Swim with a history variable that records whom wake_swim_next_probe     *)
(* returned.  It observes the instance and never restricts it.             *)
(***************************************************************************)
EXTENDS Swim

VARIABLE
    gap     \* probes of others since id was probed or the order last dropped

probeVars == <<sw, now, gap>>

EligibleIds(s) == {s.members[i].node_id : i \in EligibleIdx(s.members)}

ProbeInit ==
    /\ Init
    /\ gap = [id \in NodeId |-> 0]

Probe ==
    \E r \in wake_swim_next_probe(sw) :
        LET hit == IF r.target = NULL THEN {} ELSE {sw.members[r.target].node_id}
        IN  /\ sw' = r.st
            /\ gap' = [id \in NodeId |->
                          IF id \in EligibleIds(sw) \ hit THEN gap[id] + 1 ELSE 0]
            /\ UNCHANGED now

Other ==
    /\ Upkeep
    /\ gap' = IF sw'.probe_order = << >> THEN [id \in NodeId |-> 0] ELSE gap

ProbeNext == Probe \/ Other

ProbeSpec == ProbeInit /\ [][ProbeNext]_probeVars

\* Failure detection is timely: while the membership does not change, between
\* two probes of one member at most 2(n-1) others are probed, n being the
\* number of eligible members (the member is first in one round, last in the
\* next).
ProbeGapBounded ==
    \A id \in EligibleIds(sw) : gap[id] <= 2 * (sw.alive_count - 1)

=============================================================================
