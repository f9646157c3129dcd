-------------------------------- MODULE Swim --------------------------------
(***************************************************************************)
(* One SWIM instance (src/wake_swim.c) driven by its host.  The library is *)
(* passive and single-threaded: the host owns the clock and the sockets    *)
(* and calls the operations in any order, with any update a peer may send. *)
(* Each action is one whole call; a refused call leaves the state alone.   *)
(***************************************************************************)
EXTENDS SwimOps

CONSTANTS
    Self,            \* self_id given to wake_swim_create
    StartTime,       \* the host clock when the instance is created
    MaxTime,         \* bound: the clock stops here
    LastSuspicion,   \* bound: no suspicion starts after this instant
    Retention,       \* retention_ms values given to wake_swim_reap
    Batch,           \* max values given to wake_swim_get_updates
    HealthDelta      \* delta values given to wake_swim_report_health

ASSUME SelfAssumption == Self \in NodeId
ASSUME StartTimeAssumption == StartTime \in Nat
ASSUME RetentionAssumption == Retention \subseteq Nat
ASSUME BatchAssumption == Batch \subseteq Nat
ASSUME HealthDeltaAssumption == HealthDelta \subseteq Int

VARIABLES
    sw,    \* the wake_swim_t
    now    \* the host's clock, passed to every call as now_ms

vars == <<sw, now>>

Init ==
    /\ sw = wake_swim_create(Self)
    /\ now = StartTime

\* The host's clock is monotonic.
Tick ==
    /\ now < MaxTime
    /\ now' = now + 1
    /\ UNCHANGED sw

AddMember(id) ==
    /\ sw' = wake_swim_add_member(sw, id, now)
    /\ UNCHANGED now

RemoveMember(id) ==
    /\ sw' = wake_swim_remove_member(sw, id, now)
    /\ UNCHANGED now

ApplyUpdate(u) ==
    /\ u.state = SUSPECT => now <= LastSuspicion
    /\ sw' = wake_swim_apply_update(sw, u, now)
    /\ UNCHANGED now

SuspectMember(id) ==
    /\ now <= LastSuspicion
    /\ sw' = wake_swim_suspect_member(sw, id, now)
    /\ UNCHANGED now

NextProbe ==
    /\ \E r \in wake_swim_next_probe(sw) : sw' = r.st
    /\ UNCHANGED now

CheckSuspects ==
    /\ sw' = wake_swim_check_suspects(sw, now)
    /\ UNCHANGED now

Reap(ret) ==
    /\ sw' = wake_swim_reap(sw, now, ret)
    /\ UNCHANGED now

GetUpdates(max) ==
    /\ sw' = wake_swim_get_updates(sw, max)
    /\ UNCHANGED now

ReportHealth(d) ==
    /\ sw' = wake_swim_report_health(sw, d)
    /\ UNCHANGED now

Reset ==
    /\ sw' = wake_swim_reset(sw)
    /\ UNCHANGED now

\* Everything the host may do besides asking for a probe target.
Upkeep ==
    \/ Tick
    \/ \E id \in NodeId : AddMember(id)
    \/ \E id \in NodeId : RemoveMember(id)
    \/ \E u \in Rumour : ApplyUpdate(u)
    \/ \E id \in NodeId : SuspectMember(id)
    \/ CheckSuspects
    \/ \E ret \in Retention : Reap(ret)
    \/ \E max \in Batch : GetUpdates(max)
    \/ \E d \in HealthDelta : ReportHealth(d)
    \/ Reset

Next == NextProbe \/ Upkeep

Spec == Init /\ [][Next]_vars

\* The host's protocol loop keeps calling check_suspects while time passes.
Fairness == WF_vars(Tick) /\ WF_vars(CheckSuspects)

FairSpec == Spec /\ Fairness

-----------------------------------------------------------------------------
(* Invariants.                                                             *)

\* Type correctness of the instance; both arrays stay within their
\* allocation (wake_swim_create callocs max_members and update_queue_size).
TypeOK ==
    /\ sw \in SwimState
    /\ Len(sw.members) <= MaxMembers
    /\ Len(sw.updates) <= UpdateQueueSize
    /\ now \in Nat

\* What next_probe, the timeout and the piggyback limit trust without looking at
\* the list: alive_count is the number of ALIVE and SUSPECT members, and a probe
\* order still in use is a permutation of exactly the probe-eligible indices.  No
\* state change, expiry or compaction leaves a count behind, or an index that now
\* names another or a dead member.
CachesFresh ==
    /\ sw.alive_count = recount_alive(sw.members)
    /\ sw.probe_order # << >> =>
          /\ sw.probe_index <= Len(sw.probe_order)
          /\ sw.probe_order \in Bijection(1..Len(sw.probe_order), EligibleIdx(sw.members))

DistinctIds(q) == \A i, j \in DOMAIN q : q[i].node_id = q[j].node_id => i = j

\* One entry per node in the member list and in the queue, and this node is
\* never its own member (it would probe and suspect itself).
IdentityUnique ==
    /\ DistinctIds(sw.members)
    /\ DistinctIds(sw.updates)
    /\ ~Known(sw, Self)

\* suspect_ms, whose 0 means "not suspect", is set exactly while a member is
\* SUSPECT, and no stamp lies in the future (now - stamp never underflows).
SuspicionTimed ==
    \A i \in DOMAIN sw.members :
        LET m == sw.members[i]
        IN  /\ m.state = SUSPECT <=> m.suspect_ms # 0
            /\ m.suspect_ms <= now /\ m.last_change_ms <= now

\* What is gossiped is what this node believes: a queued update about a listed
\* member never contradicts the list and never runs ahead of it, and of itself the
\* node says only that it is alive, never at an incarnation above its own.
QueueAgrees ==
    \A k \in DOMAIN sw.updates :
        LET u == sw.updates[k]
        IN  /\ \A i \in DOMAIN sw.members :
                  LET m == sw.members[i]
                  IN  u.node_id = m.node_id => /\ u.state = m.state
                                               /\ u.incarnation <= m.incarnation
            /\ u.node_id = Self => /\ u.state = ALIVE
                                   /\ u.incarnation <= sw.self_incarnation

\* A call of check_suspects at any moment leaves no suspicion that is older
\* than the timeout in force, whatever mix of members and stamps it finds.
ExpiryComplete ==
    LET t == wake_swim_check_suspects(sw, now)
    IN  \A i \in DOMAIN t.members :
           t.members[i].state = SUSPECT =>
              now - t.members[i].last_change_ms < wake_swim_suspect_timeout(sw)

-----------------------------------------------------------------------------
(* Action properties.                                                      *)

Entry(s, id) == s.members[find_member(s, id)]

\* While a node stays listed its (incarnation, state) only moves up the
\* precedence order: a stale or reordered update never revives a DEAD or
\* SUSPECT member at the same incarnation, and LEFT is final.
PrecedenceHeld ==
    [][\A id \in NodeId :
          Known(sw, id) /\ Known(sw', id) =>
             LET old == Entry(sw, id)
                 new == Entry(sw', id)
             IN  \/ new.state = old.state /\ new.incarnation = old.incarnation
                 \/ state_supersedes(new.state, new.incarnation,
                                     old.state, old.incarnation)]_vars

\* A member leaves the list only from DEAD or LEFT, through reap, or when the
\* host resets the instance; nobody is dropped silently.
NoSilentDrop ==
    [][\A id \in NodeId :
          Known(sw, id) /\ ~Known(sw', id) =>
             \/ Entry(sw, id).state \in {DEAD, LEFT}
             \/ sw' = wake_swim_reset(sw)]_vars

\* An accusation against this node is answered: after it, the queue carries
\* an ALIVE update about this node that beats the accusation everywhere
\* (unless the accuser used the last incarnation).
RefutationWins ==
    [][\A u \in Rumour :
          /\ u.node_id = Self /\ u.state \in {SUSPECT, DEAD}
          /\ u.incarnation < UINT32_MAX
          /\ ApplyUpdate(u)
          => \E k \in DOMAIN sw'.updates :
                /\ sw'.updates[k].node_id = Self
                /\ state_supersedes(sw'.updates[k].state, sw'.updates[k].incarnation,
                                    u.state, u.incarnation)]_vars

-----------------------------------------------------------------------------
(* Liveness.                                                               *)

SuspectIn(s, id) == Known(s, id) /\ Entry(s, id).state = SUSPECT

\* Every suspicion is resolved: refuted, declared DEAD, LEFT, or dropped.
SuspicionResolves ==
    \A id \in NodeId : SuspectIn(sw, id) ~> ~SuspectIn(sw, id)

=============================================================================
