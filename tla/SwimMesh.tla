------------------------------ MODULE SwimMesh ------------------------------
(***************************************************************************)
(* A mesh of SWIM instances (src/wake_swim.c), one per node, whose hosts   *)
(* piggyback what wake_swim_get_updates hands out and give what arrives to *)
(* wake_swim_apply_update.  The network may lose, delay, reorder and       *)
(* repeat: an update once sent can reach any node at any time, any number  *)
(* of times.  A host may die; nothing is persisted, so its next process    *)
(* starts with a new instance.  Clocks are not synchronised.               *)
(*                                                                         *)
(* wake_swim_next_probe and wake_swim_report_health touch neither the list *)
(* nor the queue and are left to module Swim; whom a host suspects, and    *)
(* when, is free here.                                                     *)
(***************************************************************************)
EXTENDS SwimOps

CONSTANTS
    KeepMs,        \* retention_ms given to wake_swim_reap
    PerMessage,    \* max given to wake_swim_get_updates
    ClockLimit,    \* bound: the clocks stop here
    HostCalls      \* bound: calls the hosts make of their own accord

ASSUME KeepAssumption == KeepMs \in Nat
ASSUME PerMessageAssumption == PerMessage \in Nat
ASSUME ClockLimitAssumption == ClockLimit \in Nat \ {0}
ASSUME HostCallsAssumption == HostCalls \in Nat

VARIABLES
    nodes,      \* [NodeId -> the wake_swim_t of that node]
    clock,      \* [NodeId -> its host's clock]
    net,        \* updates sent so far
    made,       \* calls the hosts have made
    accused,    \* history: (node, incarnation) some host reported a failed probe of
    removed,    \* history: nodes some host removed
    restarted   \* history: nodes whose process died

meshVars == <<nodes, clock, net, made, accused, removed, restarted>>

MeshInit ==
    /\ nodes = [n \in NodeId |-> wake_swim_create(n)]
    /\ clock = [n \in NodeId |-> 1]
    /\ net = {}
    /\ made = 0
    /\ accused = {} /\ removed = {} /\ restarted = {}

-----------------------------------------------------------------------------
(* Calls.                                                                  *)

Becomes(n, s) == nodes' = [nodes EXCEPT ![n] = s]

\* A call that the host makes on its own, within the bound.
HostCall(n, s) ==
    /\ made < HostCalls
    /\ made' = made + 1
    /\ Becomes(n, s)
    /\ UNCHANGED <<clock, net>>

MeshTick(n) ==
    /\ clock[n] < ClockLimit
    /\ clock' = [clock EXCEPT ![n] = @ + 1]
    /\ UNCHANGED <<nodes, net, made, accused, removed, restarted>>

Join(n, id) ==
    /\ HostCall(n, wake_swim_add_member(nodes[n], id, clock[n]))
    /\ UNCHANGED <<accused, removed, restarted>>

Remove(n, id) ==
    /\ HostCall(n, wake_swim_remove_member(nodes[n], id, clock[n]))
    /\ removed' = IF Known(nodes[n], id) THEN removed \cup {id} ELSE removed
    /\ UNCHANGED <<accused, restarted>>

\* A failed probe is about the incarnation the prober knows.
Accuse(n, id) ==
    /\ HostCall(n, wake_swim_suspect_member(nodes[n], id, clock[n]))
    /\ accused' = IF Known(nodes[n], id)
                  THEN accused \cup
                       {<<id, nodes[n].members[find_member(nodes[n], id)].incarnation>>}
                  ELSE accused
    /\ UNCHANGED <<removed, restarted>>

Forget(n) ==
    /\ HostCall(n, wake_swim_reset(nodes[n]))
    /\ UNCHANGED <<accused, removed, restarted>>

\* The process dies and is started again.
Restart(n) ==
    /\ HostCall(n, wake_swim_create(n))
    /\ restarted' = restarted \cup {n}
    /\ UNCHANGED <<accused, removed>>

\* The periodic upkeep of the host's loop.
Expire(n) ==
    /\ Becomes(n, wake_swim_check_suspects(nodes[n], clock[n]))
    /\ UNCHANGED <<clock, net, made, accused, removed, restarted>>

Purge(n) ==
    /\ Becomes(n, wake_swim_reap(nodes[n], clock[n], KeepMs))
    /\ UNCHANGED <<clock, net, made, accused, removed, restarted>>

\* What an entry of the list or of the queue says.
Saying(x) == [node_id |-> x.node_id, state |-> x.state, incarnation |-> x.incarnation]

Send(n) ==
    LET s == nodes[n]
    IN  /\ net' = net \cup {Saying(s.updates[i]) : i \in Picked(s, PerMessage)}
        /\ Becomes(n, wake_swim_get_updates(s, PerMessage))
        /\ UNCHANGED <<clock, made, accused, removed, restarted>>

Accuses(u, n) == u.node_id = n /\ u.state \in {SUSPECT, DEAD}

\* Bound: nobody lives through 2^32 refutations, so incarnations do not wrap.
Deliver(n, u) ==
    /\ u \in net
    /\ Accuses(u, n) => u.incarnation < UINT32_MAX
    /\ Becomes(n, wake_swim_apply_update(nodes[n], u, clock[n]))
    /\ UNCHANGED <<clock, net, made, accused, removed, restarted>>

MeshNext ==
    \E n \in NodeId :
        \/ MeshTick(n) \/ Expire(n) \/ Purge(n) \/ Send(n) \/ Forget(n) \/ Restart(n)
        \/ \E id \in NodeId : Join(n, id) \/ Remove(n, id) \/ Accuse(n, id)
        \/ \E u \in net : Deliver(n, u)

MeshSpec == MeshInit /\ [][MeshNext]_meshVars

-----------------------------------------------------------------------------
(* Properties.                                                             *)

\* Type correctness: every node keeps its own id, and lists and queues stay within
\* their allocation whatever the mesh passes around.
MeshTypeOK ==
    /\ nodes \in [NodeId -> SwimState]
    /\ \A n \in NodeId : /\ nodes[n].self_id = n
                         /\ Len(nodes[n].members) <= MaxMembers
                         /\ Len(nodes[n].updates) <= UpdateQueueSize
    /\ clock \in [NodeId -> Nat]
    /\ net \subseteq Rumour
    /\ accused \subseteq NodeId \X Incarnation
    /\ removed \subseteq NodeId /\ restarted \subseteq NodeId

\* What a node has on its list and in its queue.
Told(s) == {Saying(s.members[i]) : i \in DOMAIN s.members}
           \cup {Saying(s.updates[k]) : k \in DOMAIN s.updates}

\* Everything said about anyone, at any node or on its way.
Said == net \cup UNION {Told(nodes[n]) : n \in NodeId}

\* Nobody is ever said to have an incarnation it has not reached, through however
\* many nodes the update was passed on: a node's own word stays the last, unless
\* its process died and forgot its incarnation.
NoForgedIncarnation ==
    \A u \in Said : u.node_id \notin restarted =>
        u.incarnation <= nodes[u.node_id].self_incarnation

\* No node is held SUSPECT or DEAD at an incarnation at which no host saw it fail,
\* and none is held LEFT that no host removed: expiry, late and repeated updates
\* and readmissions under incarnation 0 never make up a verdict.
VerdictsFounded ==
    \A u \in Said : /\ u.state \in {SUSPECT, DEAD} => <<u.node_id, u.incarnation>> \in accused
                    /\ u.state = LEFT => u.node_id \in removed

\* A node moves past an incarnation only because it was accused at it: stale
\* accusations raise nothing, so incarnations count real suspicions.
RefutationsEarned ==
    \A n \in NodeId : \A k \in 0..(nodes[n].self_incarnation - 1) : <<n, k>> \in accused

\* The answer of a node to an accusation at its current incarnation supersedes all
\* that was ever said about it in the mesh, except that it left: whoever hears the
\* answer takes it back as ALIVE.
RefutationOutruns ==
    [][\A n \in NodeId \ restarted : \A u \in net :
          Accuses(u, n) /\ u.incarnation = nodes[n].self_incarnation /\ Deliver(n, u) =>
             \A v \in Said : v.node_id = n /\ v.state # LEFT =>
                state_supersedes(ALIVE, nodes'[n].self_incarnation,
                                 v.state, v.incarnation)]_meshVars

=============================================================================
