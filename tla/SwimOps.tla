------------------------------ MODULE SwimOps -------------------------------
(***************************************************************************)
(* The operations of src/wake_swim.c as operators on the value of one      *)
(* wake_swim_t.  Every operation is the whole C function: its early        *)
(* returns, its state change and the trailing recount / queue_update /     *)
(* probe invalidation.                                                     *)
(*                                                                         *)
(* Abstractions.  A node id is a model value.  addr and port, which are    *)
(* only copied, and the lifetime counters that no code reads back          *)
(* (state_changes, updates_queued, updates_piggybacked, suspects_expired)  *)
(* are left out.  The PRNG is a free choice: a shuffle may yield any       *)
(* permutation.  An array with its count is a sequence; probe_size = 0 is  *)
(* the empty probe_order.  probe_index keeps C's base: the next entry is   *)
(* probe_order[probe_index + 1].                                           *)
(***************************************************************************)
EXTENDS Integers, Sequences, FiniteSets, FiniteSetsExt, Functions

CONSTANTS
    NodeId,             \* node ids (Ed25519 public keys)
    WireState,          \* state bytes a decoded update may carry
    MaxMembers,         \* config.max_members, after create's defaulting
    UpdateQueueSize,    \* config.update_queue_size, likewise
    SuspicionMult,      \* config.suspicion_mult, likewise
    ProtocolPeriodMs,   \* config.protocol_period_ms, likewise
    SuspectTimeoutMs,   \* config.suspect_timeout_ms, 0 = automatic
    UINT32_MAX,         \* width of incarnations and of the timeout
    HEALTH_MAX,         \* WAKE_SWIM_HEALTH_MAX
    SEL_CAP             \* length of selected[] in wake_swim_get_updates

ALIVE   == 0
SUSPECT == 1
DEAD    == 2
LEFT    == 3

ASSUME WireStateAssumption == {ALIVE, SUSPECT, DEAD, LEFT} \subseteq WireState /\ WireState \subseteq Nat
ASSUME MaxMembersAssumption == MaxMembers \in Nat \ {0}
ASSUME UpdateQueueSizeAssumption == UpdateQueueSize \in Nat \ {0}
ASSUME SuspicionMultAssumption == SuspicionMult \in Nat \ {0}
ASSUME ProtocolPeriodAssumption == ProtocolPeriodMs \in Nat \ {0}
ASSUME SuspectTimeoutAssumption == SuspectTimeoutMs \in 0..UINT32_MAX
ASSUME UINT32Assumption == UINT32_MAX \in Nat \ {0}
ASSUME HealthMaxAssumption == HEALTH_MAX \in Nat
ASSUME SelCapAssumption == SEL_CAP \in Nat \ {0}

Incarnation == 0..UINT32_MAX

Member == [node_id : NodeId, state : WireState, incarnation : Incarnation,
           suspect_ms : Nat, last_change_ms : Nat]

Update == [node_id : NodeId, state : WireState, incarnation : Incarnation,
           piggyback_count : Nat]

\* What a peer tells us: an update before it is queued.
Rumour == [node_id : NodeId, state : WireState, incarnation : Incarnation]

SwimState == [self_id : NodeId, self_incarnation : Incarnation,
              members : Seq(Member), alive_count : Nat,
              probe_order : Seq(Nat), probe_index : Nat,
              updates : Seq(Update), rounds_completed : Nat,
              health_score : 0..HEALTH_MAX]

-----------------------------------------------------------------------------
(* Helpers.                                                                *)

\* floor(log2(n)), 0 for n <= 1: how many powers of two, from 2 on, fit in n.
ilog2(n) == Cardinality({k \in 1..n : 2^k <= n})

Saturate(n) == IF n > UINT32_MAX THEN UINT32_MAX ELSE n

\* The k-th smallest element of K.
Nth(K, k) == CHOOSE i \in K : Cardinality({j \in K : j <= i}) = k

\* The dst/src loops: the entries of q at positions K move down, in order.
Compact(q, K) == [k \in 1..Cardinality(K) |-> q[Nth(K, k)]]

Known(s, id) == \E i \in DOMAIN s.members : s.members[i].node_id = id

find_member(s, id) == Min({i \in DOMAIN s.members : s.members[i].node_id = id})

Eligible(m) == m.state \in {ALIVE, SUSPECT}

EligibleIdx(ms) == {i \in DOMAIN ms : Eligible(ms[i])}

recount_alive(ms) == Cardinality(EligibleIdx(ms))

\* The first entry among those sent most often.
WorstUpdate(q) ==
    Min({i \in DOMAIN q : \A j \in DOMAIN q :
                             q[j].piggyback_count <= q[i].piggyback_count})

\* Mutant: looks for an entry about the same node only when the queue is full.
queue_update_appends(q, m) ==
    LET u == [node_id |-> m.node_id, state |-> m.state,
              incarnation |-> m.incarnation, piggyback_count |-> 0]
    IN  IF Len(q) < UpdateQueueSize THEN Append(q, u)
        ELSE [q EXCEPT ![WorstUpdate(q)] = u]

\* Replace the entry about the same node, else append, else overwrite the
\* entry sent most often.
queue_update(q, m) ==
    LET u == [node_id |-> m.node_id, state |-> m.state,
              incarnation |-> m.incarnation, piggyback_count |-> 0]
        same == {i \in DOMAIN q : q[i].node_id = m.node_id}
    IN  IF same # {} THEN [q EXCEPT ![Min(same)] = u]
        ELSE IF Len(q) < UpdateQueueSize THEN Append(q, u)
        ELSE [q EXCEPT ![WorstUpdate(q)] = u]

\* Every order the Fisher-Yates shuffle can leave.
rebuild_probe_order(s) ==
    LET E == EligibleIdx(s.members)
    IN  {[s EXCEPT !.probe_order = p, !.probe_index = 0] :
            p \in Bijection(1..Cardinality(E), E)}

state_supersedes(new_state, new_inc, old_state, old_inc) ==
    \/ new_state = LEFT
    \/ /\ old_state # LEFT
       /\ \/ new_inc > old_inc
          \/ new_inc = old_inc /\ new_state > old_state

-----------------------------------------------------------------------------
(* Lifecycle and member management.                                        *)

wake_swim_create(self) ==
    [self_id |-> self, self_incarnation |-> 0, members |-> << >>,
     alive_count |-> 0, probe_order |-> << >>, probe_index |-> 0,
     updates |-> << >>, rounds_completed |-> 0, health_score |-> 0]

wake_swim_reset(s) ==
    [wake_swim_create(s.self_id) EXCEPT !.self_incarnation = s.self_incarnation]

\* Mutant: forgets the trailing queue_update.
ChangeMember_unqueued(s, i, m) ==
    LET ms == [s.members EXCEPT ![i] = m]
    IN  [s EXCEPT !.members = ms, !.alive_count = recount_alive(ms),
                  !.probe_order = << >>]

\* The tail every accepted change shares: recount, queue, drop the order.
ChangeMember(s, i, m) ==
    LET ms == [s.members EXCEPT ![i] = m]
    IN  [s EXCEPT !.members = ms, !.alive_count = recount_alive(ms),
                  !.updates = queue_update(@, m), !.probe_order = << >>]

\* Mutant: drops the test for a full member array.
add_result_unbounded(s, id) ==
    CASE id = s.self_id                      -> "SELF"
      [] id # s.self_id /\ Known(s, id)      -> "EXISTS"
      [] OTHER                               -> "OK"

add_result(s, id) ==
    CASE id = s.self_id                      -> "SELF"
      [] id # s.self_id /\ Known(s, id)      -> "EXISTS"
      [] id # s.self_id /\ ~Known(s, id)
           /\ Len(s.members) >= MaxMembers   -> "FULL"
      [] OTHER                               -> "OK"

wake_swim_add_member(s, id, now_ms) ==
    LET m == [node_id |-> id, state |-> ALIVE, incarnation |-> 0,
              suspect_ms |-> 0, last_change_ms |-> now_ms]
    IN  IF add_result(s, id) # "OK" THEN s
        ELSE [s EXCEPT !.members = Append(@, m), !.alive_count = @ + 1,
                       !.updates = queue_update(@, m), !.probe_order = << >>]

wake_swim_remove_member(s, id, now_ms) ==
    LET i == find_member(s, id)
    IN  IF id = s.self_id \/ ~Known(s, id) THEN s
        ELSE ChangeMember(s, i, [s.members[i] EXCEPT
                 !.state = LEFT, !.last_change_ms = now_ms, !.suspect_ms = 0])

-----------------------------------------------------------------------------
(* The incarnation state machine.                                          *)

\* Mutant: compares with > and answers an accusation at our own incarnation
\* without moving past it.
refute_late(s, u) ==
    LET inc == IF u.incarnation > s.self_incarnation
               THEN (u.incarnation + 1) % (UINT32_MAX + 1)
               ELSE s.self_incarnation
    IN  [s EXCEPT !.self_incarnation = inc,
                  !.updates = queue_update(@, [node_id |-> s.self_id,
                                 state |-> ALIVE, incarnation |-> inc])]

\* Mutant: gossips the new incarnation without keeping it.
refute_forgets(s, u) ==
    LET inc == IF u.incarnation >= s.self_incarnation
               THEN (u.incarnation + 1) % (UINT32_MAX + 1)
               ELSE s.self_incarnation
    IN  [s EXCEPT !.updates = queue_update(@, [node_id |-> s.self_id,
                                 state |-> ALIVE, incarnation |-> inc])]

\* Mutant: moves on for every accusation, stale ones too.
refute_always(s, u) ==
    LET inc == IF u.incarnation >= s.self_incarnation
               THEN (u.incarnation + 1) % (UINT32_MAX + 1)
               ELSE (s.self_incarnation + 1) % (UINT32_MAX + 1)
    IN  [s EXCEPT !.self_incarnation = inc,
                  !.updates = queue_update(@, [node_id |-> s.self_id,
                                 state |-> ALIVE, incarnation |-> inc])]

\* An accusation against ourselves is refuted; the addition is uint32_t.
refute(s, u) ==
    LET inc == IF u.incarnation >= s.self_incarnation
               THEN (u.incarnation + 1) % (UINT32_MAX + 1)
               ELSE s.self_incarnation
    IN  [s EXCEPT !.self_incarnation = inc,
                  !.updates = queue_update(@, [node_id |-> s.self_id,
                                 state |-> ALIVE, incarnation |-> inc])]

apply_to_self(s, u) ==
    IF u.state \in {SUSPECT, DEAD} THEN refute(s, u)
    ELSE [s EXCEPT !.self_incarnation = IF u.incarnation > @ THEN u.incarnation ELSE @]

\* A node first heard of as ALIVE is added; its incarnation is set after
\* add_member queued the update.
apply_to_unknown(s, u, now_ms) ==
    LET added == wake_swim_add_member(s, u.node_id, now_ms)
    IN  IF u.state # ALIVE \/ add_result(s, u.node_id) # "OK" THEN s
        ELSE [added EXCEPT !.members[Len(added.members)].incarnation = u.incarnation]

\* Mutant: a suspicion learnt from a peer starts no timer.
apply_to_known_untimed(s, u, now_ms) ==
    LET i == find_member(s, u.node_id)
        m == s.members[i]
    IN  IF ~state_supersedes(u.state, u.incarnation, m.state, m.incarnation) THEN s
        ELSE ChangeMember(s, i,
                 [m EXCEPT !.state = u.state, !.incarnation = u.incarnation,
                           !.last_change_ms = now_ms, !.suspect_ms = 0])

apply_to_known(s, u, now_ms) ==
    LET i == find_member(s, u.node_id)
        m == s.members[i]
    IN  IF ~state_supersedes(u.state, u.incarnation, m.state, m.incarnation) THEN s
        ELSE ChangeMember(s, i,
                 [m EXCEPT !.state = u.state, !.incarnation = u.incarnation,
                           !.last_change_ms = now_ms,
                           !.suspect_ms = IF u.state = SUSPECT THEN now_ms ELSE 0])

wake_swim_apply_update(s, u, now_ms) ==
    IF u.node_id = s.self_id THEN apply_to_self(s, u)
    ELSE IF Known(s, u.node_id) THEN apply_to_known(s, u, now_ms)
    ELSE apply_to_unknown(s, u, now_ms)

\* Mutant: a failed probe suspects a member in any state.
wake_swim_suspect_member_any(s, id, now_ms) ==
    LET i == find_member(s, id)
    IN  IF id = s.self_id \/ ~Known(s, id) THEN s
        ELSE ChangeMember(s, i, [s.members[i] EXCEPT
                 !.state = SUSPECT, !.suspect_ms = now_ms, !.last_change_ms = now_ms])

wake_swim_suspect_member(s, id, now_ms) ==
    LET i == find_member(s, id)
    IN  IF id = s.self_id \/ ~Known(s, id) \/ s.members[i].state # ALIVE THEN s
        ELSE ChangeMember(s, i, [s.members[i] EXCEPT
                 !.state = SUSPECT, !.suspect_ms = now_ms, !.last_change_ms = now_ms])

-----------------------------------------------------------------------------
(* Probing.  next_probe yields the set of [st, target] outcomes; target is *)
(* the index of the member returned, 0 for NULL.                           *)

NULL == 0

\* Entries of the order from probe_index on that still name a live member.
ValidFrom(s) ==
    {j \in DOMAIN s.probe_order : /\ j > s.probe_index
                                  /\ s.probe_order[j] \in EligibleIdx(s.members)}

\* "All entries were stale, rebuild and try once more."
probe_again(s) ==
    {LET t == [r EXCEPT !.rounds_completed = @ + 1]
     IN  IF r.probe_order = << >> THEN [st |-> t, target |-> NULL]
         ELSE [st |-> [t EXCEPT !.probe_index = 1], target |-> r.probe_order[1]]
        : r \in rebuild_probe_order(s)}

\* The while loop over the rest of the order.
scan_probe_order(s) ==
    IF ValidFrom(s) = {}
    THEN probe_again(s)
    ELSE LET j == Min(ValidFrom(s))
         IN  {[st |-> [s EXCEPT !.probe_index = j], target |-> s.probe_order[j]]}

\* The first rebuild counts a round only if it leaves nothing to probe.
count_round(s) ==
    IF s.probe_index >= Len(s.probe_order)
    THEN [s EXCEPT !.rounds_completed = @ + 1] ELSE s

\* Mutant: draws a new order for every probe.
wake_swim_next_probe_reshuffles(s) ==
    IF s.alive_count = 0 THEN {[st |-> s, target |-> NULL]}
    ELSE UNION {IF r.probe_order = << >> THEN {[st |-> r, target |-> NULL]}
                ELSE scan_probe_order(count_round(r))
                   : r \in rebuild_probe_order(s)}

wake_swim_next_probe(s) ==
    IF s.alive_count = 0 THEN {[st |-> s, target |-> NULL]}
    ELSE IF s.probe_order # << >> /\ s.probe_index < Len(s.probe_order)
         THEN scan_probe_order(s)
         ELSE UNION {IF r.probe_order = << >> THEN {[st |-> r, target |-> NULL]}
                     ELSE scan_probe_order(count_round(r))
                        : r \in rebuild_probe_order(s)}

-----------------------------------------------------------------------------
(* Suspicion and reaping.                                                  *)

GroupSize(s) == IF s.alive_count > 2 THEN s.alive_count ELSE 2

wake_swim_suspect_timeout(s) ==
    LET log_n == IF ilog2(GroupSize(s)) = 0 THEN 1 ELSE ilog2(GroupSize(s))
        base  == IF SuspectTimeoutMs # 0 THEN SuspectTimeoutMs
                 ELSE Saturate(SuspicionMult * log_n * ProtocolPeriodMs)
    IN  Saturate(base * (1 + s.health_score))

wake_swim_report_health(s, delta) ==
    [s EXCEPT !.health_score = IF @ + delta < 0 THEN 0
                               ELSE IF @ + delta > HEALTH_MAX THEN HEALTH_MAX
                               ELSE @ + delta]

\* Mutant: > for >=.
Expired_strict(s, now_ms) ==
    {i \in DOMAIN s.members :
        /\ s.members[i].state = SUSPECT
        /\ s.members[i].suspect_ms # 0
        /\ now_ms - s.members[i].suspect_ms > wake_swim_suspect_timeout(s)}

\* Mutant: measures the time since any last change, without asking for SUSPECT.
Expired_any(s, now_ms) ==
    {i \in DOMAIN s.members :
        now_ms - s.members[i].last_change_ms >= wake_swim_suspect_timeout(s)}

Expired(s, now_ms) ==
    {i \in DOMAIN s.members :
        /\ s.members[i].state = SUSPECT
        /\ s.members[i].suspect_ms # 0
        /\ now_ms - s.members[i].suspect_ms >= wake_swim_suspect_timeout(s)}

\* Mutant: leaves the suspicion stamp on the dead member.
Kill_stamped(m, now_ms) == [m EXCEPT !.state = DEAD, !.last_change_ms = now_ms]

Kill(m, now_ms) ==
    [m EXCEPT !.state = DEAD, !.last_change_ms = now_ms, !.suspect_ms = 0]

\* queue_update for the members at the positions X of ms, in index order.
QueueAll(q, ms, X) ==
    LET after[i \in 0..Len(ms)] ==
            IF i = 0 THEN q
            ELSE IF i \in X THEN queue_update(after[i - 1], ms[i])
            ELSE after[i - 1]
    IN  after[Len(ms)]

\* One pass over the members; the timeout is read before the loop.
wake_swim_check_suspects(s, now_ms) ==
    LET X  == Expired(s, now_ms)
        ms == [i \in DOMAIN s.members |->
                  IF i \in X THEN Kill(s.members[i], now_ms) ELSE s.members[i]]
    IN  IF X = {} THEN s
        ELSE [s EXCEPT !.members = ms, !.alive_count = recount_alive(ms),
                       !.updates = QueueAll(@, ms, X), !.probe_order = << >>]

\* Mutant: every member that is not ALIVE counts as terminal.
Reapable_suspects(s, now_ms, retention_ms) ==
    {i \in DOMAIN s.members :
        /\ s.members[i].state # ALIVE
        /\ now_ms - s.members[i].last_change_ms >= retention_ms}

Reapable(s, now_ms, retention_ms) ==
    {i \in DOMAIN s.members :
        /\ s.members[i].state \in {DEAD, LEFT}
        /\ now_ms - s.members[i].last_change_ms >= retention_ms}

\* Mutant: compacts the array under the current probe order.
wake_swim_reap_keeps_order(s, now_ms, retention_ms) ==
    LET R  == Reapable(s, now_ms, retention_ms)
        ms == Compact(s.members, DOMAIN s.members \ R)
    IN  IF R = {} THEN s
        ELSE [s EXCEPT !.members = ms, !.alive_count = recount_alive(ms)]

wake_swim_reap(s, now_ms, retention_ms) ==
    LET R  == Reapable(s, now_ms, retention_ms)
        ms == Compact(s.members, DOMAIN s.members \ R)
    IN  IF R = {} THEN s
        ELSE [s EXCEPT !.members = ms, !.alive_count = recount_alive(ms),
                       !.probe_order = << >>]

-----------------------------------------------------------------------------
(* Dissemination.                                                          *)

\* The positions get_updates copies out: lowest count first, then lowest
\* index, among the first SEL_CAP entries.
Picked(s, max) ==
    LET q == s.updates
        Window == {i \in DOMAIN q : i <= SEL_CAP}
        Before(i) == {j \in Window :
            \/ q[j].piggyback_count < q[i].piggyback_count
            \/ q[j].piggyback_count = q[i].piggyback_count /\ j < i}
    IN  {i \in Window : Cardinality(Before(i)) < max}

PiggybackLimit(s) == Max({3, 3 * ilog2(GroupSize(s))})

wake_swim_get_updates(s, max) ==
    LET P == Picked(s, max)
        q == [i \in DOMAIN s.updates |->
                 IF i \in P THEN [s.updates[i] EXCEPT !.piggyback_count = @ + 1]
                 ELSE s.updates[i]]
        K == {i \in DOMAIN q : q[i].piggyback_count < PiggybackLimit(s)}
    IN  IF max = 0 THEN s ELSE [s EXCEPT !.updates = Compact(q, K)]

=============================================================================
