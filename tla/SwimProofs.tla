----------------------------- MODULE SwimProofs ------------------------------
(***************************************************************************)
(* Proofs about Swim and SwimProbe, for every set of nodes, every          *)
(* configuration and any sequence of calls.                                *)
(***************************************************************************)
EXTENDS SwimProbe, NatFacts, TLAPS, FiniteSetTheorems

(***************************************************************************)
(* Facts about natural numbers and finite sets.                            *)
(***************************************************************************)

\* Min, used for "the first index such that", returns an element.
LEMMA MinIn ==
    ASSUME NEW S \in SUBSET Nat, S # {}
    PROVE  Min(S) \in S
BY LeastNat DEF Min

\* A function on 1..n is a sequence of length n.
LEMMA FcnIsSeq ==
    ASSUME NEW S, NEW n \in Nat, NEW f \in [1..n -> S]
    PROVE  f \in Seq(S) /\ Len(f) = n
OBVIOUS

\* Positions of a sequence form a finite set.
LEMMA FinitePositions ==
    ASSUME NEW n \in Nat, NEW K \in SUBSET (1..n)
    PROVE  IsFiniteSet(K) /\ Cardinality(K) \in Nat /\ Cardinality(K) <= n
<1>1. IsFiniteSet(1..n) /\ Cardinality(1..n) <= n
  BY FS_Interval
<1>2. IsFiniteSet(K) /\ Cardinality(K) <= Cardinality(1..n)
  BY <1>1, FS_Subset
<1>3. Cardinality(K) \in Nat /\ Cardinality(1..n) \in Nat
  BY <1>1, <1>2, FS_CardinalityType
<1> QED BY <1>1, <1>2, <1>3

\* The rank of a kept position: strictly increasing, and every rank from 1 to
\* Cardinality(K) is taken.  It is what makes Compact an order-preserving move.
LEMMA NthRank ==
    ASSUME NEW n \in Nat, NEW K \in SUBSET (1..n)
    PROVE  /\ \A k \in 1..Cardinality(K) : Nth(K, k) \in K
           /\ \A k, l \in 1..Cardinality(K) : Nth(K, k) = Nth(K, l) => k = l
<1> DEFINE upto(i) == {j \in K : j <= i}
           rank == [i \in K |-> Cardinality(upto(i))]
<1>1. ASSUME NEW i \in K
      PROVE  /\ IsFiniteSet(upto(i)) /\ upto(i) \subseteq K
             /\ Cardinality(upto(i)) \in 1..Cardinality(K)
  <2>1. IsFiniteSet(K) /\ Cardinality(K) \in Nat
    BY FinitePositions
  <2>2. upto(i) \in SUBSET K
    OBVIOUS
  <2>3. IsFiniteSet(upto(i)) /\ Cardinality(upto(i)) <= Cardinality(K)
    BY <2>1, <2>2, FS_Subset
  <2>4. i \in upto(i)
    OBVIOUS
  <2>5. Cardinality(upto(i)) \in Nat /\ Cardinality(upto(i)) # 0
    BY <2>3, <2>4, FS_CardinalityType, FS_EmptySet
  <2> QED BY <2>1, <2>2, <2>3, <2>5
<1>2. ASSUME NEW i \in K, NEW j \in K, i < j
      PROVE  Cardinality(upto(i)) # Cardinality(upto(j))
  <2>1. upto(i) \in SUBSET upto(j)
    <3>1. \A x \in K : x <= i => x <= j
      BY <1>2
    <3> QED BY <3>1
  <2>2. j \in upto(j) /\ j \notin upto(i)
    BY <1>2
  <2> QED BY <2>1, <2>2, <1>1, FS_Subset
<1>3. rank \in Injection(K, 1..Cardinality(K))
  <2>1. rank \in [K -> 1..Cardinality(K)]
    BY <1>1
  <2>2. ASSUME NEW i \in K, NEW j \in K, rank[i] = rank[j] PROVE i = j
    <3>1. i < j \/ j < i \/ i = j
      OBVIOUS
    <3> QED BY <3>1, <2>2, <1>2
  <2> QED BY <2>1, <2>2 DEF Injection, IsInjective
<1>4. rank \in Surjection(K, 1..Cardinality(K))
  <2>1. IsFiniteSet(K) /\ Cardinality(K) \in Nat
    BY FinitePositions
  <2>2. IsFiniteSet(1..Cardinality(K)) /\ Cardinality(1..Cardinality(K)) = Cardinality(K)
    BY <2>1, FS_Interval
  <2> QED BY <1>3, <2>2, FS_Injection
<1>5. ASSUME NEW k \in 1..Cardinality(K)
      PROVE  Nth(K, k) \in K /\ Cardinality(upto(Nth(K, k))) = k
  <2>1. \E i \in K : Cardinality(upto(i)) = k
    BY <1>4 DEF Surjection
  <2> QED BY <2>1 DEF Nth
<1> QED BY <1>5

\* Compact keeps a subsequence: the entries at the kept positions, each once.
LEMMA CompactKeeps ==
    ASSUME NEW S, NEW q \in Seq(S), NEW K \in SUBSET (DOMAIN q)
    PROVE  /\ Compact(q, K) \in Seq(S)
           /\ Len(Compact(q, K)) <= Len(q)
           /\ DOMAIN Compact(q, K) = 1..Cardinality(K)
           /\ \A k \in 1..Cardinality(K) : /\ Nth(K, k) \in K
                                          /\ Compact(q, K)[k] = q[Nth(K, k)]
           /\ \A k, l \in 1..Cardinality(K) : Nth(K, k) = Nth(K, l) => k = l
<1>1. Len(q) \in Nat /\ K \in SUBSET (1..Len(q)) /\ DOMAIN q = 1..Len(q)
  OBVIOUS
<1>2. Cardinality(K) \in Nat /\ Cardinality(K) <= Len(q)
  BY <1>1, FinitePositions
<1>3. \A k \in 1..Cardinality(K) : Nth(K, k) \in K
  BY <1>1, NthRank
<1>4. \A k \in 1..Cardinality(K) : q[Nth(K, k)] \in S
  BY <1>1, <1>3
<1>5. Compact(q, K) \in Seq(S) /\ Len(Compact(q, K)) = Cardinality(K)
  BY <1>2, <1>4 DEF Compact
<1>6. \A k, l \in 1..Cardinality(K) : Nth(K, k) = Nth(K, l) => k = l
  BY <1>1, NthRank
<1> QED BY <1>2, <1>3, <1>5, <1>6 DEF Compact

\* Compacting a list without duplicate nodes (wake_swim_reap, get_updates)
\* introduces none.
LEMMA CompactDistinct ==
    ASSUME NEW S, NEW q \in Seq(S), NEW K \in SUBSET (DOMAIN q), DistinctIds(q)
    PROVE  DistinctIds(Compact(q, K))
<1> DEFINE c == Compact(q, K)
           n == Cardinality(K)
<1>1. /\ DOMAIN c = 1..n
      /\ \A k \in 1..n : Nth(K, k) \in DOMAIN q /\ c[k] = q[Nth(K, k)]
      /\ \A k, l \in 1..n : Nth(K, k) = Nth(K, l) => k = l
  BY CompactKeeps
<1> HIDE DEF c, n
<1> QED BY <1>1 DEF DistinctIds, c

-----------------------------------------------------------------------------
(* The dissemination queue.                                                *)

QueueOK(q) == /\ q \in Seq(Update)
              /\ Len(q) <= UpdateQueueSize
              /\ DistinctIds(q)

\* Overwriting one entry: nobody else may be about the node it names.
LEMMA ReplaceOK ==
    ASSUME NEW q \in Seq(Update), Len(q) <= UpdateQueueSize, DistinctIds(q),
           NEW k \in DOMAIN q, NEW u \in Update,
           \A i \in DOMAIN q : i # k => q[i].node_id # u.node_id
    PROVE  QueueOK([q EXCEPT ![k] = u])
<1> DEFINE r == [q EXCEPT ![k] = u]
<1>1. r \in Seq(Update) /\ Len(r) = Len(q) /\ DOMAIN r = DOMAIN q
  OBVIOUS
<1>2. \A i \in DOMAIN q : r[i] = IF i = k THEN u ELSE q[i]
  OBVIOUS
<1> HIDE DEF r
<1>3. DistinctIds(r)
  BY <1>1, <1>2 DEF DistinctIds
<1> QED BY <1>1, <1>3 DEF QueueOK, r

\* queue_update keeps the queue typed, within its allocation and free of
\* two entries about one node, also when it evicts.
LEMMA QueueUpdateOK ==
    ASSUME NEW q, QueueOK(q), NEW m, m.node_id \in NodeId,
           m.state \in WireState, m.incarnation \in Incarnation
    PROVE  QueueOK(queue_update(q, m))
<1> DEFINE u == [node_id |-> m.node_id, state |-> m.state,
                 incarnation |-> m.incarnation, piggyback_count |-> 0]
           same == {i \in DOMAIN q : q[i].node_id = m.node_id}
<1>1. u \in Update /\ u.node_id = m.node_id
  BY DEF Update
<1>2. q \in Seq(Update) /\ Len(q) \in Nat /\ Len(q) <= UpdateQueueSize
      /\ DOMAIN q = 1..Len(q) /\ DistinctIds(q)
  BY DEF QueueOK
<1> HIDE DEF u
<1>3. CASE same # {}
  <2>1. Min(same) \in same
    <3>1. same \in SUBSET Nat
      BY <1>2
    <3> HIDE DEF same
    <3> QED BY <3>1, <1>3, MinIn
  <2>2. queue_update(q, m) = [q EXCEPT ![Min(same)] = u]
    BY <1>3 DEF queue_update, u
  <2> DEFINE k == Min(same)
  <2>3. k \in DOMAIN q /\ q[k].node_id = m.node_id
    BY <2>1
  <2> HIDE DEF k, same
  <2>4. \A i \in DOMAIN q : i # k => q[i].node_id # u.node_id
    BY <1>1, <1>2, <2>3 DEF DistinctIds
  <2> QED BY <1>1, <1>2, <2>2, <2>3, <2>4, ReplaceOK DEF k
<1>4. CASE same = {} /\ Len(q) < UpdateQueueSize
  <2>1. queue_update(q, m) = Append(q, u)
    BY <1>4 DEF queue_update, u
  <2> QED BY <1>1, <1>2, <1>4, <2>1, UpdateQueueSizeAssumption DEF QueueOK, DistinctIds
<1>5. CASE same = {} /\ ~(Len(q) < UpdateQueueSize)
  <2>1. queue_update(q, m) = [q EXCEPT ![WorstUpdate(q)] = u]
    BY <1>5 DEF queue_update, u
  <2> HIDE DEF same
  <2>2. \A i \in DOMAIN q : q[i].node_id # m.node_id
    BY <1>5 DEF same
  <2> DEFINE k == WorstUpdate(q)
  <2> HIDE DEF k
  <2>3. CASE k \in DOMAIN q
    BY <1>1, <1>2, <2>1, <2>2, <2>3, ReplaceOK DEF k
  <2>4. CASE k \notin DOMAIN q
    <3>1. q = [i \in DOMAIN q |-> q[i]]
      BY <1>2
    <3>2. [q EXCEPT ![k] = u] = q
      BY <3>1, <2>4
    <3> QED BY <2>1, <3>2 DEF k
  <2> QED BY <2>3, <2>4
<1> QED BY <1>3, <1>4, <1>5

\* The loop of check_suspects queues its expired members one after another: if
\* the queue is in Q[0] before the loop and step i takes Q[i - 1] to Q[i], it is
\* in Q[Len(ms)] after it.
LEMMA QueueAllInduction ==
    ASSUME NEW q, NEW ms, NEW X, NEW Q, Len(ms) \in Nat, q \in Q[0],
           \A i \in 1..Len(ms) : \A p \in Q[i - 1] :
              (IF i \in X THEN queue_update(p, ms[i]) ELSE p) \in Q[i]
    PROVE  QueueAll(q, ms, X) \in Q[Len(ms)]
<1> DEFINE n == Len(ms)
           U == UNION {Q[i] : i \in 0..n}
           Step(i, p) == IF i \in X THEN queue_update(p, ms[i]) ELSE p
           Run(f, k) == \A i \in 0..k : /\ f[i] \in Q[i]
                                        /\ f[i] = IF i = 0 THEN q ELSE Step(i, f[i - 1])
           after[i \in 0..n] ==
               IF i = 0 THEN q
               ELSE IF i \in X THEN queue_update(after[i - 1], ms[i])
               ELSE after[i - 1]
<1>1. n \in Nat /\ q \in Q[0]
  OBVIOUS
<1>2. ASSUME NEW i \in 1..n, NEW p \in Q[i - 1] PROVE Step(i, p) \in Q[i]
  OBVIOUS
<1> HIDE DEF Step
<1>3. \E f \in [0..n -> U] : Run(f, n)
  <2> DEFINE S == {k \in Nat : k <= n => \E f \in [0..k -> U] : Run(f, k)}
  <2>1. 0 \in S
    <3> DEFINE g == [i \in 0..0 |-> q]
    <3>1. g \in [0..0 -> U] /\ Run(g, 0)
      BY <1>1
    <3> QED BY <3>1
  <2>2. ASSUME NEW k \in Nat, k \in S PROVE k + 1 \in S
    <3> SUFFICES ASSUME k + 1 <= n PROVE \E f \in [0..(k + 1) -> U] : Run(f, k + 1)
      OBVIOUS
    <3>1. PICK f \in [0..k -> U] : Run(f, k)
      <4>1. k <= n
        BY <1>1
      <4> HIDE DEF Run, U
      <4> QED BY <2>2, <4>1
    <3> DEFINE v == Step(k + 1, f[k])
               g == [i \in 0..(k + 1) |-> IF i <= k THEN f[i] ELSE v]
    <3>2. f[k] \in Q[k] /\ k + 1 \in 1..n /\ (k + 1) - 1 = k
      BY <3>1, <1>1
    <3>3. v \in Q[k + 1]
      <4>1. f[k] \in Q[(k + 1) - 1]
        BY <3>2
      <4> QED BY <4>1, <3>2, <1>2
    <3> HIDE DEF v
    <3>4. v \in U
      BY <3>2, <3>3
    <3> HIDE DEF U
    <3>5. g \in [0..(k + 1) -> U]
      BY <3>4
    <3>6. Run(g, k + 1)
      <4> SUFFICES ASSUME NEW i \in 0..(k + 1)
                   PROVE  g[i] \in Q[i] /\ g[i] = IF i = 0 THEN q ELSE Step(i, g[i - 1])
        OBVIOUS
      <4>1. CASE i <= k
        BY <3>1, <4>1
      <4>2. CASE i = k + 1
        BY <4>2, <3>3 DEF v
      <4> QED BY <4>1, <4>2
    <3> QED BY <3>5, <3>6
  <2>3. Nat \subseteq S
    <3> HIDE DEF S
    <3> QED BY <2>1, <2>2, NatSetInduction
  <2> HIDE DEF Run, U
  <2>4. n \in S /\ n <= n
    <3> HIDE DEF S
    <3> QED BY <2>3, <1>1
  <2> QED BY <2>4
<1>4. PICK f \in [0..n -> U] : Run(f, n)
  BY <1>3
<1> HIDE DEF U
<1>5. f = [i \in 0..n |-> IF i = 0 THEN q
                          ELSE IF i \in X THEN queue_update(f[i - 1], ms[i])
                          ELSE f[i - 1]]
  BY <1>4 DEF Step
<1>6. after = [i \in 0..n |-> IF i = 0 THEN q
                              ELSE IF i \in X THEN queue_update(after[i - 1], ms[i])
                              ELSE after[i - 1]]
  BY <1>5
<1> HIDE DEF after
<1>7. after[n] \in Q[n]
  <2> DEFINE S == {k \in Nat : k <= n => after[k] \in Q[k]}
  <2>1. 0 \in S
    BY <1>1, <1>6
  <2>2. ASSUME NEW k \in Nat, k \in S PROVE k + 1 \in S
    <3> SUFFICES ASSUME k + 1 <= n PROVE after[k + 1] \in Q[k + 1]
      OBVIOUS
    <3>1. after[k] \in Q[k] /\ k + 1 \in 1..n /\ (k + 1) - 1 = k
      BY <2>2, <1>1
    <3>2. after[k + 1] = Step(k + 1, after[k])
      BY <1>1, <1>6 DEF Step
    <3>3. after[k] \in Q[(k + 1) - 1]
      BY <3>1
    <3> QED BY <3>1, <3>2, <3>3, <1>2
  <2>3. Nat \subseteq S
    <3> HIDE DEF S
    <3> QED BY <2>1, <2>2, NatSetInduction
  <2> QED BY <2>3, <1>1
<1>8. QueueAll(q, ms, X) = after[n]
  BY DEF QueueAll, after
<1> QED BY <1>7, <1>8

\* The queue stays well formed throughout the loop.
LEMMA QueueAllOK ==
    ASSUME NEW q, QueueOK(q), NEW ms \in Seq(Member), NEW X
    PROVE  QueueOK(QueueAll(q, ms, X))
<1> DEFINE QS == {p \in Seq(Update) : QueueOK(p)}
           Q  == [i \in 0..Len(ms) |-> QS]
<1>1. Len(ms) \in Nat /\ q \in QS
  BY DEF QueueOK
<1>2. ASSUME NEW i \in 1..Len(ms), NEW p \in QS
      PROVE  (IF i \in X THEN queue_update(p, ms[i]) ELSE p) \in QS
  <2>1. ms[i] \in Member
    BY <1>1
  <2>2. ms[i].node_id \in NodeId /\ ms[i].state \in WireState /\ ms[i].incarnation \in Incarnation
    BY <2>1 DEF Member
  <2>3. QueueOK(queue_update(p, ms[i]))
    BY <2>2, QueueUpdateOK
  <2>4. queue_update(p, ms[i]) \in QS
    BY <2>3 DEF QueueOK
  <2> QED BY <2>4
<1> HIDE DEF QS
<1>3. \A i \in 0..Len(ms) : Q[i] = QS
  OBVIOUS
<1> HIDE DEF Q
<1>4. q \in Q[0]
  BY <1>1, <1>3
<1>5. \A i \in 1..Len(ms) : \A p \in Q[i - 1] :
        (IF i \in X THEN queue_update(p, ms[i]) ELSE p) \in Q[i]
  <2>1. \A i \in 1..Len(ms) : i - 1 \in 0..Len(ms) /\ i \in 0..Len(ms)
    BY <1>1
  <2> QED BY <2>1, <1>2, <1>3
<1>6. QueueAll(q, ms, X) \in Q[Len(ms)]
  BY <1>1, <1>4, <1>5, QueueAllInduction
<1> QED BY <1>1, <1>3, <1>6 DEF QS

-----------------------------------------------------------------------------
(* The instance.  WellFormed is the inductive invariant: the properties    *)
(* need each other, since an exact alive_count and a fresh probe order are *)
(* kept only by operations that find each member once, and the queue's     *)
(* uniqueness is what makes its in-place replacement replace everything.   *)

ListOK(ms, me) == /\ ms \in Seq(Member)
              /\ Len(ms) <= MaxMembers
              /\ DistinctIds(ms)
              /\ \A i \in DOMAIN ms : ms[i].node_id # me

OrderOK(s) ==
    s.probe_order # << >> =>
        /\ s.probe_index <= Len(s.probe_order)
        /\ s.probe_order \in Bijection(1..Len(s.probe_order), EligibleIdx(s.members))

WellFormed(s, me) ==
    /\ s \in SwimState
    /\ s.self_id = me
    /\ ListOK(s.members, me)
    /\ QueueOK(s.updates)
    /\ s.alive_count = recount_alive(s.members)
    /\ OrderOK(s)

\* recount_alive counts a finite set.
LEMMA RecountNat ==
    ASSUME NEW ms \in Seq(Member)
    PROVE  recount_alive(ms) \in Nat
<1>1. Len(ms) \in Nat /\ EligibleIdx(ms) \in SUBSET (1..Len(ms))
  BY DEF EligibleIdx
<1> QED BY <1>1, FinitePositions DEF recount_alive

\* Any operation that recounts and drops the probe order keeps WellFormed,
\* as long as it keeps the list and the queue in order.
LEMMA RecountAndDrop ==
    ASSUME NEW me \in NodeId, NEW s, WellFormed(s, me),
           NEW ms, ListOK(ms, me), NEW q, QueueOK(q),
           NEW t, t = [s EXCEPT !.members = ms, !.alive_count = recount_alive(ms),
                                !.updates = q, !.probe_order = << >>]
    PROVE  WellFormed(t, me)
<1>1. ms \in Seq(Member) /\ q \in Seq(Update)
  BY DEF ListOK, QueueOK
<1>2. recount_alive(ms) \in Nat
  BY <1>1, RecountNat
<1>3. << >> \in Seq(Nat)
  OBVIOUS
<1>4. s \in SwimState
  BY DEF WellFormed
<1>5. t \in SwimState
  BY <1>1, <1>2, <1>3, <1>4 DEF SwimState
<1>6. /\ t.members = ms /\ t.updates = q /\ t.alive_count = recount_alive(ms)
      /\ t.probe_order = << >> /\ t.self_id = s.self_id
  BY <1>4 DEF SwimState
<1> QED BY <1>5, <1>6 DEF WellFormed, OrderOK

\* The entry find_member returns for a known node.
LEMMA FindMember ==
    ASSUME NEW me \in NodeId, NEW s, WellFormed(s, me), NEW id, Known(s, id)
    PROVE  /\ find_member(s, id) \in DOMAIN s.members
           /\ s.members[find_member(s, id)].node_id = id
           /\ s.members[find_member(s, id)] \in Member
<1> DEFINE S == {i \in DOMAIN s.members : s.members[i].node_id = id}
<1>1. s.members \in Seq(Member)
  BY DEF WellFormed, ListOK
<1>2. S # {} /\ S \in SUBSET Nat
  BY <1>1 DEF Known
<1>3. Min(S) \in S
  <2> HIDE DEF S
  <2> QED BY <1>2, MinIn
<1>4. find_member(s, id) = Min(S)
  BY DEF find_member
<1>5. find_member(s, id) \in S
  BY <1>3, <1>4
<1> HIDE DEF find_member
<1>6. /\ find_member(s, id) \in DOMAIN s.members
      /\ s.members[find_member(s, id)].node_id = id
  BY <1>5
<1> QED BY <1>1, <1>6

\* Overwriting one member's state under its own id.
LEMMA ChangeMemberOK ==
    ASSUME NEW me \in NodeId, NEW s, WellFormed(s, me), NEW i \in DOMAIN s.members,
           NEW m \in Member, m.node_id = s.members[i].node_id
    PROVE  WellFormed(ChangeMember(s, i, m), me)
<1> DEFINE ms == [s.members EXCEPT ![i] = m]
<1>1. ListOK(s.members, me) /\ QueueOK(s.updates) /\ s \in SwimState
  BY DEF WellFormed
<1>2. ListOK(ms, me)
  <2>1. s.members \in Seq(Member) /\ ms \in Seq(Member) /\ Len(ms) = Len(s.members)
        /\ DOMAIN ms = DOMAIN s.members
    BY <1>1 DEF ListOK
  <2>2. \A j \in DOMAIN s.members : ms[j].node_id = s.members[j].node_id
    BY <2>1
  <2> HIDE DEF ms
  <2> QED BY <1>1, <2>1, <2>2 DEF ListOK, DistinctIds
<1>3. QueueOK(queue_update(s.updates, m))
  <2>1. m.node_id \in NodeId /\ m.state \in WireState /\ m.incarnation \in Incarnation
    BY DEF Member
  <2> QED BY <1>1, <2>1, QueueUpdateOK
<1>4. ChangeMember(s, i, m) = [s EXCEPT !.members = ms, !.alive_count = recount_alive(ms),
                !.updates = queue_update(s.updates, m), !.probe_order = << >>]
  BY <1>1 DEF ChangeMember, SwimState
<1> HIDE DEF ms
<1> QED BY <1>2, <1>3, <1>4, RecountAndDrop

\* wake_swim_add_member appends only an unknown node, and only below
\* max_members; alive_count + 1 is then the recount.
LEMMA AddMemberOK ==
    ASSUME NEW me \in NodeId, NEW s, WellFormed(s, me), NEW id \in NodeId, NEW t \in Nat
    PROVE  WellFormed(wake_swim_add_member(s, id, t), me)
<1> DEFINE m == [node_id |-> id, state |-> ALIVE, incarnation |-> 0,
                 suspect_ms |-> 0, last_change_ms |-> t]
           ms == Append(s.members, m)
<1>1. CASE add_result(s, id) # "OK"
  BY <1>1 DEF wake_swim_add_member
<1>2. CASE add_result(s, id) = "OK"
  <2>1. id # s.self_id /\ ~Known(s, id) /\ ~(Len(s.members) >= MaxMembers)
    BY <1>2 DEF add_result
  <2>2. m \in Member
    BY WireStateAssumption, UINT32Assumption DEF Member, Incarnation
  <2>3. ListOK(s.members, me) /\ QueueOK(s.updates) /\ s \in SwimState /\ s.self_id = me
        /\ s.alive_count = recount_alive(s.members)
    BY DEF WellFormed
  <2>4. s.members \in Seq(Member) /\ Len(s.members) \in Nat /\ DOMAIN s.members = 1..Len(s.members)
    BY <2>3 DEF ListOK
  <2>5. /\ ms \in Seq(Member) /\ Len(ms) = Len(s.members) + 1
        /\ DOMAIN ms = 1..(Len(s.members) + 1)
        /\ \A i \in DOMAIN s.members : ms[i] = s.members[i]
        /\ ms[Len(s.members) + 1] = m
    BY <2>2, <2>4
  <2>6. m.node_id = id /\ Eligible(m)
    BY DEF Eligible
  <2> HIDE DEF ms, m
  <2>7. ListOK(ms, me)
    <3>1. \A i \in DOMAIN s.members : ms[i].node_id # id
      BY <2>1, <2>5 DEF Known
    <3>2. Len(ms) <= MaxMembers
      BY <2>1, <2>4, <2>5, MaxMembersAssumption
    <3>3. DistinctIds(ms)
      <4>1. DOMAIN ms = DOMAIN s.members \cup {Len(s.members) + 1}
        BY <2>4, <2>5
      <4>2. DistinctIds(s.members)
        BY <2>3 DEF ListOK
      <4> QED BY <4>1, <4>2, <2>5, <2>6, <3>1 DEF DistinctIds
    <3>4. \A i \in DOMAIN ms : ms[i].node_id # me
      BY <2>1, <2>3, <2>4, <2>5, <2>6 DEF ListOK
    <3> QED BY <2>5, <3>2, <3>3, <3>4 DEF ListOK
  <2>8. QueueOK(queue_update(s.updates, m))
    <3>1. m.node_id \in NodeId /\ m.state \in WireState /\ m.incarnation \in Incarnation
      BY <2>2 DEF Member
    <3> QED BY <2>3, <3>1, QueueUpdateOK
  <2>9. recount_alive(ms) = s.alive_count + 1
    <3>1. EligibleIdx(ms) = EligibleIdx(s.members) \cup {Len(s.members) + 1}
      BY <2>4, <2>5, <2>6 DEF EligibleIdx
    <3>2. EligibleIdx(s.members) \in SUBSET (1..Len(s.members))
      BY <2>4 DEF EligibleIdx
    <3>3. IsFiniteSet(EligibleIdx(s.members)) /\ Len(s.members) + 1 \notin EligibleIdx(s.members)
      BY <2>4, <3>2, FinitePositions
    <3>4. Cardinality(EligibleIdx(ms)) = Cardinality(EligibleIdx(s.members)) + 1
      BY <3>1, <3>3, FS_AddElement
    <3> QED BY <2>3, <3>4 DEF recount_alive
  <2>10. wake_swim_add_member(s, id, t) =
            [s EXCEPT !.members = ms, !.alive_count = recount_alive(ms),
                      !.updates = queue_update(s.updates, m), !.probe_order = << >>]
    BY <1>2, <2>3, <2>9 DEF wake_swim_add_member, SwimState, ms, m
  <2> QED BY <2>7, <2>8, <2>10, RecountAndDrop
<1> QED BY <1>1, <1>2

\* wake_swim_remove_member keeps the instance well formed.
LEMMA RemoveMemberOK ==
    ASSUME NEW me \in NodeId, NEW s, WellFormed(s, me), NEW id \in NodeId, NEW t \in Nat
    PROVE  WellFormed(wake_swim_remove_member(s, id, t), me)
<1> DEFINE i == find_member(s, id)
           m == [s.members[i] EXCEPT !.state = LEFT, !.last_change_ms = t, !.suspect_ms = 0]
<1>1. CASE id = s.self_id \/ ~Known(s, id)
  BY <1>1 DEF wake_swim_remove_member
<1>2. CASE ~(id = s.self_id \/ ~Known(s, id))
  <2>1. i \in DOMAIN s.members /\ s.members[i] \in Member
    BY <1>2, FindMember
  <2>2. m \in Member /\ m.node_id = s.members[i].node_id
    BY <2>1, WireStateAssumption DEF Member
  <2>3. wake_swim_remove_member(s, id, t) = ChangeMember(s, i, m)
    BY <1>2 DEF wake_swim_remove_member
  <2> HIDE DEF i, m
  <2> QED BY <2>1, <2>2, <2>3, ChangeMemberOK
<1> QED BY <1>1, <1>2

\* wake_swim_suspect_member keeps the instance well formed.
LEMMA SuspectMemberOK ==
    ASSUME NEW me \in NodeId, NEW s, WellFormed(s, me), NEW id \in NodeId, NEW t \in Nat
    PROVE  WellFormed(wake_swim_suspect_member(s, id, t), me)
<1> DEFINE i == find_member(s, id)
           m == [s.members[i] EXCEPT !.state = SUSPECT, !.suspect_ms = t, !.last_change_ms = t]
<1>1. CASE id = s.self_id \/ ~Known(s, id) \/ s.members[i].state # ALIVE
  BY <1>1 DEF wake_swim_suspect_member
<1>2. CASE ~(id = s.self_id \/ ~Known(s, id) \/ s.members[i].state # ALIVE)
  <2>1. i \in DOMAIN s.members /\ s.members[i] \in Member
    BY <1>2, FindMember
  <2>2. m \in Member /\ m.node_id = s.members[i].node_id
    BY <2>1, WireStateAssumption DEF Member
  <2>3. wake_swim_suspect_member(s, id, t) = ChangeMember(s, i, m)
    BY <1>2 DEF wake_swim_suspect_member
  <2> HIDE DEF i, m
  <2> QED BY <2>1, <2>2, <2>3, ChangeMemberOK
<1> QED BY <1>1, <1>2

\* An update about this node touches self_incarnation and the queue only.
LEMMA ApplyToSelfOK ==
    ASSUME NEW me \in NodeId, NEW s, WellFormed(s, me), NEW u \in Rumour
    PROVE  WellFormed(apply_to_self(s, u), me)
<1>1. /\ s \in SwimState /\ s.self_id = me /\ ListOK(s.members, me) /\ QueueOK(s.updates)
      /\ s.alive_count = recount_alive(s.members) /\ OrderOK(s)
  BY DEF WellFormed
<1>2. u.incarnation \in Incarnation /\ s.self_incarnation \in Incarnation
  BY <1>1 DEF Rumour, SwimState
<1>3. CASE u.state \in {SUSPECT, DEAD}
  <2> DEFINE inc == IF u.incarnation >= s.self_incarnation
                    THEN (u.incarnation + 1) % (UINT32_MAX + 1)
                    ELSE s.self_incarnation
             own == [node_id |-> s.self_id, state |-> ALIVE, incarnation |-> inc]
  <2>1. inc \in Incarnation
    BY <1>2, UINT32Assumption DEF Incarnation
  <2>2. apply_to_self(s, u) = [s EXCEPT !.self_incarnation = inc,
                                        !.updates = queue_update(s.updates, own)]
    BY <1>1, <1>3 DEF apply_to_self, refute, SwimState
  <2> HIDE DEF inc
  <2>3. own.node_id \in NodeId /\ own.state \in WireState /\ own.incarnation \in Incarnation
    BY <1>1, <2>1, WireStateAssumption
  <2> HIDE DEF own
  <2>4. QueueOK(queue_update(s.updates, own))
    BY <1>1, <2>3, QueueUpdateOK
  <2> DEFINE t == [s EXCEPT !.self_incarnation = inc, !.updates = queue_update(s.updates, own)]
  <2>5. /\ t \in SwimState /\ t.self_id = s.self_id /\ t.members = s.members
        /\ t.updates = queue_update(s.updates, own) /\ t.alive_count = s.alive_count
        /\ t.probe_order = s.probe_order /\ t.probe_index = s.probe_index
    BY <1>1, <2>1, <2>4 DEF SwimState, QueueOK
  <2> HIDE DEF t
  <2> QED BY <1>1, <2>2, <2>4, <2>5 DEF WellFormed, OrderOK, t
<1>4. CASE u.state \notin {SUSPECT, DEAD}
  <2> DEFINE t == [s EXCEPT !.self_incarnation = IF u.incarnation > @ THEN u.incarnation ELSE @]
  <2>1. /\ t \in SwimState /\ t.self_id = s.self_id /\ t.members = s.members
        /\ t.updates = s.updates /\ t.alive_count = s.alive_count
        /\ t.probe_order = s.probe_order /\ t.probe_index = s.probe_index
    BY <1>1, <1>2 DEF SwimState
  <2>2. apply_to_self(s, u) = t
    BY <1>4 DEF apply_to_self
  <2> HIDE DEF t
  <2> QED BY <1>1, <2>1, <2>2 DEF WellFormed, OrderOK
<1> QED BY <1>3, <1>4

\* Writing the incarnation into the member add_member has just appended.
LEMMA ApplyToUnknownOK ==
    ASSUME NEW me \in NodeId, NEW s, WellFormed(s, me), NEW u \in Rumour, NEW t \in Nat
    PROVE  WellFormed(apply_to_unknown(s, u, t), me)
<1> DEFINE a == wake_swim_add_member(s, u.node_id, t)
           n == Len(a.members)
           r == [a EXCEPT !.members[n].incarnation = u.incarnation]
<1>1. CASE u.state # ALIVE \/ add_result(s, u.node_id) # "OK"
  BY <1>1 DEF apply_to_unknown
<1>2. CASE ~(u.state # ALIVE \/ add_result(s, u.node_id) # "OK")
  <2>1. u.node_id \in NodeId /\ u.incarnation \in Incarnation
    BY DEF Rumour
  <2>2. WellFormed(a, me)
    BY <2>1, AddMemberOK
  <2>3. apply_to_unknown(s, u, t) = r
    BY <1>2 DEF apply_to_unknown
  <2>4. a.members # << >>
    <3>1. s \in SwimState
      BY DEF WellFormed
    <3> DEFINE m == [node_id |-> u.node_id, state |-> ALIVE, incarnation |-> 0,
                     suspect_ms |-> 0, last_change_ms |-> t]
    <3>2. a.members = Append(s.members, m)
      BY <1>2, <3>1 DEF wake_swim_add_member, SwimState
    <3> HIDE DEF m, a
    <3>3. Len(Append(s.members, m)) = Len(s.members) + 1 /\ Len(s.members) \in Nat
      BY <3>1 DEF SwimState
    <3>4. Append(s.members, m) # << >>
      BY <3>3
    <3> QED BY <3>2, <3>4
  <2> HIDE DEF a
  <2>5. /\ a \in SwimState /\ a.self_id = me /\ ListOK(a.members, me) /\ QueueOK(a.updates)
        /\ a.alive_count = recount_alive(a.members) /\ OrderOK(a)
    BY <2>2 DEF WellFormed
  <2>6. a.members \in Seq(Member) /\ n \in DOMAIN a.members /\ a.members[n] \in Member
    BY <2>4, <2>5 DEF ListOK
  <2> DEFINE m == [a.members[n] EXCEPT !.incarnation = u.incarnation]
             ms == [a.members EXCEPT ![n] = m]
  <2>7. m \in Member /\ m.node_id = a.members[n].node_id /\ m.state = a.members[n].state
    BY <2>1, <2>6 DEF Member
  <2>8. r = [a EXCEPT !.members = ms]
    BY <2>5 DEF SwimState
  <2> HIDE DEF n, m
  <2>9. /\ ms \in Seq(Member) /\ Len(ms) = Len(a.members) /\ DOMAIN ms = DOMAIN a.members
        /\ \A i \in DOMAIN ms : /\ ms[i].node_id = a.members[i].node_id
                                /\ ms[i].state = a.members[i].state
    BY <2>6, <2>7
  <2> HIDE DEF ms
  <2>10. ListOK(ms, me)
    BY <2>5, <2>9 DEF ListOK, DistinctIds
  <2>11. EligibleIdx(ms) = EligibleIdx(a.members)
    BY <2>9 DEF EligibleIdx, Eligible
  <2>12. r \in SwimState
    BY <2>5, <2>8, <2>9 DEF SwimState
  <2>13. /\ r.members = ms /\ r.updates = a.updates /\ r.alive_count = a.alive_count
         /\ r.probe_order = a.probe_order /\ r.probe_index = a.probe_index /\ r.self_id = a.self_id
    BY <2>5, <2>8 DEF SwimState
  <2> HIDE DEF r
  <2> QED BY <2>3, <2>5, <2>10, <2>11, <2>12, <2>13 DEF WellFormed, OrderOK, recount_alive
<1> QED BY <1>1, <1>2

\* An accepted update about a member keeps the instance well formed.
LEMMA ApplyToKnownOK ==
    ASSUME NEW me \in NodeId, NEW s, WellFormed(s, me),
           NEW u \in Rumour, NEW t \in Nat, Known(s, u.node_id)
    PROVE  WellFormed(apply_to_known(s, u, t), me)
<1> DEFINE i == find_member(s, u.node_id)
           old == s.members[i]
           stamp == IF u.state = SUSPECT THEN t ELSE 0
           m == [old EXCEPT !.state = u.state, !.incarnation = u.incarnation,
                            !.last_change_ms = t, !.suspect_ms = stamp]
<1>1. CASE ~state_supersedes(u.state, u.incarnation, old.state, old.incarnation)
  BY <1>1 DEF apply_to_known
<1>2. CASE state_supersedes(u.state, u.incarnation, old.state, old.incarnation)
  <2>1. i \in DOMAIN s.members /\ old \in Member
    BY FindMember
  <2>2. m \in Member /\ m.node_id = old.node_id
    BY <2>1 DEF Member, Rumour
  <2>3. apply_to_known(s, u, t) = ChangeMember(s, i, m)
    BY <1>2 DEF apply_to_known
  <2> HIDE DEF i, m
  <2> QED BY <2>1, <2>2, <2>3, ChangeMemberOK
<1> QED BY <1>1, <1>2

\* wake_swim_apply_update keeps the instance well formed.
LEMMA ApplyUpdateOK ==
    ASSUME NEW me \in NodeId, NEW s, WellFormed(s, me), NEW u \in Rumour, NEW t \in Nat
    PROVE  WellFormed(wake_swim_apply_update(s, u, t), me)
BY ApplyToSelfOK, ApplyToKnownOK, ApplyToUnknownOK DEF wake_swim_apply_update

-----------------------------------------------------------------------------
(* Probing.                                                                *)

\* A rebuilt order is any permutation of the eligible indices.
LEMMA RebuildOK ==
    ASSUME NEW me \in NodeId, NEW s, WellFormed(s, me), NEW r \in rebuild_probe_order(s)
    PROVE  /\ WellFormed(r, me)
           /\ r.probe_index = 0 /\ r.members = s.members
           /\ Len(r.probe_order) = s.alive_count
<1> DEFINE E == EligibleIdx(s.members)
<1>1. PICK p \in Bijection(1..Cardinality(E), E) :
          r = [s EXCEPT !.probe_order = p, !.probe_index = 0]
  BY DEF rebuild_probe_order
<1>2. /\ s \in SwimState /\ s.self_id = me /\ ListOK(s.members, me) /\ QueueOK(s.updates)
      /\ s.alive_count = recount_alive(s.members)
  BY DEF WellFormed
<1>3. Cardinality(E) \in Nat /\ Cardinality(E) = s.alive_count
  BY <1>2, RecountNat DEF recount_alive, ListOK
<1>4. E \subseteq Nat
  BY <1>2 DEF ListOK, EligibleIdx
<1>5. p \in [1..Cardinality(E) -> E]
  BY <1>1 DEF Bijection, Injection, Surjection
<1> HIDE DEF E
<1>6. p \in Seq(Nat) /\ Len(p) = Cardinality(E)
  <2>1. p \in [1..Cardinality(E) -> Nat]
    BY <1>4, <1>5
  <2> QED BY <2>1, <1>3, FcnIsSeq
<1>7. /\ r \in SwimState /\ r.self_id = s.self_id /\ r.members = s.members
      /\ r.updates = s.updates /\ r.alive_count = s.alive_count
      /\ r.probe_order = p /\ r.probe_index = 0
  BY <1>1, <1>2, <1>6 DEF SwimState
<1>8. OrderOK(r)
  BY <1>1, <1>3, <1>6, <1>7 DEF OrderOK, E
<1> QED BY <1>2, <1>3, <1>6, <1>7, <1>8 DEF WellFormed

\* Moving probe_index within the order, or counting a round, keeps WellFormed.
LEMMA MoveProbeIndexOK ==
    ASSUME NEW me \in NodeId, NEW s, WellFormed(s, me),
           NEW j \in 0..Len(s.probe_order), NEW c \in Nat
    PROVE  WellFormed([s EXCEPT !.probe_index = j, !.rounds_completed = c], me)
<1> DEFINE t == [s EXCEPT !.probe_index = j, !.rounds_completed = c]
<1>1. /\ s \in SwimState /\ s.self_id = me /\ ListOK(s.members, me) /\ QueueOK(s.updates)
      /\ s.alive_count = recount_alive(s.members) /\ OrderOK(s)
  BY DEF WellFormed
<1>2. Len(s.probe_order) \in Nat
  BY <1>1 DEF SwimState
<1>3. /\ t \in SwimState /\ t.self_id = s.self_id /\ t.members = s.members
      /\ t.updates = s.updates /\ t.alive_count = s.alive_count
      /\ t.probe_order = s.probe_order /\ t.probe_index = j
  <2>1. j \in Nat
    BY <1>2
  <2> QED BY <1>1, <2>1 DEF SwimState
<1> HIDE DEF t
<1>4. OrderOK(t)
  BY <1>1, <1>2, <1>3 DEF OrderOK
<1> QED BY <1>1, <1>3, <1>4 DEF WellFormed, t

\* The remaining entries of an order in force are all valid: the loop that
\* skips stale entries never skips, and probe_again is never reached.
LEMMA NoStaleEntry ==
    ASSUME NEW me \in NodeId, NEW s, WellFormed(s, me),
           s.probe_order # << >>, s.probe_index < Len(s.probe_order)
    PROVE  /\ s.probe_index + 1 \in ValidFrom(s)
           /\ ValidFrom(s) \in SUBSET (1..Len(s.probe_order))
           /\ Min(ValidFrom(s)) \in ValidFrom(s)
<1>1. s \in SwimState /\ OrderOK(s)
  BY DEF WellFormed
<1>2. s.probe_index \in Nat /\ s.probe_order \in Seq(Nat) /\ Len(s.probe_order) \in Nat
      /\ DOMAIN s.probe_order = 1..Len(s.probe_order)
  BY <1>1 DEF SwimState
<1>3. s.probe_order \in [1..Len(s.probe_order) -> EligibleIdx(s.members)]
  BY <1>1 DEF OrderOK, Bijection, Injection, Surjection
<1>4. s.probe_index + 1 \in ValidFrom(s)
  BY <1>2, <1>3 DEF ValidFrom
<1>5. ValidFrom(s) \in SUBSET (1..Len(s.probe_order)) /\ ValidFrom(s) \in SUBSET Nat
  BY <1>2 DEF ValidFrom
<1> QED BY <1>4, <1>5, MinIn

\* The scan for the next valid entry keeps the instance well formed.
LEMMA ScanOK ==
    ASSUME NEW me \in NodeId, NEW s, WellFormed(s, me),
           s.probe_order # << >>, s.probe_index < Len(s.probe_order),
           NEW r \in scan_probe_order(s)
    PROVE  WellFormed(r.st, me) /\ r.st.rounds_completed = s.rounds_completed
<1> DEFINE j == Min(ValidFrom(s))
<1>1. j \in 0..Len(s.probe_order) /\ ValidFrom(s) # {}
  BY NoStaleEntry
<1>2. r.st = [s EXCEPT !.probe_index = j]
  BY <1>1 DEF scan_probe_order
<1> HIDE DEF j
<1>3. s \in SwimState
  BY DEF WellFormed
<1>4. s.rounds_completed \in Nat /\ r.st = [s EXCEPT !.probe_index = j, !.rounds_completed = s.rounds_completed]
  BY <1>2, <1>3 DEF SwimState
<1>5. WellFormed(r.st, me)
  <2> DEFINE c == s.rounds_completed
  <2>1. c \in Nat
    BY <1>4
  <2> HIDE DEF c
  <2>2. WellFormed([s EXCEPT !.probe_index = j, !.rounds_completed = c], me)
    BY <1>1, <2>1, MoveProbeIndexOK
  <2> QED BY <2>2, <1>4 DEF c
<1> QED BY <1>2, <1>3, <1>5 DEF SwimState

\* wake_swim_next_probe keeps the instance well formed.
LEMMA NextProbeOK ==
    ASSUME NEW me \in NodeId, NEW s, WellFormed(s, me),
           NEW r \in wake_swim_next_probe(s)
    PROVE  WellFormed(r.st, me) /\ r.st.rounds_completed = s.rounds_completed
<1>1. CASE s.alive_count = 0
  BY <1>1 DEF wake_swim_next_probe
<1>2. CASE s.alive_count # 0 /\ s.probe_order # << >> /\ s.probe_index < Len(s.probe_order)
  <2>1. r \in scan_probe_order(s)
    BY <1>2 DEF wake_swim_next_probe
  <2> QED BY <1>2, <2>1, ScanOK
<1>3. CASE s.alive_count # 0 /\ ~(s.probe_order # << >> /\ s.probe_index < Len(s.probe_order))
  <2>1. PICK b \in rebuild_probe_order(s) :
            r \in IF b.probe_order = << >> THEN {[st |-> b, target |-> NULL]}
                  ELSE scan_probe_order(count_round(b))
    BY <1>3 DEF wake_swim_next_probe
  <2>2. WellFormed(b, me) /\ b.probe_index = 0 /\ Len(b.probe_order) = s.alive_count
    BY RebuildOK
  <2>3. s.alive_count \in Nat /\ s \in SwimState
    BY DEF WellFormed, SwimState
  <2>4. b.probe_order # << >> /\ b.probe_index < Len(b.probe_order)
    <3>1. Len(b.probe_order) > 0
      BY <1>3, <2>2, <2>3
    <3> QED BY <2>2, <3>1
  <2>5. count_round(b) = b
    BY <2>2, <2>4, <2>3, <1>3 DEF count_round
  <2>6. r \in scan_probe_order(b)
    BY <2>1, <2>4, <2>5
  <2>7. b.rounds_completed = s.rounds_completed
    BY <2>3 DEF rebuild_probe_order, SwimState
  <2> QED BY <2>2, <2>4, <2>6, <2>7, ScanOK
<1> QED BY <1>1, <1>2, <1>3

-----------------------------------------------------------------------------
(* Suspicion, reaping, dissemination, lifecycle.                           *)

\* wake_swim_check_suspects, its pass over several members included, keeps
\* the instance well formed.
LEMMA CheckSuspectsOK ==
    ASSUME NEW me \in NodeId, NEW s, WellFormed(s, me), NEW t \in Nat
    PROVE  WellFormed(wake_swim_check_suspects(s, t), me)
<1> DEFINE X == Expired(s, t)
           ms == [i \in DOMAIN s.members |->
                     IF i \in X THEN Kill(s.members[i], t) ELSE s.members[i]]
           q == QueueAll(s.updates, ms, X)
<1>1. CASE X = {}
  BY <1>1 DEF wake_swim_check_suspects
<1>2. CASE X # {}
  <2>1. s \in SwimState /\ ListOK(s.members, me) /\ QueueOK(s.updates)
    BY DEF WellFormed
  <2>2. s.members \in Seq(Member) /\ Len(s.members) \in Nat /\ DOMAIN s.members = 1..Len(s.members)
    BY <2>1 DEF ListOK
  <2>3. \A i \in DOMAIN s.members : /\ Kill(s.members[i], t) \in Member
                                   /\ Kill(s.members[i], t).node_id = s.members[i].node_id
    <3> SUFFICES ASSUME NEW i \in DOMAIN s.members
                 PROVE  /\ Kill(s.members[i], t) \in Member
                        /\ Kill(s.members[i], t).node_id = s.members[i].node_id
      OBVIOUS
    <3>1. s.members[i] \in Member
      BY <2>2
    <3> QED BY <3>1, WireStateAssumption DEF Kill, Member
  <2> HIDE DEF X
  <2>4. /\ ms \in [1..Len(s.members) -> Member] /\ DOMAIN ms = DOMAIN s.members
        /\ \A i \in DOMAIN ms : ms[i].node_id = s.members[i].node_id
    BY <2>2, <2>3
  <2>5. wake_swim_check_suspects(s, t) =
            [s EXCEPT !.members = ms, !.alive_count = recount_alive(ms),
                      !.updates = q, !.probe_order = << >>]
    BY <1>2, <2>1 DEF wake_swim_check_suspects, X, SwimState
  <2> HIDE DEF ms
  <2>6. ms \in Seq(Member) /\ Len(ms) = Len(s.members)
    BY <2>2, <2>4, FcnIsSeq
  <2>7. ListOK(ms, me)
    BY <2>1, <2>4, <2>6 DEF ListOK, DistinctIds
  <2>8. QueueOK(q)
    BY <2>1, <2>6, QueueAllOK
  <2> HIDE DEF q
  <2> QED BY <2>5, <2>7, <2>8, RecountAndDrop
<1> QED BY <1>1, <1>2

\* wake_swim_reap compacts the list and keeps the instance well formed.
LEMMA ReapOK ==
    ASSUME NEW me \in NodeId, NEW s, WellFormed(s, me), NEW t \in Nat, NEW ret \in Nat
    PROVE  WellFormed(wake_swim_reap(s, t, ret), me)
<1> DEFINE R == Reapable(s, t, ret)
           K == DOMAIN s.members \ R
           ms == Compact(s.members, K)
<1>1. CASE R = {}
  BY <1>1 DEF wake_swim_reap
<1>2. CASE R # {}
  <2>1. s \in SwimState /\ ListOK(s.members, me) /\ QueueOK(s.updates)
    BY DEF WellFormed
  <2>2. s.members \in Seq(Member) /\ Len(s.members) <= MaxMembers
    BY <2>1 DEF ListOK
  <2>3. K \in SUBSET (DOMAIN s.members)
    OBVIOUS
  <2>4. wake_swim_reap(s, t, ret) =
            [s EXCEPT !.members = ms, !.alive_count = recount_alive(ms),
                      !.updates = s.updates, !.probe_order = << >>]
    BY <1>2, <2>1 DEF wake_swim_reap, SwimState
  <2> HIDE DEF R, K
  <2>5. /\ ms \in Seq(Member) /\ Len(ms) <= Len(s.members)
        /\ DOMAIN ms = 1..Cardinality(K)
        /\ \A k \in 1..Cardinality(K) : Nth(K, k) \in K /\ ms[k] = s.members[Nth(K, k)]
    BY <2>2, <2>3, CompactKeeps
  <2>6. DistinctIds(ms)
    BY <2>1, <2>2, <2>3, CompactDistinct DEF ListOK
  <2> HIDE DEF ms
  <2>7. Len(ms) <= MaxMembers
    <3>1. Len(ms) \in Nat /\ Len(s.members) \in Nat
      BY <2>2, <2>5
    <3> QED BY <2>2, <2>5, <3>1, MaxMembersAssumption
  <2>8. \A i \in DOMAIN ms : ms[i].node_id # me
    BY <2>1, <2>3, <2>5 DEF ListOK
  <2>9. ListOK(ms, me)
    BY <2>5, <2>6, <2>7, <2>8 DEF ListOK
  <2> QED BY <2>1, <2>4, <2>9, RecountAndDrop
<1> QED BY <1>1, <1>2

\* wake_swim_get_updates counts, prunes and compacts the queue only.
LEMMA GetUpdatesOK ==
    ASSUME NEW me \in NodeId, NEW s, WellFormed(s, me), NEW max \in Nat
    PROVE  WellFormed(wake_swim_get_updates(s, max), me)
<1> DEFINE P == Picked(s, max)
           q == [i \in DOMAIN s.updates |->
                    IF i \in P THEN [s.updates[i] EXCEPT !.piggyback_count = @ + 1]
                    ELSE s.updates[i]]
           K == {i \in DOMAIN q : q[i].piggyback_count < PiggybackLimit(s)}
           c == Compact(q, K)
<1>1. CASE max = 0
  BY <1>1 DEF wake_swim_get_updates
<1>2. CASE max # 0
  <2>1. /\ s \in SwimState /\ s.self_id = me /\ ListOK(s.members, me) /\ QueueOK(s.updates)
        /\ s.alive_count = recount_alive(s.members) /\ OrderOK(s)
    BY DEF WellFormed
  <2>2. /\ s.updates \in Seq(Update) /\ Len(s.updates) \in Nat
        /\ DOMAIN s.updates = 1..Len(s.updates) /\ Len(s.updates) <= UpdateQueueSize
        /\ DistinctIds(s.updates)
    BY <2>1 DEF QueueOK
  <2>3. wake_swim_get_updates(s, max) = [s EXCEPT !.updates = c]
    BY <1>2 DEF wake_swim_get_updates
  <2>4. \A i \in DOMAIN s.updates :
            LET u == [s.updates[i] EXCEPT !.piggyback_count = @ + 1]
            IN  u \in Update /\ u.node_id = s.updates[i].node_id
    <3> SUFFICES ASSUME NEW i \in DOMAIN s.updates
                 PROVE  LET u == [s.updates[i] EXCEPT !.piggyback_count = @ + 1]
                        IN  u \in Update /\ u.node_id = s.updates[i].node_id
      OBVIOUS
    <3>1. s.updates[i] \in Update
      BY <2>2
    <3> QED BY <3>1 DEF Update
  <2> HIDE DEF P
  <2>5. /\ q \in [1..Len(s.updates) -> Update] /\ DOMAIN q = DOMAIN s.updates
        /\ \A i \in DOMAIN q : q[i].node_id = s.updates[i].node_id
    BY <2>2, <2>4
  <2>6. K \in SUBSET (DOMAIN q)
    OBVIOUS
  <2> HIDE DEF q, K
  <2>7. q \in Seq(Update) /\ Len(q) = Len(s.updates) /\ DistinctIds(q)
    <3>1. q \in Seq(Update) /\ Len(q) = Len(s.updates)
      BY <2>2, <2>5, FcnIsSeq
    <3> QED BY <3>1, <2>2, <2>5 DEF DistinctIds
  <2>8. QueueOK(c)
    <3>1. c \in Seq(Update) /\ Len(c) <= Len(q)
      BY <2>6, <2>7, CompactKeeps
    <3>2. DistinctIds(c)
      BY <2>6, <2>7, CompactDistinct
    <3> HIDE DEF c
    <3>3. Len(c) <= UpdateQueueSize
      <4>1. Len(c) \in Nat
        BY <3>1
      <4> QED BY <4>1, <3>1, <2>2, <2>7, UpdateQueueSizeAssumption
    <3> QED BY <3>1, <3>2, <3>3 DEF QueueOK
  <2> DEFINE t == [s EXCEPT !.updates = c]
  <2> HIDE DEF c
  <2>9. /\ t \in SwimState /\ t.self_id = s.self_id /\ t.members = s.members
        /\ t.updates = c /\ t.alive_count = s.alive_count
        /\ t.probe_order = s.probe_order /\ t.probe_index = s.probe_index
    BY <2>1, <2>8 DEF SwimState, QueueOK
  <2> HIDE DEF t
  <2>10. WellFormed(t, me)
    BY <2>1, <2>8, <2>9 DEF WellFormed, OrderOK
  <2> QED BY <2>3, <2>10 DEF t
<1> QED BY <1>1, <1>2

\* wake_swim_report_health clamps the score to its range.
LEMMA ReportHealthOK ==
    ASSUME NEW me \in NodeId, NEW s, WellFormed(s, me), NEW d \in Int
    PROVE  WellFormed(wake_swim_report_health(s, d), me)
<1> DEFINE t == wake_swim_report_health(s, d)
<1>1. /\ s \in SwimState /\ s.self_id = me /\ ListOK(s.members, me) /\ QueueOK(s.updates)
      /\ s.alive_count = recount_alive(s.members) /\ OrderOK(s)
  BY DEF WellFormed
<1>2. /\ t \in SwimState /\ t.self_id = s.self_id /\ t.members = s.members
      /\ t.updates = s.updates /\ t.alive_count = s.alive_count
      /\ t.probe_order = s.probe_order /\ t.probe_index = s.probe_index
  <2> DEFINE h == s.health_score
             g == IF h + d < 0 THEN 0 ELSE IF h + d > HEALTH_MAX THEN HEALTH_MAX ELSE h + d
  <2>1. h \in 0..HEALTH_MAX
    BY <1>1 DEF SwimState
  <2>2. t = [s EXCEPT !.health_score = g]
    BY DEF wake_swim_report_health
  <2> HIDE DEF h
  <2>3. g \in 0..HEALTH_MAX
    BY <2>1, HealthMaxAssumption
  <2> HIDE DEF g, t
  <2> QED BY <1>1, <2>2, <2>3 DEF SwimState
<1> HIDE DEF t
<1>3. WellFormed(t, me)
  BY <1>1, <1>2 DEF WellFormed, OrderOK
<1> QED BY <1>3 DEF t

\* A fresh and a reset instance are well formed.
LEMMA EmptyOK ==
    ASSUME NEW me \in NodeId, NEW inc \in Incarnation
    PROVE  WellFormed([wake_swim_create(me) EXCEPT !.self_incarnation = inc], me)
<1> DEFINE t == [wake_swim_create(me) EXCEPT !.self_incarnation = inc]
<1>1. /\ t.self_id = me /\ t.members = << >> /\ t.updates = << >>
      /\ t.alive_count = 0 /\ t.probe_order = << >>
  BY DEF wake_swim_create
<1>2. t \in SwimState
  <2>1. 0 \in 0..HEALTH_MAX /\ me \in NodeId
    BY HealthMaxAssumption
  <2>2. << >> \in Seq(Member) /\ << >> \in Seq(Update) /\ << >> \in Seq(Nat)
    OBVIOUS
  <2>3. t = [self_id |-> me, self_incarnation |-> inc, members |-> << >>,
             alive_count |-> 0, probe_order |-> << >>, probe_index |-> 0,
             updates |-> << >>, rounds_completed |-> 0, health_score |-> 0]
    BY DEF wake_swim_create
  <2>4. ASSUME NEW ms \in Seq(Member), NEW p \in Seq(Nat), NEW q \in Seq(Update),
               NEW h \in 0..HEALTH_MAX
        PROVE  [self_id |-> me, self_incarnation |-> inc, members |-> ms,
                alive_count |-> 0, probe_order |-> p, probe_index |-> 0,
                updates |-> q, rounds_completed |-> 0, health_score |-> h] \in SwimState
    BY <2>1 DEF SwimState
  <2> HIDE DEF t
  <2> QED BY <2>1, <2>2, <2>3, <2>4
<1> HIDE DEF t
<1>3. ListOK(<< >>, me) /\ QueueOK(<< >>)
  BY MaxMembersAssumption, UpdateQueueSizeAssumption DEF ListOK, QueueOK, DistinctIds
<1>4. EligibleIdx(<< >>) = {}
  BY DEF EligibleIdx
<1>5. recount_alive(<< >>) = 0
  BY <1>4, FS_EmptySet DEF recount_alive
<1>6. WellFormed(t, me)
  BY <1>1, <1>2, <1>3, <1>5 DEF WellFormed, OrderOK
<1> QED BY <1>6 DEF t

-----------------------------------------------------------------------------
(* The specification.                                                      *)

\* The instance under study is that of node Self.
USE SelfAssumption

IInv == WellFormed(sw, Self) /\ now \in Nat

\* wake_swim_create establishes the inductive invariant.
LEMMA IInvInit == Init => IInv
<1> SUFFICES ASSUME Init PROVE IInv
  OBVIOUS
<1>1. 0 \in Incarnation
  BY UINT32Assumption DEF Incarnation
<1>2. wake_swim_create(Self) = [wake_swim_create(Self) EXCEPT !.self_incarnation = 0]
  BY DEF wake_swim_create
<1> QED BY <1>1, <1>2, EmptyOK, StartTimeAssumption DEF Init, IInv

\* Every call of the host preserves the inductive invariant.
LEMMA IInvStep == IInv /\ [Next]_vars => IInv'
<1> SUFFICES ASSUME IInv, [Next]_vars PROVE IInv'
  OBVIOUS
<1>a. WellFormed(sw, Self) /\ now \in Nat
  BY DEF IInv
<1>1. CASE Tick
  BY <1>1, <1>a DEF Tick, IInv
<1>2. ASSUME NEW id \in NodeId, AddMember(id) PROVE IInv'
  BY <1>2, <1>a, AddMemberOK DEF AddMember, IInv
<1>3. ASSUME NEW id \in NodeId, RemoveMember(id) PROVE IInv'
  BY <1>3, <1>a, RemoveMemberOK DEF RemoveMember, IInv
<1>4. ASSUME NEW u \in Rumour, ApplyUpdate(u) PROVE IInv'
  BY <1>4, <1>a, ApplyUpdateOK DEF ApplyUpdate, IInv
<1>5. ASSUME NEW id \in NodeId, SuspectMember(id) PROVE IInv'
  BY <1>5, <1>a, SuspectMemberOK DEF SuspectMember, IInv
<1>6. CASE NextProbe
  BY <1>6, <1>a, NextProbeOK DEF NextProbe, IInv
<1>7. CASE CheckSuspects
  BY <1>7, <1>a, CheckSuspectsOK DEF CheckSuspects, IInv
<1>8. ASSUME NEW ret \in Retention, Reap(ret) PROVE IInv'
  BY <1>8, <1>a, ReapOK, RetentionAssumption DEF Reap, IInv
<1>9. ASSUME NEW max \in Batch, GetUpdates(max) PROVE IInv'
  BY <1>9, <1>a, GetUpdatesOK, BatchAssumption DEF GetUpdates, IInv
<1>10. ASSUME NEW d \in HealthDelta, ReportHealth(d) PROVE IInv'
  BY <1>10, <1>a, ReportHealthOK, HealthDeltaAssumption DEF ReportHealth, IInv
<1>11. CASE Reset
  <2>1. sw.self_incarnation \in Incarnation /\ sw.self_id = Self
    BY <1>a DEF WellFormed, SwimState
  <2> QED BY <1>11, <1>a, <2>1, EmptyOK DEF Reset, IInv, wake_swim_reset
<1>12. CASE UNCHANGED vars
  BY <1>12, <1>a DEF vars, IInv
<1> QED BY <1>1, <1>2, <1>3, <1>4, <1>5, <1>6, <1>7, <1>8, <1>9, <1>10, <1>11, <1>12
        DEF Next, Upkeep

\* The inductive invariant holds in every reachable state.
LEMMA Inductive == Spec => []IInv
BY IInvInit, IInvStep, PTL DEF Spec

\* The instance stays typed and both arrays stay within their allocation,
\* whatever the host calls and whatever peers gossip.
THEOREM TypeCorrect == Spec => []TypeOK
<1>1. IInv => TypeOK
  BY DEF IInv, TypeOK, WellFormed, ListOK, QueueOK
<1> QED BY Inductive, <1>1, PTL

\* alive_count, updated in one place by ++ and elsewhere by recounting, is always
\* the number of probe-eligible members, and no operation leaves a stale index in a
\* probe order that is still used.
THEOREM CachesCorrect == Spec => []CachesFresh
<1>1. IInv => CachesFresh
  BY DEF IInv, CachesFresh, WellFormed, OrderOK
<1> QED BY Inductive, <1>1, PTL

\* One list entry and one queue entry per node, and never this node itself.
THEOREM IdentityCorrect == Spec => []IdentityUnique
<1>1. IInv => IdentityUnique
  BY DEF IInv, IdentityUnique, WellFormed, ListOK, QueueOK, Known
<1> QED BY Inductive, <1>1, PTL

-----------------------------------------------------------------------------
(* What a single call does: suspicion stamps, the agreement of the gossip  *)
(* queue with the member list, the precedence order along which a member   *)
(* moves, and the bound on the gap between two probes.  One lemma per call *)
(* shows that it keeps the instance Sound and is a Legal move from the old *)
(* instance to the new one.                                                *)

\* A member's two stamps: suspect_ms is set exactly while it is SUSPECT, and then
\* it is the instant of its last change.
StampOK(m, t) ==
    /\ m.state = SUSPECT <=> m.suspect_ms # 0
    /\ m.suspect_ms <= t /\ m.last_change_ms <= t
    /\ m.state = SUSPECT => m.suspect_ms = m.last_change_ms

\* A queued update u says of member m what the list says.
AgreesWith(u, m) == u.node_id = m.node_id => u.state = m.state /\ u.incarnation <= m.incarnation

\* What is queued about this node itself.
OwnUpdateOK(u, inc) == u.node_id = Self => u.state = ALIVE /\ u.incarnation <= inc

Agreement(q, ms) == \A i \in DOMAIN ms, k \in DOMAIN q : AgreesWith(q[k], ms[i])

OwnGossip(q, inc) == \A k \in DOMAIN q : OwnUpdateOK(q[k], inc)

Sound(s) == Agreement(s.updates, s.members) /\ OwnGossip(s.updates, s.self_incarnation)

\* 0 is no stamp, so the stamps mean something only on a clock that is past 0.
Stamped(ms, t) == StartTime # 0 /\ t # 0 => \A i \in DOMAIN ms : StampOK(ms[i], t)

\* The order in which a member's (incarnation, state) may move.
Precedes(old, new) ==
    \/ new.state = old.state /\ new.incarnation = old.incarnation
    \/ state_supersedes(new.state, new.incarnation, old.state, old.incarnation)

\* From list ms to list ns every member moves up or stays, and only the dead leave.
Moves(ms, ns) == \A i \in DOMAIN ms, j \in DOMAIN ns :
    ms[i].node_id = ns[j].node_id => Precedes(ms[i], ns[j])

Keeps(ms, ns) == \A i \in DOMAIN ms :
    \/ ms[i].state \in {DEAD, LEFT}
    \/ \E j \in DOMAIN ns : ns[j].node_id = ms[i].node_id

\* A call that leaves a probe order in force leaves the list it was drawn from.
OrderKept(s, t) ==
    \/ t.probe_order = << >>
    \/ /\ t.members = s.members /\ t.probe_order = s.probe_order
       /\ t.probe_index = s.probe_index /\ t.alive_count = s.alive_count

Legal(s, t) == Moves(s.members, t.members) /\ Keeps(s.members, t.members) /\ OrderKept(s, t)

-----------------------------------------------------------------------------
(* The queue                                                               *)

\* A non-empty sequence of naturals has a greatest entry.
LEMMA GreatestEntry ==
    ASSUME NEW n \in Nat, n > 0, NEW f \in [1..n -> Nat]
    PROVE  \E i \in 1..n : \A j \in 1..n : f[j] <= f[i]
<1> DEFINE S == {k \in Nat : k \in 1..n => \E i \in 1..k : \A j \in 1..k : f[j] <= f[i]}
<1>1. 0 \in S
  OBVIOUS
<1>2. ASSUME NEW k \in Nat, k \in S PROVE k + 1 \in S
  <2> SUFFICES ASSUME k + 1 \in 1..n
               PROVE  \E i \in 1..(k + 1) : \A j \in 1..(k + 1) : f[j] <= f[i]
    OBVIOUS
  <2>1. CASE k = 0
    BY <2>1
  <2>2. CASE k # 0
    <3>1. PICK i \in 1..k : \A j \in 1..k : f[j] <= f[i]
      BY <1>2, <2>2
    <3>2. f[k + 1] \in Nat /\ f[i] \in Nat /\ \A j \in 1..k : f[j] \in Nat
      OBVIOUS
    <3>3. CASE f[k + 1] <= f[i]
      <4>1. \A j \in 1..(k + 1) : f[j] <= f[i]
        BY <3>1, <3>3
      <4> QED BY <4>1
    <3>4. CASE ~ (f[k + 1] <= f[i])
      <4>1. ASSUME NEW j \in 1..(k + 1) PROVE f[j] <= f[k + 1]
        <5>1. CASE j = k + 1
          BY <5>1, <3>2
        <5>2. CASE j # k + 1
          <6>1. j \in 1..k
            BY <5>2
          <6>2. f[j] <= f[i] /\ f[j] \in Nat
            BY <6>1, <3>1, <3>2
          <6> QED BY <6>2, <3>2, <3>4
        <5> QED BY <5>1, <5>2
      <4> QED BY <4>1
    <3> QED BY <3>3, <3>4
  <2> QED BY <2>1, <2>2
<1>3. Nat \subseteq S
  <2> HIDE DEF S
  <2> QED BY <1>1, <1>2, NatSetInduction
<1>4. n \in S
  <2> HIDE DEF S
  <2> QED BY <1>3
<1>5. n \in 1..n
  OBVIOUS
<1> QED BY <1>4, <1>5

\* A full queue has an entry to evict.
LEMMA WorstExists ==
    ASSUME NEW q \in Seq(Update), Len(q) > 0
    PROVE  WorstUpdate(q) \in DOMAIN q
<1> DEFINE f == [i \in 1..Len(q) |-> q[i].piggyback_count]
           S == {i \in DOMAIN q : \A j \in DOMAIN q :
                                     q[j].piggyback_count <= q[i].piggyback_count}
<1>1. Len(q) \in Nat /\ DOMAIN q = 1..Len(q)
  OBVIOUS
<1>2. f \in [1..Len(q) -> Nat]
  <2>1. \A i \in 1..Len(q) : q[i] \in Update
    BY <1>1
  <2>2. \A i \in 1..Len(q) : q[i].piggyback_count \in Nat
    BY <2>1 DEF Update
  <2> QED BY <2>2
<1>3. \E i \in 1..Len(q) : \A j \in 1..Len(q) : f[j] <= f[i]
  <2> HIDE DEF f
  <2> QED BY <1>1, <1>2, GreatestEntry
<1>4. S # {} /\ S \in SUBSET Nat
  <2>1. PICK i \in 1..Len(q) : \A j \in 1..Len(q) : f[j] <= f[i]
    BY <1>3
  <2>2. \A j \in DOMAIN q : f[j] = q[j].piggyback_count
    BY <1>1
  <2>3. i \in S
    BY <1>1, <2>1, <2>2
  <2> QED BY <1>1, <2>3
<1>5. Min(S) \in S
  <2> HIDE DEF S
  <2> QED BY <1>4, MinIn
<1>6. WorstUpdate(q) = Min(S)
  BY DEF WorstUpdate
<1> QED BY <1>5, <1>6

\* What queue_update leaves: the new entry, and of the old ones only entries
\* about other nodes.
Tells(u, m) == u.node_id = m.node_id /\ u.state = m.state /\ u.incarnation = m.incarnation

Requeued(q, r, m) ==
    /\ \A k \in DOMAIN r : \/ Tells(r[k], m)
                           \/ \E j \in DOMAIN q : r[k] = q[j] /\ q[j].node_id # m.node_id
    /\ \E k \in DOMAIN r : Tells(r[k], m)

LEMMA QueueUpdateEntries ==
    ASSUME NEW q, QueueOK(q), NEW m
    PROVE  Requeued(q, queue_update(q, m), m)
<1> DEFINE r == queue_update(q, m)
<1> SUFFICES Requeued(q, r, m)
  OBVIOUS
<1> DEFINE u == [node_id |-> m.node_id, state |-> m.state,
                 incarnation |-> m.incarnation, piggyback_count |-> 0]
           same == {i \in DOMAIN q : q[i].node_id = m.node_id}
<1>1. Tells(u, m)
  BY DEF Tells
<1>2. q \in Seq(Update) /\ Len(q) \in Nat /\ DOMAIN q = 1..Len(q) /\ DistinctIds(q)
  BY DEF QueueOK
<1> HIDE DEF u
<1>3. CASE same # {}
  <2> DEFINE k == Min(same)
  <2>1. k \in same
    <3>1. same \in SUBSET Nat
      BY <1>2
    <3> HIDE DEF same
    <3> QED BY <3>1, <1>3, MinIn
  <2>2. r = [q EXCEPT ![k] = u]
    BY <1>3 DEF queue_update, u
  <2>3. k \in DOMAIN q /\ q[k].node_id = m.node_id
    BY <2>1
  <2> HIDE DEF k, same
  <2>4. DOMAIN r = DOMAIN q /\ r[k] = u /\ \A i \in DOMAIN q : i # k => r[i] = q[i]
    BY <1>2, <2>2, <2>3
  <2>5. \A i \in DOMAIN q : i # k => q[i].node_id # m.node_id
    BY <1>2, <2>3 DEF DistinctIds
  <2> HIDE DEF r
  <2> QED BY <1>1, <2>3, <2>4, <2>5 DEF Requeued
<1>4. CASE same = {} /\ Len(q) < UpdateQueueSize
  <2>1. r = Append(q, u)
    BY <1>4 DEF queue_update, u
  <2>2. /\ DOMAIN r = 1..(Len(q) + 1) /\ r[Len(q) + 1] = u
        /\ \A i \in DOMAIN q : r[i] = q[i]
    BY <1>2, <2>1
  <2>3. \A i \in DOMAIN q : q[i].node_id # m.node_id
    BY <1>4
  <2>4. \A i \in DOMAIN r : i = Len(q) + 1 \/ i \in DOMAIN q
    BY <1>2, <2>2
  <2>5. Len(q) + 1 \in DOMAIN r
    BY <1>2, <2>2
  <2> HIDE DEF r
  <2> QED BY <1>1, <2>2, <2>3, <2>4, <2>5 DEF Requeued
<1>5. CASE same = {} /\ ~(Len(q) < UpdateQueueSize)
  <2> DEFINE k == WorstUpdate(q)
  <2>1. r = [q EXCEPT ![k] = u]
    BY <1>5 DEF queue_update, u
  <2>2. k \in DOMAIN q
    <3>1. Len(q) > 0
      BY <1>2, <1>5, UpdateQueueSizeAssumption
    <3> QED BY <1>2, <3>1, WorstExists
  <2>3. \A i \in DOMAIN q : q[i].node_id # m.node_id
    BY <1>5
  <2> HIDE DEF k, same
  <2>4. DOMAIN r = DOMAIN q /\ r[k] = u /\ \A i \in DOMAIN q : i # k => r[i] = q[i]
    BY <1>2, <2>1, <2>2
  <2> HIDE DEF r
  <2> QED BY <1>1, <2>2, <2>3, <2>4 DEF Requeued
<1> QED BY <1>3, <1>4, <1>5

-----------------------------------------------------------------------------
(* One lemma per call.                                                     *)

\* A call that leaves list, queue and incarnation alone.
LEMMA SameOK ==
    ASSUME NEW s, WellFormed(s, Self), Sound(s), NEW t,
           t.members = s.members, t.updates = s.updates,
           t.self_incarnation = s.self_incarnation
    PROVE  Sound(t) /\ Moves(s.members, t.members) /\ Keeps(s.members, t.members)
<1>1. DistinctIds(s.members)
  BY DEF WellFormed, ListOK
<1> QED BY <1>1 DEF Sound, Moves, Keeps, Precedes, DistinctIds

\* ns is ms with m for the entry about m's node; queueing m then keeps the queue
\* in agreement with the list.
Renews(ms, ns, m) ==
    \A j \in DOMAIN ns :
       \/ /\ ns[j].node_id = m.node_id /\ ns[j].state = m.state
          /\ m.incarnation <= ns[j].incarnation
       \/ ns[j].node_id # m.node_id /\ \E i \in DOMAIN ms : ns[j] = ms[i]

LEMMA RequeueOK ==
    ASSUME NEW s, WellFormed(s, Self), Sound(s), NEW m, NEW ns, NEW q,
           q = queue_update(s.updates, m), m.node_id # Self,
           m.incarnation \in Incarnation,
           Renews(s.members, ns, m)
    PROVE  Agreement(q, ns) /\ OwnGossip(q, s.self_incarnation)
<1>1. QueueOK(s.updates)
  BY DEF WellFormed
<1>2. \A k \in DOMAIN q :
        \/ Tells(q[k], m)
        \/ \E j \in DOMAIN s.updates : q[k] = s.updates[j] /\ s.updates[j].node_id # m.node_id
  <2>1. Requeued(s.updates, q, m)
    BY <1>1, QueueUpdateEntries
  <2> QED BY <2>1 DEF Requeued
<1>3. OwnGossip(q, s.self_incarnation)
  BY <1>2 DEF Sound, OwnGossip, OwnUpdateOK, Tells
<1>4. ASSUME NEW j \in DOMAIN ns, NEW k \in DOMAIN q, q[k].node_id = ns[j].node_id
      PROVE  q[k].state = ns[j].state /\ q[k].incarnation <= ns[j].incarnation
  <2>1. CASE q[k].node_id = m.node_id
    BY <1>2, <1>4, <2>1 DEF Renews, Tells
  <2>2. CASE q[k].node_id # m.node_id
    <3>1. PICK l \in DOMAIN s.updates : q[k] = s.updates[l]
      BY <1>2, <2>2 DEF Tells
    <3>2. PICK i \in DOMAIN s.members : ns[j] = s.members[i]
      BY <1>4, <2>2 DEF Renews
    <3> QED BY <3>1, <3>2, <1>4 DEF Sound, Agreement, AgreesWith
  <2> QED BY <2>1, <2>2
<1> QED BY <1>3, <1>4 DEF Agreement, AgreesWith

\* An accepted change of one member.
LEMMA ChangeMemberStep ==
    ASSUME NEW s, WellFormed(s, Self), Sound(s), NEW i \in DOMAIN s.members, NEW m \in Member,
           m.node_id = s.members[i].node_id, Precedes(s.members[i], m),
           NEW t \in Nat, Stamped(s.members, t), t # 0 => StampOK(m, t),
           NEW r, r = ChangeMember(s, i, m)
    PROVE  Sound(r) /\ Legal(s, r) /\ Stamped(r.members, t)
<1> DEFINE ns == [s.members EXCEPT ![i] = m]
           q == queue_update(s.updates, m)
<1>1. /\ s \in SwimState /\ s.members \in Seq(Member) /\ DistinctIds(s.members)
      /\ \A j \in DOMAIN s.members : s.members[j].node_id # Self
  BY DEF WellFormed, ListOK
<1>2. /\ r.members = ns /\ r.updates = q /\ r.probe_order = << >>
      /\ r.self_incarnation = s.self_incarnation
  BY <1>1 DEF ChangeMember, SwimState
<1>3. DOMAIN ns = DOMAIN s.members /\ ns[i] = m /\ \A j \in DOMAIN ns : j # i => ns[j] = s.members[j]
  BY <1>1
<1> HIDE DEF ns, q
<1>4. Renews(s.members, ns, m)
  <2>1. m.incarnation <= m.incarnation
    BY UINT32Assumption DEF Member, Incarnation
  <2> QED BY <2>1, <1>1, <1>3 DEF DistinctIds, Renews
<1>5. Agreement(q, ns) /\ OwnGossip(q, s.self_incarnation)
  <2>1. m.node_id # Self /\ m.incarnation \in Incarnation
    BY <1>1 DEF Member
  <2> QED BY <2>1, <1>4, RequeueOK DEF q
<1>6. Moves(s.members, ns)
  BY <1>1, <1>3 DEF Moves, Precedes, DistinctIds
<1>7. Keeps(s.members, ns)
  BY <1>3 DEF Keeps
<1>8. Stamped(ns, t)
  BY <1>3 DEF Stamped
<1> QED BY <1>2, <1>5, <1>6, <1>7, <1>8 DEF Sound, Legal, OrderKept

\* A refused call: nothing changes.
LEMMA RefusedStep ==
    ASSUME NEW s, WellFormed(s, Self), Sound(s)
    PROVE  Sound(s) /\ Legal(s, s)
  BY SameOK DEF Legal, OrderKept

LEMMA RemoveMemberStep ==
    ASSUME NEW s, WellFormed(s, Self), Sound(s), NEW id \in NodeId,
           NEW t \in Nat, Stamped(s.members, t),
           NEW r, r = wake_swim_remove_member(s, id, t)
    PROVE  Sound(r) /\ Legal(s, r) /\ Stamped(r.members, t)
<1> DEFINE i == find_member(s, id)
           m == [s.members[i] EXCEPT !.state = LEFT, !.last_change_ms = t, !.suspect_ms = 0]
<1>1. CASE id = s.self_id \/ ~Known(s, id)
  BY <1>1, RefusedStep DEF wake_swim_remove_member
<1>2. CASE ~(id = s.self_id \/ ~Known(s, id))
  <2>1. i \in DOMAIN s.members /\ s.members[i] \in Member
    BY <1>2, FindMember
  <2>2. /\ m \in Member /\ m.node_id = s.members[i].node_id
        /\ m.state = LEFT /\ m.suspect_ms = 0 /\ m.last_change_ms = t
    BY <2>1, WireStateAssumption DEF Member
  <2>3. r = ChangeMember(s, i, m)
    BY <1>2 DEF wake_swim_remove_member
  <2> HIDE DEF i, m
  <2>4. (t # 0 => StampOK(m, t)) /\ Precedes(s.members[i], m)
    BY <2>2 DEF StampOK, Precedes, state_supersedes, SUSPECT, LEFT
  <2> QED BY <2>1, <2>2, <2>3, <2>4, ChangeMemberStep
<1> QED BY <1>1, <1>2

LEMMA SuspectMemberStep ==
    ASSUME NEW s, WellFormed(s, Self), Sound(s), NEW id \in NodeId,
           NEW t \in Nat, Stamped(s.members, t),
           NEW r, r = wake_swim_suspect_member(s, id, t)
    PROVE  Sound(r) /\ Legal(s, r) /\ Stamped(r.members, t)
<1> DEFINE i == find_member(s, id)
           m == [s.members[i] EXCEPT !.state = SUSPECT, !.suspect_ms = t, !.last_change_ms = t]
<1>1. CASE id = s.self_id \/ ~Known(s, id) \/ s.members[i].state # ALIVE
  BY <1>1, RefusedStep DEF wake_swim_suspect_member
<1>2. CASE ~(id = s.self_id \/ ~Known(s, id) \/ s.members[i].state # ALIVE)
  <2>1. i \in DOMAIN s.members /\ s.members[i] \in Member /\ s.members[i].state = ALIVE
    BY <1>2, FindMember
  <2>2. /\ m \in Member /\ m.node_id = s.members[i].node_id
        /\ m.state = SUSPECT /\ m.suspect_ms = t /\ m.last_change_ms = t
        /\ m.incarnation = s.members[i].incarnation
    BY <2>1, WireStateAssumption DEF Member
  <2>3. r = ChangeMember(s, i, m)
    BY <1>2 DEF wake_swim_suspect_member
  <2> HIDE DEF i, m
  <2>4. (t # 0 => StampOK(m, t)) /\ Precedes(s.members[i], m)
    BY <2>1, <2>2 DEF StampOK, Precedes, state_supersedes, SUSPECT, LEFT, ALIVE
  <2> QED BY <2>1, <2>2, <2>3, <2>4, ChangeMemberStep
<1> QED BY <1>1, <1>2

LEMMA ApplyToKnownStep ==
    ASSUME NEW s, WellFormed(s, Self), Sound(s), NEW u \in Rumour, Known(s, u.node_id),
           NEW t \in Nat, Stamped(s.members, t),
           NEW r, r = apply_to_known(s, u, t)
    PROVE  Sound(r) /\ Legal(s, r) /\ Stamped(r.members, t)
<1> DEFINE i == find_member(s, u.node_id)
           old == s.members[i]
           stamp == IF u.state = SUSPECT THEN t ELSE 0
           m == [old EXCEPT !.state = u.state, !.incarnation = u.incarnation,
                            !.last_change_ms = t, !.suspect_ms = stamp]
<1>1. CASE ~state_supersedes(u.state, u.incarnation, old.state, old.incarnation)
  BY <1>1, RefusedStep DEF apply_to_known
<1>2. CASE state_supersedes(u.state, u.incarnation, old.state, old.incarnation)
  <2>1. i \in DOMAIN s.members /\ old \in Member
    BY FindMember
  <2>2. /\ m \in Member /\ m.node_id = old.node_id /\ m.state = u.state
        /\ m.incarnation = u.incarnation /\ m.suspect_ms = stamp /\ m.last_change_ms = t
    BY <2>1 DEF Member, Rumour
  <2>3. r = ChangeMember(s, i, m)
    BY <1>2 DEF apply_to_known
  <2>4. Precedes(old, m)
    <3> HIDE DEF old, m
    <3> QED BY <1>2, <2>2 DEF Precedes
  <2>5. t # 0 => StampOK(m, t)
    <3> HIDE DEF m
    <3> QED BY <2>2 DEF StampOK
  <2> HIDE DEF i, m
  <2> QED BY <2>1, <2>2, <2>3, <2>4, <2>5, ChangeMemberStep
<1> QED BY <1>1, <1>2

\* A new member is queued with the list entry it gets; writing the incarnation
\* into that entry afterwards (apply_to_unknown) only runs ahead of the queue.
LEMMA AppendStep ==
    ASSUME NEW s, WellFormed(s, Self), Sound(s), NEW id \in NodeId, add_result(s, id) = "OK",
           NEW t \in Nat, Stamped(s.members, t), NEW inc \in Incarnation,
           NEW m, m = [node_id |-> id, state |-> ALIVE, incarnation |-> 0,
                       suspect_ms |-> 0, last_change_ms |-> t],
           NEW ns, DOMAIN ns = 1..(Len(s.members) + 1),
           \A i \in DOMAIN s.members : ns[i] = s.members[i],
           ns[Len(s.members) + 1] = [m EXCEPT !.incarnation = inc]
    PROVE  /\ Agreement(queue_update(s.updates, m), ns)
           /\ OwnGossip(queue_update(s.updates, m), s.self_incarnation)
           /\ Moves(s.members, ns) /\ Keeps(s.members, ns) /\ Stamped(ns, t)
<1> DEFINE n == Len(s.members) + 1
           e == [m EXCEPT !.incarnation = inc]
<1>1. id # s.self_id /\ ~Known(s, id)
  BY DEF add_result
<1>2. /\ s.members \in Seq(Member) /\ DistinctIds(s.members) /\ s.self_id = Self
  BY DEF WellFormed, ListOK
<1>3. Len(s.members) \in Nat /\ DOMAIN s.members = 1..Len(s.members)
  BY <1>2
<1>4. \A j \in DOMAIN ns : j = n \/ j \in DOMAIN s.members
  BY <1>3
<1>5. /\ e.node_id = id /\ e.state = ALIVE /\ e.incarnation = inc
      /\ e.suspect_ms = 0 /\ e.last_change_ms = t
      /\ m.node_id = id /\ m.state = ALIVE /\ m.incarnation = 0
  OBVIOUS
<1> HIDE DEF e
<1>6. ns[n] = e
  BY DEF e
<1> HIDE DEF n
<1>7. \A i \in DOMAIN s.members : s.members[i].node_id # id
  BY <1>1 DEF Known
<1>8. 0 <= inc /\ 0 \in Incarnation
  BY UINT32Assumption DEF Incarnation
<1>9. Renews(s.members, ns, m)
  BY <1>4, <1>5, <1>6, <1>7, <1>8 DEF Renews
<1>10. /\ Agreement(queue_update(s.updates, m), ns)
       /\ OwnGossip(queue_update(s.updates, m), s.self_incarnation)
  <2>1. m.node_id # Self /\ m.incarnation \in Incarnation
    BY <1>1, <1>2, <1>5, <1>8
  <2> QED BY <2>1, <1>9, RequeueOK
<1>11. Moves(s.members, ns)
  BY <1>2, <1>4, <1>5, <1>6, <1>7 DEF Moves, Precedes, DistinctIds
<1>12. Keeps(s.members, ns)
  <2>1. \A i \in DOMAIN s.members : i \in DOMAIN ns
    BY <1>3
  <2> QED BY <2>1 DEF Keeps
<1>13. Stamped(ns, t)
  <2>1. StampOK(e, t)
    BY <1>5 DEF StampOK, ALIVE, SUSPECT
  <2> QED BY <2>1, <1>4, <1>6 DEF Stamped
<1> QED BY <1>10, <1>11, <1>12, <1>13

LEMMA AddMemberStep ==
    ASSUME NEW s, WellFormed(s, Self), Sound(s), NEW id \in NodeId,
           NEW t \in Nat, Stamped(s.members, t),
           NEW r, r = wake_swim_add_member(s, id, t)
    PROVE  Sound(r) /\ Legal(s, r) /\ Stamped(r.members, t)
<1> DEFINE m == [node_id |-> id, state |-> ALIVE, incarnation |-> 0,
                 suspect_ms |-> 0, last_change_ms |-> t]
           ns == Append(s.members, m)
<1>1. CASE add_result(s, id) # "OK"
  BY <1>1, RefusedStep DEF wake_swim_add_member
<1>2. CASE add_result(s, id) = "OK"
  <2>1. s \in SwimState /\ s.members \in Seq(Member)
    BY DEF WellFormed, ListOK
  <2>2. /\ r.members = ns /\ r.updates = queue_update(s.updates, m)
        /\ r.probe_order = << >> /\ r.self_incarnation = s.self_incarnation
    BY <1>2, <2>1 DEF wake_swim_add_member, SwimState
  <2>3. m = [m EXCEPT !.incarnation = 0] /\ 0 \in Incarnation
    BY UINT32Assumption DEF Incarnation
  <2>4. m \in Member
    BY WireStateAssumption, UINT32Assumption DEF Member, Incarnation
  <2> DEFINE w == m
  <2>5. w = m
    OBVIOUS
  <2> HIDE DEF w
  <2>6. /\ DOMAIN ns = 1..(Len(s.members) + 1) /\ ns[Len(s.members) + 1] = w
        /\ \A i \in DOMAIN s.members : ns[i] = s.members[i]
    BY <2>1, <2>4, <2>5
  <2> HIDE DEF ns
  <2>7. ns[Len(s.members) + 1] = [w EXCEPT !.incarnation = 0]
    BY <2>3, <2>5, <2>6
  <2>8. /\ Agreement(queue_update(s.updates, w), ns)
        /\ OwnGossip(queue_update(s.updates, w), s.self_incarnation)
        /\ Moves(s.members, ns) /\ Keeps(s.members, ns) /\ Stamped(ns, t)
    BY <1>2, <2>3, <2>5, <2>6, <2>7, AppendStep
  <2>9. r.updates = queue_update(s.updates, w)
    BY <2>2, <2>5
  <2> QED BY <2>2, <2>8, <2>9 DEF Sound, Legal, OrderKept
<1> QED BY <1>1, <1>2

LEMMA ApplyToUnknownStep ==
    ASSUME NEW s, WellFormed(s, Self), Sound(s), NEW u \in Rumour,
           NEW t \in Nat, Stamped(s.members, t),
           NEW r, r = apply_to_unknown(s, u, t)
    PROVE  Sound(r) /\ Legal(s, r) /\ Stamped(r.members, t)
<1> DEFINE id == u.node_id
           a == wake_swim_add_member(s, id, t)
           n == Len(s.members) + 1
           m == [node_id |-> id, state |-> ALIVE, incarnation |-> 0,
                 suspect_ms |-> 0, last_change_ms |-> t]
           ap == Append(s.members, m)
<1>1. CASE u.state # ALIVE \/ add_result(s, id) # "OK"
  BY <1>1, RefusedStep DEF apply_to_unknown
<1>2. CASE ~(u.state # ALIVE \/ add_result(s, id) # "OK")
  <2>1. s \in SwimState /\ s.members \in Seq(Member) /\ id \in NodeId /\ u.incarnation \in Incarnation
    BY DEF WellFormed, ListOK, Rumour
  <2>2. m \in Member
    BY <2>1, WireStateAssumption, UINT32Assumption DEF Member, Incarnation
  <2>3. a = [s EXCEPT !.members = ap, !.alive_count = s.alive_count + 1,
                      !.updates = queue_update(s.updates, m), !.probe_order = << >>]
    BY <1>2, <2>1 DEF wake_swim_add_member, SwimState
  <2>4. a.members = ap
    BY <2>1, <2>3 DEF SwimState
  <2>5. Len(ap) = n /\ Len(s.members) \in Nat
    BY <2>1, <2>2
  <2>6. r = [a EXCEPT !.members[n].incarnation = u.incarnation]
    BY <1>2, <2>4, <2>5 DEF apply_to_unknown
  <2> DEFINE w == m
             ns == [ap EXCEPT ![n] = [w EXCEPT !.incarnation = u.incarnation]]
  <2>7. w = m
    OBVIOUS
  <2> HIDE DEF w
  <2>8. /\ DOMAIN ap = 1..n /\ ap[n] = w /\ \A i \in DOMAIN s.members : ap[i] = s.members[i]
    BY <2>1, <2>2, <2>7
  <2> HIDE DEF a
  <2>9. r.members = [ap EXCEPT ![n].incarnation = u.incarnation] /\ r.updates = a.updates
        /\ r.probe_order = a.probe_order /\ r.self_incarnation = a.self_incarnation
    BY <2>3, <2>4, <2>6, <2>1 DEF SwimState
  <2>10. a.updates = queue_update(s.updates, w) /\ a.probe_order = << >>
         /\ a.self_incarnation = s.self_incarnation
    BY <2>3, <2>7, <2>1 DEF SwimState
  <2> HIDE DEF ap
  <2>11. n \in DOMAIN ap /\ n \notin DOMAIN s.members
    BY <2>1, <2>5, <2>8
  <2>12. r.members = ns
    BY <2>8, <2>9, <2>11
  <2>13. /\ DOMAIN ns = 1..(Len(s.members) + 1)
         /\ ns[Len(s.members) + 1] = [w EXCEPT !.incarnation = u.incarnation]
         /\ \A i \in DOMAIN s.members : ns[i] = s.members[i]
    BY <2>8, <2>11, <2>1
  <2> HIDE DEF ns
  <2>14. /\ Agreement(queue_update(s.updates, w), ns)
         /\ OwnGossip(queue_update(s.updates, w), s.self_incarnation)
         /\ Moves(s.members, ns) /\ Keeps(s.members, ns) /\ Stamped(ns, t)
    BY <1>2, <2>1, <2>7, <2>13, AppendStep
  <2> QED BY <2>9, <2>10, <2>12, <2>14 DEF Sound, Legal, OrderKept
<1> QED BY <1>1, <1>2

\* An update about this node: refuted by a queued ALIVE, or taken over.
LEMMA ApplyToSelfStep ==
    ASSUME NEW s, WellFormed(s, Self), Sound(s), NEW u \in Rumour,
           NEW t \in Nat, Stamped(s.members, t),
           NEW r, r = apply_to_self(s, u)
    PROVE  /\ Sound(r) /\ Legal(s, r) /\ Stamped(r.members, t)
           /\ u.state \in {SUSPECT, DEAD} /\ u.incarnation < UINT32_MAX =>
                \E k \in DOMAIN r.updates :
                   /\ r.updates[k].node_id = Self /\ r.updates[k].state = ALIVE
                   /\ r.updates[k].incarnation > u.incarnation
<1>1. /\ s \in SwimState /\ s.self_id = Self /\ QueueOK(s.updates)
      /\ \A j \in DOMAIN s.members : s.members[j].node_id # Self
  BY DEF WellFormed, ListOK
<1>2. u.incarnation \in Incarnation /\ s.self_incarnation \in Incarnation
  BY <1>1 DEF Rumour, SwimState
<1>3. \A k \in DOMAIN s.updates : s.updates[k].incarnation \in Incarnation
  <2>1. \A k \in DOMAIN s.updates : s.updates[k] \in Update
    BY <1>1 DEF QueueOK
  <2> QED BY <2>1 DEF Update
<1>4. CASE u.state \in {SUSPECT, DEAD}
  <2> DEFINE inc == IF u.incarnation >= s.self_incarnation
                    THEN (u.incarnation + 1) % (UINT32_MAX + 1)
                    ELSE s.self_incarnation
             m == [node_id |-> s.self_id, state |-> ALIVE, incarnation |-> inc]
             q == queue_update(s.updates, m)
  <2>1. inc \in Incarnation /\ (u.incarnation < UINT32_MAX => inc > u.incarnation)
    BY <1>2, UINT32Assumption DEF Incarnation
  <2>2. r = [s EXCEPT !.self_incarnation = inc, !.updates = q]
    BY <1>1, <1>4 DEF apply_to_self, refute, SwimState
  <2> HIDE DEF inc
  <2>3. m.node_id = Self /\ m.state = ALIVE /\ m.incarnation = inc
    BY <1>1
  <2> HIDE DEF m
  <2>4. Requeued(s.updates, q, m)
    BY <1>1, QueueUpdateEntries
  <2> HIDE DEF q
  <2>5. /\ r.members = s.members /\ r.updates = q /\ r.self_incarnation = inc
        /\ r.probe_order = s.probe_order /\ r.probe_index = s.probe_index
        /\ r.alive_count = s.alive_count
    BY <1>1, <2>2 DEF SwimState
  <2>6. inc <= inc
    BY <2>1, UINT32Assumption DEF Incarnation
  <2>7. OwnGossip(q, inc)
    BY <2>3, <2>4, <2>6 DEF Requeued, Tells, OwnGossip, OwnUpdateOK
  <2>8. Agreement(q, s.members)
    BY <1>1, <2>3, <2>4 DEF Requeued, Tells, Agreement, AgreesWith, Sound
  <2>9. Moves(s.members, r.members) /\ Keeps(s.members, r.members)
    BY <2>5, RefusedStep DEF Legal
  <2>10. PICK k \in DOMAIN q : Tells(q[k], m)
    BY <2>4 DEF Requeued
  <2> QED BY <2>1, <2>3, <2>5, <2>7, <2>8, <2>9, <2>10 DEF Sound, Legal, OrderKept, Tells
<1>5. CASE u.state \notin {SUSPECT, DEAD}
  <2> DEFINE inc == IF u.incarnation > s.self_incarnation THEN u.incarnation
                    ELSE s.self_incarnation
  <2>1. r = [s EXCEPT !.self_incarnation = inc]
    BY <1>1, <1>5 DEF apply_to_self, SwimState
  <2>2. inc \in Incarnation /\ s.self_incarnation <= inc
    BY <1>2, UINT32Assumption DEF Incarnation
  <2> HIDE DEF inc
  <2>3. /\ r.members = s.members /\ r.updates = s.updates /\ r.self_incarnation = inc
        /\ r.probe_order = s.probe_order /\ r.probe_index = s.probe_index
        /\ r.alive_count = s.alive_count
    BY <1>1, <2>1 DEF SwimState
  <2>4. OwnGossip(s.updates, inc)
    <3>1. ASSUME NEW k \in DOMAIN s.updates, s.updates[k].node_id = Self
          PROVE  s.updates[k].state = ALIVE /\ s.updates[k].incarnation <= inc
      <4>1. s.updates[k].state = ALIVE /\ s.updates[k].incarnation <= s.self_incarnation
        BY <3>1 DEF Sound, OwnGossip, OwnUpdateOK
      <4>2. s.updates[k].incarnation \in Incarnation
        BY <1>3
      <4> QED BY <4>1, <4>2, <1>2, <2>2, UINT32Assumption DEF Incarnation
    <3> QED BY <3>1 DEF OwnGossip, OwnUpdateOK
  <2>5. Moves(s.members, r.members) /\ Keeps(s.members, r.members)
    BY <2>3, RefusedStep DEF Legal
  <2> QED BY <1>5, <2>3, <2>4, <2>5 DEF Sound, Legal, OrderKept
<1> QED BY <1>4, <1>5

LEMMA ApplyUpdateStep ==
    ASSUME NEW s, WellFormed(s, Self), Sound(s), NEW u \in Rumour,
           NEW t \in Nat, Stamped(s.members, t),
           NEW r, r = wake_swim_apply_update(s, u, t)
    PROVE  Sound(r) /\ Legal(s, r) /\ Stamped(r.members, t)
<1>1. CASE u.node_id = s.self_id
  BY <1>1, ApplyToSelfStep DEF wake_swim_apply_update
<1>2. CASE u.node_id # s.self_id /\ Known(s, u.node_id)
  BY <1>2, ApplyToKnownStep DEF wake_swim_apply_update
<1>3. CASE u.node_id # s.self_id /\ ~Known(s, u.node_id)
  BY <1>3, ApplyToUnknownStep DEF wake_swim_apply_update
<1> QED BY <1>1, <1>2, <1>3

\* In the loop of check_suspects, after position i: what is queued about a member
\* whose turn is still to come is its old state, about any other the new one.
PartAgrees(p, ms, ns, X, i) ==
    \A j \in DOMAIN ns, k \in DOMAIN p :
       p[k].node_id = ns[j].node_id =>
          /\ p[k].incarnation <= ns[j].incarnation
          /\ p[k].state = IF j \in X /\ j > i THEN ms[j].state ELSE ns[j].state

LEMMA QueueAllAgrees ==
    ASSUME NEW q, QueueOK(q), NEW inc, OwnGossip(q, inc),
           NEW ms, NEW ns \in Seq(Member), NEW X, DistinctIds(ns),
           \A j \in DOMAIN ns : ns[j].node_id # Self,
           PartAgrees(q, ms, ns, X, 0)
    PROVE  Agreement(QueueAll(q, ns, X), ns) /\ OwnGossip(QueueAll(q, ns, X), inc)
<1> DEFINE G(p, i) == QueueOK(p) /\ OwnGossip(p, inc) /\ PartAgrees(p, ms, ns, X, i)
           Q == [i \in 0..Len(ns) |-> {p \in Seq(Update) : G(p, i)}]
<1>1. Len(ns) \in Nat /\ DOMAIN ns = 1..Len(ns)
  OBVIOUS
<1>2. ASSUME NEW p, NEW i \in 1..Len(ns), G(p, i - 1)
      PROVE  G(IF i \in X THEN queue_update(p, ns[i]) ELSE p, i)
  <2>1. ns[i] \in Member
    BY <1>1
  <2>2. ns[i].node_id \in NodeId /\ ns[i].state \in WireState /\ ns[i].incarnation \in Incarnation
    BY <2>1 DEF Member
  <2>3. CASE i \in X
    <3> DEFINE r == queue_update(p, ns[i])
    <3>1. QueueOK(r)
      BY <1>2, <2>2, QueueUpdateOK
    <3>2. Requeued(p, r, ns[i])
      BY <1>2, QueueUpdateEntries
    <3> HIDE DEF r
    <3>3. OwnGossip(r, inc)
      BY <1>1, <1>2, <3>2 DEF Requeued, Tells, OwnGossip, OwnUpdateOK
    <3>4. ASSUME NEW j \in DOMAIN ns, NEW k \in DOMAIN r, r[k].node_id = ns[j].node_id
          PROVE  /\ r[k].incarnation <= ns[j].incarnation
                 /\ r[k].state = IF j \in X /\ j > i THEN ms[j].state ELSE ns[j].state
      <4>1. CASE Tells(r[k], ns[i])
        <5>1. j = i
          BY <1>1, <3>4, <4>1 DEF Tells, DistinctIds
        <5>2. ns[i].incarnation <= ns[i].incarnation /\ ~ (i > i)
          BY <2>2, UINT32Assumption DEF Incarnation
        <5> QED BY <4>1, <5>1, <5>2 DEF Tells
      <4>2. CASE ~ Tells(r[k], ns[i])
        <5>1. PICK l \in DOMAIN p : r[k] = p[l] /\ p[l].node_id # ns[i].node_id
          BY <3>2, <4>2 DEF Requeued
        <5>2. j # i
          BY <3>4, <5>1
        <5>3. j > i - 1 <=> j > i
          BY <1>1, <5>2
        <5>4. /\ p[l].incarnation <= ns[j].incarnation
              /\ p[l].state = IF j \in X /\ j > i - 1 THEN ms[j].state ELSE ns[j].state
          BY <1>2, <3>4, <5>1 DEF PartAgrees
        <5> QED BY <5>1, <5>3, <5>4
      <4> QED BY <4>1, <4>2
    <3> QED BY <2>3, <3>1, <3>3, <3>4 DEF PartAgrees, r
  <2>4. CASE i \notin X
    <3>1. ASSUME NEW j \in DOMAIN ns PROVE (j \in X /\ j > i - 1) <=> (j \in X /\ j > i)
      <4>1. j \in X => j # i
        BY <2>4
      <4> QED BY <4>1, <1>1
    <3> QED BY <1>2, <2>4, <3>1 DEF PartAgrees
  <2> QED BY <2>3, <2>4
<1>3. \A p : G(p, 0) => p \in Q[0]
  BY <1>1 DEF QueueOK
<1>4. \A i \in 1..Len(ns) : \A p \in Q[i - 1] :
        (IF i \in X THEN queue_update(p, ns[i]) ELSE p) \in Q[i]
  <2> SUFFICES ASSUME NEW i \in 1..Len(ns), NEW p \in Q[i - 1]
               PROVE  (IF i \in X THEN queue_update(p, ns[i]) ELSE p) \in Q[i]
    OBVIOUS
  <2>1. i \in 0..Len(ns) /\ i - 1 \in 0..Len(ns)
    BY <1>1
  <2> DEFINE r == IF i \in X THEN queue_update(p, ns[i]) ELSE p
  <2>2. G(p, i - 1)
    BY <2>1
  <2>3. G(r, i)
    BY <2>2, <1>2
  <2>4. r \in Seq(Update)
    BY <2>3 DEF QueueOK
  <2> HIDE DEF r
  <2> QED BY <2>1, <2>3, <2>4 DEF r
<1>5. q \in Q[0]
  BY <1>3
<1>6. \A p \in Q[Len(ns)] : G(p, Len(ns))
  BY <1>1
<1> DEFINE z == QueueAll(q, ns, X)
<1>7. z \in Q[Len(ns)]
  <2> HIDE DEF Q
  <2> QED BY <1>1, <1>4, <1>5, QueueAllInduction
<1>8. G(z, Len(ns))
  BY <1>6, <1>7
<1> HIDE DEF z
<1>9. \A j \in DOMAIN ns : ~ (j > Len(ns))
  BY <1>1
<1>10. Agreement(z, ns)
  BY <1>8, <1>9 DEF PartAgrees, Agreement, AgreesWith
<1> QED BY <1>8, <1>10 DEF z

LEMMA CheckSuspectsStep ==
    ASSUME NEW s, WellFormed(s, Self), Sound(s), NEW t \in Nat, Stamped(s.members, t),
           NEW r, r = wake_swim_check_suspects(s, t)
    PROVE  Sound(r) /\ Legal(s, r) /\ Stamped(r.members, t)
<1> DEFINE X == Expired(s, t)
           ms == s.members
           ns == [i \in DOMAIN s.members |->
                     IF i \in X THEN Kill(s.members[i], t) ELSE s.members[i]]
           q == QueueAll(s.updates, ns, X)
<1>1. CASE X = {}
  BY <1>1, RefusedStep DEF wake_swim_check_suspects
<1>2. CASE X # {}
  <2>1. /\ s \in SwimState /\ ms \in Seq(Member) /\ QueueOK(s.updates) /\ DistinctIds(ms)
        /\ \A i \in DOMAIN ms : ms[i].node_id # Self
    BY DEF WellFormed, ListOK
  <2>2. Len(ms) \in Nat /\ DOMAIN ms = 1..Len(ms) /\ \A i \in DOMAIN ms : ms[i] \in Member
    BY <2>1
  <2>3. ASSUME NEW i \in DOMAIN ms
        PROVE  /\ Kill(ms[i], t) \in Member /\ Kill(ms[i], t).node_id = ms[i].node_id
               /\ Kill(ms[i], t).state = DEAD /\ Kill(ms[i], t).suspect_ms = 0
               /\ Kill(ms[i], t).last_change_ms = t
               /\ Kill(ms[i], t).incarnation = ms[i].incarnation
    <3>1. ms[i] \in Member
      BY <2>2
    <3> QED BY <3>1, WireStateAssumption DEF Kill, Member
  <2>4. /\ r.members = ns /\ r.updates = q /\ r.probe_order = << >>
        /\ r.self_incarnation = s.self_incarnation
    BY <1>2, <2>1 DEF wake_swim_check_suspects, SwimState
  <2>5. \A i \in X : ms[i].state = SUSPECT
    BY DEF Expired
  <2> HIDE DEF X
  <2>6. /\ DOMAIN ns = DOMAIN ms
        /\ \A i \in DOMAIN ms : ns[i] = IF i \in X THEN Kill(ms[i], t) ELSE ms[i]
        /\ ns \in [1..Len(ms) -> Member]
    BY <2>2, <2>3
  <2> HIDE DEF ns
  <2>7. ns \in Seq(Member)
    BY <2>2, <2>6, FcnIsSeq
  <2>8. \A i \in DOMAIN ms : ns[i].node_id = ms[i].node_id /\ ns[i].incarnation = ms[i].incarnation
    BY <2>3, <2>6
  <2>9. DistinctIds(ns) /\ \A i \in DOMAIN ns : ns[i].node_id # Self
    BY <2>1, <2>6, <2>8 DEF DistinctIds
  <2>10. PartAgrees(s.updates, ms, ns, X, 0)
    <3>1. \A j \in DOMAIN ms : j > 0
      BY <2>2
    <3>2. \A j \in DOMAIN ms : j \notin X => ns[j].state = ms[j].state
      BY <2>6
    <3> HIDE DEF ms
    <3>3. Agreement(s.updates, ms)
      BY DEF Sound, ms
    <3> QED BY <3>1, <3>2, <3>3, <2>6, <2>8 DEF PartAgrees, Agreement, AgreesWith
  <2>11. Agreement(q, ns) /\ OwnGossip(q, s.self_incarnation)
    <3>1. OwnGossip(s.updates, s.self_incarnation)
      BY DEF Sound
    <3> HIDE DEF ms
    <3> QED BY <3>1, <2>1, <2>7, <2>9, <2>10, QueueAllAgrees
  <2>12. Moves(ms, ns)
    <3>1. ASSUME NEW i \in DOMAIN ms PROVE Precedes(ms[i], ns[i])
      <4>1. CASE i \in X
        <5>1. ns[i].state = DEAD /\ ms[i].state = SUSPECT
          BY <4>1, <2>3, <2>5, <2>6
        <5> QED BY <5>1, <2>8 DEF Precedes, state_supersedes, DEAD, SUSPECT, LEFT
      <4>2. CASE i \notin X
        BY <4>2, <2>6 DEF Precedes
      <4> QED BY <4>1, <4>2
    <3> QED BY <3>1, <2>1, <2>6, <2>8 DEF Moves, DistinctIds
  <2>13. Keeps(ms, ns)
    BY <2>6, <2>8 DEF Keeps
  <2>14. Stamped(ns, t)
    <3>1. ASSUME NEW i \in DOMAIN ms, StartTime # 0, t # 0 PROVE StampOK(ns[i], t)
      <4>1. CASE i \in X
        <5>1. ns[i].state = DEAD /\ ns[i].suspect_ms = 0 /\ ns[i].last_change_ms = t
          BY <4>1, <2>3, <2>6
        <5> QED BY <5>1 DEF StampOK, DEAD, SUSPECT
      <4>2. CASE i \notin X
        BY <3>1, <4>2, <2>6 DEF Stamped
      <4> QED BY <4>1, <4>2
    <3> QED BY <3>1, <2>6 DEF Stamped
  <2> QED BY <2>4, <2>11, <2>12, <2>13, <2>14 DEF Sound, Legal, OrderKept
<1> QED BY <1>1, <1>2

\* Every kept position is the k-th of some k.
LEMMA NthOnto ==
    ASSUME NEW n \in Nat, NEW K \in SUBSET (1..n), NEW i \in K
    PROVE  \E k \in 1..Cardinality(K) : Nth(K, k) = i
<1> DEFINE c == Cardinality(K)
           f == [k \in 1..c |-> Nth(K, k)]
<1>1. IsFiniteSet(K) /\ c \in Nat
  BY FinitePositions
<1>2. IsFiniteSet(1..c) /\ Cardinality(1..c) = c
  BY <1>1, FS_Interval
<1>3. /\ \A k \in 1..c : Nth(K, k) \in K
      /\ \A k, l \in 1..c : Nth(K, k) = Nth(K, l) => k = l
  BY NthRank
<1>4. f \in [1..c -> K] /\ \A k, l \in 1..c : f[k] = f[l] => k = l
  BY <1>3
<1> HIDE DEF f
<1>5. f \in Injection(1..c, K)
  BY <1>4 DEF Injection, IsInjective
<1>6. f \in Surjection(1..c, K)
  BY <1>1, <1>2, <1>5, FS_Injection
<1>7. PICK k \in 1..c : f[k] = i
  BY <1>6 DEF Surjection
<1> QED BY <1>7 DEF f

LEMMA ReapStep ==
    ASSUME NEW s, WellFormed(s, Self), Sound(s), NEW t \in Nat, Stamped(s.members, t),
           NEW ret \in Nat, NEW r, r = wake_swim_reap(s, t, ret)
    PROVE  Sound(r) /\ Legal(s, r) /\ Stamped(r.members, t)
<1> DEFINE R == Reapable(s, t, ret)
           K == DOMAIN s.members \ R
           ms == s.members
           ns == Compact(s.members, K)
<1>1. CASE R = {}
  BY <1>1, RefusedStep DEF wake_swim_reap
<1>2. CASE R # {}
  <2>1. s \in SwimState /\ ms \in Seq(Member) /\ DistinctIds(ms)
    BY DEF WellFormed, ListOK
  <2>2. /\ r.members = ns /\ r.updates = s.updates /\ r.probe_order = << >>
        /\ r.self_incarnation = s.self_incarnation
    BY <1>2, <2>1 DEF wake_swim_reap, SwimState
  <2>3. K \in SUBSET (DOMAIN ms) /\ K \in SUBSET (1..Len(ms)) /\ Len(ms) \in Nat
    BY <2>1
  <2>4. \A i \in DOMAIN ms : i \notin K => ms[i].state \in {DEAD, LEFT}
    BY DEF Reapable
  <2> HIDE DEF K, R
  <2>5. /\ DOMAIN ns = 1..Cardinality(K)
        /\ \A k \in 1..Cardinality(K) : Nth(K, k) \in K /\ ns[k] = ms[Nth(K, k)]
    BY <2>1, <2>3, CompactKeeps
  <2> HIDE DEF ns, ms
  <2>6. \A k \in DOMAIN ns : \E i \in DOMAIN ms : ns[k] = ms[i]
    BY <2>3, <2>5
  <2>7. Agreement(s.updates, ms) /\ Stamped(ms, t)
    BY DEF Sound, ms
  <2>8. Agreement(s.updates, ns) /\ Stamped(ns, t)
    BY <2>6, <2>7 DEF Agreement, Stamped
  <2>9. Moves(ms, ns)
    BY <2>1, <2>6 DEF Moves, Precedes, DistinctIds
  <2>10. Keeps(ms, ns)
    <3>1. ASSUME NEW i \in DOMAIN ms, ms[i].state \notin {DEAD, LEFT}
          PROVE  \E k \in DOMAIN ns : ns[k].node_id = ms[i].node_id
      <4>1. i \in K
        BY <2>4, <3>1
      <4>2. PICK k \in 1..Cardinality(K) : Nth(K, k) = i
        BY <2>3, <4>1, NthOnto
      <4> QED BY <2>5, <4>2
    <3> QED BY <3>1 DEF Keeps
  <2> QED BY <2>2, <2>8, <2>9, <2>10 DEF Sound, Legal, OrderKept, ms
<1> QED BY <1>1, <1>2

LEMMA GetUpdatesStep ==
    ASSUME NEW s, WellFormed(s, Self), Sound(s), NEW t \in Nat, Stamped(s.members, t),
           NEW max \in Nat, NEW r, r = wake_swim_get_updates(s, max)
    PROVE  Sound(r) /\ Legal(s, r) /\ Stamped(r.members, t)
<1> DEFINE P == Picked(s, max)
           p == s.updates
           q == [i \in DOMAIN s.updates |->
                    IF i \in P THEN [s.updates[i] EXCEPT !.piggyback_count = @ + 1]
                    ELSE s.updates[i]]
           K == {i \in DOMAIN q : q[i].piggyback_count < PiggybackLimit(s)}
           c == Compact(q, K)
<1>1. CASE max = 0
  BY <1>1, RefusedStep DEF wake_swim_get_updates
<1>2. CASE max # 0
  <2>1. s \in SwimState /\ p \in Seq(Update) /\ Len(p) \in Nat /\ DOMAIN p = 1..Len(p)
    BY DEF WellFormed, QueueOK
  <2>2. /\ r.updates = c /\ r.members = s.members /\ r.self_incarnation = s.self_incarnation
        /\ r.probe_order = s.probe_order /\ r.probe_index = s.probe_index
        /\ r.alive_count = s.alive_count
    BY <1>2, <2>1 DEF wake_swim_get_updates, SwimState
  <2>3. ASSUME NEW i \in DOMAIN p
        PROVE  LET u == [p[i] EXCEPT !.piggyback_count = @ + 1]
               IN  u \in Update /\ Tells(u, p[i])
    <3>1. p[i] \in Update
      BY <2>1
    <3> QED BY <3>1 DEF Update, Tells
  <2> HIDE DEF P
  <2>4. \A i \in DOMAIN p : Tells(p[i], p[i])
    BY DEF Tells
  <2>5. /\ q \in [1..Len(p) -> Update] /\ DOMAIN q = DOMAIN p
        /\ \A i \in DOMAIN q : Tells(q[i], p[i])
    BY <2>1, <2>3, <2>4
  <2>6. K \in SUBSET (DOMAIN q)
    OBVIOUS
  <2> HIDE DEF q, K
  <2>7. q \in Seq(Update)
    BY <2>1, <2>5, FcnIsSeq
  <2>8. /\ DOMAIN c = 1..Cardinality(K)
        /\ \A k \in 1..Cardinality(K) : Nth(K, k) \in K /\ c[k] = q[Nth(K, k)]
    BY <2>6, <2>7, CompactKeeps
  <2> HIDE DEF c, p
  <2>9. \A k \in DOMAIN c : \E i \in DOMAIN p : Tells(c[k], p[i])
    BY <2>5, <2>6, <2>8
  <2>10. Agreement(p, s.members) /\ OwnGossip(p, s.self_incarnation)
    BY DEF Sound, p
  <2>11. Agreement(c, s.members)
    BY <2>9, <2>10 DEF Agreement, AgreesWith, Tells
  <2>12. OwnGossip(c, s.self_incarnation)
    BY <2>9, <2>10 DEF OwnGossip, OwnUpdateOK, Tells
  <2>13. Moves(s.members, r.members) /\ Keeps(s.members, r.members)
    BY <2>2, RefusedStep DEF Legal
  <2> QED BY <2>2, <2>11, <2>12, <2>13 DEF Sound, Legal, OrderKept
<1> QED BY <1>1, <1>2

LEMMA ReportHealthStep ==
    ASSUME NEW s, WellFormed(s, Self), Sound(s), NEW t \in Nat, Stamped(s.members, t),
           NEW d \in Int, NEW r, r = wake_swim_report_health(s, d)
    PROVE  Sound(r) /\ Legal(s, r) /\ Stamped(r.members, t)
<1>1. s \in SwimState
  BY DEF WellFormed
<1>2. /\ r.updates = s.updates /\ r.members = s.members
      /\ r.self_incarnation = s.self_incarnation
      /\ r.probe_order = s.probe_order /\ r.probe_index = s.probe_index
      /\ r.alive_count = s.alive_count
  BY <1>1 DEF wake_swim_report_health, SwimState
<1> QED BY <1>2, SameOK DEF Legal, OrderKept, Stamped

LEMMA ResetStep ==
    ASSUME NEW s, WellFormed(s, Self), NEW r, r = wake_swim_reset(s)
    PROVE  /\ Sound(r) /\ \A t : Stamped(r.members, t)
           /\ Moves(s.members, r.members) /\ r.probe_order = << >>
<1>1. r.members = << >> /\ r.updates = << >> /\ r.probe_order = << >>
  BY DEF wake_swim_reset, wake_swim_create
<1> QED BY <1>1 DEF Sound, Stamped, Moves, Agreement, OwnGossip

\* What next_probe does: nothing without a member to probe; otherwise it moves on
\* to the next entry of the order in force, or to the first of a new order.
LEMMA ProbeOutcome ==
    ASSUME NEW s, WellFormed(s, Self), NEW r \in wake_swim_next_probe(s)
    PROVE  /\ r.st.members = s.members /\ r.st.updates = s.updates
           /\ r.st.self_incarnation = s.self_incarnation
           /\ r.st.alive_count = s.alive_count
           /\ s.alive_count = 0 => r.st = s /\ r.target = NULL
           /\ s.alive_count # 0 =>
                /\ r.st.probe_index \in 1..Len(r.st.probe_order)
                /\ r.target = r.st.probe_order[r.st.probe_index]
                /\ \/ r.st.probe_order = s.probe_order /\ r.st.probe_index = s.probe_index + 1
                   \/ /\ s.probe_order = << >> \/ ~ (s.probe_index < Len(s.probe_order))
                      /\ r.st.probe_index = 1
<1>1. s \in SwimState
  BY DEF WellFormed
<1>2. ASSUME NEW b, WellFormed(b, Self), b.probe_order # << >>, b.probe_index < Len(b.probe_order),
             r \in scan_probe_order(b)
      PROVE  /\ r.st.members = b.members /\ r.st.updates = b.updates
             /\ r.st.self_incarnation = b.self_incarnation
             /\ r.st.alive_count = b.alive_count
             /\ r.st.probe_order = b.probe_order /\ r.st.probe_index = b.probe_index + 1
             /\ r.st.probe_index \in 1..Len(b.probe_order)
             /\ r.target = r.st.probe_order[r.st.probe_index]
  <2>1. b \in SwimState
    BY <1>2 DEF WellFormed
  <2>2. b.probe_index \in Nat /\ Len(b.probe_order) \in Nat
    BY <2>1 DEF SwimState
  <2>3. /\ b.probe_index + 1 \in ValidFrom(b) /\ ValidFrom(b) \in SUBSET (1..Len(b.probe_order))
        /\ Min(ValidFrom(b)) \in ValidFrom(b)
    BY <1>2, NoStaleEntry
  <2> DEFINE V == ValidFrom(b)
             j == Min(V)
  <2>4. \A x \in V : x > b.probe_index
    BY DEF ValidFrom
  <2>5. \A y \in V : j <= y
    <3>1. V \in SUBSET Nat /\ V # {}
      BY <2>2, <2>3
    <3> HIDE DEF V
    <3>2. \E x \in V : \A y \in V : x <= y
      BY <3>1, LeastNat
    <3> QED BY <3>2 DEF Min
  <2>6. j = b.probe_index + 1
    <3> HIDE DEF j
    <3>1. j \in 1..Len(b.probe_order) /\ j > b.probe_index /\ j <= b.probe_index + 1
      BY <2>3, <2>4, <2>5 DEF j
    <3> QED BY <3>1, <2>2
  <2>7. r = [st |-> [b EXCEPT !.probe_index = j], target |-> b.probe_order[j]]
    BY <1>2, <2>3 DEF scan_probe_order
  <2> HIDE DEF j
  <2>8. r.st = [b EXCEPT !.probe_index = j] /\ r.target = b.probe_order[j]
    BY <2>7
  <2>9. /\ r.st.members = b.members /\ r.st.updates = b.updates
        /\ r.st.self_incarnation = b.self_incarnation /\ r.st.alive_count = b.alive_count
        /\ r.st.probe_order = b.probe_order /\ r.st.probe_index = j
    BY <2>1, <2>8 DEF SwimState
  <2>10. j \in 1..Len(b.probe_order)
    BY <2>2, <2>6, <1>2
  <2> QED BY <2>6, <2>8, <2>9, <2>10
<1>3. CASE s.alive_count = 0
  BY <1>3 DEF wake_swim_next_probe
<1>4. CASE s.alive_count # 0 /\ s.probe_order # << >> /\ s.probe_index < Len(s.probe_order)
  <2>1. r \in scan_probe_order(s)
    BY <1>4 DEF wake_swim_next_probe
  <2> QED BY <1>2, <1>4, <2>1
<1>5. CASE s.alive_count # 0 /\ ~(s.probe_order # << >> /\ s.probe_index < Len(s.probe_order))
  <2>1. PICK b \in rebuild_probe_order(s) :
            r \in IF b.probe_order = << >> THEN {[st |-> b, target |-> NULL]}
                  ELSE scan_probe_order(count_round(b))
    BY <1>5 DEF wake_swim_next_probe
  <2>2. /\ WellFormed(b, Self) /\ b.probe_index = 0 /\ Len(b.probe_order) = s.alive_count
        /\ b.members = s.members
    BY RebuildOK
  <2>3. s.alive_count \in Nat
    BY <1>1 DEF SwimState
  <2>4. b.probe_order # << >> /\ b.probe_index < Len(b.probe_order)
    <3>1. Len(b.probe_order) > 0
      BY <1>5, <2>2, <2>3
    <3> QED BY <2>2, <3>1
  <2>5. count_round(b) = b
    BY <2>2, <2>4, <2>3, <1>5 DEF count_round
  <2>6. r \in scan_probe_order(b)
    BY <2>1, <2>4, <2>5
  <2>7. /\ b.updates = s.updates /\ b.self_incarnation = s.self_incarnation
        /\ b.alive_count = s.alive_count
    BY <1>1 DEF rebuild_probe_order, SwimState
  <2> QED BY <1>2, <1>5, <2>2, <2>4, <2>6, <2>7
<1> QED BY <1>3, <1>4, <1>5

LEMMA NextProbeStep ==
    ASSUME NEW s, WellFormed(s, Self), Sound(s), NEW t \in Nat, Stamped(s.members, t),
           NEW r \in wake_swim_next_probe(s)
    PROVE  /\ Sound(r.st) /\ Stamped(r.st.members, t)
           /\ Moves(s.members, r.st.members) /\ Keeps(s.members, r.st.members)
<1>1. /\ r.st.members = s.members /\ r.st.updates = s.updates
      /\ r.st.self_incarnation = s.self_incarnation
  BY ProbeOutcome
<1> QED BY <1>1, SameOK DEF Stamped

-----------------------------------------------------------------------------
(* The specification.                                                      *)

\* The inductive invariant.
SInv == /\ IInv /\ Sound(sw)
        /\ Stamped(sw.members, now)
        /\ StartTime # 0 => now # 0

\* Time passes: stamps stay in the past.
LEMMA LaterStamped ==
    ASSUME NEW ms \in Seq(Member), NEW t \in Nat, StartTime # 0 => t # 0, Stamped(ms, t)
    PROVE  Stamped(ms, t + 1)
<1>1. ASSUME NEW i \in DOMAIN ms, StartTime # 0 PROVE StampOK(ms[i], t + 1)
  <2>1. ms[i] \in Member
    OBVIOUS
  <2>2. ms[i].suspect_ms \in Nat /\ ms[i].last_change_ms \in Nat
    BY <2>1 DEF Member
  <2>3. StampOK(ms[i], t)
    BY <1>1 DEF Stamped
  <2> QED BY <2>2, <2>3 DEF StampOK
<1> QED BY <1>1 DEF Stamped

\* The clauses of the invariant, for a call that leaves the clock alone.
LEMMA CallKeeps ==
    ASSUME SInv, IInv', now' = now, Sound(sw'), Stamped(sw'.members, now)
    PROVE  SInv'
  BY DEF SInv

LEMMA SInvInit == Init => SInv
<1> SUFFICES ASSUME Init PROVE SInv
  OBVIOUS
<1>1. sw.members = << >> /\ sw.updates = << >>
  BY DEF Init, wake_swim_create
<1>2. Sound(sw) /\ Stamped(sw.members, now)
  BY <1>1 DEF Sound, Stamped, Agreement, OwnGossip
<1> QED BY <1>2, IInvInit DEF SInv, Init

\* Besides reset, every call is a legal move of the list.
StepOK == /\ Moves(sw.members, sw'.members)
          /\ Keeps(sw.members, sw'.members) \/ sw' = wake_swim_reset(sw)

LEMMA SInvTick ==
    ASSUME SInv, Tick, IInv' PROVE SInv' /\ StepOK /\ OrderKept(sw, sw')
<1>1. now \in Nat /\ WellFormed(sw, Self) /\ now' = now + 1 /\ sw' = sw
  BY DEF SInv, IInv, Tick
<1>2. sw.members \in Seq(Member)
  BY <1>1 DEF WellFormed, ListOK
<1>3. (StartTime # 0 => now' # 0) /\ Stamped(sw'.members, now')
  BY <1>1, <1>2, LaterStamped DEF SInv
<1>4. Moves(sw.members, sw'.members) /\ Keeps(sw.members, sw'.members)
  BY <1>1, RefusedStep DEF SInv, Legal
<1> QED BY <1>1, <1>3, <1>4 DEF SInv, StepOK, OrderKept

\* Every call but next_probe: the invariant, a legal move, and a probe order that
\* is in force only with the list it was drawn from.
LEMMA UpkeepStep ==
    ASSUME SInv, Upkeep, IInv' PROVE SInv' /\ StepOK /\ OrderKept(sw, sw')
<1> DEFINE L == Sound(sw') /\ Legal(sw, sw') /\ now' = now /\ Stamped(sw'.members, now)
<1>1. WellFormed(sw, Self) /\ Sound(sw) /\ now \in Nat /\ Stamped(sw.members, now)
  BY DEF SInv, IInv
<1>2. ASSUME L PROVE SInv' /\ StepOK /\ OrderKept(sw, sw')
  BY <1>2, CallKeeps DEF StepOK, Legal
<1>3. CASE Tick
  BY <1>3, SInvTick
<1>4. CASE Reset
  <2>1. /\ Sound(sw') /\ Stamped(sw'.members, now) /\ now' = now
        /\ Moves(sw.members, sw'.members) /\ sw'.probe_order = << >>
    BY <1>1, <1>4, ResetStep DEF Reset
  <2>2. sw' = wake_swim_reset(sw)
    BY <1>4 DEF Reset
  <2>3. SInv'
    BY <2>1, CallKeeps
  <2> QED BY <2>1, <2>2, <2>3 DEF StepOK, OrderKept
<1> SUFFICES ASSUME ~ Tick, ~ Reset PROVE L
  BY <1>2, <1>3, <1>4
<1>5. ASSUME NEW id \in NodeId, AddMember(id) PROVE L
  BY <1>5, <1>1, AddMemberStep DEF AddMember
<1>6. ASSUME NEW id \in NodeId, RemoveMember(id) PROVE L
  BY <1>6, <1>1, RemoveMemberStep DEF RemoveMember
<1>7. ASSUME NEW u \in Rumour, ApplyUpdate(u) PROVE L
  BY <1>7, <1>1, ApplyUpdateStep DEF ApplyUpdate
<1>8. ASSUME NEW id \in NodeId, SuspectMember(id) PROVE L
  BY <1>8, <1>1, SuspectMemberStep DEF SuspectMember
<1>9. CASE CheckSuspects
  BY <1>9, <1>1, CheckSuspectsStep DEF CheckSuspects
<1>10. ASSUME NEW ret \in Retention, Reap(ret) PROVE L
  BY <1>10, <1>1, ReapStep, RetentionAssumption DEF Reap
<1>11. ASSUME NEW max \in Batch, GetUpdates(max) PROVE L
  BY <1>11, <1>1, GetUpdatesStep, BatchAssumption DEF GetUpdates
<1>12. ASSUME NEW d \in HealthDelta, ReportHealth(d) PROVE L
  BY <1>12, <1>1, ReportHealthStep, HealthDeltaAssumption DEF ReportHealth
<1> QED BY <1>5, <1>6, <1>7, <1>8, <1>9, <1>10, <1>11, <1>12 DEF Upkeep

LEMMA SInvStep == SInv /\ [Next]_vars => SInv' /\ StepOK
<1> SUFFICES ASSUME SInv, [Next]_vars PROVE SInv' /\ StepOK
  OBVIOUS
<1>1. IInv' /\ WellFormed(sw, Self) /\ Sound(sw) /\ now \in Nat /\ Stamped(sw.members, now)
  BY IInvStep DEF SInv, IInv
<1>2. CASE Upkeep
  BY <1>1, <1>2, UpkeepStep
<1>3. CASE NextProbe
  <2>1. PICK r \in wake_swim_next_probe(sw) : sw' = r.st
    BY <1>3 DEF NextProbe
  <2>2. /\ Sound(sw') /\ Stamped(sw'.members, now)
        /\ Moves(sw.members, sw'.members) /\ Keeps(sw.members, sw'.members)
    BY <1>1, <2>1, NextProbeStep
  <2>3. now' = now
    BY <1>3 DEF NextProbe
  <2> QED BY <1>1, <2>2, <2>3, CallKeeps DEF StepOK
<1>4. CASE UNCHANGED vars
  <2>1. sw' = sw /\ now' = now
    BY <1>4 DEF vars
  <2>2. Moves(sw.members, sw.members) /\ Keeps(sw.members, sw.members)
    BY <1>1, RefusedStep DEF Legal
  <2> QED BY <1>1, <2>1, <2>2, CallKeeps DEF StepOK
<1> QED BY <1>2, <1>3, <1>4 DEF Next

LEMMA SInvAlways == Spec => []SInv
BY SInvInit, SInvStep, PTL DEF Spec

\* On a clock that does not start at 0 (whose stamp would read "not suspect"),
\* suspect_ms is set exactly while a member is SUSPECT, by apply_update, by
\* suspect_member and by nothing else, and no stamp lies in the future.
THEOREM SuspicionTimedCorrect == StartTime # 0 => (Spec => []SuspicionTimed)
<1> SUFFICES ASSUME StartTime # 0 PROVE Spec => []SuspicionTimed
  OBVIOUS
<1>1. SInv => SuspicionTimed
  BY DEF SInv, Stamped, StampOK, SuspicionTimed
<1> QED BY SInvAlways, <1>1, PTL

\* What get_updates may hand to a peer never contradicts the member list, through
\* every replacement, eviction and expiry of queue entries, nor this node's own
\* incarnation, also when the refutation's uint32_t increment wraps.
THEOREM QueueAgreesCorrect == Spec => []QueueAgrees
<1>1. SInv => QueueAgrees
  <2> SUFFICES ASSUME SInv, NEW k \in DOMAIN sw.updates
               PROVE  /\ \A i \in DOMAIN sw.members : AgreesWith(sw.updates[k], sw.members[i])
                      /\ OwnUpdateOK(sw.updates[k], sw.self_incarnation)
    BY DEF QueueAgrees, AgreesWith, OwnUpdateOK
  <2> QED BY DEF SInv, Sound, Agreement, OwnGossip
<1> QED BY SInvAlways, <1>1, PTL

\* The timeout, saturated to a uint32_t, is a number.
LEMMA TimeoutNat ==
    ASSUME NEW s, WellFormed(s, Self) PROVE wake_swim_suspect_timeout(s) \in Nat
<1>1. s \in SwimState
  BY DEF WellFormed
<1>2. s.alive_count \in Nat /\ s.health_score \in Nat
  BY <1>1, HealthMaxAssumption DEF SwimState
<1>3. ASSUME NEW n \in Nat PROVE ilog2(n) \in Nat
  <2> DEFINE K == {k \in 1..n : 2^k <= n}
  <2>1. K \in SUBSET (1..n)
    OBVIOUS
  <2> HIDE DEF K
  <2>2. Cardinality(K) \in Nat
    BY <2>1, FinitePositions
  <2> QED BY <2>2 DEF ilog2, K
<1>4. GroupSize(s) \in Nat
  BY <1>2 DEF GroupSize
<1> DEFINE l == IF ilog2(GroupSize(s)) = 0 THEN 1 ELSE ilog2(GroupSize(s))
           b == IF SuspectTimeoutMs # 0 THEN SuspectTimeoutMs
                ELSE Saturate(SuspicionMult * l * ProtocolPeriodMs)
<1>5. l \in Nat
  BY <1>3, <1>4
<1>6. ASSUME NEW n \in Nat PROVE Saturate(n) \in Nat
  BY UINT32Assumption DEF Saturate
<1>7. ASSUME NEW a \in Nat, NEW c \in Nat PROVE a * c \in Nat
  OBVIOUS
<1> HIDE DEF l
<1>8. b \in Nat
  <2>1. SuspicionMult \in Nat /\ ProtocolPeriodMs \in Nat /\ SuspectTimeoutMs \in Nat
    BY SuspicionMultAssumption, ProtocolPeriodAssumption, SuspectTimeoutAssumption, UINT32Assumption
  <2>2. SuspicionMult * l \in Nat
    BY <2>1, <1>5, <1>7
  <2>3. SuspicionMult * l * ProtocolPeriodMs \in Nat
    BY <2>1, <2>2, <1>7
  <2>4. Saturate(SuspicionMult * l * ProtocolPeriodMs) \in Nat
    BY <2>3, <1>6
  <2> QED BY <2>1, <2>4
<1> HIDE DEF b
<1>9. b * (1 + s.health_score) \in Nat
  BY <1>2, <1>7, <1>8
<1>10. wake_swim_suspect_timeout(s) = Saturate(b * (1 + s.health_score))
  BY DEF wake_swim_suspect_timeout, b, l
<1> QED BY <1>6, <1>9, <1>10

\* check_suspects at any moment of any run leaves no suspicion that is as old as
\* the timeout it read: the stamp it compares is the member's last change.
THEOREM ExpiryCorrect == StartTime # 0 => (Spec => []ExpiryComplete)
<1> SUFFICES ASSUME StartTime # 0 PROVE Spec => []ExpiryComplete
  OBVIOUS
<1>1. ASSUME SInv PROVE ExpiryComplete
  <2> DEFINE X == Expired(sw, now)
             ms == sw.members
             to == wake_swim_suspect_timeout(sw)
             t  == wake_swim_check_suspects(sw, now)
  <2>1. /\ WellFormed(sw, Self) /\ sw \in SwimState /\ now \in Nat /\ now # 0
        /\ ms \in Seq(Member) /\ Stamped(ms, now)
    BY <1>1 DEF SInv, IInv, WellFormed, ListOK
  <2>2. to \in Nat
    BY <2>1, TimeoutNat
  <2>3. DOMAIN t.members = DOMAIN ms
        /\ \A i \in DOMAIN ms : t.members[i] = IF i \in X THEN Kill(ms[i], now) ELSE ms[i]
    <3>1. CASE X = {}
      BY <3>1 DEF wake_swim_check_suspects
    <3>2. CASE X # {}
      <4>1. t.members = [i \in DOMAIN ms |-> IF i \in X THEN Kill(ms[i], now) ELSE ms[i]]
        BY <3>2, <2>1 DEF wake_swim_check_suspects, SwimState
      <4> QED BY <4>1
    <3> QED BY <3>1, <3>2
  <2> HIDE DEF t, to
  <2>4. ASSUME NEW i \in DOMAIN t.members, t.members[i].state = SUSPECT
        PROVE  now - t.members[i].last_change_ms < to
    <3>1. i \in DOMAIN ms /\ ms[i] \in Member
      BY <2>1, <2>3, <2>4
    <3>2. i \notin X
      <4>1. Kill(ms[i], now).state = DEAD
        BY <3>1 DEF Kill, Member
      <4> QED BY <4>1, <2>3, <2>4, <3>1 DEF DEAD, SUSPECT
    <3>3. t.members[i] = ms[i]
      BY <2>3, <3>1, <3>2
    <3>4. StampOK(ms[i], now)
      BY <2>1, <3>1 DEF Stamped
    <3>5. ms[i].state = SUSPECT /\ ms[i].suspect_ms # 0 /\ ms[i].suspect_ms = ms[i].last_change_ms
      BY <2>4, <3>3, <3>4 DEF StampOK
    <3>6. ~ (now - ms[i].suspect_ms >= to)
      BY <3>1, <3>2, <3>5 DEF Expired, to
    <3>7. ms[i].suspect_ms \in Nat
      BY <3>1 DEF Member
    <3> QED BY <2>1, <2>2, <3>3, <3>5, <3>6, <3>7
  <2> QED BY <2>4 DEF ExpiryComplete, t, to
<1> QED BY SInvAlways, <1>1, PTL

\* A stale, reordered or repeated update never moves a member down the precedence
\* order, and nothing brings a LEFT member back while it is listed.
THEOREM PrecedenceCorrect == Spec => PrecedenceHeld
<1>1. ASSUME SInv, [Next]_vars, NEW id \in NodeId, Known(sw, id), Known(sw', id)
      PROVE  Precedes(Entry(sw, id), Entry(sw', id))
  <2>1. WellFormed(sw, Self) /\ WellFormed(sw', Self) /\ Moves(sw.members, sw'.members)
    BY <1>1, SInvStep DEF SInv, IInv, StepOK
  <2>2. /\ find_member(sw, id) \in DOMAIN sw.members
        /\ sw.members[find_member(sw, id)].node_id = id
    BY <1>1, <2>1, FindMember
  <2>3. /\ find_member(sw', id) \in DOMAIN sw'.members
        /\ sw'.members[find_member(sw', id)].node_id = id
    BY <1>1, <2>1, FindMember
  <2> QED BY <2>1, <2>2, <2>3 DEF Moves, Entry
<1>2. SInv /\ [Next]_vars =>
        [\A id \in NodeId :
            Known(sw, id) /\ Known(sw', id) =>
               LET old == Entry(sw, id)
                   new == Entry(sw', id)
               IN  \/ new.state = old.state /\ new.incarnation = old.incarnation
                   \/ state_supersedes(new.state, new.incarnation,
                                       old.state, old.incarnation)]_vars
  BY <1>1 DEF Precedes
<1> QED BY SInvAlways, <1>2, PTL DEF Spec, PrecedenceHeld

\* Only reap drops a member, from DEAD or LEFT, besides a reset of the instance:
\* no compaction, expiry or overflow loses a live member.
THEOREM NoSilentDropCorrect == Spec => NoSilentDrop
<1>1. ASSUME SInv, [Next]_vars, NEW id \in NodeId, Known(sw, id), ~ Known(sw', id)
      PROVE  Entry(sw, id).state \in {DEAD, LEFT} \/ sw' = wake_swim_reset(sw)
  <2>1. WellFormed(sw, Self) /\ StepOK
    BY <1>1, SInvStep DEF SInv, IInv
  <2>2. /\ find_member(sw, id) \in DOMAIN sw.members
        /\ sw.members[find_member(sw, id)].node_id = id
    BY <1>1, <2>1, FindMember
  <2>3. \A j \in DOMAIN sw'.members : sw'.members[j].node_id # id
    BY <1>1 DEF Known
  <2> QED BY <2>1, <2>2, <2>3 DEF StepOK, Keeps, Entry
<1>2. SInv /\ [Next]_vars =>
        [\A id \in NodeId :
            Known(sw, id) /\ ~Known(sw', id) =>
               \/ Entry(sw, id).state \in {DEAD, LEFT}
               \/ sw' = wake_swim_reset(sw)]_vars
  BY <1>1
<1> QED BY SInvAlways, <1>2, PTL DEF Spec, NoSilentDrop

\* Every accusation below the last incarnation is answered at once by a queued
\* ALIVE that supersedes it, even when the queue is full.
THEOREM RefutationCorrect == Spec => RefutationWins
<1>1. ASSUME SInv, NEW u \in Rumour, u.node_id = Self, u.state \in {SUSPECT, DEAD},
             u.incarnation < UINT32_MAX, ApplyUpdate(u)
      PROVE  \E k \in DOMAIN sw'.updates :
                /\ sw'.updates[k].node_id = Self
                /\ state_supersedes(sw'.updates[k].state, sw'.updates[k].incarnation,
                                    u.state, u.incarnation)
  <2>1. WellFormed(sw, Self) /\ sw.self_id = Self /\ Sound(sw) /\ now \in Nat /\ Stamped(sw.members, now)
    BY <1>1 DEF SInv, IInv, WellFormed
  <2>2. sw' = apply_to_self(sw, u)
    BY <1>1, <2>1 DEF ApplyUpdate, wake_swim_apply_update
  <2>3. PICK k \in DOMAIN sw'.updates :
            /\ sw'.updates[k].node_id = Self /\ sw'.updates[k].state = ALIVE
            /\ sw'.updates[k].incarnation > u.incarnation
    BY <1>1, <2>1, <2>2, ApplyToSelfStep
  <2>4. state_supersedes(sw'.updates[k].state, sw'.updates[k].incarnation,
                         u.state, u.incarnation)
    BY <1>1, <2>3 DEF state_supersedes, SUSPECT, DEAD, LEFT
  <2> QED BY <2>3, <2>4
<1>2. SInv /\ [Next]_vars =>
        [\A u \in Rumour :
            /\ u.node_id = Self /\ u.state \in {SUSPECT, DEAD}
            /\ u.incarnation < UINT32_MAX
            /\ ApplyUpdate(u)
            => \E k \in DOMAIN sw'.updates :
                  /\ sw'.updates[k].node_id = Self
                  /\ state_supersedes(sw'.updates[k].state, sw'.updates[k].incarnation,
                                      u.state, u.incarnation)]_vars
  BY <1>1
<1> QED BY SInvAlways, <1>2, PTL DEF Spec, RefutationWins

-----------------------------------------------------------------------------
(* How long a member waits for its probe.                                  *)

\* An order in force visits each eligible member once.
LEMMA OrderFacts ==
    ASSUME NEW s, WellFormed(s, Self), s.probe_order # << >>
    PROVE  LET p == s.probe_order
               n == s.alive_count
           IN  /\ n \in Nat \ {0} /\ Len(p) = n /\ s.probe_index \in 0..n
               /\ \A j \in 1..n : p[j] \in EligibleIdx(s.members)
               /\ \A j, k \in 1..n : p[j] = p[k] => j = k
               /\ \A i \in EligibleIdx(s.members) : \E j \in 1..n : p[j] = i
<1> DEFINE p == s.probe_order
           E == EligibleIdx(s.members)
<1>1. s \in SwimState /\ s.alive_count = Cardinality(E) /\ OrderOK(s)
  BY DEF WellFormed, recount_alive
<1>2. p \in Seq(Nat) /\ s.probe_index \in Nat /\ s.alive_count \in Nat
  BY <1>1 DEF SwimState
<1>3. Len(p) \in Nat /\ Len(p) # 0
  BY <1>2
<1>4. p \in Bijection(1..Len(p), E) /\ s.probe_index <= Len(p)
  BY <1>1 DEF OrderOK
<1> HIDE DEF p, E
<1>5. Cardinality(E) = Len(p)
  BY <1>3, <1>4, FS_CountingElements DEF ExistsBijection
<1>6. /\ \A j \in 1..Len(p) : p[j] \in E
      /\ \A j, k \in 1..Len(p) : p[j] = p[k] => j = k
      /\ \A i \in E : \E j \in 1..Len(p) : p[j] = i
  BY <1>4 DEF Bijection, Injection, Surjection, IsInjective
<1> QED BY <1>1, <1>2, <1>3, <1>4, <1>5, <1>6 DEF p, E

\* The id at position j of the order.
ProbedAt(s, j) == s.members[s.probe_order[j]].node_id

\* What the order in force says of the waiting time: the members already visited
\* wait since their turn, the others for at most one round before this one.
Waits(s, g) ==
    /\ g \in [NodeId -> Nat]
    /\ s.probe_order = << >> => \A id \in NodeId : g[id] = 0
    /\ s.probe_order # << >> =>
         \A j \in 1..s.alive_count :
            /\ j <= s.probe_index => g[ProbedAt(s, j)] <= s.probe_index - j
            /\ j > s.probe_index => g[ProbedAt(s, j)] <= s.alive_count - 1 + s.probe_index

\* Every eligible member is somewhere in an order in force, once.
LEMMA ProbedAtFacts ==
    ASSUME NEW s, WellFormed(s, Self), s.probe_order # << >>
    PROVE  /\ \A j \in 1..s.alive_count : ProbedAt(s, j) \in EligibleIds(s)
           /\ \A j, k \in 1..s.alive_count : ProbedAt(s, j) = ProbedAt(s, k) => j = k
           /\ \A id \in EligibleIds(s) : \E j \in 1..s.alive_count : ProbedAt(s, j) = id
           /\ EligibleIds(s) \subseteq NodeId
<1>1. s.members \in Seq(Member) /\ DistinctIds(s.members)
  BY DEF WellFormed, ListOK
<1>2. \A i \in DOMAIN s.members : s.members[i].node_id \in NodeId
  <2>1. \A i \in DOMAIN s.members : s.members[i] \in Member
    BY <1>1
  <2> QED BY <2>1 DEF Member
<1>3. EligibleIdx(s.members) \subseteq DOMAIN s.members
  BY DEF EligibleIdx
<1>4. /\ \A j \in 1..s.alive_count : s.probe_order[j] \in EligibleIdx(s.members)
      /\ \A j, k \in 1..s.alive_count : s.probe_order[j] = s.probe_order[k] => j = k
      /\ \A i \in EligibleIdx(s.members) : \E j \in 1..s.alive_count : s.probe_order[j] = i
  BY OrderFacts
<1>5. ASSUME NEW j \in 1..s.alive_count PROVE ProbedAt(s, j) \in EligibleIds(s)
  BY <1>4 DEF ProbedAt, EligibleIds
<1>6. ASSUME NEW j \in 1..s.alive_count, NEW k \in 1..s.alive_count,
             ProbedAt(s, j) = ProbedAt(s, k)
      PROVE  j = k
  <2>1. s.probe_order[j] \in DOMAIN s.members /\ s.probe_order[k] \in DOMAIN s.members
    BY <1>3, <1>4
  <2>2. s.probe_order[j] = s.probe_order[k]
    BY <1>1, <1>6, <2>1 DEF ProbedAt, DistinctIds
  <2> QED BY <1>4, <2>2
<1>7. ASSUME NEW id \in EligibleIds(s) PROVE \E j \in 1..s.alive_count : ProbedAt(s, j) = id
  <2>1. PICK i \in EligibleIdx(s.members) : s.members[i].node_id = id
    BY DEF EligibleIds
  <2> QED BY <1>4, <2>1 DEF ProbedAt
<1>8. EligibleIds(s) \subseteq NodeId
  BY <1>2, <1>3 DEF EligibleIds
<1> QED BY <1>5, <1>6, <1>7, <1>8

\* The step of the history variable that a probe of target takes.
Waited(s, g, id0) == [id \in NodeId |-> IF id \in EligibleIds(s) \ {id0} THEN g[id] + 1 ELSE 0]

\* A probe that moves to position r.probe_index of an order of the same members.
LEMMA WaitsProbe ==
    ASSUME NEW s, WellFormed(s, Self), NEW r, WellFormed(r, Self), NEW g, Waits(s, g),
           r.members = s.members, r.alive_count = s.alive_count, r.probe_order # << >>,
           r.probe_index \in 1..Len(r.probe_order),
           \/ r.probe_order = s.probe_order /\ r.probe_index = s.probe_index + 1
           \/ /\ s.probe_order = << >> \/ ~ (s.probe_index < Len(s.probe_order))
              /\ r.probe_index = 1
    PROVE  Waits(r, Waited(s, g, ProbedAt(r, r.probe_index)))
<1> DEFINE n == s.alive_count
           id0 == ProbedAt(r, r.probe_index)
           h == Waited(s, g, id0)
<1>1. /\ n \in Nat \ {0} /\ Len(r.probe_order) = n /\ r.probe_index \in 1..n
  BY OrderFacts
<1>2. g \in [NodeId -> Nat]
  BY DEF Waits
<1>3. h \in [NodeId -> Nat]
  BY <1>2 DEF Waited
<1>4. EligibleIds(r) = EligibleIds(s)
  BY DEF EligibleIds
<1>5. /\ \A j \in 1..n : ProbedAt(r, j) \in EligibleIds(s) /\ ProbedAt(r, j) \in NodeId
      /\ \A j, k \in 1..n : ProbedAt(r, j) = ProbedAt(r, k) => j = k
  BY <1>4, ProbedAtFacts
<1>6. h[id0] = 0
  BY <1>1, <1>5 DEF Waited
<1>7. ASSUME NEW j \in 1..n, j # r.probe_index
      PROVE  h[ProbedAt(r, j)] = g[ProbedAt(r, j)] + 1 /\ g[ProbedAt(r, j)] \in Nat
  BY <1>1, <1>2, <1>5, <1>7 DEF Waited
<1> HIDE DEF h, id0
<1>8. SUFFICES ASSUME NEW j \in 1..n
      PROVE  /\ j <= r.probe_index => h[ProbedAt(r, j)] <= r.probe_index - j
             /\ j > r.probe_index => h[ProbedAt(r, j)] <= n - 1 + r.probe_index
  BY <1>3 DEF Waits, h, id0
<1>9. CASE j = r.probe_index
  BY <1>1, <1>6, <1>9 DEF id0
<1>10. CASE j # r.probe_index
  <2>1. CASE r.probe_order = s.probe_order /\ r.probe_index = s.probe_index + 1
    <3>1. ProbedAt(r, j) = ProbedAt(s, j)
      BY <2>1 DEF ProbedAt
    <3>2. /\ j <= s.probe_index => g[ProbedAt(s, j)] <= s.probe_index - j
          /\ j > s.probe_index => g[ProbedAt(s, j)] <= n - 1 + s.probe_index
      BY <2>1 DEF Waits
    <3>3. s.probe_index \in 0..n
      BY <2>1, OrderFacts
    <3>4. h[ProbedAt(s, j)] = g[ProbedAt(s, j)] + 1 /\ g[ProbedAt(s, j)] \in Nat
      BY <1>7, <1>10, <3>1
    <3> DEFINE a == g[ProbedAt(s, j)]
               i == s.probe_index
    <3> HIDE DEF a, i
    <3>5. a \in Nat /\ i \in 0..n /\ r.probe_index = i + 1
      BY <2>1, <3>3, <3>4 DEF a, i
    <3>6. (j <= i => a <= i - j) /\ (j > i => a <= n - 1 + i)
      BY <3>2 DEF a, i
    <3>7. (j <= i + 1 => a + 1 <= i + 1 - j) /\ (j > i + 1 => a + 1 <= n - 1 + (i + 1))
      BY <1>1, <1>10, <3>5, <3>6
    <3> QED BY <3>1, <3>4, <3>5, <3>7 DEF a
  <2>2. CASE s.probe_order = << >> /\ r.probe_index = 1
    <3>1. g[ProbedAt(r, j)] = 0
      BY <1>5, <2>2 DEF Waits
    <3> QED BY <1>1, <1>7, <1>10, <2>2, <3>1
  <2>3. CASE s.probe_order # << >> /\ ~ (s.probe_index < Len(s.probe_order)) /\ r.probe_index = 1
    <3>1. s.probe_index = n
      BY <2>3, OrderFacts
    <3>2. PICK k \in 1..n : ProbedAt(s, k) = ProbedAt(r, j)
      BY <1>5, <2>3, ProbedAtFacts
    <3>3. g[ProbedAt(r, j)] <= n - k
      BY <1>1, <2>3, <3>1, <3>2 DEF Waits
    <3> QED BY <1>1, <1>7, <1>10, <2>3, <3>3
  <2> QED BY <2>1, <2>2, <2>3
<1> QED BY <1>9, <1>10

GapInv == SInv /\ Waits(sw, gap)

LEMMA GapInvInit == ProbeInit => GapInv
<1> SUFFICES ASSUME ProbeInit PROVE GapInv
  OBVIOUS
<1>1. SInv
  BY SInvInit DEF ProbeInit
<1>2. sw.probe_order = << >> /\ gap = [id \in NodeId |-> 0]
  BY DEF ProbeInit, Init, wake_swim_create
<1> QED BY <1>1, <1>2 DEF GapInv, Waits

\* A step of the observed instance is a step of the instance.
LEMMA ProbeNextIsNext == [ProbeNext]_probeVars => [Next]_vars
BY DEF ProbeNext, Probe, Other, Next, NextProbe, probeVars, vars

LEMMA GapInvStep == GapInv /\ [ProbeNext]_probeVars => GapInv'
<1> SUFFICES ASSUME GapInv, [ProbeNext]_probeVars PROVE Waits(sw', gap')
  BY SInvStep, ProbeNextIsNext DEF GapInv
<1>1. SInv' /\ SInv /\ WellFormed(sw, Self) /\ WellFormed(sw', Self) /\ Waits(sw, gap)
  BY SInvStep, ProbeNextIsNext DEF GapInv, SInv, IInv
<1>2. CASE Other
  <2>1. OrderKept(sw, sw')
    BY <1>1, <1>2, UpkeepStep DEF Other, SInv
  <2>2. CASE sw'.probe_order = << >>
    <3>1. gap' = [id \in NodeId |-> 0]
      BY <1>2, <2>2 DEF Other
    <3> QED BY <2>2, <3>1 DEF Waits
  <2>3. CASE sw'.probe_order # << >>
    <3>1. gap' = gap
      BY <1>2, <2>3 DEF Other
    <3>2. /\ sw'.members = sw.members /\ sw'.probe_order = sw.probe_order
          /\ sw'.probe_index = sw.probe_index /\ sw'.alive_count = sw.alive_count
      BY <2>1, <2>3 DEF OrderKept
    <3>3. \A j : ProbedAt(sw', j) = ProbedAt(sw, j)
      BY <3>2 DEF ProbedAt
    <3> QED BY <1>1, <3>1, <3>2, <3>3 DEF Waits
  <2> QED BY <2>2, <2>3
<1>3. CASE Probe
  <2> DEFINE hit(r) == IF r.target = NULL THEN {} ELSE {sw.members[r.target].node_id}
  <2>1. PICK r \in wake_swim_next_probe(sw) :
            /\ sw' = r.st
            /\ gap' = [id \in NodeId |->
                          IF id \in EligibleIds(sw) \ hit(r) THEN gap[id] + 1 ELSE 0]
    BY <1>3 DEF Probe
  <2>2. CASE sw.alive_count = 0
    <3>1. sw' = sw /\ r.target = NULL
      BY <1>1, <2>1, <2>2, ProbeOutcome
    <3>2. sw.probe_order = << >>
      BY <1>1, <2>2, OrderFacts
    <3>3. EligibleIds(sw) = {}
      <4>1. sw.members \in Seq(Member) /\ Cardinality(EligibleIdx(sw.members)) = 0
        BY <1>1, <2>2 DEF WellFormed, ListOK, recount_alive
      <4>2. Len(sw.members) \in Nat /\ EligibleIdx(sw.members) \in SUBSET (1..Len(sw.members))
        BY <4>1 DEF EligibleIdx
      <4>3. EligibleIdx(sw.members) = {}
        BY <4>1, <4>2, FinitePositions, FS_EmptySet
      <4> QED BY <4>3 DEF EligibleIds
    <3>4. gap' = [id \in NodeId |-> 0]
      BY <2>1, <3>3
    <3> QED BY <3>1, <3>2, <3>4 DEF Waits
  <2>3. CASE sw.alive_count # 0
    <3>1. /\ sw'.members = sw.members /\ sw'.alive_count = sw.alive_count
          /\ sw'.probe_index \in 1..Len(sw'.probe_order)
          /\ r.target = sw'.probe_order[sw'.probe_index]
          /\ \/ sw'.probe_order = sw.probe_order /\ sw'.probe_index = sw.probe_index + 1
             \/ /\ sw.probe_order = << >> \/ ~ (sw.probe_index < Len(sw.probe_order))
                /\ sw'.probe_index = 1
      BY <1>1, <2>1, <2>3, ProbeOutcome
    <3>2. sw'.probe_order # << >>
      BY <3>1
    <3>3. r.target # NULL
      <4>1. r.target \in EligibleIdx(sw'.members)
        BY <1>1, <3>1, <3>2, OrderFacts
      <4>2. sw'.members \in Seq(Member)
        BY <1>1 DEF WellFormed, ListOK
      <4> QED BY <4>1, <4>2 DEF EligibleIdx, NULL
    <3>4. hit(r) = {ProbedAt(sw', sw'.probe_index)}
      BY <3>1, <3>3 DEF ProbedAt
    <3> HIDE DEF hit
    <3>5. gap' = Waited(sw, gap, ProbedAt(sw', sw'.probe_index))
      BY <2>1, <3>4 DEF Waited
    <3> QED BY <1>1, <3>1, <3>2, <3>5, WaitsProbe
  <2> QED BY <2>2, <2>3
<1>4. CASE UNCHANGED probeVars
  BY <1>1, <1>4 DEF probeVars
<1> QED BY <1>2, <1>3, <1>4 DEF ProbeNext

\* However next_probe and every other call interleave, and whatever the shuffles
\* yield: while the order is not dropped, at most 2(n-1) other members are probed
\* between two probes of one member.
THEOREM ProbeGapCorrect == ProbeSpec => []ProbeGapBounded
<1>1. ASSUME GapInv PROVE ProbeGapBounded
  <2> SUFFICES ASSUME NEW id \in EligibleIds(sw) PROVE gap[id] <= 2 * (sw.alive_count - 1)
    BY DEF ProbeGapBounded
  <2>1. WellFormed(sw, Self) /\ Waits(sw, gap) /\ sw \in SwimState
    BY <1>1 DEF GapInv, SInv, IInv, WellFormed
  <2> DEFINE n == sw.alive_count
             i == sw.probe_index
  <2>2. CASE sw.probe_order = << >>
    <3>1. PICK k \in EligibleIdx(sw.members) : sw.members[k].node_id = id
      BY DEF EligibleIds
    <3>2. sw.members \in Seq(Member) /\ n = Cardinality(EligibleIdx(sw.members))
      BY <2>1 DEF WellFormed, ListOK, recount_alive
    <3>3. Len(sw.members) \in Nat /\ EligibleIdx(sw.members) \in SUBSET (1..Len(sw.members))
      BY <3>2 DEF EligibleIdx
    <3>4. n \in Nat /\ n # 0
      BY <3>1, <3>2, <3>3, FinitePositions, FS_EmptySet
    <3>5. id \in NodeId
      <4>1. sw.members[k] \in Member
        BY <3>1, <3>2, <3>3
      <4> QED BY <3>1, <4>1 DEF Member
    <3>6. gap[id] = 0
      BY <2>1, <2>2, <3>5 DEF Waits
    <3> QED BY <3>4, <3>6
  <2>3. CASE sw.probe_order # << >>
    <3>1. n \in Nat \ {0} /\ i \in 0..n
      BY <2>1, <2>3, OrderFacts
    <3>2. PICK j \in 1..n : ProbedAt(sw, j) = id
      BY <2>1, <2>3, ProbedAtFacts
    <3>3. /\ j <= i => gap[id] <= i - j
          /\ j > i => gap[id] <= n - 1 + i
      BY <2>1, <2>3, <3>2 DEF Waits
    <3>4. id \in NodeId /\ gap[id] \in Nat
      BY <2>1, <2>3, ProbedAtFacts DEF Waits
    <3> HIDE DEF n, i
    <3>5. gap[id] <= 2 * (n - 1)
      BY <3>1, <3>3, <3>4
    <3> QED BY <3>5 DEF n
  <2> QED BY <2>2, <2>3
<1> QED BY GapInvInit, GapInvStep, <1>1, PTL DEF ProbeSpec

=============================================================================
