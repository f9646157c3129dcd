---------------------------- MODULE SwimMeshProofs ----------------------------
(***************************************************************************)
(* Proofs about SwimMesh, for any number of nodes, any configuration and   *)
(* any loss, delay, reordering and repetition of updates.                  *)
(*                                                                         *)
(* The argument: one lemma per call bounds what the node says after it by  *)
(* what it said before and what the call adds (Told), and MInv says of     *)
(* everything said in the mesh what backs it.  Nothing that is only        *)
(* repeated needs a new justification, so a step has to account for what   *)
(* the call adds and nothing else.                                         *)
(***************************************************************************)
EXTENDS SwimMesh, SwimProofs

-----------------------------------------------------------------------------
(* What a node says after a call.                                          *)

\* Two entries with the same id, state and incarnation say the same.
LEMMA SameSaying ==
    ASSUME NEW x, NEW y, Tells(x, y)
    PROVE  Saying(x) = Saying(y)
BY DEF Tells, Saying

\* A node tells what is on its list and in its queue, and nothing else.
LEMMA ToldWithin ==
    ASSUME NEW s, NEW A,
           \A i \in DOMAIN s.members : Saying(s.members[i]) \in A,
           \A k \in DOMAIN s.updates : Saying(s.updates[k]) \in A
    PROVE  Told(s) \subseteq A
BY DEF Told

\* Each entry of the list and of the queue is told.
LEMMA ToldEntries ==
    ASSUME NEW s
    PROVE  /\ \A i \in DOMAIN s.members : Saying(s.members[i]) \in Told(s)
           /\ \A k \in DOMAIN s.updates : Saying(s.updates[k]) \in Told(s)
BY DEF Told

\* What is told is well typed.
LEMMA ToldTyped ==
    ASSUME NEW me \in NodeId, NEW s, WellFormed(s, me)
    PROVE  Told(s) \subseteq Rumour
<1>1. s.members \in Seq(Member) /\ s.updates \in Seq(Update)
  BY DEF WellFormed, ListOK, QueueOK
<1>2. \A i \in DOMAIN s.members : Saying(s.members[i]) \in Rumour
  <2>1. \A i \in DOMAIN s.members : s.members[i] \in Member
    BY <1>1
  <2> QED BY <2>1 DEF Member, Rumour, Saying
<1>3. \A k \in DOMAIN s.updates : Saying(s.updates[k]) \in Rumour
  <2>1. \A k \in DOMAIN s.updates : s.updates[k] \in Update
    BY <1>1
  <2> QED BY <2>1 DEF Update, Rumour, Saying
<1> QED BY <1>2, <1>3, ToldWithin

\* queue_update adds one saying and repeats the others.
LEMMA QueueSays ==
    ASSUME NEW q, QueueOK(q), NEW m, NEW A, Saying(m) \in A,
           \A k \in DOMAIN q : Saying(q[k]) \in A
    PROVE  \A k \in DOMAIN queue_update(q, m) : Saying(queue_update(q, m)[k]) \in A
<1> DEFINE r == queue_update(q, m)
<1>1. Requeued(q, r, m)
  BY QueueUpdateEntries
<1> HIDE DEF r
<1>2. ASSUME NEW k \in DOMAIN r PROVE Saying(r[k]) \in A
  <2>1. CASE Tells(r[k], m)
    BY <2>1, SameSaying
  <2>2. CASE ~ Tells(r[k], m)
    BY <1>1, <2>2 DEF Requeued
  <2> QED BY <2>1, <2>2
<1> QED BY <1>2 DEF r

\* Changing a member adds what the new entry says.
LEMMA ChangeSays ==
    ASSUME NEW me \in NodeId, NEW s, WellFormed(s, me), NEW i \in DOMAIN s.members,
           NEW m, NEW r, r = ChangeMember(s, i, m)
    PROVE  /\ Told(r) \subseteq Told(s) \cup {Saying(m)}
           /\ r.self_incarnation = s.self_incarnation
<1> DEFINE ns == [s.members EXCEPT ![i] = m]
           q == queue_update(s.updates, m)
           A == Told(s) \cup {Saying(m)}
<1>1. s \in SwimState /\ s.members \in Seq(Member) /\ QueueOK(s.updates)
  BY DEF WellFormed, ListOK
<1>2. r.members = ns /\ r.updates = q /\ r.self_incarnation = s.self_incarnation
  BY <1>1 DEF ChangeMember, SwimState
<1>3. DOMAIN ns = DOMAIN s.members /\ \A j \in DOMAIN ns : ns[j] = IF j = i THEN m ELSE s.members[j]
  BY <1>1
<1> HIDE DEF ns
<1>4. \A j \in DOMAIN ns : Saying(ns[j]) \in A
  BY <1>3, ToldEntries
<1>5. \A k \in DOMAIN q : Saying(q[k]) \in A
  <2>1. Saying(m) \in A /\ \A k \in DOMAIN s.updates : Saying(s.updates[k]) \in A
    BY ToldEntries
  <2> HIDE DEF A
  <2> QED BY <1>1, <2>1, QueueSays
<1> HIDE DEF q, A
<1>6. Told(r) \subseteq A
  BY <1>2, <1>4, <1>5, ToldWithin
<1> QED BY <1>2, <1>6 DEF A

\* The entry of a new member.
Fresh(id) == [node_id |-> id, state |-> ALIVE, incarnation |-> 0]

\* Adding a member, with whatever incarnation is written into it afterwards.
LEMMA AppendSays ==
    ASSUME NEW me \in NodeId, NEW s, WellFormed(s, me), NEW m, NEW e, NEW r,
           r.updates = queue_update(s.updates, m),
           \A j \in DOMAIN r.members :
              r.members[j] = e \/ (j \in DOMAIN s.members /\ r.members[j] = s.members[j])
    PROVE  Told(r) \subseteq Told(s) \cup {Saying(m), Saying(e)}
<1> DEFINE q == queue_update(s.updates, m)
           A == Told(s) \cup {Saying(m), Saying(e)}
<1>1. QueueOK(s.updates)
  BY DEF WellFormed
<1>2. \A j \in DOMAIN r.members : Saying(r.members[j]) \in A
  BY ToldEntries
<1>3. \A k \in DOMAIN q : Saying(q[k]) \in A
  <2>1. Saying(m) \in A /\ \A k \in DOMAIN s.updates : Saying(s.updates[k]) \in A
    BY ToldEntries
  <2> HIDE DEF A
  <2> QED BY <1>1, <2>1, QueueSays
<1> HIDE DEF q, A
<1>4. Told(r) \subseteq A
  BY <1>2, <1>3, ToldWithin DEF q
<1> QED BY <1>4 DEF A

\* wake_swim_add_member says that a node unknown so far is ALIVE at incarnation 0.
LEMMA AddSays ==
    ASSUME NEW me \in NodeId, NEW s, WellFormed(s, me), NEW id \in NodeId, NEW t \in Nat,
           NEW r, r = wake_swim_add_member(s, id, t)
    PROVE  Told(r) \subseteq Told(s) \cup {Fresh(id)} /\ r.self_incarnation = s.self_incarnation
<1> DEFINE m == [node_id |-> id, state |-> ALIVE, incarnation |-> 0,
                 suspect_ms |-> 0, last_change_ms |-> t]
<1>1. CASE add_result(s, id) # "OK"
  BY <1>1 DEF wake_swim_add_member
<1>2. CASE add_result(s, id) = "OK"
  <2>1. s \in SwimState
    BY DEF WellFormed
  <2>2. /\ r.members = Append(s.members, m) /\ r.updates = queue_update(s.updates, m)
        /\ r.self_incarnation = s.self_incarnation
    BY <1>2, <2>1 DEF wake_swim_add_member, SwimState
  <2>3. Saying(m) = Fresh(id) /\ s.members \in Seq(Member)
    BY <2>1 DEF Saying, Fresh, SwimState
  <2> HIDE DEF m
  <2>4. \A j \in DOMAIN r.members :
           r.members[j] = m \/ (j \in DOMAIN s.members /\ r.members[j] = s.members[j])
    <3> DEFINE ns == Append(s.members, m)
    <3>1. DOMAIN ns = 1..(Len(s.members) + 1) /\ ns[Len(s.members) + 1] = m
          /\ \A j \in DOMAIN s.members : ns[j] = s.members[j]
      BY <2>3
    <3>2. \A j \in 1..(Len(s.members) + 1) : j = Len(s.members) + 1 \/ j \in DOMAIN s.members
      BY <2>3
    <3> QED BY <2>2, <3>1, <3>2
  <2> QED BY <2>2, <2>3, <2>4, AppendSays
<1> QED BY <1>1, <1>2

\* The entry about a known node is one of the things told.
LEMMA KnownTold ==
    ASSUME NEW me \in NodeId, NEW s, WellFormed(s, me), NEW id, Known(s, id)
    PROVE  LET m == s.members[find_member(s, id)]
           IN  /\ m \in Member /\ m.node_id = id /\ Saying(m) \in Told(s)
               /\ Saying(m).node_id = id /\ Saying(m).state = m.state
               /\ Saying(m).incarnation = m.incarnation
<1> DEFINE i == find_member(s, id)
<1>1. i \in DOMAIN s.members /\ s.members[i].node_id = id /\ s.members[i] \in Member
  BY FindMember
<1> HIDE DEF i
<1>2. Saying(s.members[i]) \in Told(s)
  BY <1>1, ToldEntries
<1>3. LET m == s.members[i]
      IN  /\ m \in Member /\ m.node_id = id /\ Saying(m) \in Told(s)
          /\ Saying(m).node_id = id /\ Saying(m).state = m.state
          /\ Saying(m).incarnation = m.incarnation
  BY <1>1, <1>2 DEF Saying
<1> QED BY <1>3 DEF i

\* wake_swim_remove_member says that a known node LEFT, at the incarnation known.
LEMMA RemoveSays ==
    ASSUME NEW me \in NodeId, NEW s, WellFormed(s, me), NEW id, NEW t \in Nat,
           NEW r, r = wake_swim_remove_member(s, id, t)
    PROVE  /\ r.self_incarnation = s.self_incarnation
           /\ ~ Known(s, id) => Told(r) \subseteq Told(s)
           /\ Known(s, id) =>
                Told(r) \subseteq Told(s) \cup
                   {[node_id |-> id, state |-> LEFT,
                     incarnation |-> s.members[find_member(s, id)].incarnation]}
<1> DEFINE i == find_member(s, id)
           m == [s.members[i] EXCEPT !.state = LEFT, !.last_change_ms = t, !.suspect_ms = 0]
<1>1. CASE id = s.self_id \/ ~Known(s, id)
  BY <1>1 DEF wake_swim_remove_member
<1>2. CASE ~(id = s.self_id \/ ~Known(s, id))
  <2>1. i \in DOMAIN s.members /\ s.members[i] \in Member /\ s.members[i].node_id = id
    BY <1>2, FindMember
  <2>2. r = ChangeMember(s, i, m)
    BY <1>2 DEF wake_swim_remove_member
  <2> HIDE DEF i
  <2>3. Saying(m) = [node_id |-> id, state |-> LEFT, incarnation |-> s.members[i].incarnation]
    BY <2>1 DEF Saying, Member
  <2> HIDE DEF m
  <2> QED BY <1>2, <2>1, <2>2, <2>3, ChangeSays DEF i
<1> QED BY <1>1, <1>2

\* wake_swim_suspect_member says that a known node is SUSPECT at the incarnation known.
LEMMA SuspectSays ==
    ASSUME NEW me \in NodeId, NEW s, WellFormed(s, me), NEW id, NEW t \in Nat,
           NEW r, r = wake_swim_suspect_member(s, id, t)
    PROVE  /\ r.self_incarnation = s.self_incarnation
           /\ ~ Known(s, id) => Told(r) \subseteq Told(s)
           /\ Known(s, id) =>
                Told(r) \subseteq Told(s) \cup
                   {[node_id |-> id, state |-> SUSPECT,
                     incarnation |-> s.members[find_member(s, id)].incarnation]}
<1> DEFINE i == find_member(s, id)
           m == [s.members[i] EXCEPT !.state = SUSPECT, !.suspect_ms = t, !.last_change_ms = t]
<1>1. CASE id = s.self_id \/ ~Known(s, id) \/ s.members[i].state # ALIVE
  BY <1>1 DEF wake_swim_suspect_member
<1>2. CASE ~(id = s.self_id \/ ~Known(s, id) \/ s.members[i].state # ALIVE)
  <2>1. i \in DOMAIN s.members /\ s.members[i] \in Member /\ s.members[i].node_id = id
    BY <1>2, FindMember
  <2>2. r = ChangeMember(s, i, m)
    BY <1>2 DEF wake_swim_suspect_member
  <2> HIDE DEF i
  <2>3. Saying(m) = [node_id |-> id, state |-> SUSPECT, incarnation |-> s.members[i].incarnation]
    BY <2>1 DEF Saying, Member
  <2> HIDE DEF m
  <2> QED BY <1>2, <2>1, <2>2, <2>3, ChangeSays DEF i
<1> QED BY <1>1, <1>2

\* An update about a member adds at most the update.
LEMMA KnownSays ==
    ASSUME NEW me \in NodeId, NEW s, WellFormed(s, me), NEW u \in Rumour, NEW t \in Nat,
           Known(s, u.node_id), NEW r, r = apply_to_known(s, u, t)
    PROVE  Told(r) \subseteq Told(s) \cup {u} /\ r.self_incarnation = s.self_incarnation
<1> DEFINE i == find_member(s, u.node_id)
           old == s.members[i]
           stamp == IF u.state = SUSPECT THEN t ELSE 0
           m == [old EXCEPT !.state = u.state, !.incarnation = u.incarnation,
                            !.last_change_ms = t, !.suspect_ms = stamp]
<1>1. CASE ~state_supersedes(u.state, u.incarnation, old.state, old.incarnation)
  BY <1>1 DEF apply_to_known
<1>2. CASE state_supersedes(u.state, u.incarnation, old.state, old.incarnation)
  <2>1. i \in DOMAIN s.members /\ old \in Member /\ old.node_id = u.node_id
    BY FindMember
  <2>2. r = ChangeMember(s, i, m)
    BY <1>2 DEF apply_to_known
  <2> HIDE DEF i
  <2>3. Saying(m) = u
    BY <2>1 DEF Saying, Member, Rumour
  <2> HIDE DEF m
  <2> QED BY <2>1, <2>2, <2>3, ChangeSays
<1> QED BY <1>1, <1>2

\* An update about a node unknown so far adds at most the update on the list, and
\* incarnation 0 in the queue.
LEMMA UnknownSays ==
    ASSUME NEW me \in NodeId, NEW s, WellFormed(s, me), NEW u \in Rumour, NEW t \in Nat,
           NEW r, r = apply_to_unknown(s, u, t)
    PROVE  /\ Told(r) \subseteq Told(s) \cup {Fresh(u.node_id), u}
           /\ r.self_incarnation = s.self_incarnation
<1> DEFINE id == u.node_id
           a == wake_swim_add_member(s, id, t)
           n == Len(s.members) + 1
           m == [node_id |-> id, state |-> ALIVE, incarnation |-> 0,
                 suspect_ms |-> 0, last_change_ms |-> t]
           e == [m EXCEPT !.incarnation = u.incarnation]
           ap == Append(s.members, m)
<1>1. CASE u.state # ALIVE \/ add_result(s, id) # "OK"
  BY <1>1 DEF apply_to_unknown
<1>2. CASE ~(u.state # ALIVE \/ add_result(s, id) # "OK")
  <2>1. s \in SwimState /\ s.members \in Seq(Member) /\ id \in NodeId /\ u.incarnation \in Incarnation
    BY DEF WellFormed, ListOK, Rumour
  <2>2. m \in Member
    BY <2>1, WireStateAssumption, UINT32Assumption DEF Member, Incarnation
  <2>3. a = [s EXCEPT !.members = ap, !.alive_count = s.alive_count + 1,
                      !.updates = queue_update(s.updates, m), !.probe_order = << >>]
    BY <1>2, <2>1 DEF wake_swim_add_member, SwimState
  <2>4. a.members = ap
    BY <2>1, <2>3 DEF SwimState
  <2>5. Len(ap) = n /\ Len(s.members) \in Nat
    BY <2>1, <2>2
  <2>6. r = [a EXCEPT !.members[n].incarnation = u.incarnation]
    BY <1>2, <2>4, <2>5 DEF apply_to_unknown
  <2>7. Saying(m) = Fresh(id) /\ Saying(e) = u
    BY <1>2 DEF Saying, Fresh, Rumour
  <2> DEFINE w == m
             f == [w EXCEPT !.incarnation = u.incarnation]
  <2>8. w = m /\ f = e
    OBVIOUS
  <2> HIDE DEF w
  <2>9. DOMAIN ap = 1..n /\ ap[n] = w /\ \A i \in DOMAIN s.members : ap[i] = s.members[i]
    BY <2>1, <2>2, <2>8
  <2>10. r.members = [ap EXCEPT ![n].incarnation = u.incarnation]
         /\ r.updates = a.updates /\ r.self_incarnation = a.self_incarnation
    <3> HIDE DEF a
    <3> QED BY <2>3, <2>4, <2>6, <2>1 DEF SwimState
  <2>11. a.updates = queue_update(s.updates, w) /\ a.self_incarnation = s.self_incarnation
    BY <2>3, <2>8, <2>1 DEF SwimState
  <2> HIDE DEF ap, a
  <2>12. n \in DOMAIN ap
    BY <2>5, <2>9
  <2>13. r.members = [ap EXCEPT ![n] = f]
    BY <2>9, <2>10, <2>12
  <2>14. \A j \in DOMAIN r.members :
            r.members[j] = f \/ (j \in DOMAIN s.members /\ r.members[j] = s.members[j])
    <3> HIDE DEF f
    <3>1. \A j \in 1..n : j = n \/ j \in DOMAIN s.members
      BY <2>1, <2>5
    <3>2. DOMAIN r.members = 1..n /\ r.members[n] = f
          /\ \A j \in 1..n : j # n => r.members[j] = ap[j]
      BY <2>9, <2>12, <2>13
    <3>3. ASSUME NEW j \in 1..n, j # n
          PROVE  j \in DOMAIN s.members /\ r.members[j] = s.members[j]
      BY <2>9, <3>1, <3>2, <3>3
    <3> QED BY <3>2, <3>3
  <2>15. Saying(w) = Fresh(id) /\ Saying(f) = u
    BY <2>7, <2>8
  <2> HIDE DEF f
  <2>16. Told(r) \subseteq Told(s) \cup {Saying(w), Saying(f)}
    BY <2>10, <2>11, <2>14, AppendSays
  <2> QED BY <2>10, <2>11, <2>15, <2>16
<1> QED BY <1>1, <1>2

\* An update about the node itself: an accusation is answered with ALIVE at the
\* incarnation the node has then; self_incarnation never falls.
LEMMA SelfSays ==
    ASSUME NEW me \in NodeId, NEW s, WellFormed(s, me), NEW u \in Rumour,
           NEW r, r = apply_to_self(s, u),
           u.state \in {SUSPECT, DEAD} => u.incarnation < UINT32_MAX
    PROVE  /\ Told(r) \subseteq Told(s) \cup
                 {[node_id |-> me, state |-> ALIVE, incarnation |-> r.self_incarnation]}
           /\ r.self_incarnation =
                 IF u.state \in {SUSPECT, DEAD}
                 THEN IF u.incarnation >= s.self_incarnation THEN u.incarnation + 1
                      ELSE s.self_incarnation
                 ELSE IF u.incarnation > s.self_incarnation THEN u.incarnation
                      ELSE s.self_incarnation
<1>1. s \in SwimState /\ s.self_id = me /\ QueueOK(s.updates)
  BY DEF WellFormed
<1>2. u.incarnation \in Incarnation /\ s.self_incarnation \in Incarnation
  BY <1>1 DEF Rumour, SwimState
<1>3. CASE u.state \in {SUSPECT, DEAD}
  <2> DEFINE inc == IF u.incarnation >= s.self_incarnation
                    THEN (u.incarnation + 1) % (UINT32_MAX + 1)
                    ELSE s.self_incarnation
             m == [node_id |-> s.self_id, state |-> ALIVE, incarnation |-> inc]
             q == queue_update(s.updates, m)
             A == Told(s) \cup {m}
  <2>1. inc = IF u.incarnation >= s.self_incarnation THEN u.incarnation + 1
              ELSE s.self_incarnation
    BY <1>2, <1>3, UINT32Assumption DEF Incarnation
  <2>2. r = [s EXCEPT !.self_incarnation = inc, !.updates = q]
    BY <1>1, <1>3 DEF apply_to_self, refute, SwimState
  <2> HIDE DEF inc
  <2>3. Saying(m) = m
    BY DEF Saying
  <2>4. m = [node_id |-> me, state |-> ALIVE, incarnation |-> inc]
    BY <1>1
  <2> HIDE DEF m
  <2>5. \A k \in DOMAIN q : Saying(q[k]) \in A
    <3>1. Saying(m) \in A /\ \A k \in DOMAIN s.updates : Saying(s.updates[k]) \in A
      BY <2>3, ToldEntries
    <3> HIDE DEF A
    <3> QED BY <1>1, <3>1, QueueSays
  <2> HIDE DEF q
  <2>6. r.members = s.members /\ r.updates = q /\ r.self_incarnation = inc
    BY <1>1, <2>2 DEF SwimState
  <2>7. \A i \in DOMAIN r.members : Saying(r.members[i]) \in A
    BY <2>6, ToldEntries
  <2> HIDE DEF A
  <2>8. Told(r) \subseteq A
    BY <2>5, <2>6, <2>7, ToldWithin
  <2> QED BY <1>3, <2>1, <2>4, <2>6, <2>8 DEF A
<1>4. CASE u.state \notin {SUSPECT, DEAD}
  <2> DEFINE inc == IF u.incarnation > s.self_incarnation THEN u.incarnation
                    ELSE s.self_incarnation
  <2>1. r = [s EXCEPT !.self_incarnation = inc]
    BY <1>1, <1>4 DEF apply_to_self, SwimState
  <2> HIDE DEF inc
  <2>2. r.members = s.members /\ r.updates = s.updates /\ r.self_incarnation = inc
    BY <1>1, <2>1 DEF SwimState
  <2>3. Told(r) = Told(s)
    BY <2>2 DEF Told
  <2> QED BY <1>4, <2>2, <2>3 DEF inc
<1> QED BY <1>3, <1>4

\* Expiry turns a SUSPECT on the list into a DEAD at the same incarnation.
Doomed(s) ==
    {[node_id |-> v.node_id, state |-> DEAD, incarnation |-> v.incarnation]
        : v \in {w \in Told(s) : w.state = SUSPECT}}

\* The loop of check_suspects queues what the list says.
LEMMA QueueAllSays ==
    ASSUME NEW q, QueueOK(q), NEW ns \in Seq(Member), NEW X, NEW A,
           \A j \in DOMAIN ns : Saying(ns[j]) \in A,
           \A k \in DOMAIN q : Saying(q[k]) \in A
    PROVE  \A k \in DOMAIN QueueAll(q, ns, X) : Saying(QueueAll(q, ns, X)[k]) \in A
<1> DEFINE Within(p) == \A k \in DOMAIN p : Saying(p[k]) \in A
           QS == {p \in Seq(Update) : QueueOK(p) /\ Within(p)}
           Q == [i \in 0..Len(ns) |-> QS]
<1>1. Len(ns) \in Nat /\ DOMAIN ns = 1..Len(ns) /\ q \in QS
  BY DEF QueueOK
<1>2. ASSUME NEW i \in 1..Len(ns), NEW p \in QS
      PROVE  (IF i \in X THEN queue_update(p, ns[i]) ELSE p) \in QS
  <2>1. ns[i] \in Member
    BY <1>1
  <2>2. ns[i].node_id \in NodeId /\ ns[i].state \in WireState /\ ns[i].incarnation \in Incarnation
    BY <2>1 DEF Member
  <2>3. QueueOK(queue_update(p, ns[i]))
    BY <2>2, QueueUpdateOK
  <2>4. Within(queue_update(p, ns[i]))
    BY <1>1, QueueSays
  <2>5. queue_update(p, ns[i]) \in QS
    BY <2>3, <2>4 DEF QueueOK
  <2> QED BY <2>5
<1> HIDE DEF QS
<1>3. \A i \in 0..Len(ns) : Q[i] = QS
  OBVIOUS
<1> HIDE DEF Q
<1>4. q \in Q[0]
  BY <1>1, <1>3
<1>5. \A i \in 1..Len(ns) : \A p \in Q[i - 1] :
        (IF i \in X THEN queue_update(p, ns[i]) ELSE p) \in Q[i]
  <2>1. \A i \in 1..Len(ns) : i - 1 \in 0..Len(ns) /\ i \in 0..Len(ns)
    BY <1>1
  <2> QED BY <2>1, <1>2, <1>3
<1>6. QueueAll(q, ns, X) \in Q[Len(ns)]
  BY <1>1, <1>4, <1>5, QueueAllInduction
<1> DEFINE z == QueueAll(q, ns, X)
<1>7. z \in QS
  BY <1>1, <1>3, <1>6
<1> HIDE DEF z
<1>8. Within(z)
  BY <1>7 DEF QS
<1> QED BY <1>8 DEF z

\* wake_swim_check_suspects adds only deaths of suspects.
LEMMA ExpireSays ==
    ASSUME NEW me \in NodeId, NEW s, WellFormed(s, me), NEW t \in Nat,
           NEW r, r = wake_swim_check_suspects(s, t)
    PROVE  Told(r) \subseteq Told(s) \cup Doomed(s) /\ r.self_incarnation = s.self_incarnation
<1> DEFINE X == Expired(s, t)
           ms == s.members
           ns == [i \in DOMAIN s.members |->
                     IF i \in X THEN Kill(s.members[i], t) ELSE s.members[i]]
           q == QueueAll(s.updates, ns, X)
           A == Told(s) \cup Doomed(s)
<1>1. CASE X = {}
  BY <1>1 DEF wake_swim_check_suspects
<1>2. CASE X # {}
  <2>1. s \in SwimState /\ ms \in Seq(Member) /\ QueueOK(s.updates)
    BY DEF WellFormed, ListOK
  <2>2. Len(ms) \in Nat /\ DOMAIN ms = 1..Len(ms) /\ \A i \in DOMAIN ms : ms[i] \in Member
    BY <2>1
  <2>3. ASSUME NEW i \in DOMAIN ms
        PROVE  /\ Kill(ms[i], t) \in Member /\ Kill(ms[i], t).node_id = ms[i].node_id
               /\ Kill(ms[i], t).state = DEAD
               /\ Kill(ms[i], t).incarnation = ms[i].incarnation
    <3>1. ms[i] \in Member
      BY <2>2
    <3> QED BY <3>1, WireStateAssumption DEF Kill, Member
  <2>4. r.members = ns /\ r.updates = q /\ r.self_incarnation = s.self_incarnation
    BY <1>2, <2>1 DEF wake_swim_check_suspects, SwimState
  <2>5. \A i \in X : ms[i].state = SUSPECT
    BY DEF Expired
  <2> HIDE DEF X
  <2>6. /\ DOMAIN ns = DOMAIN ms
        /\ \A i \in DOMAIN ms : ns[i] = IF i \in X THEN Kill(ms[i], t) ELSE ms[i]
        /\ ns \in [1..Len(ms) -> Member]
    BY <2>2, <2>3
  <2> HIDE DEF ns
  <2>7. ns \in Seq(Member)
    BY <2>2, <2>6, FcnIsSeq
  <2>8. ASSUME NEW i \in DOMAIN ns PROVE Saying(ns[i]) \in A
    <3>1. Saying(ms[i]) \in Told(s)
      BY <2>6, ToldEntries
    <3>2. CASE i \in X
      <4>1. ns[i].node_id = ms[i].node_id /\ ns[i].state = DEAD
            /\ ns[i].incarnation = ms[i].incarnation /\ ms[i].state = SUSPECT
        BY <3>2, <2>3, <2>5, <2>6
      <4> DEFINE w == Saying(ms[i])
      <4>2. w.node_id = ms[i].node_id /\ w.state = SUSPECT /\ w.incarnation = ms[i].incarnation
        BY <4>1 DEF Saying
      <4>3. Saying(ns[i]) = [node_id |-> w.node_id, state |-> DEAD, incarnation |-> w.incarnation]
        BY <4>1, <4>2 DEF Saying
      <4> HIDE DEF w
      <4>4. w \in Told(s)
        BY <3>1 DEF w
      <4> QED BY <4>2, <4>3, <4>4 DEF Doomed
    <3>3. CASE i \notin X
      BY <3>1, <3>3, <2>6
    <3> QED BY <3>2, <3>3
  <2>9. \A k \in DOMAIN s.updates : Saying(s.updates[k]) \in A
    BY ToldEntries
  <2> HIDE DEF A, ms
  <2>10. \A k \in DOMAIN q : Saying(q[k]) \in A
    BY <2>1, <2>7, <2>8, <2>9, QueueAllSays
  <2> HIDE DEF q
  <2>11. Told(r) \subseteq A
    BY <2>4, <2>8, <2>10, ToldWithin
  <2> QED BY <2>4, <2>11 DEF A
<1> QED BY <1>1, <1>2

\* Reaping adds nothing.
LEMMA PurgeSays ==
    ASSUME NEW me \in NodeId, NEW s, WellFormed(s, me), NEW t \in Nat, NEW ret \in Nat,
           NEW r, r = wake_swim_reap(s, t, ret)
    PROVE  Told(r) \subseteq Told(s) /\ r.self_incarnation = s.self_incarnation
<1> DEFINE R == Reapable(s, t, ret)
           K == DOMAIN s.members \ R
           ms == s.members
           ns == Compact(s.members, K)
<1>1. CASE R = {}
  BY <1>1 DEF wake_swim_reap
<1>2. CASE R # {}
  <2>1. s \in SwimState /\ ms \in Seq(Member)
    BY DEF WellFormed, ListOK
  <2>2. r.members = ns /\ r.updates = s.updates /\ r.self_incarnation = s.self_incarnation
    BY <1>2, <2>1 DEF wake_swim_reap, SwimState
  <2>3. K \in SUBSET (DOMAIN ms)
    OBVIOUS
  <2> HIDE DEF K, R
  <2>4. /\ DOMAIN ns = 1..Cardinality(K)
        /\ \A k \in 1..Cardinality(K) : Nth(K, k) \in K /\ ns[k] = ms[Nth(K, k)]
    BY <2>1, <2>3, CompactKeeps
  <2> HIDE DEF ns
  <2>5. \A k \in DOMAIN ns : Saying(ns[k]) \in Told(s)
    BY <2>3, <2>4, ToldEntries
  <2> QED BY <2>2, <2>5, ToldEntries, ToldWithin
<1> QED BY <1>1, <1>2

\* Neither does handing updates out.
LEMMA SendSays ==
    ASSUME NEW me \in NodeId, NEW s, WellFormed(s, me), NEW max \in Nat,
           NEW r, r = wake_swim_get_updates(s, max)
    PROVE  Told(r) \subseteq Told(s) /\ r.self_incarnation = s.self_incarnation
<1> DEFINE P == Picked(s, max)
           p == s.updates
           q == [i \in DOMAIN s.updates |->
                    IF i \in P THEN [s.updates[i] EXCEPT !.piggyback_count = @ + 1]
                    ELSE s.updates[i]]
           K == {i \in DOMAIN q : q[i].piggyback_count < PiggybackLimit(s)}
           c == Compact(q, K)
<1>1. CASE max = 0
  BY <1>1 DEF wake_swim_get_updates
<1>2. CASE max # 0
  <2>1. s \in SwimState /\ p \in Seq(Update) /\ Len(p) \in Nat /\ DOMAIN p = 1..Len(p)
    BY DEF WellFormed, QueueOK
  <2>2. r.updates = c /\ r.members = s.members /\ r.self_incarnation = s.self_incarnation
    BY <1>2, <2>1 DEF wake_swim_get_updates, SwimState
  <2>3. ASSUME NEW i \in DOMAIN p
        PROVE  LET u == [p[i] EXCEPT !.piggyback_count = @ + 1]
               IN  u \in Update /\ Tells(u, p[i])
    <3>1. p[i] \in Update
      BY <2>1
    <3> QED BY <3>1 DEF Update, Tells
  <2> HIDE DEF P
  <2>4. \A i \in DOMAIN p : Tells(p[i], p[i])
    BY DEF Tells
  <2>5. /\ q \in [1..Len(p) -> Update] /\ DOMAIN q = DOMAIN p
        /\ \A i \in DOMAIN q : Tells(q[i], p[i])
    BY <2>1, <2>3, <2>4
  <2>6. K \in SUBSET (DOMAIN q)
    OBVIOUS
  <2> HIDE DEF q, K
  <2>7. q \in Seq(Update)
    BY <2>1, <2>5, FcnIsSeq
  <2>8. /\ DOMAIN c = 1..Cardinality(K)
        /\ \A k \in 1..Cardinality(K) : Nth(K, k) \in K /\ c[k] = q[Nth(K, k)]
    BY <2>6, <2>7, CompactKeeps
  <2> HIDE DEF c
  <2>9. \A k \in DOMAIN c : Saying(c[k]) \in Told(s)
    <3>1. \A i \in DOMAIN q : Saying(q[i]) \in Told(s)
      BY <2>5, SameSaying, ToldEntries
    <3> QED BY <2>6, <2>8, <3>1
  <2> QED BY <2>2, <2>9, ToldEntries, ToldWithin
<1> QED BY <1>1, <1>2

\* A new or reset instance says nothing.
LEMMA EmptySays ==
    ASSUME NEW s
    PROVE  /\ \A me : Told(wake_swim_create(me)) = {}
           /\ Told(wake_swim_reset(s)) = {}
           /\ wake_swim_reset(s).self_incarnation = s.self_incarnation
<1>1. ASSUME NEW r, r.members = << >>, r.updates = << >> PROVE Told(r) = {}
  BY <1>1 DEF Told
<1> QED BY <1>1 DEF wake_swim_create, wake_swim_reset

-----------------------------------------------------------------------------
(* The invariant.                                                          *)

\* What backs the saying u: its subject has reached the incarnation (or has lost
\* count of it), a verdict was pronounced by somebody about that incarnation, and
\* every lower incarnation was left because of an accusation.
Backed(u, ns, acc, rem, res) ==
    /\ u.node_id \notin res => u.incarnation <= ns[u.node_id].self_incarnation
    /\ u.state \in {SUSPECT, DEAD} => <<u.node_id, u.incarnation>> \in acc
    /\ u.state = LEFT => u.node_id \in rem
    /\ \A k \in 0..(u.incarnation - 1) : <<u.node_id, k>> \in acc

Histories(acc, rem, res) ==
    acc \subseteq NodeId \X Incarnation /\ rem \subseteq NodeId /\ res \subseteq NodeId

MInv ==
    /\ nodes \in [NodeId -> SwimState]
    /\ \A n \in NodeId : WellFormed(nodes[n], n)
    /\ clock \in [NodeId -> Nat]
    /\ net \subseteq Rumour
    /\ Histories(accused, removed, restarted)
    /\ \A u \in Said : Backed(u, nodes, accused, removed, restarted)
    /\ RefutationsEarned

\* Everything said is well typed.
LEMMA SaidTyped ==
    ASSUME MInv
    PROVE  /\ Said \subseteq Rumour
           /\ \A n \in NodeId : Told(nodes[n]) \subseteq Said
           /\ net \subseteq Said
<1>1. \A n \in NodeId : Told(nodes[n]) \subseteq Rumour
  BY ToldTyped DEF MInv
<1> QED BY <1>1 DEF Said, MInv

\* A saying stays backed while histories grow and its subject's incarnation does
\* not fall, unless the subject restarts.
LEMMA StaysBacked ==
    ASSUME NEW u \in Rumour, NEW ns, NEW acc, NEW rem, NEW res, Backed(u, ns, acc, rem, res),
           NEW ns2, NEW acc2, NEW rem2, NEW res2,
           acc \subseteq acc2, rem \subseteq rem2, res \subseteq res2,
           ns[u.node_id].self_incarnation \in Incarnation,
           ns2[u.node_id].self_incarnation \in Incarnation,
           \/ u.node_id \in res2
           \/ ns[u.node_id].self_incarnation <= ns2[u.node_id].self_incarnation
    PROVE  Backed(u, ns2, acc2, rem2, res2)
<1>1. u.incarnation \in Incarnation
  BY DEF Rumour
<1>2. u.node_id \notin res2 => u.incarnation <= ns2[u.node_id].self_incarnation
  BY <1>1, UINT32Assumption DEF Backed, Incarnation
<1> QED BY <1>2 DEF Backed

\* Every step of the mesh is a call at one node n, after which its instance is s:
\* to keep the invariant, the call has to back what s adds.
LEMMA CallBacked ==
    ASSUME MInv, NEW n \in NodeId, NEW s, Becomes(n, s), WellFormed(s, n),
           clock' \in [NodeId -> Nat], net' \subseteq Said,
           accused \subseteq accused', removed \subseteq removed', restarted \subseteq restarted',
           Histories(accused', removed', restarted'),
           n \in restarted' \/ nodes[n].self_incarnation <= s.self_incarnation,
           \A k \in 0..(s.self_incarnation - 1) : <<n, k>> \in accused',
           \A v \in Told(s) : v \in Said \/ Backed(v, nodes', accused', removed', restarted')
    PROVE  MInv'
<1>1. nodes \in [NodeId -> SwimState] /\ s \in SwimState
  BY DEF MInv, WellFormed
<1>2. /\ nodes' \in [NodeId -> SwimState] /\ nodes'[n] = s
      /\ \A p \in NodeId : p # n => nodes'[p] = nodes[p]
  BY <1>1 DEF Becomes
<1>3. \A p \in NodeId : /\ nodes[p].self_incarnation \in Incarnation
                       /\ nodes'[p].self_incarnation \in Incarnation
  <2>1. \A p \in NodeId : nodes[p] \in SwimState /\ nodes'[p] \in SwimState
    BY <1>1, <1>2
  <2> QED BY <2>1 DEF SwimState
<1>4. \A p \in NodeId : p \in restarted' \/ nodes[p].self_incarnation <= nodes'[p].self_incarnation
  <2>1. ASSUME NEW p \in NodeId PROVE nodes[p].self_incarnation <= nodes[p].self_incarnation
    BY <1>3, UINT32Assumption DEF Incarnation
  <2> QED BY <1>2, <2>1
<1>5. \A p \in NodeId : WellFormed(nodes'[p], p)
  BY <1>2 DEF MInv
<1>6. ASSUME NEW u \in Said PROVE Backed(u, nodes', accused', removed', restarted')
  <2>1. u \in Rumour /\ Backed(u, nodes, accused, removed, restarted)
    BY SaidTyped DEF MInv
  <2>2. u.node_id \in NodeId
    BY <2>1 DEF Rumour
  <2> QED BY <1>3, <1>4, <2>1, <2>2, StaysBacked
<1>7. Said' \subseteq Said \cup Told(s)
  <2>1. \A p \in NodeId : p # n => Told(nodes'[p]) \subseteq Said
    BY <1>2, SaidTyped
  <2>2. Told(nodes'[n]) = Told(s)
    BY <1>2
  <2>3. Said' = net' \cup UNION {Told(nodes'[p]) : p \in NodeId}
    BY DEF Said, Told
  <2> QED BY <2>1, <2>2, <2>3
<1>8. \A u \in Said' : Backed(u, nodes', accused', removed', restarted')
  BY <1>6, <1>7
<1>9. RefutationsEarned'
  <2>1. ASSUME NEW p \in NodeId, NEW k \in 0..(nodes'[p].self_incarnation - 1)
        PROVE  <<p, k>> \in accused'
    <3>1. CASE p = n
      BY <1>2, <2>1, <3>1
    <3>2. CASE p # n
      <4>1. nodes'[p] = nodes[p]
        BY <1>2, <3>2
      <4> QED BY <2>1, <4>1 DEF MInv, RefutationsEarned
    <3> QED BY <3>1, <3>2
  <2> QED BY <2>1 DEF RefutationsEarned
<1>10. net' \subseteq Rumour
  BY SaidTyped
<1> QED BY <1>2, <1>5, <1>8, <1>9, <1>10 DEF MInv

-----------------------------------------------------------------------------
(* One lemma per action.                                                   *)

\* What every action may assume of the node it happens at.
LEMMA NodeFacts ==
    ASSUME MInv, NEW n \in NodeId
    PROVE  /\ WellFormed(nodes[n], n) /\ clock[n] \in Nat
           /\ nodes[n].self_incarnation \in Incarnation
           /\ nodes[n].self_incarnation <= nodes[n].self_incarnation
           /\ \A k \in 0..(nodes[n].self_incarnation - 1) : <<n, k>> \in accused
           /\ Told(nodes[n]) \subseteq Said
           /\ Histories(accused, removed, restarted)
<1>1. nodes[n].self_incarnation \in Incarnation
  <2>1. nodes[n] \in SwimState
    BY DEF MInv
  <2> QED BY <2>1 DEF SwimState
<1>2. nodes[n].self_incarnation <= nodes[n].self_incarnation
  BY <1>1, UINT32Assumption DEF Incarnation
<1>3. Told(nodes[n]) \subseteq Said
  BY SaidTyped
<1> QED BY <1>1, <1>2, <1>3 DEF MInv, RefutationsEarned

\* Incarnation 0 was never refused to anybody.
LEMMA FreshBacked ==
    ASSUME NEW id \in NodeId, NEW ns, ns[id].self_incarnation \in Incarnation,
           NEW acc, NEW rem, NEW res
    PROVE  Backed(Fresh(id), ns, acc, rem, res)
<1>1. 0 <= ns[id].self_incarnation
  BY UINT32Assumption DEF Incarnation
<1>2. ALIVE \notin {SUSPECT, DEAD} /\ ALIVE # LEFT
  BY DEF ALIVE, SUSPECT, DEAD, LEFT
<1> QED BY <1>1, <1>2 DEF Backed, Fresh

\* Adding a member keeps everything said backed.
LEMMA JoinBacked ==
    ASSUME MInv, NEW n \in NodeId, NEW id \in NodeId, Join(n, id)
    PROVE  MInv'
<1> DEFINE s == wake_swim_add_member(nodes[n], id, clock[n])
<1>1. /\ Becomes(n, s) /\ UNCHANGED <<clock, net, accused, removed, restarted>>
  BY DEF Join, HostCall
<1>2. WellFormed(s, n)
  BY NodeFacts, AddMemberOK
<1>3. Told(s) \subseteq Told(nodes[n]) \cup {Fresh(id)}
      /\ s.self_incarnation = nodes[n].self_incarnation
  BY NodeFacts, AddSays
<1> HIDE DEF s
<1>4. Backed(Fresh(id), nodes', accused', removed', restarted')
  <2>1. nodes'[id] = IF id = n THEN s ELSE nodes[id]
    BY <1>1 DEF Becomes, MInv
  <2>2. nodes'[id].self_incarnation \in Incarnation
    BY <1>3, <2>1, NodeFacts
  <2> QED BY <2>2, FreshBacked
<1>5. \A v \in Told(s) : v \in Said \/ Backed(v, nodes', accused', removed', restarted')
  BY <1>3, <1>4, NodeFacts
<1>6. clock' \in [NodeId -> Nat] /\ net' \subseteq Said
  BY <1>1, SaidTyped DEF MInv
<1> QED BY <1>1, <1>2, <1>3, <1>5, <1>6, NodeFacts, CallBacked

\* So does removing one: the incarnation of the LEFT is one already told.
LEMMA RemoveBacked ==
    ASSUME MInv, NEW n \in NodeId, NEW id \in NodeId, Remove(n, id)
    PROVE  MInv'
<1> DEFINE s == wake_swim_remove_member(nodes[n], id, clock[n])
           e == nodes[n].members[find_member(nodes[n], id)]
           w == Saying(e)
           v == [node_id |-> id, state |-> LEFT, incarnation |-> e.incarnation]
<1>1. /\ Becomes(n, s) /\ UNCHANGED <<clock, net, accused, restarted>>
      /\ removed' = IF Known(nodes[n], id) THEN removed \cup {id} ELSE removed
  BY DEF Remove, HostCall
<1>2. WellFormed(s, n)
  BY NodeFacts, RemoveMemberOK
<1>3. /\ s.self_incarnation = nodes[n].self_incarnation
      /\ ~ Known(nodes[n], id) => Told(s) \subseteq Told(nodes[n])
      /\ Known(nodes[n], id) => Told(s) \subseteq Told(nodes[n]) \cup {v}
  BY NodeFacts, RemoveSays
<1>4. ASSUME Known(nodes[n], id) PROVE Backed(v, nodes', accused', removed', restarted')
  <2>1. w \in Told(nodes[n]) /\ w.node_id = id /\ w.incarnation = e.incarnation
    BY <1>4, NodeFacts, KnownTold
  <2> HIDE DEF w, e
  <2>2. w \in Said /\ Backed(w, nodes, accused, removed, restarted)
    BY <2>1, NodeFacts DEF MInv
  <2>3. nodes'[id] = IF id = n THEN s ELSE nodes[id]
    BY <1>1 DEF Becomes, MInv
  <2>4. nodes'[id].self_incarnation = nodes[id].self_incarnation
    BY <1>3, <2>3
  <2>5. LEFT \notin {SUSPECT, DEAD}
    BY DEF SUSPECT, DEAD, LEFT
  <2> QED BY <1>1, <1>4, <2>1, <2>2, <2>4, <2>5 DEF Backed
<1> HIDE DEF s, v
<1>5. \A x \in Told(s) : x \in Said \/ Backed(x, nodes', accused', removed', restarted')
  BY <1>3, <1>4, NodeFacts
<1>6. clock' \in [NodeId -> Nat] /\ net' \subseteq Said
  BY <1>1, SaidTyped DEF MInv
<1>7. removed \subseteq removed' /\ Histories(accused', removed', restarted')
  BY <1>1, NodeFacts DEF Histories
<1> QED BY <1>1, <1>2, <1>3, <1>5, <1>6, <1>7, NodeFacts, CallBacked

\* So does suspecting one: the accusation is recorded at that incarnation.
LEMMA AccuseBacked ==
    ASSUME MInv, NEW n \in NodeId, NEW id \in NodeId, Accuse(n, id)
    PROVE  MInv'
<1> DEFINE s == wake_swim_suspect_member(nodes[n], id, clock[n])
           e == nodes[n].members[find_member(nodes[n], id)]
           w == Saying(e)
           v == [node_id |-> id, state |-> SUSPECT, incarnation |-> e.incarnation]
<1>1. /\ Becomes(n, s) /\ UNCHANGED <<clock, net, removed, restarted>>
      /\ accused' = IF Known(nodes[n], id) THEN accused \cup {<<id, e.incarnation>>} ELSE accused
  BY DEF Accuse, HostCall
<1>2. WellFormed(s, n)
  BY NodeFacts, SuspectMemberOK
<1>3. /\ s.self_incarnation = nodes[n].self_incarnation
      /\ ~ Known(nodes[n], id) => Told(s) \subseteq Told(nodes[n])
      /\ Known(nodes[n], id) => Told(s) \subseteq Told(nodes[n]) \cup {v}
  BY NodeFacts, SuspectSays
<1>4. ASSUME Known(nodes[n], id)
      PROVE  /\ Backed(v, nodes', accused', removed', restarted')
             /\ e.incarnation \in Incarnation
  <2>1. w \in Told(nodes[n]) /\ w.node_id = id /\ w.incarnation = e.incarnation /\ e \in Member
    BY <1>4, NodeFacts, KnownTold
  <2> HIDE DEF w, e
  <2>2. w \in Said /\ Backed(w, nodes, accused, removed, restarted)
    BY <2>1, NodeFacts DEF MInv
  <2>3. nodes'[id] = IF id = n THEN s ELSE nodes[id]
    BY <1>1 DEF Becomes, MInv
  <2>4. nodes'[id].self_incarnation = nodes[id].self_incarnation
    BY <1>3, <2>3
  <2>5. SUSPECT # LEFT
    BY DEF SUSPECT, LEFT
  <2>6. e.incarnation \in Incarnation
    BY <2>1 DEF Member
  <2>7. /\ v.node_id \notin restarted' => v.incarnation <= nodes'[id].self_incarnation
        /\ <<v.node_id, v.incarnation>> \in accused'
    BY <1>1, <1>4, <2>1, <2>2, <2>4 DEF Backed
  <2>8. \A k \in 0..(v.incarnation - 1) : <<v.node_id, k>> \in accused'
    BY <1>1, <1>4, <2>1, <2>2 DEF Backed
  <2> QED BY <2>5, <2>6, <2>7, <2>8 DEF Backed
<1> HIDE DEF s, v, e
<1>5. \A x \in Told(s) : x \in Said \/ Backed(x, nodes', accused', removed', restarted')
  BY <1>3, <1>4, NodeFacts
<1>6. clock' \in [NodeId -> Nat] /\ net' \subseteq Said
  BY <1>1, SaidTyped DEF MInv
<1>7. accused \subseteq accused' /\ Histories(accused', removed', restarted')
  BY <1>1, <1>4, NodeFacts DEF Histories
<1>8. \A k \in 0..(s.self_incarnation - 1) : <<n, k>> \in accused'
  BY <1>3, <1>7, NodeFacts
<1> QED BY <1>1, <1>2, <1>3, <1>5, <1>6, <1>7, <1>8, NodeFacts, CallBacked

\* wake_swim_reset forgets everything but the incarnation.
LEMMA ForgetBacked ==
    ASSUME MInv, NEW n \in NodeId, Forget(n)
    PROVE  MInv'
<1> DEFINE s == wake_swim_reset(nodes[n])
<1>1. Becomes(n, s) /\ UNCHANGED <<clock, net, accused, removed, restarted>>
  BY DEF Forget, HostCall
<1>2. nodes[n].self_id = n
  BY NodeFacts DEF WellFormed
<1>3. WellFormed(s, n)
  BY <1>2, NodeFacts, EmptyOK DEF wake_swim_reset
<1>4. Told(s) = {} /\ s.self_incarnation = nodes[n].self_incarnation
  BY EmptySays
<1> HIDE DEF s
<1>5. clock' \in [NodeId -> Nat] /\ net' \subseteq Said
  BY <1>1, SaidTyped DEF MInv
<1> QED BY <1>1, <1>3, <1>4, <1>5, NodeFacts, CallBacked

\* A new instance is well formed.
LEMMA CreateOK ==
    ASSUME NEW n \in NodeId
    PROVE  WellFormed(wake_swim_create(n), n) /\ wake_swim_create(n).self_incarnation = 0
<1>1. 0 \in Incarnation
  BY UINT32Assumption DEF Incarnation
<1>2. wake_swim_create(n) = [wake_swim_create(n) EXCEPT !.self_incarnation = 0]
  BY DEF wake_swim_create
<1>3. wake_swim_create(n).self_incarnation = 0
  BY DEF wake_swim_create
<1> QED BY <1>1, <1>2, <1>3, EmptyOK

\* A restarted process has forgotten its incarnation too.
LEMMA RestartBacked ==
    ASSUME MInv, NEW n \in NodeId, Restart(n)
    PROVE  MInv'
<1> DEFINE s == wake_swim_create(n)
<1>1. /\ Becomes(n, s) /\ UNCHANGED <<clock, net, accused, removed>>
      /\ restarted' = restarted \cup {n}
  BY DEF Restart, HostCall
<1>2. WellFormed(s, n) /\ s.self_incarnation = 0 /\ Told(s) = {}
  BY CreateOK, EmptySays
<1> HIDE DEF s
<1>3. clock' \in [NodeId -> Nat] /\ net' \subseteq Said
  BY <1>1, SaidTyped DEF MInv
<1>4. n \in restarted' /\ restarted \subseteq restarted' /\ Histories(accused', removed', restarted')
  BY <1>1, NodeFacts DEF Histories
<1>5. \A k \in 0..(s.self_incarnation - 1) : <<n, k>> \in accused'
  BY <1>2
<1> QED BY <1>1, <1>2, <1>3, <1>4, <1>5, CallBacked

\* A member declared dead was suspected at the same incarnation.
LEMMA ExpireBacked ==
    ASSUME MInv, NEW n \in NodeId, Expire(n)
    PROVE  MInv'
<1> DEFINE s == wake_swim_check_suspects(nodes[n], clock[n])
<1>1. Becomes(n, s) /\ UNCHANGED <<clock, net, accused, removed, restarted>>
  BY DEF Expire
<1>2. WellFormed(s, n)
  BY NodeFacts, CheckSuspectsOK
<1>3. /\ Told(s) \subseteq Told(nodes[n]) \cup Doomed(nodes[n])
      /\ s.self_incarnation = nodes[n].self_incarnation
  BY NodeFacts, ExpireSays
<1> HIDE DEF s
<1>4. ASSUME NEW v \in Doomed(nodes[n])
      PROVE  Backed(v, nodes', accused', removed', restarted')
  <2>1. PICK w \in Told(nodes[n]) :
          /\ w.state = SUSPECT
          /\ v = [node_id |-> w.node_id, state |-> DEAD, incarnation |-> w.incarnation]
    BY DEF Doomed
  <2>2. w \in Said /\ Backed(w, nodes, accused, removed, restarted) /\ w \in Rumour
    BY <2>1, NodeFacts, SaidTyped DEF MInv
  <2>3. w.node_id \in NodeId
    BY <2>2 DEF Rumour
  <2>4. nodes'[w.node_id].self_incarnation = nodes[w.node_id].self_incarnation
    BY <1>1, <1>3, <2>3 DEF Becomes, MInv
  <2>5. DEAD # LEFT
    BY DEF DEAD, LEFT
  <2> QED BY <1>1, <2>1, <2>2, <2>4, <2>5 DEF Backed
<1>5. \A v \in Told(s) : v \in Said \/ Backed(v, nodes', accused', removed', restarted')
  BY <1>3, <1>4, NodeFacts
<1>6. clock' \in [NodeId -> Nat] /\ net' \subseteq Said
  BY <1>1, SaidTyped DEF MInv
<1> QED BY <1>1, <1>2, <1>3, <1>5, <1>6, NodeFacts, CallBacked

\* Reaping says nothing new.
LEMMA PurgeBacked ==
    ASSUME MInv, NEW n \in NodeId, Purge(n)
    PROVE  MInv'
<1> DEFINE s == wake_swim_reap(nodes[n], clock[n], KeepMs)
<1>1. Becomes(n, s) /\ UNCHANGED <<clock, net, accused, removed, restarted>>
  BY DEF Purge
<1>2. WellFormed(s, n)
  BY NodeFacts, ReapOK, KeepAssumption
<1>3. Told(s) \subseteq Told(nodes[n]) /\ s.self_incarnation = nodes[n].self_incarnation
  BY NodeFacts, PurgeSays, KeepAssumption
<1> HIDE DEF s
<1>4. \A v \in Told(s) : v \in Said
  BY <1>3, NodeFacts
<1>5. clock' \in [NodeId -> Nat] /\ net' \subseteq Said
  BY <1>1, SaidTyped DEF MInv
<1> QED BY <1>1, <1>2, <1>3, <1>4, <1>5, NodeFacts, CallBacked

\* Sending passes on what the sender says.
LEMMA SendBacked ==
    ASSUME MInv, NEW n \in NodeId, Send(n)
    PROVE  MInv'
<1> DEFINE s == wake_swim_get_updates(nodes[n], PerMessage)
           P == Picked(nodes[n], PerMessage)
<1>1. /\ Becomes(n, s) /\ UNCHANGED <<clock, accused, removed, restarted>>
      /\ net' = net \cup {Saying(nodes[n].updates[i]) : i \in P}
  BY DEF Send
<1>2. WellFormed(s, n)
  BY NodeFacts, GetUpdatesOK, PerMessageAssumption
<1>3. Told(s) \subseteq Told(nodes[n]) /\ s.self_incarnation = nodes[n].self_incarnation
  BY NodeFacts, SendSays, PerMessageAssumption
<1>4. P \subseteq DOMAIN nodes[n].updates
  BY DEF Picked
<1> HIDE DEF s, P
<1>5. \A v \in Told(s) : v \in Said
  BY <1>3, NodeFacts
<1>6. net' \subseteq Said
  BY <1>1, <1>4, NodeFacts, SaidTyped, ToldEntries
<1>7. clock' \in [NodeId -> Nat]
  BY <1>1 DEF MInv
<1> QED BY <1>1, <1>2, <1>3, <1>5, <1>6, <1>7, NodeFacts, CallBacked

\* How an update moves the receiver's own incarnation: never down, and up only to
\* what the update and the accusation it may carry justify.
LEMMA OwnIncarnation ==
    ASSUME MInv, NEW n \in NodeId, NEW u \in net, u.node_id = n,
           NEW s, s = apply_to_self(nodes[n], u),
           u.state \in {SUSPECT, DEAD} => u.incarnation < UINT32_MAX
    PROVE  /\ nodes[n].self_incarnation <= s.self_incarnation
           /\ \A k \in 0..(s.self_incarnation - 1) : <<n, k>> \in accused
           /\ Accuses(u, n) => u.incarnation < s.self_incarnation
<1> DEFINE own == nodes[n].self_incarnation
           new == s.self_incarnation
<1>1. u \in Rumour /\ Backed(u, nodes, accused, removed, restarted)
  BY SaidTyped DEF MInv
<1>2. u.incarnation \in Incarnation /\ own \in Incarnation
  BY <1>1, NodeFacts DEF Rumour
<1>3. new = IF u.state \in {SUSPECT, DEAD}
            THEN IF u.incarnation >= own THEN u.incarnation + 1 ELSE own
            ELSE IF u.incarnation > own THEN u.incarnation ELSE own
  BY <1>1, NodeFacts, SelfSays
<1>4. \A k \in 0..(own - 1) : <<n, k>> \in accused
  BY NodeFacts
<1>5. \A k \in 0..(u.incarnation - 1) : <<n, k>> \in accused
  BY <1>1 DEF Backed
<1>6. u.state \in {SUSPECT, DEAD} => <<n, u.incarnation>> \in accused
  BY <1>1 DEF Backed
<1> HIDE DEF own, new
<1>7. ASSUME NEW k \in 0..(new - 1) PROVE <<n, k>> \in accused
  <2>1. CASE k \in 0..(own - 1)
    BY <2>1, <1>4
  <2>2. CASE k \in 0..(u.incarnation - 1)
    BY <2>2, <1>5
  <2>3. CASE k \notin 0..(own - 1) /\ k \notin 0..(u.incarnation - 1)
    <3>1. u.state \in {SUSPECT, DEAD} /\ k = u.incarnation
      BY <1>2, <1>3, <2>3, UINT32Assumption DEF Incarnation
    <3> QED BY <3>1, <1>6
  <2> QED BY <2>1, <2>2, <2>3
<1>8. own <= new
  BY <1>2, <1>3, UINT32Assumption DEF Incarnation
<1>9. u.state \in {SUSPECT, DEAD} => u.incarnation < new
  BY <1>2, <1>3, UINT32Assumption DEF Incarnation
<1> QED BY <1>7, <1>8, <1>9 DEF own, new, Accuses

\* An update delivered, however late or often, keeps everything said backed.
LEMMA DeliverBacked ==
    ASSUME MInv, NEW n \in NodeId, NEW u \in net, Deliver(n, u)
    PROVE  MInv'
<1> DEFINE s == wake_swim_apply_update(nodes[n], u, clock[n])
<1>1. Becomes(n, s) /\ UNCHANGED <<clock, net, accused, removed, restarted>>
  BY DEF Deliver
<1>2. u \in Rumour /\ u \in Said /\ u.node_id \in NodeId
  BY SaidTyped DEF MInv, Rumour
<1>3. WellFormed(s, n) /\ nodes[n].self_id = n
  BY <1>2, NodeFacts, ApplyUpdateOK DEF WellFormed
<1>4. clock' \in [NodeId -> Nat] /\ net' \subseteq Said
  BY <1>1, SaidTyped DEF MInv
<1>5. CASE u.node_id = n
  <2>1. s = apply_to_self(nodes[n], u)
    BY <1>3, <1>5 DEF wake_swim_apply_update
  <2>2. u.state \in {SUSPECT, DEAD} => u.incarnation < UINT32_MAX
    BY <1>5 DEF Deliver, Accuses
  <2> HIDE DEF s
  <2>3. /\ nodes[n].self_incarnation <= s.self_incarnation
        /\ \A k \in 0..(s.self_incarnation - 1) : <<n, k>> \in accused
    BY <1>5, <2>1, <2>2, OwnIncarnation
  <2> DEFINE v == [node_id |-> n, state |-> ALIVE, incarnation |-> s.self_incarnation]
  <2>4. Told(s) \subseteq Told(nodes[n]) \cup {v}
    BY <1>2, <2>1, <2>2, NodeFacts, SelfSays
  <2>5. Backed(v, nodes', accused', removed', restarted')
    <3>1. nodes'[n] = s
      BY <1>1 DEF Becomes, MInv
    <3>2. s.self_incarnation <= s.self_incarnation
      <4>1. s.self_incarnation \in Incarnation
        BY <1>3 DEF WellFormed, SwimState
      <4> QED BY <4>1, UINT32Assumption DEF Incarnation
    <3>3. ALIVE \notin {SUSPECT, DEAD} /\ ALIVE # LEFT
      BY DEF ALIVE, SUSPECT, DEAD, LEFT
    <3> QED BY <1>1, <2>3, <3>1, <3>2, <3>3 DEF Backed
  <2> HIDE DEF v
  <2>6. \A x \in Told(s) : x \in Said \/ Backed(x, nodes', accused', removed', restarted')
    BY <2>4, <2>5, NodeFacts
  <2> QED BY <1>1, <1>3, <1>4, <2>3, <2>6, NodeFacts, CallBacked
<1>6. CASE u.node_id # n
  <2>1. /\ Told(s) \subseteq Told(nodes[n]) \cup {Fresh(u.node_id), u}
        /\ s.self_incarnation = nodes[n].self_incarnation
    <3>1. CASE Known(nodes[n], u.node_id)
      <4>1. s = apply_to_known(nodes[n], u, clock[n])
        BY <1>3, <1>6, <3>1 DEF wake_swim_apply_update
      <4> HIDE DEF s
      <4> QED BY <1>2, <3>1, <4>1, NodeFacts, KnownSays
    <3>2. CASE ~ Known(nodes[n], u.node_id)
      <4>1. s = apply_to_unknown(nodes[n], u, clock[n])
        BY <1>3, <1>6, <3>2 DEF wake_swim_apply_update
      <4> HIDE DEF s
      <4> QED BY <1>2, <4>1, NodeFacts, UnknownSays
    <3> QED BY <3>1, <3>2
  <2> HIDE DEF s
  <2>2. Backed(Fresh(u.node_id), nodes', accused', removed', restarted')
    <3>1. nodes'[u.node_id].self_incarnation = nodes[u.node_id].self_incarnation
      BY <1>1, <1>2, <1>6 DEF Becomes, MInv
    <3>2. nodes'[u.node_id].self_incarnation \in Incarnation
      BY <1>2, <3>1, NodeFacts
    <3> QED BY <1>2, <3>2, FreshBacked
  <2>3. \A x \in Told(s) : x \in Said \/ Backed(x, nodes', accused', removed', restarted')
    BY <1>2, <2>1, <2>2, NodeFacts
  <2> QED BY <1>1, <1>3, <1>4, <2>1, <2>3, NodeFacts, CallBacked
<1> QED BY <1>5, <1>6

-----------------------------------------------------------------------------
(* The specification.                                                      *)

\* Nothing is said when the mesh starts.
LEMMA MInvInit == MeshInit => MInv
<1> SUFFICES ASSUME MeshInit PROVE MInv
  OBVIOUS
<1>1. \A n \in NodeId : nodes[n] = wake_swim_create(n)
  BY DEF MeshInit
<1>2. \A n \in NodeId : /\ WellFormed(nodes[n], n) /\ nodes[n].self_incarnation = 0
                        /\ Told(nodes[n]) = {}
  BY <1>1, CreateOK, EmptySays
<1>3. nodes \in [NodeId -> SwimState]
  <2>1. \A n \in NodeId : wake_swim_create(n) \in SwimState
    BY CreateOK DEF WellFormed
  <2> QED BY <2>1 DEF MeshInit
<1>4. Said = {}
  BY <1>2 DEF Said, MeshInit
<1>5. RefutationsEarned
  BY <1>2 DEF RefutationsEarned
<1> QED BY <1>2, <1>3, <1>4, <1>5 DEF MInv, MeshInit, Histories

\* Every step of the mesh preserves the invariant.
LEMMA MInvStep == MInv /\ [MeshNext]_meshVars => MInv'
<1> SUFFICES ASSUME MInv, [MeshNext]_meshVars PROVE MInv'
  OBVIOUS
<1>1. ASSUME NEW n \in NodeId, MeshTick(n) PROVE MInv'
  <2>1. clock' \in [NodeId -> Nat]
    BY <1>1 DEF MeshTick, MInv
  <2>2. UNCHANGED <<nodes, net, accused, removed, restarted>>
    BY <1>1 DEF MeshTick
  <2> QED BY <2>1, <2>2 DEF MInv, Said, Told, RefutationsEarned
<1>2. ASSUME UNCHANGED meshVars PROVE MInv'
  BY <1>2 DEF meshVars, MInv, Said, Told, RefutationsEarned
<1> QED BY <1>1, <1>2, JoinBacked, RemoveBacked, AccuseBacked, ForgetBacked, RestartBacked,
           ExpireBacked, PurgeBacked, SendBacked, DeliverBacked DEF MeshNext

\* The invariant holds in every reachable state of every mesh.
LEMMA MInvAlways == MeshSpec => []MInv
BY MInvInit, MInvStep, PTL DEF MeshSpec

\* Every node of every mesh keeps its id, its types and its allocation.
THEOREM MeshTypeCorrect == MeshSpec => []MeshTypeOK
<1>1. MInv => MeshTypeOK
  <2> SUFFICES ASSUME MInv PROVE MeshTypeOK
    OBVIOUS
  <2>1. \A n \in NodeId : /\ nodes[n].self_id = n /\ Len(nodes[n].members) <= MaxMembers
                          /\ Len(nodes[n].updates) <= UpdateQueueSize
    BY DEF MInv, WellFormed, ListOK, QueueOK
  <2> QED BY <2>1 DEF MInv, MeshTypeOK, Histories
<1> QED BY MInvAlways, <1>1, PTL

\* Whatever is lost, delayed, repeated or passed on through other nodes, nobody is
\* said to have an incarnation it has not reached, unless its process died.
THEOREM NoForgedIncarnationCorrect == MeshSpec => []NoForgedIncarnation
<1>1. MInv => NoForgedIncarnation
  BY DEF MInv, NoForgedIncarnation, Backed
<1> QED BY MInvAlways, <1>1, PTL

\* No verdict is made up: every SUSPECT and DEAD in the mesh goes back to a failed
\* probe at that incarnation, every LEFT to a removal.
THEOREM VerdictsFoundedCorrect == MeshSpec => []VerdictsFounded
<1>1. MInv => VerdictsFounded
  BY DEF MInv, VerdictsFounded, Backed
<1> QED BY MInvAlways, <1>1, PTL

\* Incarnations count real suspicions.
THEOREM RefutationsEarnedCorrect == MeshSpec => []RefutationsEarned
<1>1. MInv => RefutationsEarned
  BY DEF MInv
<1> QED BY MInvAlways, <1>1, PTL

\* The answer to a current accusation supersedes everything said about the node in
\* the whole mesh, but that it left.
THEOREM RefutationOutrunsCorrect == MeshSpec => RefutationOutruns
<1> DEFINE Act == \A n \in NodeId \ restarted : \A u \in net :
          Accuses(u, n) /\ u.incarnation = nodes[n].self_incarnation /\ Deliver(n, u) =>
             \A v \in Said : v.node_id = n /\ v.state # LEFT =>
                state_supersedes(ALIVE, nodes'[n].self_incarnation,
                                 v.state, v.incarnation)
<1>1. MInv => Act
  <2> SUFFICES ASSUME MInv, NEW n \in NodeId \ restarted, NEW u \in net,
                      Accuses(u, n), u.incarnation = nodes[n].self_incarnation, Deliver(n, u),
                      NEW v \in Said, v.node_id = n, v.state # LEFT
               PROVE  state_supersedes(ALIVE, nodes'[n].self_incarnation,
                                       v.state, v.incarnation)
    OBVIOUS
  <2> DEFINE s == wake_swim_apply_update(nodes[n], u, clock[n])
  <2>1. s = apply_to_self(nodes[n], u)
    <3>1. nodes[n].self_id = n
      BY NodeFacts DEF WellFormed
    <3> QED BY <3>1 DEF wake_swim_apply_update, Accuses
  <2>2. nodes'[n] = s
    BY DEF Deliver, Becomes, MInv
  <2> HIDE DEF s
  <2>3. u.incarnation < s.self_incarnation
    BY <2>1, OwnIncarnation DEF Deliver, Accuses
  <2>4. v.incarnation <= nodes[n].self_incarnation
    BY DEF MInv, Backed
  <2>5. v.incarnation \in Incarnation /\ u.incarnation \in Incarnation
    BY SaidTyped DEF Rumour, MInv
  <2>6. s.self_incarnation \in Incarnation
    <3>1. WellFormed(s, n)
      <4>1. u \in Rumour
        BY DEF MInv
      <4> QED BY <4>1, NodeFacts, ApplyUpdateOK DEF s
    <3> QED BY <3>1 DEF WellFormed, SwimState
  <2>7. s.self_incarnation > v.incarnation
    BY <2>3, <2>4, <2>5, <2>6, UINT32Assumption DEF Incarnation
  <2> QED BY <2>2, <2>7 DEF state_supersedes
<1>2. MInv /\ [MeshNext]_meshVars => [Act]_meshVars
  BY <1>1
<1>3. MeshSpec => [][Act]_meshVars
  BY <1>2, MInvAlways, PTL DEF MeshSpec
<1> QED BY <1>3 DEF RefutationOutruns

=============================================================================
