---------------------------- MODULE PlumTreeProofs ----------------------------
(***************************************************************************)
(* What is proved about the broadcast mesh (module PlumTree), for every    *)
(* mesh, every number of faults and every size of the tables: the tables   *)
(* keep to their sizes, no node is stranded without a message it was told  *)
(* of, and to the hosts the mesh is the broadcast layer of module          *)
(* Dissemination.                                                          *)
(*                                                                         *)
(* Each action has one lemma, which shows that the inductive invariant     *)
(* survives it and that the hosts see a step of Dissemination or nothing.  *)
(***************************************************************************)
EXTENDS PlumTree, NatFacts, FiniteSetTheorems, SequenceTheorems

Ihave == [msg : Message, from : Node]

\* A peer table of n: other nodes, no more of them than fit, each with a link type.
LinksOK(n, l) ==
  /\ DOMAIN l \subseteq Node \ {n} /\ l \in [DOMAIN l -> {EAGER, LAZY}]
  /\ IsFiniteSet(DOMAIN l) /\ Cardinality(DOMAIN l) <= MaxPeers

LinksInv == /\ links = [n \in Node |-> links[n]]
            /\ \A n \in Node : LinksOK(n, links[n])

\* The cache and the pending IHAVEs keep to their sizes.
TablesInv == /\ cache \in [Node -> Seq(Message)] /\ pending \in [Node -> Seq(Ihave)]
             /\ \A n \in Node : Len(cache[n]) <= CacheSize /\ Len(pending[n]) <= PendingSize

NetInv == net \subseteq Datagram

HistInv == /\ origin \in [Message -> SUBSET Node]
           /\ delivered \in [Node -> [Message -> Nat]]
           /\ announced \in [Node -> SUBSET Message]

\* A message that is held, or that travels in a GOSSIP, was broadcast.
Known ==
  /\ \A n \in Node : \A m \in ToSet(cache[n]) : origin[m] # {}
  /\ \A d \in net : d.type = "gossip" => origin[d.msg] # {}

\* What a node holds it broadcast itself or gave to its host.
CachedHad == \A n \in Node : ToSet(cache[n]) \subseteq Had(n)

\* m has reached n, can still reach it, or n lost a chance of getting it.
Reachable(n, m) ==
  \/ m \in Had(n) \/ <<n, m>> \in missed
  \/ \E e \in ToSet(pending[n]) : e.msg = m
  \/ \E d \in net : \/ d.type \in {"gossip", "ihave"} /\ d.to = n /\ d.msg = m
                    \/ d.type = "graft" /\ d.from = n /\ d.msg = m

IInv == LinksInv /\ TablesInv /\ NetInv /\ HistInv /\ Known /\ CachedHad /\ NotStranded

\* The hosts see a step of the broadcast layer, or nothing.
HostsStep == [Hosts!Next]_(Hosts!vars)

-----------------------------------------------------------------------------
(* The sequences of a node                                                 *)

\* The entries of a sequence are those at its positions.
LEMMA ToSetSeq ==
    ASSUME NEW S, NEW s \in Seq(S)
    PROVE  /\ ToSet(s) = {s[i] : i \in 1 .. Len(s)}
           /\ ToSet(s) \subseteq S
  BY DEF ToSet

\* Dropping the k oldest entries keeps all the others.
LEMMA DropOldest ==
    ASSUME NEW S, NEW s \in Seq(S), NEW k \in 0 .. Len(s)
    PROVE  /\ SubSeq(s, k + 1, Len(s)) \in Seq(S)
           /\ Len(SubSeq(s, k + 1, Len(s))) = Len(s) - k
           /\ ToSet(SubSeq(s, k + 1, Len(s))) \subseteq ToSet(s)
           /\ \A e \in ToSet(s) : \/ e \in {s[i] : i \in 1 .. k}
                                  \/ e \in ToSet(SubSeq(s, k + 1, Len(s)))
<1> DEFINE t == SubSeq(s, k + 1, Len(s))
<1>1. /\ t \in Seq(S) /\ Len(t) = Len(s) - k
      /\ \A i \in 1 .. Len(t) : t[i] = s[k + i]
  OBVIOUS
<1> HIDE DEF t
<1>2. /\ ToSet(t) = {t[i] : i \in 1 .. Len(t)}
      /\ ToSet(s) = {s[i] : i \in 1 .. Len(s)}
  BY <1>1, ToSetSeq
<1>3. ToSet(t) \subseteq ToSet(s)
  BY <1>1, <1>2
<1>4. ASSUME NEW i \in 1 .. Len(s), i \notin 1 .. k PROVE s[i] \in ToSet(t)
  <2>1. i - k \in 1 .. Len(t) /\ s[i] = t[i - k]
    BY <1>1, <1>4
  <2> QED BY <2>1, <1>2
<1> QED BY <1>1, <1>2, <1>3, <1>4 DEF t

\* cache_insert keeps to the size of the cache, holds the new message and adds
\* nothing else.
LEMMA InsertFacts ==
    ASSUME NEW c \in Seq(Message), Len(c) <= CacheSize, NEW m \in Message
    PROVE  /\ cache_insert(c, m) \in Seq(Message)
           /\ Len(cache_insert(c, m)) <= CacheSize
           /\ \E kept \in SUBSET ToSet(c) : ToSet(cache_insert(c, m)) = kept \cup {m}
<1> DEFINE b == IF Len(c) < CacheSize THEN c ELSE Tail(c)
<1>1. CacheSize \in Nat \ {0}
  BY PlumTreeAssumption
<1>2. b \in Seq(Message) /\ Len(b) < CacheSize /\ ToSet(b) \subseteq ToSet(c)
  <2>1. CASE Len(c) < CacheSize
    BY <2>1
  <2>2. CASE ~ (Len(c) < CacheSize)
    <3>1. c # << >> /\ Tail(c) = SubSeq(c, 1 + 1, Len(c)) /\ 1 \in 0 .. Len(c)
      BY <2>2, <1>1, TailIsSubSeq
    <3>2. \A k \in 0 .. Len(c) : /\ SubSeq(c, k + 1, Len(c)) \in Seq(Message)
                                 /\ Len(SubSeq(c, k + 1, Len(c))) = Len(c) - k
                                 /\ ToSet(SubSeq(c, k + 1, Len(c))) \subseteq ToSet(c)
      BY DropOldest
    <3>3. /\ Tail(c) \in Seq(Message) /\ Len(Tail(c)) = Len(c) - 1
          /\ ToSet(Tail(c)) \subseteq ToSet(c)
      BY <3>1, <3>2
    <3>4. b = Tail(c) /\ Len(c) = CacheSize
      BY <2>2, <1>1
    <3> QED BY <3>3, <3>4, <1>1
  <2> QED BY <2>1, <2>2
<1> HIDE DEF b
<1>3. cache_insert(c, m) = Append(b, m)
  BY DEF cache_insert, b
<1> DEFINE t == Append(b, m)
<1>4. /\ t \in Seq(Message) /\ Len(t) = Len(b) + 1 /\ t[Len(b) + 1] = m
      /\ \A i \in 1 .. Len(b) : t[i] = b[i]
  BY <1>2
<1> HIDE DEF t
<1>5. ToSet(t) = ToSet(b) \cup {m}
  <2>1. ToSet(t) = {t[i] : i \in 1 .. Len(t)}
    BY <1>4, ToSetSeq
  <2>2. ToSet(b) = {b[i] : i \in 1 .. Len(b)}
    BY <1>2, ToSetSeq
  <2>3. Len(b) \in Nat
    BY <1>2
  <2> QED BY <2>1, <2>2, <2>3, <1>4
<1>6. cache_insert(c, m) = t
  BY <1>3 DEF t
<1>7. Len(t) <= CacheSize
  BY <1>1, <1>2, <1>4
<1> QED BY <1>2, <1>4, <1>5, <1>6, <1>7

\* Removing one position keeps what is at the others.
LEMMA RemoveAtFacts ==
    ASSUME NEW S, NEW s \in Seq(S), NEW i \in 1 .. Len(s)
    PROVE  /\ RemoveAt(s, i) \in Seq(S) /\ Len(RemoveAt(s, i)) = Len(s) - 1
           /\ ToSet(RemoveAt(s, i)) \subseteq ToSet(s)
           /\ \A j \in 1 .. Len(s) : j # i => s[j] \in ToSet(RemoveAt(s, i))
<1> DEFINE a == SubSeq(s, 1, i - 1)
           b == SubSeq(s, i + 1, Len(s))
           r == RemoveAt(s, i)
<1>1. /\ a \in Seq(S) /\ Len(a) = i - 1 /\ \A j \in 1 .. i - 1 : a[j] = s[j]
      /\ b \in Seq(S) /\ Len(b) = Len(s) - i /\ \A j \in 1 .. Len(s) - i : b[j] = s[i + j]
  OBVIOUS
<1> HIDE DEF a, b
<1>2. /\ r \in Seq(S) /\ Len(r) = Len(s) - 1
      /\ \A j \in 1 .. Len(s) - 1 : r[j] = IF j <= i - 1 THEN a[j] ELSE b[j - (i - 1)]
  <2>1. r = a \o b
    BY DEF RemoveAt, a, b
  <2>2. /\ a \o b \in Seq(S) /\ Len(a \o b) = Len(a) + Len(b)
        /\ \A j \in 1 .. Len(a) + Len(b) :
             (a \o b)[j] = IF j <= Len(a) THEN a[j] ELSE b[j - Len(a)]
    <3>1. a \in Seq(S) /\ b \in Seq(S)
      BY <1>1
    <3> QED BY ONLY <3>1, ConcatProperties
  <2>3. Len(a) + Len(b) = Len(s) - 1 /\ Len(a) = i - 1
    BY <1>1
  <2> QED BY <2>1, <2>2, <2>3
<1> HIDE DEF r
<1>3. /\ ToSet(r) = {r[j] : j \in 1 .. Len(s) - 1}
      /\ ToSet(s) = {s[j] : j \in 1 .. Len(s)}
  BY <1>2, ToSetSeq
<1>4. ASSUME NEW j \in 1 .. Len(s) - 1 PROVE r[j] \in ToSet(s)
  <2>1. CASE j <= i - 1
    BY <2>1, <1>1, <1>2, <1>3
  <2>2. CASE ~ (j <= i - 1)
    <3> DEFINE k == j - (i - 1)
    <3>1. k \in 1 .. Len(s) - i /\ i + k = j + 1 /\ j + 1 \in 1 .. Len(s)
      BY <2>2, LenProperties
    <3>2. r[j] = b[k]
      BY <2>2, <1>2
    <3> HIDE DEF k
    <3>3. b[k] = s[i + k]
      BY <3>1, <1>1
    <3> QED BY <3>1, <3>2, <3>3, <1>3
  <2> QED BY <2>1, <2>2
<1>5. ASSUME NEW j \in 1 .. Len(s), j # i PROVE s[j] \in ToSet(r)
  <2>1. CASE j < i
    <3>1. j \in 1 .. i - 1 /\ j \in 1 .. Len(s) - 1 /\ j <= i - 1
      BY <2>1
    <3>2. r[j] = s[j]
      BY <3>1, <1>1, <1>2
    <3> QED BY <3>1, <3>2, <1>3
  <2>2. CASE j > i
    <3>1. j - 1 \in 1 .. Len(s) - 1 /\ r[j - 1] = s[j]
      BY <2>2, <1>1, <1>2
    <3> QED BY <3>1, <1>3
  <2> QED BY <1>5, <2>1, <2>2
<1> QED BY <1>2, <1>3, <1>4, <1>5 DEF r

\* pending_remove_msg takes nothing but an entry for m away.
LEMMA RemoveFacts ==
    ASSUME NEW p \in Seq(Ihave), NEW m
    PROVE  /\ pending_remove_msg(p, m) \in Seq(Ihave)
           /\ Len(pending_remove_msg(p, m)) <= Len(p)
           /\ ToSet(pending_remove_msg(p, m)) \subseteq ToSet(p)
           /\ \A e \in ToSet(p) : e.msg # m => e \in ToSet(pending_remove_msg(p, m))
<1> DEFINE at == {i \in DOMAIN p : p[i].msg = m}
<1>1. CASE at = {}
  BY <1>1 DEF pending_remove_msg
<1>2. CASE at # {}
  <2>1. DOMAIN p = 1 .. Len(p) /\ at \subseteq Nat
    OBVIOUS
  <2>2. \E x \in at : \A y \in at : x <= y
    BY <2>1, <1>2, LeastNat
  <2>3. Min(at) \in at
    BY <2>2 DEF Min
  <2>4. PICK i \in 1 .. Len(p) : i = Min(at) /\ p[i].msg = m
    BY <2>3, <2>1
  <2>5. pending_remove_msg(p, m) = RemoveAt(p, i)
    BY <1>2, <2>4 DEF pending_remove_msg
  <2>6. /\ RemoveAt(p, i) \in Seq(Ihave) /\ Len(RemoveAt(p, i)) = Len(p) - 1
        /\ ToSet(RemoveAt(p, i)) \subseteq ToSet(p)
        /\ \A j \in 1 .. Len(p) : j # i => p[j] \in ToSet(RemoveAt(p, i))
    BY RemoveAtFacts
  <2>7. ToSet(p) = {p[j] : j \in 1 .. Len(p)}
    BY ToSetSeq
  <2>8. ASSUME NEW e \in ToSet(p), e.msg # m PROVE e \in ToSet(RemoveAt(p, i))
    <3>1. PICK j \in 1 .. Len(p) : e = p[j]
      BY <2>7
    <3>2. j # i
      BY <3>1, <2>4, <2>8
    <3> QED BY <3>1, <3>2, <2>6
  <2> QED BY <2>5, <2>6, <2>8
<1> QED BY <1>1, <1>2

\* pending_add keeps to the size of the table and notes the new IHAVE.
LEMMA AddFacts ==
    ASSUME NEW p \in Seq(Ihave), Len(p) <= PendingSize, NEW m \in Message, NEW f \in Node
    PROVE  /\ pending_add(p, m, f) \in Seq(Ihave)
           /\ Len(pending_add(p, m, f)) <= PendingSize
           /\ [msg |-> m, from |-> f] \in ToSet(pending_add(p, m, f))
<1> DEFINE rest == pending_remove_msg(p, m)
           b == IF Len(rest) < PendingSize THEN rest ELSE Tail(rest)
           e == [msg |-> m, from |-> f]
<1>1. PendingSize \in Nat \ {0}
  BY PlumTreeAssumption
<1>2. rest \in Seq(Ihave) /\ Len(rest) <= Len(p)
  BY RemoveFacts
<1> HIDE DEF rest
<1>3. b \in Seq(Ihave) /\ Len(b) < PendingSize
  <2>1. CASE Len(rest) < PendingSize
    BY <2>1, <1>2
  <2>2. CASE ~ (Len(rest) < PendingSize)
    <3>1. rest # << >>
      BY <2>2, <1>1, <1>2
    <3> QED BY <3>1, <2>2, <1>1, <1>2
  <2> QED BY <2>1, <2>2
<1> HIDE DEF b
<1>4. e \in Ihave
  BY DEF Ihave
<1> HIDE DEF e
<1>5. pending_add(p, m, f) = Append(b, e)
  BY DEF pending_add, b, rest, e
<1>6. /\ Append(b, e) \in Seq(Ihave) /\ Len(Append(b, e)) = Len(b) + 1
      /\ Append(b, e)[Len(b) + 1] = e
  BY <1>3, <1>4
<1>7. ToSet(Append(b, e)) = {Append(b, e)[i] : i \in 1 .. Len(b) + 1}
  BY <1>6, ToSetSeq
<1>8. Len(b) + 1 \in 1 .. Len(b) + 1
  BY <1>3
<1>9. e \in ToSet(Append(b, e))
  BY <1>6, <1>7, <1>8
<1> QED BY <1>1, <1>3, <1>5, <1>6, <1>9 DEF e

-----------------------------------------------------------------------------
(* Facts the lemmas about the actions share                                *)

LEMMA IInvImpliesTypeOK ==
    ASSUME IInv PROVE TypeOK
  BY DEF IInv, LinksInv, LinksOK, TablesInv, NetInv, TypeOK, Peers, Ihave

\* One node's peer table may be replaced by another one.
LEMMA LinksStep ==
    ASSUME LinksInv, NEW n \in Node, NEW l, LinksOK(n, l),
           links' = [links EXCEPT ![n] = l]
    PROVE  LinksInv'
  BY DEF LinksInv, LinksOK, EAGER, LAZY

\* promote_eager and demote_lazy keep a peer table one.
LEMMA SetLinkOK ==
    ASSUME NEW n \in Node, NEW l, LinksOK(n, l), NEW p, NEW t \in {EAGER, LAZY}
    PROVE  LinksOK(n, SetLink(l, p, t)) /\ DOMAIN SetLink(l, p, t) = DOMAIN l
  BY DEF LinksOK, SetLink

\* To the hosts, the cache of one node changes.
LEMMA HeldStep ==
    ASSUME TablesInv, NEW n \in Node, NEW c \in Seq(Message),
           cache' = [cache EXCEPT ![n] = c]
    PROVE  [x \in Node |-> ToSet(cache[x])]'
             = [[x \in Node |-> ToSet(cache[x])] EXCEPT ![n] = ToSet(c)]
  BY DEF TablesInv

\* A datagram of the protocol names its message and its two ends.
LEMMA DatagramFields ==
    ASSUME NEW d \in Datagram
    PROVE  /\ d.from \in Node /\ d.to \in Node
           /\ d.type \in {"gossip", "ihave", "graft", "prune"}
           /\ d.type # "prune" => d.msg \in Message
  BY DEF Datagram

\* What is sent about m is GOSSIP and IHAVE for m.
LEMMA ForwardFacts ==
    ASSUME NEW n \in Node, NEW l, NEW m \in Message, NEW to \in SUBSET Node
    PROVE  /\ Forward(n, l, m, to) \subseteq Datagram
           /\ \A d \in Forward(n, l, m, to) : d.msg = m /\ d.type \in {"gossip", "ihave"}
           /\ \A p \in to : \E d \in Forward(n, l, m, to) :
                d.type \in {"gossip", "ihave"} /\ d.to = p /\ d.msg = m
<1> DEFINE F == Forward(n, l, m, to)
           K(p) == IF l[p] = EAGER THEN "gossip" ELSE "ihave"
<1>1. F = {[type |-> K(p), from |-> n, to |-> p, msg |-> m] : p \in to}
  BY DEF Forward, Dgram
<1>2. \A p \in to : K(p) \in {"gossip", "ihave"}
  OBVIOUS
<1> HIDE DEF F, K
<1>3. ASSUME NEW d \in F
      PROVE  d \in Datagram /\ d.msg = m /\ d.type \in {"gossip", "ihave"}
  <2>1. PICK p \in to : d = [type |-> K(p), from |-> n, to |-> p, msg |-> m]
    BY <1>1
  <2> QED BY <2>1, <1>2 DEF Datagram
<1>4. ASSUME NEW p \in to
      PROVE  \E d \in F : d.type \in {"gossip", "ihave"} /\ d.to = p /\ d.msg = m
  <2>1. [type |-> K(p), from |-> n, to |-> p, msg |-> m] \in F
    BY <1>1
  <2> QED BY <2>1, <1>2
<1> QED BY <1>3, <1>4 DEF F

LEMMA InitOK == Init => IInv /\ Hosts!Init
<1> SUFFICES ASSUME Init PROVE IInv /\ Hosts!Init
  OBVIOUS
<1>1. LinksInv
  <2>1. ASSUME NEW n \in Node PROVE LinksOK(n, Links[n])
    <3>1. PICK P \in SUBSET (Node \ {n}) :
            Links[n] \in [P -> {EAGER, LAZY}] /\ IsFiniteSet(P) /\ Cardinality(P) <= MaxPeers
      BY PlumTreeAssumption DEF EAGER, LAZY
    <3>2. DOMAIN Links[n] = P
      BY <3>1
    <3> QED BY <3>1, <3>2 DEF LinksOK
  <2> QED BY <2>1, PlumTreeAssumption DEF Init, LinksInv
<1>2. ToSet(<< >>) = {}
  BY DEF ToSet
<1>3. TablesInv /\ NetInv /\ HistInv
  BY PlumTreeAssumption DEF Init, TablesInv, NetInv, HistInv
<1>4. Known /\ CachedHad /\ NotStranded
  BY <1>2 DEF Init, Known, CachedHad, NotStranded
<1>5. Hosts!Init
  BY <1>2 DEF Init, Hosts!Init
<1> QED BY <1>1, <1>3, <1>4, <1>5 DEF IInv

\* The types are known when a node handles the datagram d.
LEMMA ReceiveFacts ==
    ASSUME IInv, NEW d \in net
    PROVE  /\ d \in Datagram /\ d.from \in Node /\ d.to \in Node
           /\ d.type \in {"gossip", "ihave", "graft", "prune"}
           /\ d.type # "prune" => d.msg \in Message
           /\ cache[d.to] \in Seq(Message) /\ Len(cache[d.to]) <= CacheSize
           /\ pending[d.to] \in Seq(Ihave) /\ Len(pending[d.to]) <= PendingSize
           /\ LinksOK(d.to, links[d.to])
           /\ \A m : has_msg(d.to, m) <=> m \in ToSet(cache[d.to])
<1>2. d.to \in Node /\ d \in Datagram
  BY DatagramFields DEF IInv, NetInv
<1>3. cache[d.to] \in Seq(Message)
  BY <1>2 DEF IInv, TablesInv
<1>4. \A m : has_msg(d.to, m) <=> m \in ToSet(cache[d.to])
  BY <1>3, ToSetSeq DEF has_msg, Contains
<1> QED BY <1>2, <1>3, <1>4, DatagramFields DEF IInv, TablesInv, LinksInv

LEMMA TakeFacts ==
    ASSUME NEW d, NEW twice
    PROVE  net \ {d} \subseteq Take(d, twice) /\ Take(d, twice) \subseteq net
  BY DEF Take

\* A step that changes nothing but links and faults.
LEMMA LinksOnly ==
    ASSUME IInv, LinksInv', UNCHANGED <<cache, pending, net, hist>>
    PROVE  IInv' /\ HostsStep
<1> USE DEF hist
<1>1. TablesInv' /\ NetInv' /\ HistInv'
  BY DEF IInv, TablesInv, NetInv, HistInv
<1>2. Known' /\ CachedHad' /\ NotStranded'
  BY DEF IInv, Known, CachedHad, Had, NotStranded
<1>3. HostsStep
  BY DEF HostsStep, Hosts!vars
<1> QED BY <1>1, <1>2, <1>3 DEF IInv

\* Without a step every part of the invariant stays.
LEMMA Stutter ==
    ASSUME IInv, UNCHANGED vars
    PROVE  IInv' /\ HostsStep
<1>1. LinksInv'
  BY DEF IInv, LinksInv, LinksOK, vars, node
<1>2. UNCHANGED <<cache, pending, net, hist>>
  BY DEF vars, node
<1> QED BY <1>1, <1>2, LinksOnly

-----------------------------------------------------------------------------
(* The actions                                                             *)

LEMMA add_peerOK ==
    ASSUME IInv, NEW n \in Node, NEW p \in Node, add_peer(n, p)
    PROVE  IInv' /\ HostsStep
<1> DEFINE l == [q \in Peers(n) \cup {p} |-> IF q = p THEN EAGER ELSE links[n][q]]
<1>1. LinksOK(n, links[n]) /\ LinksInv
  BY DEF IInv, LinksInv
<1>2. DOMAIN l = Peers(n) \cup {p} /\ Cardinality(Peers(n)) < MaxPeers /\ p # n
  BY PlumTreeAssumption DEF add_peer
<1>3. LinksOK(n, l)
  <2>1. IsFiniteSet(Peers(n)) /\ p \notin Peers(n) /\ MaxPeers \in Nat
    BY <1>1, PlumTreeAssumption DEF LinksOK, Peers, add_peer
  <2>2. /\ IsFiniteSet(Peers(n) \cup {p})
        /\ Cardinality(Peers(n) \cup {p}) = Cardinality(Peers(n)) + 1
        /\ Cardinality(Peers(n)) \in Nat
    BY <2>1, FS_AddElement, FS_CardinalityType
  <2>3. Cardinality(DOMAIN l) <= MaxPeers /\ IsFiniteSet(DOMAIN l)
    BY <2>1, <2>2, <1>2
  <2>4. DOMAIN l \subseteq Node \ {n} /\ l \in [DOMAIN l -> {EAGER, LAZY}]
    BY <1>1, <1>2 DEF LinksOK, Peers
  <2> QED BY <2>3, <2>4 DEF LinksOK
<1>4. links' = [links EXCEPT ![n] = l]
  BY DEF add_peer
<1> HIDE DEF l
<1>5. LinksInv'
  BY <1>1, <1>3, <1>4, LinksStep
<1>6. UNCHANGED <<cache, pending, net, hist>>
  BY DEF add_peer
<1> QED BY <1>5, <1>6, LinksOnly

LEMMA remove_peerOK ==
    ASSUME IInv, NEW n \in Node, NEW p \in Node, remove_peer(n, p)
    PROVE  IInv' /\ HostsStep
<1> DEFINE l == [q \in Peers(n) \ {p} |-> links[n][q]]
<1>1. LinksOK(n, links[n]) /\ LinksInv
  BY DEF IInv, LinksInv
<1>2. DOMAIN l = Peers(n) \ {p} /\ IsFiniteSet(Peers(n)) /\ MaxPeers \in Nat
  BY <1>1, PlumTreeAssumption DEF LinksOK, Peers
<1>3. LinksOK(n, l)
  <2>1. /\ IsFiniteSet(Peers(n) \ {p}) /\ Cardinality(Peers(n) \ {p}) \in Nat
        /\ Cardinality(Peers(n) \ {p}) <= Cardinality(Peers(n))
        /\ Cardinality(Peers(n)) \in Nat
    BY <1>2, FS_Subset, FS_CardinalityType
  <2>2. Cardinality(DOMAIN l) <= MaxPeers /\ IsFiniteSet(DOMAIN l)
    BY <2>1, <1>1, <1>2 DEF LinksOK, Peers
  <2>3. DOMAIN l \subseteq Node \ {n} /\ l \in [DOMAIN l -> {EAGER, LAZY}]
    BY <1>1, <1>2 DEF LinksOK, Peers
  <2> QED BY <2>2, <2>3 DEF LinksOK
<1>4. links' = [links EXCEPT ![n] = l]
  BY DEF remove_peer
<1> HIDE DEF l
<1>5. LinksInv'
  BY <1>1, <1>3, <1>4, LinksStep
<1>6. UNCHANGED <<cache, pending, net, hist>>
  BY DEF remove_peer
<1> QED BY <1>5, <1>6, LinksOnly

LEMMA resetOK ==
    ASSUME IInv, NEW n \in Node, reset(n)
    PROVE  IInv' /\ HostsStep
<1>1. ToSet(<< >>) = {} /\ << >> \in Seq(Message) /\ << >> \in Seq(Ihave) /\ Len(<< >>) = 0
  BY DEF ToSet
<1>2. LinksInv'
  <2>1. LinksOK(n, << >>)
    BY PlumTreeAssumption, FS_EmptySet DEF LinksOK
  <2> QED BY <2>1, LinksStep DEF IInv, reset
<1>3. TablesInv' /\ NetInv' /\ HistInv'
  BY <1>1, PlumTreeAssumption DEF IInv, reset, TablesInv, NetInv, HistInv
<1>4. \A x \in Node : ToSet(cache'[x]) \subseteq ToSet(cache[x])
  BY <1>1 DEF IInv, reset, TablesInv
<1>5. Known' /\ CachedHad'
  BY <1>4 DEF IInv, reset, Known, CachedHad, Had
<1>6. NotStranded'
  <2>1. ASSUME NEW x \in Node, NEW m \in announced[x] PROVE Reachable(x, m)'
    <3>1. Reachable(x, m)
      BY <2>1 DEF IInv, NotStranded, Reachable
    <3>2. CASE \E e \in ToSet(pending[x]) : e.msg = m
      <4>1. CASE x = n
        BY <4>1, <3>2 DEF reset, Reachable
      <4>2. CASE x # n
        BY <4>2, <3>2 DEF reset, Reachable, IInv, TablesInv
      <4> QED BY <4>1, <4>2
    <3> QED BY <3>1, <3>2 DEF Reachable, Had, reset
  <2> QED BY <2>1 DEF NotStranded, Reachable, reset
<1>7. HostsStep
  <2>1. [x \in Node |-> ToSet(cache[x])]'
          = [[x \in Node |-> ToSet(cache[x])] EXCEPT ![n] = {}]
    BY <1>1, HeldStep DEF IInv, reset
  <2>2. Hosts!Forget(n)
    BY <2>1 DEF Hosts!Forget, reset
  <2> QED BY <2>2 DEF HostsStep, Hosts!Next
<1> QED BY <1>2, <1>3, <1>5, <1>6, <1>7 DEF IInv

LEMMA broadcastOK ==
    ASSUME IInv, NEW n \in Node, NEW m \in Message, broadcast(n, m)
    PROVE  IInv' /\ HostsStep
<1> DEFINE c == cache_insert(cache[n], m)
           F == Forward(n, links[n], m, Peers(n))
<1>1. PICK kept \in SUBSET ToSet(cache[n]) :
        c \in Seq(Message) /\ Len(c) <= CacheSize /\ ToSet(c) = kept \cup {m}
  BY InsertFacts DEF IInv, TablesInv
<1>2. Peers(n) \in SUBSET Node
  BY DEF IInv, LinksInv, LinksOK, Peers
<1>3. /\ F \subseteq Datagram
      /\ \A d \in F : d.msg = m /\ d.type \in {"gossip", "ihave"}
      /\ \A p \in Peers(n) : \E d \in F : d.type \in {"gossip", "ihave"} /\ d.to = p /\ d.msg = m
  BY <1>2, ForwardFacts
<1>4. /\ cache' = [cache EXCEPT ![n] = c] /\ net' = net \cup F
      /\ origin[m] = {} /\ origin' = [origin EXCEPT ![m] = {n}]
      /\ announced' = [x \in Node |-> IF x \in Peers(n) THEN announced[x] \cup {m}
                                      ELSE announced[x]]
      /\ UNCHANGED <<links, pending, delivered, missed>>
  BY DEF broadcast, Announce
<1> HIDE DEF c, F
<1>5. LinksInv'
  BY <1>4 DEF IInv, LinksInv, LinksOK
<1>6. TablesInv' /\ NetInv' /\ HistInv'
  BY <1>1, <1>3, <1>4 DEF IInv, TablesInv, NetInv, HistInv
<1>7. \A x \in Node : ToSet(cache'[x]) \subseteq ToSet(cache[x]) \cup (IF x = n THEN {m} ELSE {})
  BY <1>1, <1>4 DEF IInv, TablesInv
<1>8. \A y \in Message : origin[y] # {} => origin'[y] # {}
  BY <1>4 DEF IInv, HistInv
<1>9. \A x \in Node : Had(x) \subseteq Had(x)'
  BY <1>4 DEF IInv, HistInv, Had
<1>10. Known'
  <2>1. ASSUME NEW x \in Node, NEW y \in ToSet(cache'[x]) PROVE origin'[y] # {}
    <3>1. CASE y = m
      BY <3>1, <1>4 DEF IInv, HistInv
    <3>2. CASE y # m
      <4>1. y \in ToSet(cache[x]) /\ ToSet(cache[x]) \subseteq Message
        BY <3>2, <1>7, ToSetSeq DEF IInv, TablesInv
      <4> QED BY <4>1, <1>8 DEF IInv, Known
    <3> QED BY <3>1, <3>2
  <2>2. ASSUME NEW d \in net', d.type = "gossip" PROVE origin'[d.msg] # {}
    <3>1. CASE d \in F
      BY <3>1, <1>3, <1>4 DEF IInv, HistInv
    <3>2. CASE d \in net
      <4>1. d.msg \in Message
        BY <2>2, <3>2, ReceiveFacts
      <4> QED BY <4>1, <2>2, <3>2, <1>8 DEF IInv, Known
    <3> QED BY <1>4, <3>1, <3>2
  <2> QED BY <2>1, <2>2 DEF Known
<1>11. CachedHad'
  <2>1. m \in Had(n)'
    BY <1>4 DEF Had, IInv, HistInv
  <2> QED BY <2>1, <1>7, <1>9 DEF IInv, CachedHad
<1>12. NotStranded'
  <2>1. ASSUME NEW x \in Node, NEW y \in announced'[x] PROVE Reachable(x, y)'
    <3>1. CASE y \in announced[x]
      <4>1. Reachable(x, y)
        BY <3>1 DEF IInv, NotStranded, Reachable
      <4> QED BY <4>1, <1>4, <1>9 DEF Reachable
    <3>2. CASE y \notin announced[x]
      <4>1. y = m /\ x \in Peers(n)
        BY <3>2, <2>1, <1>4
      <4> QED BY <4>1, <1>3, <1>4 DEF Reachable
    <3> QED BY <3>1, <3>2
  <2> QED BY <2>1 DEF NotStranded, Reachable
<1>13. HostsStep
  <2> DEFINE H == [x \in Node |-> ToSet(cache[x])]
  <2>1. H' = [H EXCEPT ![n] = kept \cup {m}] /\ kept \in SUBSET H[n]
    BY <1>1, <1>4, HeldStep DEF IInv
  <2>2. Hosts!Broadcast(n, m)
    BY <2>1, <1>4 DEF Hosts!Broadcast, Hosts!Remember
  <2> QED BY <2>2 DEF HostsStep, Hosts!Next
<1> QED BY <1>5, <1>6, <1>10, <1>11, <1>12, <1>13 DEF IInv

\* A step that leaves the caches and what the hosts have been given alone.
LEMMA KeepsHosts ==
    ASSUME IInv, LinksInv', TablesInv', NetInv', NotStranded',
           UNCHANGED <<cache, origin, delivered, announced>>,
           \A d \in net' : d.type = "gossip" => origin[d.msg] # {}
    PROVE  IInv' /\ HostsStep
<1>1. HistInv' /\ Known' /\ CachedHad'
  BY DEF IInv, HistInv, Known, CachedHad, Had
<1>2. HostsStep
  BY DEF HostsStep, Hosts!vars
<1> QED BY <1>1, <1>2 DEF IInv

LEMMA recv_duplicateOK ==
    ASSUME IInv, NEW d \in net, NEW twice \in BOOLEAN, recv_duplicate(d, twice)
    PROVE  IInv' /\ HostsStep
<1> DEFINE n == d.to
           l == SetLink(links[n], d.from, LAZY)
<1>1. /\ d.type = "gossip" /\ has_msg(n, d.msg)
      /\ net' = Take(d, twice) \cup {Prune(n, d.from)}
      /\ links' = [links EXCEPT ![n] = l]
      /\ UNCHANGED <<cache, pending, origin, delivered, announced, missed>>
  BY DEF recv_duplicate, Arrives, hist
<1>2. n \in Node /\ d.from \in Node /\ d.msg \in Message /\ LinksOK(n, links[n])
      /\ d.msg \in ToSet(cache[n])
  BY <1>1, ReceiveFacts
<1>3. LinksInv'
  <2>1. LinksOK(n, l)
    BY <1>2, SetLinkOK
  <2> QED BY <2>1, <1>1, <1>2, LinksStep DEF IInv
<1>4. TablesInv'
  BY <1>1 DEF IInv, TablesInv
<1>5. Prune(n, d.from) \in Datagram /\ Prune(n, d.from).type = "prune"
  BY <1>2 DEF Prune, Datagram
<1>6. NetInv' /\ \A e \in net' : e.type = "gossip" => origin[e.msg] # {}
  BY <1>1, <1>5, TakeFacts DEF IInv, NetInv, Known
<1>7. NotStranded'
  <2>1. ASSUME NEW x \in Node, NEW m \in announced[x] PROVE Reachable(x, m)'
    <3>1. Reachable(x, m)
      BY <2>1 DEF IInv, NotStranded, Reachable
    <3>2. Had(x) \subseteq Had(x)' /\ missed \subseteq missed' /\ net \ {d} \subseteq net'
      BY <1>1, TakeFacts DEF Had
    <3>3. CASE d.to = x /\ d.msg = m
      BY <3>3, <3>2, <1>2 DEF IInv, CachedHad, Reachable
    <3>4. CASE ~ (d.to = x /\ d.msg = m)
      BY <3>1, <3>2, <3>4, <1>1 DEF Reachable
    <3> QED BY <3>3, <3>4
  <2> QED BY <2>1, <1>1 DEF NotStranded, Reachable
<1> QED BY <1>1, <1>3, <1>4, <1>6, <1>7, KeepsHosts

LEMMA recv_pruneOK ==
    ASSUME IInv, NEW d \in net, NEW twice \in BOOLEAN, recv_prune(d, twice)
    PROVE  IInv' /\ HostsStep
<1> DEFINE n == d.to
           l == SetLink(links[n], d.from, LAZY)
<1>1. /\ d.type = "prune" /\ net' = Take(d, twice)
      /\ links' = [links EXCEPT ![n] = l]
      /\ UNCHANGED <<cache, pending, origin, delivered, announced, missed>>
  BY DEF recv_prune, Arrives, hist
<1>2. n \in Node /\ LinksOK(n, links[n])
  BY ReceiveFacts
<1>3. LinksInv'
  <2>1. LinksOK(n, l)
    BY <1>2, SetLinkOK
  <2> QED BY <2>1, <1>1, <1>2, LinksStep DEF IInv
<1>4. TablesInv'
  BY <1>1 DEF IInv, TablesInv
<1>5. NetInv' /\ \A e \in net' : e.type = "gossip" => origin[e.msg] # {}
  BY <1>1, TakeFacts DEF IInv, NetInv, Known
<1>6. NotStranded'
  <2>1. ASSUME NEW x \in Node, NEW m \in announced[x] PROVE Reachable(x, m)'
    <3>1. Reachable(x, m)
      BY <2>1 DEF IInv, NotStranded, Reachable
    <3>2. Had(x) \subseteq Had(x)' /\ missed \subseteq missed' /\ net \ {d} \subseteq net'
      BY <1>1, TakeFacts DEF Had
    <3> QED BY <3>1, <3>2, <1>1 DEF Reachable
  <2> QED BY <2>1, <1>1 DEF NotStranded, Reachable
<1> QED BY <1>1, <1>3, <1>4, <1>5, <1>6, KeepsHosts

LEMMA recv_graftOK ==
    ASSUME IInv, NEW d \in net, NEW twice \in BOOLEAN, recv_graft(d, twice)
    PROVE  IInv' /\ HostsStep
<1> DEFINE n == d.to
           l == SetLink(links[n], d.from, EAGER)
           g == Dgram("gossip", n, d.from, d.msg)
<1>1. /\ d.type = "graft"
      /\ net' = Take(d, twice) \cup (IF has_msg(n, d.msg) THEN {g} ELSE {})
      /\ links' = [links EXCEPT ![n] = l]
      /\ missed' = IF has_msg(n, d.msg) THEN missed ELSE missed \cup {<<d.from, d.msg>>}
      /\ UNCHANGED <<cache, pending, origin, delivered, announced>>
  BY DEF recv_graft, Arrives
<1>2. /\ n \in Node /\ d.from \in Node /\ d.msg \in Message /\ LinksOK(n, links[n])
      /\ has_msg(n, d.msg) => d.msg \in ToSet(cache[n])
  BY <1>1, ReceiveFacts
<1>3. LinksInv'
  <2>1. LinksOK(n, l)
    BY <1>2, SetLinkOK
  <2> QED BY <2>1, <1>1, <1>2, LinksStep DEF IInv
<1>4. TablesInv'
  BY <1>1 DEF IInv, TablesInv
<1>5. g \in Datagram /\ g.type = "gossip" /\ g.to = d.from /\ g.msg = d.msg
  BY <1>2 DEF Dgram, Datagram
<1> HIDE DEF g
<1>6. NetInv' /\ \A e \in net' : e.type = "gossip" => origin[e.msg] # {}
  <2>1. CASE has_msg(n, d.msg)
    BY <2>1, <1>1, <1>2, <1>5, TakeFacts DEF IInv, NetInv, Known
  <2>2. CASE ~ has_msg(n, d.msg)
    BY <2>2, <1>1, TakeFacts DEF IInv, NetInv, Known
  <2> QED BY <2>1, <2>2
<1>7. NotStranded'
  <2>1. ASSUME NEW x \in Node, NEW m \in announced[x] PROVE Reachable(x, m)'
    <3>1. Reachable(x, m)
      BY <2>1 DEF IInv, NotStranded, Reachable
    <3>2. Had(x) \subseteq Had(x)' /\ missed \subseteq missed' /\ net \ {d} \subseteq net'
      BY <1>1, TakeFacts DEF Had
    <3>3. CASE d.from = x /\ d.msg = m
      <4>1. CASE has_msg(n, d.msg)
        <5>1. g \in net'
          BY <4>1, <1>1
        <5> QED BY <5>1, <3>3, <1>5 DEF Reachable
      <4>2. CASE ~ has_msg(n, d.msg)
        <5>1. <<x, m>> \in missed'
          BY <4>2, <3>3, <1>1
        <5> QED BY <5>1 DEF Reachable
      <4> QED BY <4>1, <4>2
    <3>4. CASE ~ (d.from = x /\ d.msg = m)
      BY <3>1, <3>2, <3>4, <1>1 DEF Reachable
    <3> QED BY <3>3, <3>4
  <2> QED BY <2>1, <1>1 DEF NotStranded, Reachable
<1> QED BY <1>1, <1>3, <1>4, <1>6, <1>7, KeepsHosts

LEMMA recv_ihaveOK ==
    ASSUME IInv, NEW d \in net, NEW twice \in BOOLEAN, recv_ihave(d, twice)
    PROVE  IInv' /\ HostsStep
<1> DEFINE n == d.to
           p == pending_add(pending[n], d.msg, d.from)
           e == [msg |-> d.msg, from |-> d.from]
           Gone == {f.msg : f \in ToSet(pending[n])} \ {f.msg : f \in ToSet(pending'[n])}
<1>1. /\ d.type = "ihave" /\ net' = Take(d, twice)
      /\ pending' = IF has_msg(n, d.msg) THEN pending ELSE [pending EXCEPT ![n] = p]
      /\ missed' = missed \cup {<<n, m>> : m \in Gone}
      /\ UNCHANGED <<links, cache, origin, delivered, announced>>
  BY DEF recv_ihave, Arrives
<1>2. /\ n \in Node /\ d.from \in Node /\ d.msg \in Message
      /\ pending[n] \in Seq(Ihave) /\ Len(pending[n]) <= PendingSize
      /\ has_msg(n, d.msg) => d.msg \in ToSet(cache[n])
  BY <1>1, ReceiveFacts
<1>3. p \in Seq(Ihave) /\ Len(p) <= PendingSize /\ e \in ToSet(p) /\ e.msg = d.msg
  BY <1>2, AddFacts
<1> HIDE DEF p, e
<1>4. LinksInv'
  BY <1>1 DEF IInv, LinksInv, LinksOK
<1>5. TablesInv'
  BY <1>1, <1>2, <1>3 DEF IInv, TablesInv
<1>6. NetInv' /\ \A f \in net' : f.type = "gossip" => origin[f.msg] # {}
  BY <1>1, TakeFacts DEF IInv, NetInv, Known
<1>7. NotStranded'
  <2>1. ASSUME NEW x \in Node, NEW m \in announced[x] PROVE Reachable(x, m)'
    <3>1. Reachable(x, m)
      BY <2>1 DEF IInv, NotStranded, Reachable
    <3>2. Had(x) \subseteq Had(x)' /\ missed \subseteq missed' /\ net \ {d} \subseteq net'
      BY <1>1, TakeFacts DEF Had
    <3>3. CASE d.to = x /\ d.msg = m
      <4>1. CASE has_msg(n, d.msg)
        BY <4>1, <3>3, <3>2, <1>2 DEF IInv, CachedHad, Reachable
      <4>2. CASE ~ has_msg(n, d.msg)
        <5>1. e \in ToSet(pending'[x]) /\ e.msg = m
          BY <4>2, <3>3, <1>1, <1>3 DEF IInv, TablesInv
        <5> QED BY <5>1 DEF Reachable
      <4> QED BY <4>1, <4>2
    <3>4. CASE \E f \in ToSet(pending[x]) : f.msg = m
      <4>1. CASE x = n
        <5>1. \/ m \in Gone
              \/ \E f \in ToSet(pending'[x]) : f.msg = m
          BY <3>4, <4>1
        <5>2. m \in Gone => <<x, m>> \in missed'
          BY <4>1, <1>1
        <5> QED BY <5>1, <5>2 DEF Reachable
      <4>2. CASE x # n
        <5>1. pending'[x] = pending[x]
          BY <4>2, <1>1 DEF IInv, TablesInv
        <5> QED BY <5>1, <3>4 DEF Reachable
      <4> QED BY <4>1, <4>2
    <3>5. CASE /\ ~ (d.to = x /\ d.msg = m)
               /\ ~ \E f \in ToSet(pending[x]) : f.msg = m
      BY <3>1, <3>2, <3>5, <1>1 DEF Reachable
    <3> QED BY <3>3, <3>4, <3>5
  <2> QED BY <2>1, <1>1 DEF NotStranded, Reachable
<1> QED BY <1>1, <1>4, <1>5, <1>6, <1>7, KeepsHosts

LEMMA recv_gossipOK ==
    ASSUME IInv, NEW d \in net, NEW twice \in BOOLEAN, recv_gossip(d, twice)
    PROVE  IInv' /\ HostsStep
<1> DEFINE n  == d.to
           m  == d.msg
           l  == SetLink(links[n], d.from, EAGER)
           to == Peers(n) \ {d.from}
           c  == cache_insert(cache[n], m)
           q  == pending_remove_msg(pending[n], m)
           F  == Forward(n, l, m, to)
<1>1. /\ d.type = "gossip" /\ ~ has_msg(n, m)
      /\ cache' = [cache EXCEPT ![n] = c] /\ pending' = [pending EXCEPT ![n] = q]
      /\ links' = [links EXCEPT ![n] = l]
      /\ net' = Take(d, twice) \cup F
      /\ announced' = [x \in Node |-> IF x \in to THEN announced[x] \cup {m} ELSE announced[x]]
      /\ UNCHANGED <<origin, missed>>
  BY DEF recv_gossip, Arrives, Announce
<1>2. delivered' = [delivered EXCEPT ![n][m] = IF @ < 2 THEN @ + 1 ELSE @]
  BY DEF recv_gossip
<1>3. /\ n \in Node /\ d.from \in Node /\ m \in Message /\ LinksOK(n, links[n])
      /\ cache[n] \in Seq(Message) /\ Len(cache[n]) <= CacheSize
      /\ pending[n] \in Seq(Ihave) /\ Len(pending[n]) <= PendingSize
      /\ m \notin ToSet(cache[n]) /\ origin[m] # {}
  BY <1>1, ReceiveFacts DEF IInv, Known
<1>4. PICK kept \in SUBSET ToSet(cache[n]) :
        c \in Seq(Message) /\ Len(c) <= CacheSize /\ ToSet(c) = kept \cup {m}
  BY <1>3, InsertFacts
<1>5. /\ q \in Seq(Ihave) /\ Len(q) <= Len(pending[n])
      /\ \A e \in ToSet(pending[n]) : e.msg # m => e \in ToSet(q)
  BY <1>3, RemoveFacts
<1>6. to \in SUBSET Node /\ LinksOK(n, l)
  BY <1>3, SetLinkOK DEF LinksOK, Peers
<1> HIDE DEF to, l
<1>7. /\ F \subseteq Datagram
      /\ \A e \in F : e.msg = m /\ e.type \in {"gossip", "ihave"}
      /\ \A p \in to : \E e \in F : e.type \in {"gossip", "ihave"} /\ e.to = p /\ e.msg = m
  BY <1>3, <1>6, ForwardFacts
<1> HIDE DEF c, q, F
<1>8. delivered'[n][m] > 0 /\ delivered' \in [Node -> [Message -> Nat]]
      /\ \A x \in Node : \A y \in Message : delivered[x][y] > 0 => delivered'[x][y] > 0
  <2>1. delivered[n][m] \in Nat /\ delivered \in [Node -> [Message -> Nat]]
    BY <1>3 DEF IInv, HistInv
  <2> DEFINE k == IF delivered[n][m] < 2 THEN delivered[n][m] + 1 ELSE delivered[n][m]
  <2>2. delivered' = [delivered EXCEPT ![n][m] = k]
    BY <1>2
  <2>3. k \in Nat /\ k > 0
    BY <2>1
  <2> HIDE DEF k
  <2>4. \A x \in Node : \A y \in Message :
          delivered'[x][y] = IF x = n /\ y = m THEN k ELSE delivered[x][y]
    BY <2>1, <2>2, <1>3
  <2>5. delivered' \in [Node -> [Message -> Nat]]
    BY <2>1, <2>2, <2>3, <1>3
  <2> QED BY <2>3, <2>4, <2>5, <1>3
<1>9. LinksInv'
  BY <1>1, <1>3, <1>6, LinksStep DEF IInv
<1>10. TablesInv'
  <2>1. Len(q) <= PendingSize
    BY <1>3, <1>5, PlumTreeAssumption
  <2> QED BY <2>1, <1>1, <1>3, <1>4, <1>5 DEF IInv, TablesInv
<1>11. NetInv' /\ HistInv'
  BY <1>1, <1>3, <1>7, <1>8, TakeFacts DEF IInv, NetInv, HistInv
<1>12. \A x \in Node : ToSet(cache'[x]) \subseteq ToSet(cache[x]) \cup (IF x = n THEN {m} ELSE {})
  BY <1>1, <1>4 DEF IInv, TablesInv
<1>13. Known'
  BY <1>1, <1>3, <1>7, <1>12, TakeFacts DEF IInv, Known
<1>14. \A x \in Node : Had(x) \subseteq Had(x)'
  BY <1>1, <1>8 DEF Had
<1>15. m \in Had(n)'
  BY <1>3, <1>8 DEF Had
<1>16. CachedHad'
  BY <1>12, <1>14, <1>15 DEF IInv, CachedHad
<1>17. NotStranded'
  <2>1. ASSUME NEW x \in Node, NEW y \in announced'[x] PROVE Reachable(x, y)'
    <3>1. CASE x = n /\ y = m
      BY <3>1, <1>15 DEF Reachable
    <3>2. CASE y \in announced[x] /\ ~ (x = n /\ y = m)
      <4>1. Reachable(x, y)
        BY <3>2 DEF IInv, NotStranded, Reachable
      <4>2. Had(x) \subseteq Had(x)' /\ missed \subseteq missed' /\ net \ {d} \subseteq net'
        BY <1>1, <1>14, TakeFacts
      <4>3. \A e \in ToSet(pending[x]) : e.msg = y => e \in ToSet(pending'[x])
        <5>1. CASE x = n
          BY <5>1, <3>2, <1>1, <1>5 DEF IInv, TablesInv
        <5>2. CASE x # n
          BY <5>2, <1>1 DEF IInv, TablesInv
        <5> QED BY <5>1, <5>2
      <4> QED BY <4>1, <4>2, <4>3, <3>2, <1>1 DEF Reachable
    <3>3. CASE y \notin announced[x]
      <4>1. y = m /\ x \in to
        BY <3>3, <2>1, <1>1
      <4> QED BY <4>1, <1>1, <1>7 DEF Reachable
    <3> QED BY <3>1, <3>2, <3>3
  <2> QED BY <2>1 DEF NotStranded, Reachable
<1>18. HostsStep
  <2> DEFINE H == [x \in Node |-> ToSet(cache[x])]
  <2>1. H' = [H EXCEPT ![n] = kept \cup {m}] /\ kept \in SUBSET H[n] /\ m \notin H[n]
    BY <1>1, <1>3, <1>4, HeldStep DEF IInv
  <2>2. Hosts!Deliver(n, m)
    BY <2>1, <1>1, <1>2, <1>3 DEF Hosts!Deliver, Hosts!Remember
  <2> QED BY <2>2, <1>3 DEF HostsStep, Hosts!Next
<1> QED BY <1>9, <1>10, <1>11, <1>13, <1>16, <1>17, <1>18 DEF IInv

LEMMA LoseOK ==
    ASSUME IInv, NEW d \in net, Lose(d)
    PROVE  IInv' /\ HostsStep
<1>1. net' = net \ {d} /\ UNCHANGED <<links, cache, pending, origin, delivered, announced>>
  BY DEF Lose, node
<1>2. /\ missed \subseteq missed'
      /\ d.type = "graft" => <<d.from, d.msg>> \in missed'
      /\ d.type \in {"gossip", "ihave"} => <<d.to, d.msg>> \in missed'
  <2>1. CASE d.type = "graft"
    BY <2>1 DEF Lose
  <2>2. CASE d.type = "prune"
    BY <2>2 DEF Lose
  <2>3. CASE d.type \in {"gossip", "ihave"}
    <3>1. d.type # "graft" /\ d.type # "prune"
      BY <2>3
    <3>2. missed' = missed \cup {<<d.to, d.msg>>}
      BY <3>1 DEF Lose
    <3> QED BY <3>1, <3>2
  <2> QED BY <2>1, <2>2, <2>3, ReceiveFacts
<1>3. LinksInv' /\ TablesInv' /\ NetInv'
  BY <1>1 DEF IInv, LinksInv, LinksOK, TablesInv, NetInv
<1>4. NotStranded'
  <2>1. ASSUME NEW x \in Node, NEW m \in announced[x] PROVE Reachable(x, m)'
    <3>1. Reachable(x, m)
      BY <2>1 DEF IInv, NotStranded, Reachable
    <3>2. Had(x) \subseteq Had(x)'
      BY <1>1 DEF Had
    <3> QED BY <3>1, <3>2, <1>1, <1>2 DEF Reachable
  <2> QED BY <2>1, <1>1 DEF NotStranded, Reachable
<1> QED BY <1>1, <1>3, <1>4, KeepsHosts DEF IInv, Known

LEMMA tickOK ==
    ASSUME IInv, NEW n \in Node, NEW k \in Nat, NEW c \in Nat, tick(n, k, c)
    PROVE  IInv' /\ HostsStep
<1> DEFINE p   == pending[n]
           h   == cache[n]
           p2  == SubSeq(p, k + 1, Len(p))
           h2  == SubSeq(h, c + 1, Len(h))
           due == {p[i] : i \in 1 .. k}
           l   == [q \in DOMAIN links[n] |->
                     IF \E e \in due : e.from = q THEN EAGER ELSE links[n][q]]
           G   == {Dgram("graft", n, e.from, e.msg) : e \in due}
<1>1. /\ k <= Len(p) /\ c <= Len(h) /\ net' = net \cup G
      /\ links' = [links EXCEPT ![n] = l]
      /\ pending' = [pending EXCEPT ![n] = p2] /\ cache' = [cache EXCEPT ![n] = h2]
      /\ UNCHANGED <<origin, delivered, announced, missed>>
  BY DEF tick
<1>2. /\ p \in Seq(Ihave) /\ Len(p) <= PendingSize /\ h \in Seq(Message) /\ Len(h) <= CacheSize
      /\ LinksOK(n, links[n])
  BY DEF IInv, TablesInv, LinksInv
<1>3. k \in 0 .. Len(p) /\ c \in 0 .. Len(h)
  BY <1>1, <1>2
<1>4. /\ p2 \in Seq(Ihave) /\ Len(p2) = Len(p) - k
      /\ \A e \in ToSet(p) : e \in due \/ e \in ToSet(p2)
  BY <1>2, <1>3, DropOldest
<1>5. h2 \in Seq(Message) /\ Len(h2) = Len(h) - c /\ ToSet(h2) \subseteq ToSet(h)
  BY <1>2, <1>3, DropOldest
<1>6. due \subseteq Ihave
  BY <1>2, <1>3
<1> HIDE DEF p2, h2, due
<1>7. \A g \in G : g \in Datagram /\ g.type = "graft"
  BY <1>6 DEF Dgram, Datagram, Ihave
<1>8. \A e \in due : \E g \in G : g.type = "graft" /\ g.from = n /\ g.msg = e.msg
  <2>1. ASSUME NEW e \in due
        PROVE  \E g \in G : g.type = "graft" /\ g.from = n /\ g.msg = e.msg
    <3>1. Dgram("graft", n, e.from, e.msg) \in G
      OBVIOUS
    <3>2. /\ Dgram("graft", n, e.from, e.msg).type = "graft"
          /\ Dgram("graft", n, e.from, e.msg).from = n
          /\ Dgram("graft", n, e.from, e.msg).msg = e.msg
      BY DEF Dgram
    <3> QED BY <3>1, <3>2
  <2> QED BY <2>1
<1> HIDE DEF G
<1>9. LinksOK(n, l)
  <2>1. DOMAIN l = DOMAIN links[n]
    OBVIOUS
  <2>2. l \in [DOMAIN l -> {EAGER, LAZY}]
    BY <2>1, <1>2 DEF LinksOK
  <2> QED BY <2>1, <2>2, <1>2 DEF LinksOK
<1> HIDE DEF l
<1>10. LinksInv'
  BY <1>1, <1>9, LinksStep DEF IInv
<1>11. TablesInv'
  <2>1. Len(p2) <= PendingSize /\ Len(h2) <= CacheSize
    BY <1>2, <1>4, <1>5, PlumTreeAssumption
  <2> QED BY <2>1, <1>1, <1>4, <1>5 DEF IInv, TablesInv
<1>12. NetInv' /\ HistInv'
  BY <1>1, <1>7 DEF IInv, NetInv, HistInv
<1>13. \A x \in Node : ToSet(cache'[x]) \subseteq ToSet(cache[x])
  BY <1>1, <1>5 DEF IInv, TablesInv
<1>14. Known' /\ CachedHad'
  <2>1. \A d \in net' : d.type = "gossip" => d \in net
    BY <1>1, <1>7
  <2> QED BY <2>1, <1>1, <1>13 DEF IInv, Known, CachedHad, Had
<1>15. NotStranded'
  <2>1. ASSUME NEW x \in Node, NEW m \in announced[x] PROVE Reachable(x, m)'
    <3>1. Reachable(x, m)
      BY <2>1 DEF IInv, NotStranded, Reachable
    <3>2. CASE x = n /\ \E e \in ToSet(p) : e.msg = m
      <4>1. PICK e \in ToSet(p) : e.msg = m
        BY <3>2
      <4>2. CASE e \in due
        <5>1. PICK g \in G : g.type = "graft" /\ g.from = n /\ g.msg = e.msg
          BY <4>2, <1>8
        <5>2. g \in net'
          BY <5>1, <1>1
        <5> QED BY <5>1, <5>2, <4>1, <3>2 DEF Reachable
      <4>3. CASE e \in ToSet(p2)
        <5>1. e \in ToSet(pending'[x])
          BY <4>3, <3>2, <1>1 DEF IInv, TablesInv
        <5> QED BY <5>1, <4>1 DEF Reachable
      <4> QED BY <4>2, <4>3, <1>4
    <3>3. CASE ~ (x = n /\ \E e \in ToSet(p) : e.msg = m)
      <4>1. \A e \in ToSet(pending[x]) : e.msg = m => e \in ToSet(pending'[x])
        BY <3>3, <1>1 DEF IInv, TablesInv
      <4>2. Had(x) \subseteq Had(x)'
        BY <1>1 DEF Had
      <4> QED BY <3>1, <4>1, <4>2, <1>1 DEF Reachable
    <3> QED BY <3>2, <3>3
  <2> QED BY <2>1, <1>1 DEF NotStranded, Reachable
<1>16. HostsStep
  <2> DEFINE H == [x \in Node |-> ToSet(cache[x])]
  <2>1. H' = [H EXCEPT ![n] = ToSet(h2)] /\ ToSet(h2) \in SUBSET H[n]
    BY <1>1, <1>5, HeldStep DEF IInv
  <2>2. Hosts!Forget(n)
    BY <2>1, <1>1 DEF Hosts!Forget
  <2> QED BY <2>2 DEF HostsStep, Hosts!Next
<1> QED BY <1>10, <1>11, <1>12, <1>14, <1>15, <1>16 DEF IInv

-----------------------------------------------------------------------------
(* The theorems                                                            *)

LEMMA Step ==
    ASSUME IInv, [Next]_vars
    PROVE  IInv' /\ HostsStep
<1>1. CASE UNCHANGED vars
  BY <1>1, Stutter
<1>2. ASSUME NEW n \in Node, NEW m \in Message, broadcast(n, m) PROVE IInv' /\ HostsStep
  BY <1>2, broadcastOK
<1>3. ASSUME NEW n \in Node, NEW p \in Node, add_peer(n, p) \/ remove_peer(n, p)
      PROVE  IInv' /\ HostsStep
  BY <1>3, add_peerOK, remove_peerOK
<1>4. ASSUME NEW d \in net, Receive(d) PROVE IInv' /\ HostsStep
  BY <1>4, recv_duplicateOK, recv_gossipOK, recv_ihaveOK, recv_graftOK, recv_pruneOK
     DEF Receive
<1>5. ASSUME NEW d \in net, Lose(d) PROVE IInv' /\ HostsStep
  BY <1>5, LoseOK
<1>6. ASSUME NEW n \in Node, Timers(n, 0) PROVE IInv' /\ HostsStep
  <2>1. PICK k \in 0 .. PendingSize, c \in 0 .. CacheSize : tick(n, k, c)
    BY <1>6 DEF Timers
  <2>2. k \in Nat /\ c \in Nat
    BY PlumTreeAssumption
  <2> QED BY <2>1, <2>2, tickOK
<1>7. ASSUME NEW n \in Node, reset(n) PROVE IInv' /\ HostsStep
  BY <1>7, resetOK
<1> QED BY <1>1, <1>2, <1>3, <1>4, <1>5, <1>6, <1>7 DEF Next

LEMMA Invariance == Spec => []IInv
<1>1. Init => IInv
  BY InitOK
<1>2. IInv /\ [Next]_vars => IInv'
  BY Step
<1> QED BY <1>1, <1>2, PTL DEF Spec

\* On every mesh and for every size of the tables, peer tables, caches and pending
\* IHAVEs never hold more than they have room for, no node becomes its own peer,
\* and only datagrams of the protocol are sent (wake_plumtree.c: add_peer,
\* cache_insert, pending_add, the handlers and tick).
THEOREM TypeCorrect == Spec => []TypeOK
<1>1. IInv => TypeOK
  BY IInvImpliesTypeOK
<1> QED BY <1>1, Invariance, PTL

\* No interleaving of GOSSIP, IHAVE, PRUNE, GRAFT, timeouts, peers that come and
\* go and duplicated datagrams leaves a node that was sent a message without it and
\* without a way to it, unless one of the recorded losses happened.
THEOREM NotStrandedCorrect == Spec => []NotStranded
<1>1. IInv => NotStranded
  BY DEF IInv
<1> QED BY <1>1, Invariance, PTL

\* The mesh implements the broadcast layer: a host is given only what was
\* broadcast, and a message again only after its node's cache dropped it.
THEOREM ImplementsDissemination == Spec => HostsSpec
<1>1. Init => Hosts!Init
  BY InitOK
<1>2. IInv /\ [Next]_vars => [Hosts!Next]_(Hosts!vars)
  BY Step DEF HostsStep
<1> QED BY <1>1, <1>2, Invariance, PTL DEF Spec, HostsSpec, Hosts!Spec

=============================================================================
