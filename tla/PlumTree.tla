------------------------------- MODULE PlumTree -------------------------------
(***************************************************************************)
(* PlumTree broadcast (wake_plumtree.c) on a mesh of nodes over a network  *)
(* that reorders, loses and duplicates datagrams.                          *)
(*                                                                         *)
(* Time is kept as an order: a node's cache and its pending IHAVEs are     *)
(* sequences, oldest entry first, and at a tick some prefix of each has    *)
(* outlived its timeout (lazy_timeout_ms, cache_ttl_ms).  Entries of the   *)
(* same millisecond are ordered by arrival.  A payload is its message id.  *)
(***************************************************************************)
EXTENDS Naturals, FiniteSets, SequencesExt

CONSTANTS
  Node, Message,
  Links,         \* Links[n]: the peers n starts with and their link types,
                 \* as earlier messages have left them
  Churn,         \* the peerings <<n, p>> that n may drop and add again
  Resetting,     \* the nodes whose hosts may reset them
  Origins,       \* the broadcasts <<n, m>> the hosts may ask for
  MaxPeers, CacheSize, PendingSize,
  MaxFaults      \* bound: datagrams lost or duplicated, cache entries that
                 \* reach cache_ttl_ms, peers dropped, resets

ASSUME PlumTreeAssumption ==
  /\ Links = [n \in Node |-> Links[n]]
  /\ \A n \in Node : \E P \in SUBSET (Node \ {n}) :
       Links[n] \in [P -> {"eager", "lazy"}] /\ IsFiniteSet(P) /\ Cardinality(P) <= MaxPeers
  /\ Churn \subseteq {e \in Node \X Node : e[1] # e[2]}
  /\ Resetting \subseteq Node
  /\ MaxPeers \in Nat /\ CacheSize \in Nat \ {0} /\ PendingSize \in Nat \ {0}
  /\ MaxFaults \in Nat
  /\ Origins \subseteq Node \X Message

VARIABLES
  links,       \* links[n]: the peers of n with their link type
  cache,       \* cache[n]: the messages n holds, oldest first
  pending,     \* pending[n]: the IHAVEs n waits on, oldest first
  net,         \* the datagrams in flight
  faults,      \* how many faults there have been
  origin,      \* origin[m]: the nodes that broadcast m (one at most)
  delivered,   \* delivered[n][m]: 0, 1 or more (2) deliveries to n's host
  announced,   \* history: announced[n]: messages sent to n in some form
  missed       \* history: <<n, m>>: n lost a chance of getting m (see below)

node  == <<links, cache, pending>>
hist  == <<origin, delivered, announced, missed>>
vars  == <<node, net, faults, hist>>

EAGER == "eager"
LAZY  == "lazy"

\* A PRUNE names no message.
Datagram == [type : {"gossip", "ihave", "graft"}, from : Node, to : Node, msg : Message]
            \cup [type : {"prune"}, from : Node, to : Node]

Dgram(type, from, to, m) == [type |-> type, from |-> from, to |-> to, msg |-> m]
Prune(from, to) == [type |-> "prune", from |-> from, to |-> to]

-----------------------------------------------------------------------------
(* The node's tables                                                       *)

Peers(n)     == DOMAIN links[n]
\* Mutant: only looks at the newest entry.
has_msg_last(n, m) == cache[n] # << >> /\ Last(cache[n]) = m

has_msg(n, m) == Contains(cache[n], m)

\* cache_insert: append, at the expense of the oldest entry when full.
cache_insert(c, m) == IF Len(c) < CacheSize THEN Append(c, m) ELSE Append(Tail(c), m)

\* pending_remove_msg: the first entry for m goes, if there is one.
pending_remove_msg(p, m) ==
  LET at == {i \in DOMAIN p : p[i].msg = m}
  IN  IF at = {} THEN p ELSE RemoveAt(p, Min(at))

\* Mutant: a full table takes another entry.
pending_add_grows(p, m, from) ==
  Append(pending_remove_msg(p, m), [msg |-> m, from |-> from])

\* pending_add: a known message restarts its timer and takes the new announcer;
\* a new one is appended, at the expense of the oldest entry when full.
pending_add(p, m, from) ==
  LET rest == pending_remove_msg(p, m)
  IN  Append(IF Len(rest) < PendingSize THEN rest ELSE Tail(rest),
             [msg |-> m, from |-> from])

\* promote_eager and demote_lazy leave a node that is no peer alone.
SetLink(l, p, type) == IF p \in DOMAIN l THEN [l EXCEPT ![p] = type] ELSE l

\* What n sends about m: GOSSIP to eager peers, IHAVE to lazy ones.
Forward(n, l, m, to) ==
  {Dgram(IF l[p] = EAGER THEN "gossip" ELSE "ihave", n, p, m) : p \in to}

Announce(to, m) == announced' = [x \in Node |-> IF x \in to THEN announced[x] \cup {m}
                                                ELSE announced[x]]

\* k more faults.
Faults(k) == faults + k <= MaxFaults /\ faults' = faults + k

-----------------------------------------------------------------------------
Init ==
  /\ links = Links
  /\ cache = [n \in Node |-> << >>]
  /\ pending = [n \in Node |-> << >>]
  /\ net = {} /\ faults = 0
  /\ origin = [m \in Message |-> {}]
  /\ delivered = [n \in Node |-> [m \in Message |-> 0]]
  /\ announced = [n \in Node |-> {}]
  /\ missed = {}

add_peer(n, p) ==
  /\ <<n, p>> \in Churn /\ p \notin Peers(n)
  /\ Cardinality(Peers(n)) < MaxPeers
  /\ links' = [links EXCEPT ![n] = [q \in Peers(n) \cup {p} |->
                                      IF q = p THEN EAGER ELSE links[n][q]]]
  /\ UNCHANGED <<cache, pending, net, faults, hist>>

\* Nothing but the peer list changes: IHAVEs of the peer stay pending.
remove_peer(n, p) ==
  /\ <<n, p>> \in Churn /\ p \in Peers(n)
  /\ links' = [links EXCEPT ![n] = [q \in Peers(n) \ {p} |-> links[n][q]]]
  /\ Faults(1)
  /\ UNCHANGED <<cache, pending, net, hist>>

\* The node forgets its peers, its messages and what it waits for.
reset(n) ==
  /\ n \in Resetting /\ Faults(1)
  /\ links' = [links EXCEPT ![n] = << >>]
  /\ cache' = [cache EXCEPT ![n] = << >>]
  /\ pending' = [pending EXCEPT ![n] = << >>]
  /\ missed' = missed \cup {<<n, e.msg>> : e \in ToSet(pending[n])}
  /\ UNCHANGED <<net, origin, delivered, announced>>

broadcast(n, m) ==
  /\ <<n, m>> \in Origins /\ origin[m] = {}
  /\ origin' = [origin EXCEPT ![m] = {n}]
  /\ cache' = [cache EXCEPT ![n] = cache_insert(@, m)]
  /\ net' = net \cup Forward(n, links[n], m, Peers(n))
  /\ Announce(Peers(n), m)
  /\ UNCHANGED <<links, pending, faults, delivered, missed>>

-----------------------------------------------------------------------------
(* Handlers.  The datagram leaves the network unless it is duplicated.     *)

Take(d, twice) == IF twice THEN net ELSE net \ {d}

Arrives(d, type, twice) == d.type = type /\ Faults(IF twice THEN 1 ELSE 0)

\* A message n holds: the sender is pruned.
recv_duplicate(d, twice) ==
  LET n == d.to IN
  /\ Arrives(d, "gossip", twice) /\ has_msg(n, d.msg)
  /\ net' = Take(d, twice) \cup {Prune(n, d.from)}
  /\ links' = [links EXCEPT ![n] = SetLink(@, d.from, LAZY)]
  /\ UNCHANGED <<cache, pending, hist>>

\* A message n does not hold: cached, delivered and passed on.
recv_gossip(d, twice) ==
  LET n  == d.to
      l  == SetLink(links[n], d.from, EAGER)
      to == Peers(n) \ {d.from}
  IN
  /\ Arrives(d, "gossip", twice) /\ ~has_msg(n, d.msg)
  /\ cache' = [cache EXCEPT ![n] = cache_insert(@, d.msg)]
  /\ pending' = [pending EXCEPT ![n] = pending_remove_msg(@, d.msg)]
  /\ links' = [links EXCEPT ![n] = l]
  /\ delivered' = [delivered EXCEPT ![n][d.msg] = IF @ < 2 THEN @ + 1 ELSE @]
  /\ net' = Take(d, twice) \cup Forward(n, l, d.msg, to)
  /\ Announce(to, d.msg)
  /\ UNCHANGED <<origin, missed>>

\* An IHAVE for a message n lacks is noted; a full table forgets its oldest.
recv_ihave(d, twice) ==
  LET n == d.to
      p == pending_add(pending[n], d.msg, d.from)
  IN
  /\ Arrives(d, "ihave", twice)
  /\ net' = Take(d, twice)
  /\ pending' = IF has_msg(n, d.msg) THEN pending ELSE [pending EXCEPT ![n] = p]
  /\ missed' = missed \cup {<<n, m>> : m \in {e.msg : e \in ToSet(pending[n])}
                                            \ {e.msg : e \in ToSet(pending'[n])}}
  /\ UNCHANGED <<links, cache, origin, delivered, announced>>

\* A GRAFT makes its sender eager and is answered if n still has the message.
recv_graft(d, twice) ==
  LET n == d.to IN
  /\ Arrives(d, "graft", twice)
  /\ links' = [links EXCEPT ![n] = SetLink(@, d.from, EAGER)]
  /\ net' = Take(d, twice) \cup (IF has_msg(n, d.msg)
                                 THEN {Dgram("gossip", n, d.from, d.msg)} ELSE {})
  /\ missed' = IF has_msg(n, d.msg) THEN missed ELSE missed \cup {<<d.from, d.msg>>}
  /\ UNCHANGED <<cache, pending, origin, delivered, announced>>

recv_prune(d, twice) ==
  /\ Arrives(d, "prune", twice)
  /\ net' = Take(d, twice)
  /\ links' = [links EXCEPT ![d.to] = SetLink(@, d.from, LAZY)]
  /\ UNCHANGED <<cache, pending, hist>>

Receive(d) == \E twice \in BOOLEAN :
  \/ recv_duplicate(d, twice) \/ recv_gossip(d, twice) \/ recv_ihave(d, twice)
  \/ recv_graft(d, twice) \/ recv_prune(d, twice)

\* The network loses a datagram; if it offered or asked for m, that was a chance.
Lose(d) ==
  /\ Faults(1)
  /\ net' = net \ {d}
  /\ missed' = missed \cup (CASE d.type = "graft" -> {<<d.from, d.msg>>}
                              [] d.type = "prune" -> {}
                              [] OTHER            -> {<<d.to, d.msg>>})
  /\ UNCHANGED <<node, origin, delivered, announced>>

\* Mutant: an IHAVE that times out is dropped without a GRAFT.
tick_drops(n, k, c) ==
  /\ k <= Len(pending[n]) /\ c <= Len(cache[n]) /\ k + c > 0
  /\ Faults(c)
  /\ pending' = [pending EXCEPT ![n] = SubSeq(@, k + 1, Len(@))]
  /\ cache' = [cache EXCEPT ![n] = SubSeq(@, c + 1, Len(@))]
  /\ UNCHANGED <<links, net, hist>>

\* Mutant: a grafted IHAVE stays pending.
tick_keeps(n, k, c) ==
  LET due == {pending[n][i] : i \in 1 .. k} IN
  /\ k <= Len(pending[n]) /\ c <= Len(cache[n]) /\ k + c > 0
  /\ Faults(c)
  /\ net' = net \cup {Dgram("graft", n, e.from, e.msg) : e \in due}
  /\ links' = [links EXCEPT ![n] = [p \in DOMAIN @ |->
                 IF \E e \in due : e.from = p THEN EAGER ELSE @[p]]]
  /\ cache' = [cache EXCEPT ![n] = SubSeq(@, c + 1, Len(@))]
  /\ UNCHANGED <<pending, hist>>

\* tick: the k oldest pending IHAVEs have timed out, each is grafted once and
\* dropped; then the c oldest cache entries have expired.
tick(n, k, c) ==
  LET due == {pending[n][i] : i \in 1 .. k} IN
  /\ k <= Len(pending[n]) /\ c <= Len(cache[n]) /\ k + c > 0
  /\ Faults(c)
  /\ net' = net \cup {Dgram("graft", n, e.from, e.msg) : e \in due}
  /\ links' = [links EXCEPT ![n] = [p \in DOMAIN @ |->
                 IF \E e \in due : e.from = p THEN EAGER ELSE @[p]]]
  /\ pending' = [pending EXCEPT ![n] = SubSeq(@, k + 1, Len(@))]
  /\ cache' = [cache EXCEPT ![n] = SubSeq(@, c + 1, Len(@))]
  /\ UNCHANGED <<origin, delivered, announced, missed>>

Timers(n, some) == \E k \in some .. PendingSize, c \in 0 .. CacheSize : tick(n, k, c)

-----------------------------------------------------------------------------
Next == \/ \E n \in Node, m \in Message : broadcast(n, m)
        \/ \E n, p \in Node : add_peer(n, p) \/ remove_peer(n, p)
        \/ \E d \in net : Receive(d) \/ Lose(d)
        \/ \E n \in Node : Timers(n, 0) \/ reset(n)

Spec == Init /\ [][Next]_vars

\* Datagrams that are not lost arrive, and the host calls tick often enough for
\* a pending IHAVE to time out.
Fairness == /\ WF_vars(\E d \in net : Receive(d))
            /\ \A n \in Node : WF_vars(Timers(n, 1))

FairSpec == Spec /\ Fairness

-----------------------------------------------------------------------------
Had(n) == {m \in Message : n \in origin[m] \/ delivered[n][m] > 0}

\* Links lead to other nodes, the tables keep to their sizes, and only
\* datagrams of the protocol are in flight.
TypeOK ==
  /\ \A n \in Node : /\ Peers(n) \subseteq Node \ {n}
                     /\ links[n] \in [Peers(n) -> {EAGER, LAZY}]
                     /\ Cardinality(Peers(n)) <= MaxPeers
                     /\ Len(cache[n]) <= CacheSize /\ Len(pending[n]) <= PendingSize
  /\ cache \in [Node -> Seq(Message)]
  /\ pending \in [Node -> Seq([msg : Message, from : Node])]
  /\ net \subseteq Datagram

\* A message that was once sent to a node in some form (GOSSIP or IHAVE) is had by
\* it, or on its way to it, or waited for, or asked for, unless a datagram
\* was lost, the node was reset, its table of pending IHAVEs overflowed or the
\* asked node had dropped the message: no interleaving of PRUNE, GRAFT, IHAVE and timeouts
\* leaves a node without the message and without a way to it.
NotStranded ==
  \A n \in Node : \A m \in announced[n] :
    \/ m \in Had(n) \/ <<n, m>> \in missed
    \/ \E e \in ToSet(pending[n]) : e.msg = m
    \/ \E d \in net : \/ d.type \in {"gossip", "ihave"} /\ d.to = n /\ d.msg = m
                      \/ d.type = "graft" /\ d.from = n /\ d.msg = m

\* To the hosts the mesh is a broadcast layer as module Dissemination has it:
\* only broadcast messages are delivered, and one is delivered again, or to its
\* own origin, only after that node's cache has dropped it.
Hosts == INSTANCE Dissemination WITH held <- [n \in Node |-> ToSet(cache[n])]

HostsSpec == Hosts!Spec

\* Forwarding, pruning and grafting come to an end; by NotStranded, every message
\* sent to a node has then arrived there or a chance of it was lost.
Quiesces == <>[](net = {} /\ \A n \in Node : pending[n] = << >>)
=============================================================================
