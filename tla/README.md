# libwake in TLA+

libwake is a C library for a mesh of sensors that share observations about
suspicious entities (addresses, accounts, hashes). It is passive: the host
program owns the sockets, the clock and the threads, and calls the library.
This directory holds TLA+ models of its parts, written from the C code, the TLC
configurations that check them on small instances, and TLAPS proofs for
instances of any size.

Source paths below are relative to the repository root (`src/wake_*.c`).
`PROJECT.json` maps each definition to the lines it stands for.

## 1. The system

| Component | State | Operations | Hard behaviour |
|---|---|---|---|
| **SWIM membership** `wake_swim.c` | members with (state, incarnation) and stamps, update queue with piggyback counts, shuffled probe order, cached `alive_count`, own incarnation, health score | add, remove, apply_update, suspect, next_probe, check_suspects, reap, get_updates, report_health, reset | late, duplicated and reordered updates; self-refutation; timers whose length changes while they run; caches over an array that is compacted; full arrays and queues |
| **Pheromone table** `wake_pheromone.c` | open-addressed table in a `MAP_SHARED` file: key, confidence, counters, seqlock version, entity, reasons | deposit, reinforce, lookup, remove, decay, read_entry, iterate, note_reason | lock-free access of several processes; claim by CAS, seqlock, tombstones; a process killed in the middle |
| **Quorum sweep** `wake_quorum.c` | per table slot, the entity and the highest tier reported | sweep (with a callback or dry), sweep_collect, preseed, reset | a table that changes during the sweep and whose slots are reused; a callback that stops the sweep; a hits array that is full; hysteresis |
| **PlumTree** `wake_plumtree.c` | eager and lazy peers, message cache, pending IHAVEs with timers | broadcast, recv_gossip/ihave/graft/prune, tick, add/remove_peer, reset | lost, duplicated and reordered datagrams; crossing PRUNEs and GRAFTs; repeated IHAVEs that restart a timer; expiry of the cache and redelivery |
| **TAC graph** `wake_tac.c` | table of edges (entity, technique pair) with weight, budgets per source, quarantine; a sidecar that lists each entity's edges | reinforce, reinforce_batch, decay, reset, open, read_entry, iterate, query, route | one writer, killed anywhere, and concurrent readers; eviction at the cap; budgets and witnesses past the named slots; recycled slots |
| **Datagram codec** `wake_dgram.c` | none | encode, decode | bounds of lengths and counts; a state byte that is not validated |
| **Signal** `wake_signal.c` | none | init, verify, forward | ttl and hop count at their limits |
| **Entities** `wake_entity.c` | the process-wide SipHash key | parse, format, compare, hash | opening a table changes the global key |
| **Crypto** `wake_crypto.c`, Monocypher, **version** | none | | vendored arithmetic, constants |

Interaction: the host decodes a datagram, gives SWIM updates to `wake_swim`,
broadcasts and receives signals through PlumTree, reinforces the pheromone table
with what remote nodes report, runs decay and the quorum sweep from a timer, and
piggybacks `get_updates` on what it sends. Within one process the components
share nothing but the table; the table is shared between processes.

What makes each component correct:

- SWIM: an update order that converges (precedence is never undone), no accusation
  of this node unanswered, every suspicion ends, nobody dropped silently, caches
  that agree with the list, probing that reaches every member. Across nodes: nothing
  is said of a node that neither it nor a failed probe is behind, and its answer to
  an accusation beats whatever is still on its way.
- Pheromone: no live entry is ever hidden, no slot has two owners, no deposit is
  lost, readers see whole entries, no caller waits for ever.
- Quorum: what is marked as reported was reported; tiers only rise until a
  retraction; an alert that lasts is raised whatever happens in other slots.
- PlumTree: a message is delivered once within the life of the cache, no
  interleaving cuts a node off from a message announced to it, and traffic ends.
- TAC: the sidecar agrees with the table, caps and budgets hold, witnesses are
  counted once, an eviction never costs more than it brings, every edge dies.
- Codec and signal: decode inverts encode; ttl falls at every hop.

## 2. Modules

```
SwimOps ──┬── Swim ──┬── MCSwim            swim_node
          │          └── SwimProbe ──┬── MCSwimProbe   swim_pair
          │                          └── SwimProofs
          └── SwimMesh ──┬── MCSwimMesh    swim_mesh
                         └── SwimMeshProofs (also extends SwimProofs)
Pheromone ──┬── MCPheromone                pht_chains, pht_deposit, pht_lost_deposit
            └── PheromoneLookup ──┬── MCPheromoneLookup   pht_lookup
                                  └── PheromoneProofs
Alarm ······ QuorumSweep ──┬── MCQuorum    quorum     (QuorumSweep implements Alarm)
                           └── QuorumProofs
Dissemination ··· PlumTree ──┬── MCPlumTree   plumtree   (PlumTree implements Dissemination)
                             └── PlumTreeProofs
Tac ──┬── MCTac                            tac
      ├── TacReader ── MCTacReader         tac_splice
      └── TacProofs
Dgram ──┬── MCDgram                        dgram
        └── DgramProofs
```

The `*Proofs` modules hold the theorems; `NatFacts` has the facts about least and
greatest numbers, about induction and about recursion that they share.

### SWIM

`SwimOps` holds the operations as operators on a record `SwimState` that has the
fields of `wake_swim_t`, under the names of the C functions: static helpers
(`find_member`, `queue_update`, `state_supersedes`, `rebuild_probe_order`,
`recount_alive`) and the public calls. `Swim` makes each public call one action
on the variable `sw` and adds the host's clock `now`. A refused call (a full
list, an unknown id, the node's own id) is the same action with the state
unchanged, as in the code.

- Node names are model values. Incarnations run over `0..UINT32_MAX` with a
  small `UINT32_MAX`, so that `incarnation + 1` really wraps.
- `rebuild_probe_order` shuffles with a PRNG; the model lets every permutation
  happen. `wake_swim_next_probe` is therefore a set of results.
- The C code drops a probe order by `probe_size = 0`; here it is the empty
  sequence. Arrays are sequences, indices start at 1.
- `piggyback_count`, the eviction choice of a full queue, the pruning limit
  and the cap `selected[256]` (`SEL_CAP`) are modelled. Probe and suspicion
  statistics are not, except `rounds_completed`: it is 0 in every reachable
  state, because the comparison that counts a round (`wake_swim.c:525`) comes
  after `probe_index` was set to 0.
- `SwimProbe` adds a history variable that watches who is probed.

`SwimMesh` has one such record per node, changed by the same operators, and the
updates the nodes exchange. `net` is every update ever handed out by `get_updates`;
`Deliver` gives any of them to any node at any time and takes none away, which is
loss, delay, reordering and repetition at once. Each host has its own clock. `Restart`
is a process that dies: nothing is persisted, so the node begins again at
incarnation 0. `Forget` is `wake_swim_reset`. Whom a host adds, removes or accuses is
free; `next_probe` and `report_health` touch neither list nor queue and are left to
`Swim`. `accused`, `removed` and `restarted` are history: at which incarnations a
failed probe was reported, who was removed, who has died. Three bounds: `HostCalls`
for what hosts do of their own accord, `ClockLimit`, and `Deliver` does not hand a
node an accusation at `UINT32_MAX`. The answer to it would be incarnation 0, which no
node believes; it takes 2^32 refutations to get there.

### Pheromone table

`Pheromone` models the table at the grain of the C11 atomics: one step of a
process is one load, store, fetch-add or compare-and-swap of the code, and `pc`
names the access that comes next. `call` holds the parameters and locals of a
call in progress: `probe` is the loop counter, `avail` is `first_available` or
the slot being worked on, `expected` and `ver` and `conf` are the values loaded
earlier and possibly stale, `todo` the stores still to make, `out` the reader's
copy, `res` the result.

- The hash is any function `Hash`; collisions and hashes equal to a sentinel are
  instances of it. `ProbeSlot` uses `%`, which the mask is for a power of two.
- Width matters in `Add32`, `Add16` and the version: they wrap.
- The entity with the other plain fields is two halves, enough for a copy to be
  torn. `hit_count`, `last_update` and `phase_flags` are accessed beside
  `confidence` in the same way and left out, as are the three reason words.
- The memory is sequentially consistent, except that with `Reorder` the plain
  stores between the odd and the even version, and the odd version itself,
  happen in any order: a release store does not hold back what follows it.
- `Crash` kills a process between any two accesses; its stores stay in the file.
- `DecayFactor <= FP_ONE` is assumed. The code does not check it when it reads a
  configuration or a file; above 1.0 decay would raise confidence.
- `wake_pheromone_iterate` is `read_entry` of each slot; the model reads any
  slot. `create` is `Init` (the file is truncated and zeroed); its error paths
  and `open` are not modelled.

`PheromoneLookup` adds a history variable, the slots that have held a caller's
key during its whole call, so that "reported absent" can be compared with what
the table really held.

### Quorum sweep

`QuorumSweep` is the evaluator with the table it sweeps. The table has what a sweep
sees of module `Pheromone`: keys, counters, a claim that shows the key before the
counters are stored, a removal that leaves the counters. `read_entry` is two
steps (`SeeLive`, then one of `Suppress`, `Emit`, `Record`, `Collect`), so that a
removal can fall between them and the copied key be a tombstone. `sweep` holds
the loop counter and how the host called: `emit` (a callback, which may end the
sweep), `dry` (no callback, also `preseed`), `collect` (a hits array, which the
host reads when the call returns). `told` and `silent` are history: what the host
has heard about each slot, and which records it never heard of.

`Alarm` states the promise without table, thresholds or sweep: per slot the entity
and tier last reported and what the host knows of it. `AlarmSpec` is the refinement,
with the unread hits applied to `told`.

### PlumTree

`PlumTree` has several nodes and the datagrams between them as a set: they arrive
in any order, a fault loses one or delivers it twice. Each handler is one action,
sends included. Clocks are left out: cache and pending IHAVEs are sequences,
oldest first, and at a `tick` any prefix of each has timed out, which covers every
choice of `lazy_timeout_ms` and `cache_ttl_ms`. `Faults` bounds losses, duplicates,
expiries, dropped peers and resets together. `announced` and `missed` are history:
what was ever offered to a node, and which offers came to nothing through a fault,
an overflow, or a GRAFT for a message the asked node had forgotten.

`Dissemination` is the layer as hosts see it: only broadcast messages are
delivered, and a message again (or to its own origin) only after the node has
forgotten it. `HostsSpec` is the refinement; `held` is the set of cached messages.

### TAC graph

`Tac` gives the one writer a step for each store, or group of stores, that a reader
or a successor after a crash can tell apart: `ChargeExisting`, `Weigh`, `Reassess`
for an edge that exists; `Claim`, `Retire`, `Unlist`, `Shrink`, `Hide`, `Describe`,
`Name`, `List`, `Publish` for a new one; one step per slot for decay. `writer` is
the program counter with the rest of a batch. `Crash` stops the writer anywhere;
the next one opens the file as it is. An edge stands for its `key_hash`, `Home` and
`OccHome` for the hashes. Weights are small numbers with the same integer
arithmetic as the fixed-point code (`ETA_UNIT` for the shift by 4, `FP_ONE` for
65536). `who` is history: the sources that really paid for an edge.

`TacReader` adds `read_entry`, load by load.

### Datagram codec

`Dgram` works on bytes: the offsets and length checks of the code are what is
checked. Identifiers are two bytes long, and an update has its id, one 16-bit
value and the state byte. A read beyond the datagram has no value in the model,
so TLC would stop at one, and in a proof nothing would be known of what was read.
A transport may cut, damage or pad what was encoded.

## 3. Model checking

### Passing runs

| Run | Instance | Shows |
|---|---|---|
| `swim_node` | this node and one peer, 3 incarnations, adaptive timeout, health 0..1, clock 1..4 | `PrecedenceHeld`: no sequence of late, duplicated or reordered updates moves a listed member back. `RefutationWins`: every accusation of this node is answered by a queued update that beats it. `SuspicionTimed`: stamps agree with states and are never in the future. `ExpiryComplete`: check_suspects leaves nothing that is due. `SuspicionResolves`: every suspicion ends |
| `swim_pair` | 3 peers for 2 member slots and 2 queue slots, 2 incarnations | `TypeOK`; `CachesFresh`: alive_count and the probe order agree with the list; `IdentityUnique`; `QueueAgrees`: what is gossiped is what this node believes of its members and of itself; `NoSilentDrop`; all while both arrays overflow, compact and evict. `ProbeGapBounded`, with the history of `SwimProbe`: under stable membership at most 2(n-1) others are probed between two probes of a member, in every shuffle (two members reach the bound; the theorem is for any number) |
| `swim_mesh` | 3 nodes with lists of one and queues of two, 4 incarnations, 3 host calls, clocks 1..2 | `NoForgedIncarnation`: nobody is said to have an incarnation it has not reached. `VerdictsFounded`: SUSPECT and DEAD only at an incarnation at which a probe failed, LEFT only of a removed node. `RefutationsEarned`: a node moves past an incarnation only when accused at it. `RefutationOutruns`: its answer supersedes all that was ever said of it, save LEFT |
| `pht_chains` | 2 slots, 2 colliding entities, two depositors (one mortal), one process that removes or decays; `Reorder` | `TypeOK`; `Reachable`: the chain to each live entry has no EMPTY slot; `KeyDiscipline`: slots go from free to a key and from a key to TOMBSTONE only |
| `pht_lookup` | the same, with the history of `PheromoneLookup` | `NoFalseMiss`: a call that finds nothing is right, no slot has held its key throughout |
| `pht_deposit` | the same table, a depositor, a reinforcing process and a reader; no eviction, no death, program order | `UniqueKey`, `SnapshotNotTorn`, `Settled` (entries are whole when nobody is inside a call), `CallsReturn` |
| `quorum` | 2 slots, 2 entities, one of them in both slots; confidence 0..4 with a level in the hysteresis band; a hits array of one; all three ways to sweep | `Accounted`: a tier marked as reported was reported, or a dry sweep or a full array swallowed it. `AlarmSpec`: refinement of `Alarm`. `Converges`: a slot that stops changing is reported for what it holds |
| `plumtree` | 3 nodes, 2 messages from 2 origins, a mesh with one lazy link, one pending slot, one fault | `NotStranded`: a message offered to a node is had, on its way, pending or asked for, unless a fault or an overflow took the chance. `HostsSpec`: refinement of `Dissemination`. `Quiesces`: datagrams and pending IHAVEs run out |
| `tac` | 3 slots, 2 entities, 4 edges that collide, cap 1, one named budget, one crash; pairs in both orders and a batch of three | `Indexed`: between calls the sidecar lists exactly the live edges, unless a crash or a full probe window explains the difference. `CapHeld`. `WitnessesCounted`: sources counted = sources that paid, weight never above what was spent, quarantine only with one witness. `NeverShort`: no reinforcement costs the entity an edge. `EdgesDie` |
| `dgram` | ids of 2 bytes, up to one update and one payload byte more than allowed, every cut, damage of any byte, padding | `TypeOK`: what is let through is within the bounds. `RoundTrip`: a whole datagram decodes to what was encoded. `CutNoticed`: a cut one is rejected, save for the documented case |

Bounds. Queue and list are one smaller than the number of nodes that can want a
place, which is what makes eviction and refusal happen; two incarnations make
"older", "same" and "newer" occur and three add a second refutation and the
wrap. Time needs one instant per timer boundary: stamp, just before, at and
after expiry. `LastSuspicion` keeps suspicions from starting so late that the
bounded clock ends before their timeout. The table has two slots because with
two entities in one bucket every probe collides, wraps round and meets
tombstones; a third slot only lengthens chains, and `Reachable` is proved for any
number. `UINT32_MAX = 7` and `UINT16_MAX = 3` let confidence and the seqlock
version wrap within the calls allowed (`MaxCalls`).

`swim_mesh` has three nodes so that an update can reach its subject, or come back to
its author, through a third. Lists of one are full after the first join, so that
entries are refused and reaped ones readmitted; a queue of two loses updates. Three
host calls are a join, an accusation and a second accusation, removal, reset or
restart of anyone; what the mesh makes of them is not bounded.

In `quorum` sources and hits are at their thresholds with the first deposit, so
that the confidence alone drives the tiers: below OBSERVE, OBSERVE, the band
above `RetractConfidence`, ALERT; the three conditions of ALERT meet only in
`classify`. Two slots suffice for a callback that stops before the other slot and
for an array that is full. In `plumtree` one pending slot for two messages makes
IHAVEs evict each other, and one fault anywhere is enough for every exemption of
`NotStranded` to occur; the cache has room for both messages, since with less two
messages can evict each other and circulate for ever. In `tac` a cap of 1 makes
every second edge an eviction, one named budget sends the second source to the
shared bucket, and the sidecar window of one slot makes the two entities exclude
each other; TLC reaches quarantine, TABLE_FULL, the undo of a claim and an entity
above its cap after a crash.

Symmetry is used for peers other than this node, and for all nodes of `swim_mesh`, in
runs without liveness properties.

Deadlock checking is on everywhere but in `plumtree`, where the hosts may have
nothing more to broadcast; `Finished` is the explicit end of a pheromone run in
which every process has made its calls.

Fairness. `swim_node` assumes weak fairness of the clock and of
`check_suspects`, which the host's protocol loop calls in every period
(`wake_swim.h` asks for it); nothing else is assumed, in particular no update need
ever arrive. `pht_deposit` assumes that the operating system runs each process
that is inside a call; nothing makes a host start one. `quorum` assumes a host
timer that keeps sweeping (weak fairness of the evaluator), that restarts do not
cut sweeps short for ever, and that the callback does not end every sweep at the
same slot; without the last, later slots are never looked at. `plumtree` assumes
that datagrams that are not lost arrive, and that each host calls `tick` often
enough for a pending IHAVE to time out. `tac` assumes that calls return and that
the host keeps calling decay (`tick_seconds`); strong fairness, because decay can
start only between other calls.

### Findings

Two runs expect a violation. Each states a sentence of the headers or comments
that the code does not keep.

| Run | Sentence | What happens |
|---|---|---|
| `pht_lost_deposit` | atomically adds (`wake_pheromone.h:182`) | the claimer's plain store of the first confidence erases a concurrent fetch-add |
| `tac_splice` | a reader of a live key observes the pair (`wake_tac.h:186`), never a spliced edge (`wake_tac.c:984`) | the key is published before the old weight is hidden and the new pair stored; the second look at the key passes |

Other disagreements met while modelling, which no run is kept for:

- `rounds_completed` is never incremented (`wake_swim.c:525`).
- Two expiries in one `check_suspects` overwrite each other in a full queue
  (`wake_swim.c:110`).
- With evictions, two inserters can leave a mixed entry in one slot: `Settled`
  fails (`wake_pheromone.c:598`).
- Decay evicts an entry that has meanwhile risen above the floor
  (`wake_pheromone.c:642`).
- A reused tombstone shows the previous confidence under the new key
  (`wake_pheromone.c:132`); the table of `QuorumSweep` has this behaviour.
- On a new mesh two broadcasts that cross prune links of each other's tree, and the
  eager links left need not reach every node, against "naturally forms a spanning
  tree" (`wake_plumtree.h:15`); later messages then wait for `lazy_timeout_ms`.

## 4. Proofs

Proved by TLAPS for all constants that satisfy the named `ASSUME`s (sizes, widths,
hashes, thresholds, meshes, messages; any number of processes or nodes). Of the
25 invariants and 10 action or refinement properties the passing runs check, all are
theorems; `MeshTypeCorrect` is one that no run repeats.

| Module | Theorems | Inductive invariant |
|---|---|---|
| `SwimProofs` | `TypeCorrect`, `CachesCorrect`, `IdentityCorrect`, `SuspicionTimedCorrect`, `QueueAgreesCorrect`, `ExpiryCorrect`, `PrecedenceCorrect`, `NoSilentDropCorrect`, `RefutationCorrect`, `ProbeGapCorrect` | `WellFormed(sw, Self)` and a natural clock; `SInv`, `GapInv` |
| `SwimMeshProofs` | `MeshTypeCorrect`, `NoForgedIncarnationCorrect`, `VerdictsFoundedCorrect`, `RefutationsEarnedCorrect`, `RefutationOutrunsCorrect` | `MInv` |
| `PheromoneProofs` | `TypeCorrect`, `ReachableCorrect`, `KeyDisciplineCorrect`, `NoFalseMissCorrect`, `UniqueKeyCorrect`, `SnapshotCorrect`, `SettledCorrect` | `IInv`, `HInv`, `UInv`, `SeqInv`, `FillInv` |
| `QuorumProofs` | `TypeCorrect`, `AccountedCorrect`, `ImplementsAlarm` | `IInv` |
| `PlumTreeProofs` | `TypeCorrect`, `NotStrandedCorrect`, `ImplementsDissemination` | `IInv` |
| `TacProofs` | `TypeCorrect`, `NeverShortCorrect`, `IndexedCorrect`, `CapHeldCorrect`, `WitnessesCorrect` | `TInv`, `ShortInv`, `CInv`, `WitnessInv` |
| `DgramProofs` | `TypeCorrect`, `RoundTripCorrect`, `CutNoticedCorrect` | `DInv` |

**SWIM.** `WellFormed` has the types and bounds of both arrays, `alive_count` equal
to its recount, a probe order that is empty or a permutation of the eligible
indices, distinct ids in list and queue, and this node not in the list. The parts
need each other: probing trusts `alive_count`, the bound of the queue rests on
replacement by id, and the order survives a change of state only because the
operation drops it. There is one lemma per operation of `SwimOps`, below them
lemmas on sequences, on filtering by `Compact` and on cardinalities; the step lemma
has one case per action. `SInv` adds that each queued update agrees with the member
it is about (and with `incarnation` if it is about this node), which is why an
eviction or an expiry never leaves an older update behind, and that stamps agree
with states. The action properties follow from one lemma per operation that says
how it may move a member. `GapInv` adds, for `SwimProbe`, how long each member of
the rest of the order has waited at most; the bound 2(n-1) comes from a member last
in one shuffle after being first in the one before. `SuspicionTimed` and
`ExpiryComplete` are proved for `StartTime # 0`: a suspicion stamped 0 is taken by
the code for none.

**SWIM mesh.** None of the invariants is inductive alone: a DEAD verdict is founded
because the suspicion it grew from was, and an incarnation is not forged because the
node that repeats it heard it. `MInv` says of everything on a list, in a queue or on
its way that it is `Backed`: its subject has reached the incarnation (or has died
since), a verdict has its failed probe, and the subject was accused at every lower
incarnation. Each node is `WellFormed`, by the lemmas of `SwimProofs`, which are stated
for any node. One lemma per operation bounds what a node says afterwards (`Told`) by
what it said before and what the call adds: the fresh entry of a join, the verdict of
an expiry, the update applied, the answer of an accused node. `CallBacked` then leaves
of each action only what it adds to be justified. `RefutationOutruns` follows from
`MInv`: the answer has an incarnation above all that are said. The bound on
`UINT32_MAX` is used there; a wrapped answer would be superseded by everything. A node
that has restarted is exempt, because the mesh remembers more of it than it does.

**Pheromone table.** `Reachable` alone is not inductive: a claim happens long after
the probe loop that chose the slot. `IInv` adds `CallsOK`: what each process
remembers is still true, namely that the slots its loop has passed are not EMPTY,
hence that a chain to the remembered free slot exists. That is stable because no
step turns a slot back into EMPTY (`ChainMonotone`), also the heart of
`KeyDiscipline`. `HInv` says of the history variable that a loop has not passed a
slot that has held its key throughout. These hold with deaths, evictions and
reordered stores. `UniqueKeyCorrect` has the hypothesis `NoEvictions` (no process
removes or decays) because with tombstones two processes can insert one entity
twice; `UInv` says that the slots passed hold other keys and that a claim only
ever takes an EMPTY slot. `SnapshotCorrect` also needs `~ Reorder` (see the hazard
at `wake_pheromone.c:169`): `SeqInv` gives each slot one owner between claim and
unlock, says what version and halves are at each of its stores, and that a reader's
copy is whole if the version is still the one it read. The version never
wraps into an old one there, since without evictions a slot is filled once.
`SettledCorrect` holds with either store order. `FillInv` follows the process that
claimed a slot through every store to the first source, says that it is alone there,
and that an entry nobody fills is whole. That its confidence and sources are not 0
is a matter of sums: a 32-bit or 16-bit sum that wraps may be 0, and a death between
the claim and the stores leaves an entry without any. So the theorem has the
hypotheses `Mortal = {}` and `Fits(D)`: every delta is between 1 and D, and D times
the number of calls that may deposit does not exceed the fields. The proof counts
(`Paid`) the deposits that have made their addition; no slot holds more than that
(`Evidence`), and each addition pays for exactly one more deposit, also the plain
store that erases others. The instance of `pht_deposit` satisfies the hypotheses with
D = 2, and TLC checked `FillInv` there in both store orders.

**Quorum sweep.** `Accounted` is inductive with the types and `SweepInv`: hits exist
only in `sweep_collect` and only about slots already passed, so a hit that has not
been read cannot be about the slot under the sweep. For `ImplementsAlarm` every step
of the evaluator is mapped to a step of `Alarm` or a stutter, one lemma per action;
steps of the table, and a claim or removal between the two halves of `read_entry`,
are stutters.

**PlumTree.** `NotStranded` is inductive with the types and two facts: what is cached
or travels in a GOSSIP was broadcast, and what is cached was broadcast or delivered
here. The refinement uses the same invariant; each handler is a `Broadcast`, a
`Deliver`, a `Forget` or a stutter of `Dissemination`.

**TAC graph.** `TInv` types each program point of the writer. `ShortInv` says how far
an insertion has come: until the victim is retired the entity has what it had, from
then on it is one short and its list has room for the newcomer. `CInv` adds that an
entity's sidecar entry is found where the probe window looks for it, that every
live edge is listed or explained by `drift`, `broken` or the point the writer has
reached, and the arithmetic of the cap: what a list does not count is at most a cap
for every crash. `WitnessInv` says that an edge is at rest or being worked on. At
rest, its named budgets belong to distinct sources that paid, the shared one is used
only when there are more sources than names (`Witnessed`), and the sum of what they
spent covers the weight; at each point of a reinforcement it says what has been
charged and not yet weighed or counted. `UsedCount` turns that into the number of
witnesses. The first payment for a new edge is never refused, because
`wake_tac_create` and `wake_tac_open` refuse a budget that could not afford it
(`Strengths`). TLC checked `CInv` and `WitnessInv` with two crashes before they were
proved.

**Datagrams.** `Decodes` says what the decoder makes of bytes that agree with an
encoded message as far as they go: the message if they are all there, else a
rejection, or the SWIM message without updates. It is proved for each of the three
encoders part by part (`AgreesSplit`); the concatenation of the updates is a
recursive function, for which `NatRecursion` gives existence and `NatSetInduction`
the induction. `DecodeOut` covers arbitrary bytes. `DInv` then only has to relate the
datagram in flight to the bytes of the message. The assumption on messages is what
the encoders' C types give: identifiers of fixed length, 16-bit values, one byte of
state; a host that passes more updates or payload than allowed is included.

The library's induction theorems cannot be instantiated by the provers, so
`NatFacts` states induction over a set of numbers instead of a predicate.

Only model-checked:

- Liveness (`SuspicionResolves`, `CallsReturn`, `Converges`, `Quiesces`, `EdgesDie`):
  fairness and ENABLED are out of the prover's reach.

## 5. Not modelled

- Read-only calls of SWIM (`find`, `iterate`, statistics, `select_delegates`) and
  the statistics of the table.
- `wake_pheromone_note_reason` and the reason words; it updates a slot that may have
  been recycled since it was found (`wake_pheromone.c:518`).
- Which updates `get_updates` sends first: it looks at the first 256 entries only
  (`wake_swim.c:744`), and no property is about later ones. Nor is one about an insert
  that gives up with 0 because its slot was taken meanwhile, although the table has
  room (`wake_pheromone.c:129`).
- `SnapshotNotTorn` on a weakly ordered machine: it fails with `Reorder = TRUE`,
  see the hazard at `wake_pheromone.c:169`; and `CallsReturn` with deaths, which
  fails because a dead writer leaves the version odd.
- A reader that copies between the claim and the odd version returns the zero or
  the previous entity; `SnapshotNotTorn` allows it, and the comment at
  `wake_pheromone.c:159` accepts it.
- The order of probes while updates keep arriving. Each accepted change drops the
  order (`wake_swim.c:472`), so a member may be probed twice before another is
  probed once, against `wake_swim.h:24`; `ProbeGapBounded` is about the time
  between changes.
- `query`, `route` and `stats` of the TAC graph: they read and rank, and change
  nothing; `read_entry` shows what a concurrent reader can see. Also its times,
  the identity blob and its version (no concurrent reader may touch them), and
  the packing of technique numbers. `wake_tac_create` accepts a `noise_floor`
  that `wake_tac_open` refuses; the constants satisfy both.
- The payload of a PlumTree message: `cache_insert` keeps at most 256 bytes, so a
  longer one would be answered to a GRAFT in part (`wake_plumtree.c:60`).
- A PlumTree cache smaller than the number of messages in the mesh, where two
  messages can evict each other and circulate for ever.
- Counters and statistics of all components.
- Signals: a record without state, built and checked field by field. Entity parsing,
  hashing and cryptography: data transformations without control worth a model;
  that creating or opening a table replaces the process-wide hash key
  (`wake_pheromone.c:267`) matters only to a host that opens two.

## 6. Possible extensions

1. Convergence of `SwimMesh`: that lists agree once the hosts stop adding, removing
   and accusing. It needs fair delivery, and a bound on the piggyback count that is
   large enough for every node to be told; LEFT updates, which are queued again each
   time they arrive, keep the traffic going.
2. `note_reason` in `Pheromone`; ttl and hops of signals on top of `PlumTree`.
