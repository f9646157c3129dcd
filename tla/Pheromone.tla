----------------------------- MODULE Pheromone ------------------------------
(***************************************************************************)
(* The shared pheromone table (src/wake_pheromone.c): an open-addressed    *)
(* table in a MAP_SHARED mapping that several processes use without a      *)
(* lock.  One step of a process is one atomic access of the C code, so     *)
(* every interleaving of deposits, removals, the decay pass and readers    *)
(* is explored.                                                            *)
(*                                                                         *)
(* Abstractions.  hit_count, last_update and phase_flags are written next  *)
(* to confidence, in the same order and the same way, and are left out; so *)
(* are the reason words.  The 64-byte entity and the plain fields written  *)
(* with it (action, outcome, first_seen, tenant_id) are two halves, which  *)
(* a racing reader can see apart.  Accesses happen in program order,       *)
(* except the ones named by Reorder.                                       *)
(***************************************************************************)
EXTENDS Integers, FiniteSets

CONSTANTS
    Entity,       \* entities the processes observe
    NoEntity,     \* the zero bytes of a fresh file
    Hash,         \* wake_entity_hash: [Entity -> Nat]
    TOMBSTONE,    \* WAKE_PHT_SLOT_TOMBSTONE
    Capacity,     \* header->capacity
    PROBE_MAX,    \* WAKE_PHT_PROBE_MAX
    UINT32_MAX,   \* width of confidence and version
    UINT16_MAX,   \* width of src_count
    Delta,        \* confidence_delta values callers pass
    FP_ONE,       \* 1.0 in the fixed-point format of decay_factor (65536)
    DecayFactor,  \* header->decay_factor_fp16
    NoiseFloor,   \* header->noise_floor
    Proc,         \* processes and threads that map the table
    May,          \* [Proc -> operations that process calls]
    MaxCalls,     \* bound: [Proc -> calls that process makes]
    Mortal,       \* processes that may be killed in the middle of a call
    Reorder       \* the platform lets plain stores pass an earlier release store

EMPTY == 0
Slot == 0..(Capacity - 1)
NoSlot == -1
Op == {"deposit", "reinforce", "remove", "decay", "read", "lookup"}

ASSUME NoEntityAssumption == NoEntity \notin Entity
ASSUME HashAssumption == Hash \in [Entity -> Nat]
\* 0xDEADDEADDEADDEAD is odd and above 1: flipping a sentinel's low bit
\* never yields the other sentinel.
ASSUME TombstoneAssumption == TOMBSTONE \in Nat /\ TOMBSTONE > 1 /\ TOMBSTONE % 2 = 1
ASSUME CapacityAssumption == Capacity \in Nat \ {0}
ASSUME ProbeMaxAssumption == PROBE_MAX \in Nat \ {0}
ASSUME WidthAssumption == UINT32_MAX \in Nat /\ UINT32_MAX > 1 /\ UINT16_MAX \in Nat /\ UINT16_MAX > 0
ASSUME DeltaAssumption == Delta \subseteq 0..UINT32_MAX
ASSUME DecayAssumption ==
    /\ FP_ONE \in Nat \ {0} /\ DecayFactor \in 0..FP_ONE
    /\ NoiseFloor \in Nat \ {0}
ASSUME MayAssumption == May \in [Proc -> SUBSET Op]
ASSUME MaxCallsAssumption == MaxCalls \in [Proc -> Nat]
ASSUME MortalAssumption == Mortal \subseteq Proc
ASSUME ReorderAssumption == Reorder \in BOOLEAN

VARIABLES
    key,          \* [Slot -> key_hash]
    confidence,   \* [Slot -> confidence]
    src_count,    \* [Slot -> src_count]
    version,      \* [Slot -> seqlock version]
    entity,       \* [Slot -> the two halves of the cold data]
    pc,           \* [Proc -> the access that comes next]
    call,         \* [Proc -> parameters and locals of the call in progress]
    calls         \* [Proc -> calls made]

table == <<key, confidence, src_count, version, entity>>
vars == <<key, confidence, src_count, version, entity, pc, call, calls>>

-----------------------------------------------------------------------------
(* Arithmetic of the code.                                                 *)

\* h ^ 1
FlipLowBit(h) == IF h % 2 = 0 THEN h + 1 ELSE h - 1

entity_key_hash(e) ==
    IF Hash[e] \in {EMPTY, TOMBSTONE} THEN FlipLowBit(Hash[e]) ELSE Hash[e]

Free(k) == k \in {EMPTY, TOMBSTONE}

\* The slot probed n-th for key k: (base + n) & mask.
ProbeSlot(k, n) == (k + n) % Capacity

\* Mutant: a sum that does not wrap.
Add32_wide(a, b) == a + b

Add32(a, b) == (a + b) % (UINT32_MAX + 1)
Add16(a, b) == (a + b) % (UINT16_MAX + 1)

\* (ver + 1) | 1: the next odd version.
LockVersion(v) == IF v % 2 = 0 THEN Add32(v, 1) ELSE Add32(v, 2)

\* (old * factor) >> 16
Decayed(c) == (c * DecayFactor) \div FP_ONE

Half == {"lo", "hi"}
Halves(e) == [h \in Half |-> e]

-----------------------------------------------------------------------------
(* Calls.                                                                  *)

\* The locals of a process outside any call.
NoCall == [op |-> "none", e |-> NoEntity, delta |-> 0, probe |-> 0,
           avail |-> NoSlot, expected |-> EMPTY, ver |-> 0, conf |-> 0,
           todo |-> {}, out |-> Halves(NoEntity), res |-> 0]

Key(p) == entity_key_hash(call[p].e)

\* The slot the probe loop of p looks at.
At(p) == ProbeSlot(Key(p), call[p].probe)

\* The writes between the loaded version and its release: the odd version
\* first, then the data, unless the platform reorders them.
Writes == {"lock"} \cup Half
NextWrites(p) ==
    IF Reorder \/ "lock" \notin call[p].todo THEN call[p].todo ELSE {"lock"}

Goto(p, l) == pc' = [pc EXCEPT ![p] = l]

\* The call returns value v to the host.
Return(p, v) ==
    /\ Goto(p, "ret")
    /\ call' = [call EXCEPT ![p].res = v]

Init ==
    /\ key = [i \in Slot |-> EMPTY]
    /\ confidence = [i \in Slot |-> 0]
    /\ src_count = [i \in Slot |-> 0]
    /\ version = [i \in Slot |-> 0]
    /\ entity = [i \in Slot |-> Halves(NoEntity)]
    /\ pc = [p \in Proc |-> "idle"]
    /\ call = [p \in Proc |-> NoCall]
    /\ calls = [p \in Proc |-> 0]

Begin(p, c, l) ==
    /\ pc[p] = "idle" /\ calls[p] < MaxCalls[p]
    /\ c.op \in May[p]
    /\ Goto(p, l)
    /\ call' = [call EXCEPT ![p] = c]
    /\ calls' = [calls EXCEPT ![p] = @ + 1]
    /\ UNCHANGED table

\* wake_pheromone_deposit and wake_pheromone_reinforce.
BeginInsert(p) ==
    \E op \in {"deposit", "reinforce"}, e \in Entity, d \in Delta :
        Begin(p, [NoCall EXCEPT !.op = op, !.e = e, !.delta = d], "scan")

BeginFind(p) ==
    \E op \in {"remove", "lookup"}, e \in Entity :
        Begin(p, [NoCall EXCEPT !.op = op, !.e = e], "find")

BeginDecay(p) == Begin(p, [NoCall EXCEPT !.op = "decay"], "decay_key")

\* read_entry of one slot; wake_pheromone_iterate reads every slot this way.
BeginRead(p) ==
    \E i \in Slot : Begin(p, [NoCall EXCEPT !.op = "read", !.avail = i], "read_key")

\* Back in the host, which forgets the call.
End(p) ==
    /\ pc[p] = "ret"
    /\ Goto(p, "idle")
    /\ call' = [call EXCEPT ![p] = NoCall]
    /\ UNCHANGED <<key, confidence, src_count, version, entity, calls>>

\* A process is killed; what it stored stays in the mapping.
Crash(p) ==
    /\ p \in Mortal /\ pc[p] \notin {"idle", "ret", "dead"}
    /\ Goto(p, "dead")
    /\ call' = [call EXCEPT ![p] = NoCall]
    /\ UNCHANGED <<key, confidence, src_count, version, entity, calls>>

-----------------------------------------------------------------------------
(* pht_insert.                                                             *)

\* Leaving the probe loop without a match, a being the first free slot.
AfterScan(p, a) ==
    IF a = NoSlot THEN Return(p, 0)
    ELSE Goto(p, "claim") /\ call' = [call EXCEPT ![p].avail = a]

\* One iteration of the probe loop.
Scan(p) ==
    LET k == key[At(p)]
        a == IF Free(k) /\ call[p].avail = NoSlot THEN At(p) ELSE call[p].avail
    IN  /\ pc[p] = "scan"
        /\ IF k = Key(p)
           THEN Goto(p, "add") /\ call' = [call EXCEPT ![p].avail = At(p)]
           ELSE IF k = EMPTY \/ call[p].probe + 1 = PROBE_MAX
           THEN AfterScan(p, a)
           ELSE /\ call' = [call EXCEPT ![p].probe = @ + 1, ![p].avail = a]
                /\ UNCHANGED pc
        /\ UNCHANGED <<key, confidence, src_count, version, entity, calls>>

\* fetch_add on the entry found; a reinforcement also counts its source.
Add(p) ==
    LET i == call[p].avail
        c == Add32(confidence[i], call[p].delta)
    IN  /\ pc[p] = "add"
        /\ confidence' = [confidence EXCEPT ![i] = c]
        /\ IF call[p].op = "reinforce"
           THEN Goto(p, "add_src") /\ call' = [call EXCEPT ![p].res = c]
           ELSE Return(p, c)
        /\ UNCHANGED <<key, src_count, version, entity, calls>>

AddSrc(p) ==
    /\ pc[p] = "add_src"
    /\ src_count' = [src_count EXCEPT ![call[p].avail] = Add16(@, 1)]
    /\ Goto(p, "ret")
    /\ UNCHANGED <<key, confidence, version, entity, call, calls>>

\* Mutant: a slot taken meanwhile makes the deposit try the next one.
Claim_moves_on(p) ==
    LET k == key[call[p].avail]
    IN  /\ pc[p] = "claim"
        /\ IF Free(k) THEN Goto(p, "cas") /\ call' = [call EXCEPT ![p].expected = k]
           ELSE call' = [call EXCEPT ![p].avail = (@ + 1) % Capacity] /\ UNCHANGED pc
        /\ UNCHANGED <<key, confidence, src_count, version, entity, calls>>

\* The slot is loaded again; a slot taken meanwhile refuses the deposit.
Claim(p) ==
    LET k == key[call[p].avail]
    IN  /\ pc[p] = "claim"
        /\ IF Free(k) THEN Goto(p, "cas") /\ call' = [call EXCEPT ![p].expected = k]
           ELSE Return(p, 0)
        /\ UNCHANGED <<key, confidence, src_count, version, entity, calls>>

\* Mutant: the claim is a store, not a compare-and-swap.
ClaimCAS_store(p) ==
    /\ pc[p] = "cas"
    /\ key' = [key EXCEPT ![call[p].avail] = Key(p)]
    /\ Goto(p, "load_ver")
    /\ UNCHANGED <<confidence, src_count, version, entity, call, calls>>

ClaimCAS(p) ==
    LET i == call[p].avail
    IN  /\ pc[p] = "cas"
        /\ IF key[i] = call[p].expected
           THEN /\ key' = [key EXCEPT ![i] = Key(p)]
                /\ Goto(p, "load_ver")
                /\ UNCHANGED call
           ELSE /\ IF key[i] = Key(p) THEN Goto(p, "add") /\ UNCHANGED call
                   ELSE Return(p, 0)
                /\ UNCHANGED key
        /\ UNCHANGED <<confidence, src_count, version, entity, calls>>

LoadVersion(p) ==
    /\ pc[p] = "load_ver"
    /\ Goto(p, "write")
    /\ call' = [call EXCEPT ![p].ver = LockVersion(version[call[p].avail]),
                            ![p].todo = Writes]
    /\ UNCHANGED <<key, confidence, src_count, version, entity, calls>>

\* The odd version and the halves of the cold data.
Write(p) ==
    LET i == call[p].avail
    IN  /\ pc[p] = "write"
        /\ \E w \in NextWrites(p) :
              /\ IF w = "lock"
                 THEN version' = [version EXCEPT ![i] = call[p].ver] /\ UNCHANGED entity
                 ELSE entity' = [entity EXCEPT ![i][w] = call[p].e] /\ UNCHANGED version
              /\ call' = [call EXCEPT ![p].todo = @ \ {w}]
              /\ Goto(p, IF call[p].todo = {w} THEN "unlock" ELSE "write")
        /\ UNCHANGED <<key, confidence, src_count, calls>>

\* Mutant: the release stores the odd version again.
Unlock_odd(p) ==
    /\ pc[p] = "unlock"
    /\ version' = [version EXCEPT ![call[p].avail] = call[p].ver]
    /\ Goto(p, "set_conf")
    /\ UNCHANGED <<key, confidence, src_count, entity, call, calls>>

Unlock(p) ==
    /\ pc[p] = "unlock"
    /\ version' = [version EXCEPT ![call[p].avail] = Add32(call[p].ver, 1)]
    /\ Goto(p, "set_conf")
    /\ UNCHANGED <<key, confidence, src_count, entity, call, calls>>

\* The initial values are plain stores, not additions.
SetConfidence(p) ==
    /\ pc[p] = "set_conf"
    /\ confidence' = [confidence EXCEPT ![call[p].avail] = call[p].delta]
    /\ Goto(p, "set_src")
    /\ UNCHANGED <<key, src_count, version, entity, call, calls>>

SetSrc(p) ==
    /\ pc[p] = "set_src"
    /\ src_count' = [src_count EXCEPT ![call[p].avail] = 1]
    /\ Return(p, call[p].delta)
    /\ UNCHANGED <<key, confidence, version, entity, calls>>

Insert(p) ==
    \/ BeginInsert(p) \/ Scan(p) \/ Add(p) \/ AddSrc(p) \/ Claim(p) \/ ClaimCAS(p)
    \/ LoadVersion(p) \/ Write(p) \/ Unlock(p) \/ SetConfidence(p) \/ SetSrc(p)

-----------------------------------------------------------------------------
(* wake_pheromone_lookup and wake_pheromone_remove: result 0 is "absent".  *)

\* Mutant: a tombstone ends the probe chain.
Find_stops(p) ==
    LET k == key[At(p)]
    IN  /\ pc[p] = "find"
        /\ IF k = Key(p)
           THEN /\ Goto(p, IF call[p].op = "remove" THEN "remove_cas" ELSE "load_conf")
                /\ call' = [call EXCEPT ![p].avail = At(p)]
           ELSE IF Free(k) \/ call[p].probe + 1 = PROBE_MAX
           THEN Return(p, 0)
           ELSE call' = [call EXCEPT ![p].probe = @ + 1] /\ UNCHANGED pc
        /\ UNCHANGED <<key, confidence, src_count, version, entity, calls>>

Find(p) ==
    LET k == key[At(p)]
    IN  /\ pc[p] = "find"
        /\ IF k = Key(p)
           THEN /\ Goto(p, IF call[p].op = "remove" THEN "remove_cas" ELSE "load_conf")
                /\ call' = [call EXCEPT ![p].avail = At(p)]
           ELSE IF k = EMPTY \/ call[p].probe + 1 = PROBE_MAX
           THEN Return(p, 0)
           ELSE call' = [call EXCEPT ![p].probe = @ + 1] /\ UNCHANGED pc
        /\ UNCHANGED <<key, confidence, src_count, version, entity, calls>>

LoadConfidence(p) ==
    /\ pc[p] = "load_conf"
    /\ Return(p, confidence[call[p].avail])
    /\ UNCHANGED <<key, confidence, src_count, version, entity, calls>>

\* Mutant: the removed entry's slot becomes EMPTY.
RemoveCAS_empties(p) ==
    LET i == call[p].avail
        hit == key[i] = Key(p)
    IN  /\ pc[p] = "remove_cas"
        /\ key' = IF hit THEN [key EXCEPT ![i] = EMPTY] ELSE key
        /\ Return(p, IF hit THEN 1 ELSE 0)
        /\ UNCHANGED <<confidence, src_count, version, entity, calls>>

RemoveCAS(p) ==
    LET i == call[p].avail
        hit == key[i] = Key(p)
    IN  /\ pc[p] = "remove_cas"
        /\ key' = IF hit THEN [key EXCEPT ![i] = TOMBSTONE] ELSE key
        /\ Return(p, IF hit THEN 1 ELSE 0)
        /\ UNCHANGED <<confidence, src_count, version, entity, calls>>

Lookup(p) == BeginFind(p) \/ Find(p) \/ LoadConfidence(p) \/ RemoveCAS(p)

-----------------------------------------------------------------------------
(* wake_pheromone_decay: probe counts the slots, res the evictions.        *)

\* The loop goes on with the next slot.
NextSlot(p, evicted) ==
    /\ Goto(p, IF call[p].probe + 1 = Capacity THEN "ret" ELSE "decay_key")
    /\ call' = [call EXCEPT ![p].probe = @ + 1, ![p].res = @ + evicted]

DecayKey(p) ==
    LET k == key[call[p].probe]
    IN  /\ pc[p] = "decay_key"
        /\ IF Free(k) THEN NextSlot(p, 0)
           ELSE Goto(p, "decay_load") /\ call' = [call EXCEPT ![p].expected = k]
        /\ UNCHANGED <<key, confidence, src_count, version, entity, calls>>

DecayLoad(p) ==
    /\ pc[p] = "decay_load"
    /\ Goto(p, "decay_cas")
    /\ call' = [call EXCEPT ![p].conf = confidence[call[p].probe]]
    /\ UNCHANGED <<key, confidence, src_count, version, entity, calls>>

\* Eviction compares the key only; a decayed value is stored only if the
\* confidence is still the one read.
DecayCAS(p) ==
    LET i == call[p].probe
        new == Decayed(call[p].conf)
        evict == new < NoiseFloor /\ key[i] = call[p].expected
        lower == new >= NoiseFloor /\ confidence[i] = call[p].conf
    IN  /\ pc[p] = "decay_cas"
        /\ key' = IF evict THEN [key EXCEPT ![i] = TOMBSTONE] ELSE key
        /\ confidence' = IF lower THEN [confidence EXCEPT ![i] = new] ELSE confidence
        /\ NextSlot(p, IF evict THEN 1 ELSE 0)
        /\ UNCHANGED <<src_count, version, entity, calls>>

Decay(p) == BeginDecay(p) \/ DecayKey(p) \/ DecayLoad(p) \/ DecayCAS(p)

-----------------------------------------------------------------------------
(* wake_pheromone_read_entry: avail is the slot, expected the key copied   *)
(* out, conf the confidence, out the entity; res 1 is "true".              *)

ReadKey(p) ==
    /\ pc[p] = "read_key"
    /\ IF Free(key[call[p].avail]) THEN Return(p, 0)
       ELSE Goto(p, "read_ver") /\ UNCHANGED call
    /\ UNCHANGED <<key, confidence, src_count, version, entity, calls>>

\* An odd version: yield and load it again.
Spin(p) ==
    /\ pc[p] = "read_ver"
    /\ version[call[p].avail] % 2 = 1
    /\ UNCHANGED vars

ReadVersion(p) ==
    /\ pc[p] = "read_ver"
    /\ version[call[p].avail] % 2 = 0
    /\ Goto(p, "copy_key")
    /\ call' = [call EXCEPT ![p].ver = version[call[p].avail]]
    /\ UNCHANGED <<key, confidence, src_count, version, entity, calls>>

CopyKey(p) ==
    /\ pc[p] = "copy_key"
    /\ Goto(p, "copy_conf")
    /\ call' = [call EXCEPT ![p].expected = key[call[p].avail]]
    /\ UNCHANGED <<key, confidence, src_count, version, entity, calls>>

CopyConfidence(p) ==
    /\ pc[p] = "copy_conf"
    /\ Goto(p, "copy_lo")
    /\ call' = [call EXCEPT ![p].conf = confidence[call[p].avail]]
    /\ UNCHANGED <<key, confidence, src_count, version, entity, calls>>

CopyHalf(p, from, h, to) ==
    /\ pc[p] = from
    /\ Goto(p, to)
    /\ call' = [call EXCEPT ![p].out[h] = entity[call[p].avail][h]]
    /\ UNCHANGED <<key, confidence, src_count, version, entity, calls>>

\* Mutant: the version is not compared after the copy.
CheckVersion_skips(p) ==
    /\ pc[p] = "check_ver"
    /\ Return(p, 1)
    /\ UNCHANGED <<key, confidence, src_count, version, entity, calls>>

CheckVersion(p) ==
    /\ pc[p] = "check_ver"
    /\ IF version[call[p].avail] = call[p].ver THEN Return(p, 1)
       ELSE Goto(p, "read_ver") /\ UNCHANGED call
    /\ UNCHANGED <<key, confidence, src_count, version, entity, calls>>

Read(p) ==
    \/ BeginRead(p) \/ ReadKey(p) \/ Spin(p) \/ ReadVersion(p)
    \/ CopyKey(p) \/ CopyConfidence(p)
    \/ CopyHalf(p, "copy_lo", "lo", "copy_hi") \/ CopyHalf(p, "copy_hi", "hi", "check_ver")
    \/ CheckVersion(p)

-----------------------------------------------------------------------------
Step(p) == Insert(p) \/ Lookup(p) \/ Decay(p) \/ Read(p) \/ End(p)

\* Every process has made its calls or was killed: the host may stop here.
Finished == /\ \A p \in Proc : pc[p] = "dead" \/ (pc[p] = "idle" /\ calls[p] = MaxCalls[p])
            /\ UNCHANGED vars

Next == (\E p \in Proc : Step(p) \/ Crash(p)) \/ Finished

Spec == Init /\ [][Next]_vars

\* The scheduler runs every process that is inside a call; nothing makes a
\* host start one.
FairSpec == Spec /\ \A p \in Proc : WF_vars(pc[p] # "idle" /\ Step(p))

-----------------------------------------------------------------------------
(* Invariants.                                                             *)

Label == {"idle", "ret", "dead", "scan", "add", "add_src", "claim", "cas",
          "load_ver", "write", "unlock", "set_conf", "set_src", "find",
          "load_conf", "remove_cas", "decay_key", "decay_load", "decay_cas",
          "read_key", "read_ver", "copy_key", "copy_conf", "copy_lo", "copy_hi",
          "check_ver"}

KeyHash == {EMPTY, TOMBSTONE} \cup {entity_key_hash(e) : e \in Entity}

Data == [Half -> Entity \cup {NoEntity}]

Call == [op : Op \cup {"none"}, e : Entity \cup {NoEntity}, delta : 0..UINT32_MAX,
         probe : Nat, avail : Slot \cup {NoSlot}, expected : KeyHash,
         ver : 0..UINT32_MAX, conf : 0..UINT32_MAX, todo : SUBSET Writes,
         out : Data, res : Nat]

\* Type correctness of the mapping and of every call in progress: no access
\* leaves the table, and every field keeps its width.
TypeOK ==
    /\ key \in [Slot -> KeyHash]
    /\ confidence \in [Slot -> 0..UINT32_MAX]
    /\ src_count \in [Slot -> 0..UINT16_MAX]
    /\ version \in [Slot -> 0..UINT32_MAX]
    /\ entity \in [Slot -> Data]
    /\ pc \in [Proc -> Label]
    /\ call \in [Proc -> Call]
    /\ calls \in [Proc -> Nat]

\* The chain to slot i: k's probe sequence reaches i within PROBE_MAX probes
\* and meets no EMPTY slot, where every probe loop stops, before it.
ChainTo(k, i) ==
    \E n \in 0..(PROBE_MAX - 1) :
        /\ i = ProbeSlot(k, n)
        /\ \A m \in 0..(n - 1) : key[ProbeSlot(k, m)] # EMPTY

\* Every live entry can be found by the probe loops of lookup, remove and
\* deposit, however claims, evictions and deaths of processes interleave.
Reachable == \A i \in Slot : ~Free(key[i]) => ChainTo(key[i], i)

\* As long as nothing is evicted an entity has one entry, also when several
\* processes insert it at once: its evidence is never split.
UniqueKey ==
    \A i, j \in Slot : ~Free(key[i]) /\ key[i] = key[j] => i = j

\* A process returns from read_entry with the snapshot.
ReadReturns(p) == pc[p] = "ret" /\ call[p].op = "read" /\ call[p].res = 1

\* The seqlock: no snapshot mixes the halves of two states of the data.
SnapshotNotTorn ==
    \A p \in Proc : ReadReturns(p) => call[p].out["lo"] = call[p].out["hi"]

InCall(p) == pc[p] \notin {"idle", "ret", "dead"}

\* When no call is in progress every live entry is whole: the seqlock is
\* released, the data is that of the entity the key stands for, and there is
\* evidence from at least one source.
Settled ==
    (\A p \in Proc : ~InCall(p)) =>
        \A i \in Slot : ~Free(key[i]) =>
            /\ version[i] % 2 = 0
            /\ \E e \in Entity : entity[i] = Halves(e) /\ key[i] = entity_key_hash(e)
            /\ confidence[i] > 0 /\ src_count[i] > 0

-----------------------------------------------------------------------------
(* Action properties.                                                      *)

\* A slot only goes from free to a key and from a key to TOMBSTONE: a claim
\* never takes over another entity's entry and no slot is EMPTY again.
KeyDiscipline ==
    [][\A i \in Slot : key'[i] # key[i] =>
          IF Free(key[i]) THEN ~Free(key'[i]) ELSE key'[i] = TOMBSTONE]_vars

\* wake_pheromone.h: a deposit "atomically adds confidence_delta".  Where
\* nothing decays or is evicted an entry's confidence therefore never falls.
DepositsAccumulate ==
    [][\A i \in Slot : ~Free(key[i]) /\ key'[i] = key[i] =>
          confidence'[i] >= confidence[i]]_vars

-----------------------------------------------------------------------------
(* Liveness.                                                               *)

\* Every call returns; a reader does not spin for ever.
CallsReturn == \A p \in Proc : InCall(p) ~> ~InCall(p)

=============================================================================
