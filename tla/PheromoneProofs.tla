--------------------------- MODULE PheromoneProofs ---------------------------
(***************************************************************************)
(* Proofs about the pheromone table, for every number of processes, slots, *)
(* entities and calls, with processes dying anywhere and with either store *)
(* order: the types hold, every live entry stays reachable, a slot changes *)
(* hands only through TOMBSTONE, and a call that reports an entity absent  *)
(* is right.  Where nothing is evicted an entity has one slot, with stores *)
(* in program order a reader's copy is whole, and once all calls have      *)
(* returned every entry is complete.                                       *)
(***************************************************************************)
EXTENDS PheromoneLookup, FiniteSetTheorems, TLAPS

-----------------------------------------------------------------------------
(* The inductive invariant.                                                *)

\* ChainTo for an arbitrary contents ky of the key fields.
Chain(ky, k, i) ==
    \E n \in 0..(PROBE_MAX - 1) :
        /\ i = ProbeSlot(k, n)
        /\ \A m \in 0..(n - 1) : ky[ProbeSlot(k, m)] # EMPTY

WithEntity == {"scan", "add", "add_src", "claim", "cas", "load_ver", "write",
               "unlock", "set_conf", "set_src", "find", "load_conf", "remove_cas"}
WithSlot == {"add", "add_src", "claim", "cas", "load_ver", "write", "unlock",
             "set_conf", "set_src", "load_conf", "remove_cas", "read_key",
             "read_ver", "copy_key", "copy_conf", "copy_lo", "copy_hi", "check_ver"}
Decaying == {"decay_key", "decay_load", "decay_cas"}

\* What the locals c of a process at label l say about the keys ky: the part
\* of the probe sequence already walked held no EMPTY slot, so the slot
\* remembered as available ends a chain of the key.
CallOK(l, c, ky) ==
    LET k == entity_key_hash(c.e)
    IN  /\ l \in WithEntity => c.e \in Entity
        /\ l \in WithSlot => c.avail \in Slot
        /\ l \in {"scan", "find"} => c.probe < PROBE_MAX
        /\ l \in Decaying => c.probe < Capacity
        /\ l = "scan" => \A m \in 0..(c.probe - 1) : ky[ProbeSlot(k, m)] # EMPTY
        /\ l = "scan" /\ c.avail # NoSlot => Chain(ky, k, c.avail)
        /\ l \in {"claim", "cas"} => Chain(ky, k, c.avail)
        /\ l = "cas" => Free(c.expected)
        /\ l \in {"decay_load", "decay_cas"} => ~Free(c.expected)

CallsOK == \A p \in Proc : CallOK(pc[p], call[p], key)

IInv == TypeOK /\ CallsOK /\ Reachable

-----------------------------------------------------------------------------
(* Arithmetic.                                                             *)

\* entity_key_hash never yields a sentinel.
LEMMA KeyLive ==
    ASSUME NEW e \in Entity
    PROVE  entity_key_hash(e) \in KeyHash /\ entity_key_hash(e) \in Nat
           /\ ~Free(entity_key_hash(e))
<1>1. Hash[e] \in Nat
  BY HashAssumption
<1>2. FlipLowBit(EMPTY) = 1
  BY DEF FlipLowBit, EMPTY
<1>3. FlipLowBit(TOMBSTONE) = TOMBSTONE - 1
  BY TombstoneAssumption DEF FlipLowBit
<1>4. entity_key_hash(e) \in Nat /\ ~Free(entity_key_hash(e))
  BY <1>1, <1>2, <1>3, TombstoneAssumption DEF entity_key_hash, Free, EMPTY
<1> QED
  BY <1>4 DEF KeyHash

\* A probe never leaves the table.
LEMMA ProbeSlotIn ==
    ASSUME NEW k \in Nat, NEW n \in Nat
    PROVE  ProbeSlot(k, n) \in Slot
  BY CapacityAssumption DEF ProbeSlot, Slot

\* Sums keep the width of their field.
LEMMA AddWidth ==
    ASSUME NEW a \in Nat, NEW b \in Nat
    PROVE  Add32(a, b) \in 0..UINT32_MAX /\ Add16(a, b) \in 0..UINT16_MAX
  BY WidthAssumption DEF Add32, Add16

\* Decay never raises a confidence.
LEMMA DecayedBound ==
    ASSUME NEW c \in Nat
    PROVE  Decayed(c) \in 0..c
<1> DEFINE x == c * DecayFactor
<1>1. DecayFactor \in Nat /\ FP_ONE \in Nat /\ FP_ONE > 0 /\ DecayFactor <= FP_ONE
  BY DecayAssumption
<1>2. x \in Nat /\ x <= c * FP_ONE
  BY <1>1
<1> HIDE DEF x
<1>3. x \div FP_ONE \in Nat /\ (x \div FP_ONE) * FP_ONE <= x
  BY <1>1, <1>2
<1>4. x \div FP_ONE <= c
  BY <1>1, <1>2, <1>3
<1> QED
  BY <1>3, <1>4 DEF Decayed, x

\* A chain survives every change that makes no slot EMPTY.
LEMMA ChainMonotone ==
    ASSUME NEW ky, NEW kz, NEW k \in Nat, NEW i,
           \A j \in Slot : ky[j] # EMPTY => kz[j] # EMPTY,
           Chain(ky, k, i)
    PROVE  Chain(kz, k, i)
<1>1. PICK n \in 0..(PROBE_MAX - 1) :
        i = ProbeSlot(k, n) /\ \A m \in 0..(n - 1) : ky[ProbeSlot(k, m)] # EMPTY
  BY DEF Chain
<1>2. \A m \in 0..(n - 1) : kz[ProbeSlot(k, m)] # EMPTY
  BY <1>1, ProbeSlotIn, ProbeMaxAssumption
<1> QED
  BY <1>1, <1>2 DEF Chain

-----------------------------------------------------------------------------
(* One step.                                                               *)

\* What a step of p has to establish: it types the locals and the keys, says
\* nothing about other processes, justifies p's new locals, makes no slot
\* EMPTY, and gives a slot only a key whose chain ends there.
StepOK(p) ==
    /\ pc' \in [Proc -> Label] /\ call' \in [Proc -> Call]
    /\ \A r \in Proc \ {p} : pc'[r] = pc[r] /\ call'[r] = call[r]
    /\ CallOK(pc'[p], call'[p], key')
    /\ key' \in [Slot -> KeyHash]
    /\ \A j \in Slot : key[j] # EMPTY => key'[j] # EMPTY
    /\ \A j \in Slot : Free(key'[j]) \/ key'[j] = key[j] \/ Chain(key, key'[j], j)

\* A live key is the hash of an entity, hence a natural number.
LEMMA LiveIsNat ==
    ASSUME NEW k \in KeyHash
    PROVE  k \in Nat
  BY KeyLive, TombstoneAssumption DEF KeyHash, EMPTY

\* Such a step preserves what the invariant says about keys and calls.
LEMMA Frame ==
    ASSUME IInv, NEW p \in Proc, StepOK(p)
    PROVE  CallsOK' /\ Reachable'
<1>1. \A r \in Proc : CallOK(pc'[r], call'[r], key')
  <2> TAKE r \in Proc
  <2>1. CASE r = p
    BY <2>1 DEF StepOK
  <2>2. CASE r # p
    <3>1. CallOK(pc[r], call[r], key) /\ pc'[r] = pc[r] /\ call'[r] = call[r]
      BY <2>2 DEF StepOK, IInv, CallsOK
    <3> DEFINE k == entity_key_hash(call[r].e)
    <3>2. \A j \in Slot : key[j] # EMPTY => key'[j] # EMPTY
      BY DEF StepOK
    <3>3. call[r].probe \in Nat
      BY DEF IInv, TypeOK, Call
    <3>4. ASSUME call[r].e \in Entity, NEW i, Chain(key, k, i)
          PROVE  Chain(key', k, i)
      BY <3>2, <3>4, KeyLive, ChainMonotone
    <3>5. ASSUME call[r].e \in Entity, NEW m \in 0..(call[r].probe - 1),
                 key[ProbeSlot(k, m)] # EMPTY
          PROVE  key'[ProbeSlot(k, m)] # EMPTY
      <4>1. ProbeSlot(k, m) \in Slot
        BY <3>3, <3>5, KeyLive, ProbeSlotIn
      <4> QED BY <4>1, <3>2, <3>5
    <3> QED
      BY <3>1, <3>4, <3>5 DEF CallOK, WithEntity
  <2> QED BY <2>1, <2>2
<1>2. ASSUME NEW i \in Slot, ~Free(key'[i])
      PROVE  Chain(key', key'[i], i)
  <2>1. key'[i] \in Nat
    BY LiveIsNat DEF StepOK
  <2>2. Chain(key, key'[i], i)
    <3>1. CASE key'[i] = key[i]
      BY <1>2, <3>1 DEF IInv, Reachable, ChainTo, Chain
    <3>2. CASE key'[i] # key[i]
      BY <1>2, <3>2 DEF StepOK
    <3> QED BY <3>1, <3>2
  <2> QED
    BY <2>1, <2>2, ChainMonotone DEF StepOK
<1>3. Reachable'
  BY <1>2 DEF Reachable, ChainTo, Chain
<1>4. CallsOK'
  BY <1>1 DEF CallsOK
<1> QED BY <1>3, <1>4

\* A call begins with locals that say nothing about the table yet.
LEMMA BeginOK ==
    ASSUME IInv, NEW p \in Proc, NEW c \in Call, NEW l \in Label,
           Begin(p, c, l), CallOK(l, c, key)
    PROVE  IInv'
<1>1. StepOK(p)
  BY DEF StepOK, Begin, Goto, IInv, TypeOK, table
<1>2. TypeOK'
  BY <1>1 DEF StepOK, Begin, IInv, TypeOK, table
<1> QED
  BY <1>1, <1>2, Frame DEF IInv

\* The locals and the label of p change, the keys do not; the other fields
\* keep their types.
LEMMA LocalOK ==
    ASSUME IInv, NEW p \in Proc, NEW l \in Label, NEW c \in Call,
           pc' = [pc EXCEPT ![p] = l], call' = [call EXCEPT ![p] = c],
           CallOK(l, c, key), UNCHANGED <<key, calls>>,
           confidence' \in [Slot -> 0..UINT32_MAX], src_count' \in [Slot -> 0..UINT16_MAX],
           version' \in [Slot -> 0..UINT32_MAX], entity' \in [Slot -> Data]
    PROVE  IInv'
<1>1. StepOK(p)
  BY DEF StepOK, IInv, TypeOK
<1>2. TypeOK'
  BY <1>1 DEF StepOK, IInv, TypeOK
<1> QED
  BY <1>1, <1>2, Frame DEF IInv

\* What the invariant says about the process that takes a step.
LEMMA Locals ==
    ASSUME IInv, NEW p \in Proc
    PROVE  /\ call[p] \in Call /\ pc[p] \in Label /\ CallOK(pc[p], call[p], key)
           /\ confidence \in [Slot -> 0..UINT32_MAX] /\ src_count \in [Slot -> 0..UINT16_MAX]
           /\ version \in [Slot -> 0..UINT32_MAX] /\ entity \in [Slot -> Data]
           /\ key \in [Slot -> KeyHash]
           /\ call \in [Proc -> Call] /\ pc \in [Proc -> Label]
  BY DEF IInv, TypeOK, CallsOK

\* A return to the host, or any label at which nothing is promised.
LEMMA ReturnOK ==
    ASSUME IInv, NEW p \in Proc, NEW v \in Nat, Return(p, v),
           UNCHANGED <<key, calls>>,
           confidence' \in [Slot -> 0..UINT32_MAX], src_count' \in [Slot -> 0..UINT16_MAX],
           version' \in [Slot -> 0..UINT32_MAX], entity' \in [Slot -> Data]
    PROVE  IInv'
<1> DEFINE c == [call[p] EXCEPT !.res = v]
<1>1. call[p] \in Call /\ call \in [Proc -> Call]
  BY Locals
<1>2. c \in Call
  BY <1>1 DEF Call
<1>3. call' = [call EXCEPT ![p] = c] /\ pc' = [pc EXCEPT ![p] = "ret"]
  BY <1>1 DEF Return, Goto
<1>4. CallOK("ret", c, key) /\ "ret" \in Label
  BY DEF CallOK, WithEntity, WithSlot, Decaying, Label
<1> QED
  BY <1>2, <1>3, <1>4, LocalOK

\* The probe loop of pht_insert.
LEMMA ScanOK ==
    ASSUME IInv, NEW p \in Proc, Scan(p)
    PROVE  IInv'
<1> DEFINE k == key[At(p)]
           a == IF Free(k) /\ call[p].avail = NoSlot THEN At(p) ELSE call[p].avail
<1>1. call[p] \in Call /\ pc[p] = "scan" /\ call \in [Proc -> Call] /\ pc \in [Proc -> Label]
  BY Locals DEF Scan
<1>2. CallOK("scan", call[p], key)
  BY <1>1, Locals
<1>3. call[p].probe \in Nat /\ call[p].avail \in Slot \cup {NoSlot}
  BY <1>1 DEF Call
<1>4. call[p].e \in Entity /\ call[p].probe < PROBE_MAX
  BY <1>2 DEF CallOK, WithEntity
<1>5. Key(p) \in Nat /\ At(p) \in Slot
  BY <1>3, <1>4, KeyLive, ProbeSlotIn DEF Key, At
<1>6. \A m \in 0..(call[p].probe - 1) : key[ProbeSlot(Key(p), m)] # EMPTY
  BY <1>2 DEF CallOK, Key
<1>7. a \in Slot \cup {NoSlot}
  BY <1>3, <1>5
<1>8. a # NoSlot => Chain(key, Key(p), a)
  <2>1. Chain(key, Key(p), At(p))
    BY <1>3, <1>4, <1>6, ProbeMaxAssumption DEF Chain, At
  <2>2. call[p].avail # NoSlot => Chain(key, Key(p), call[p].avail)
    BY <1>2 DEF CallOK, Key
  <2> QED BY <2>1, <2>2
<1>9. /\ confidence' \in [Slot -> 0..UINT32_MAX] /\ src_count' \in [Slot -> 0..UINT16_MAX]
      /\ version' \in [Slot -> 0..UINT32_MAX] /\ entity' \in [Slot -> Data]
      /\ UNCHANGED <<key, calls>>
  BY Locals DEF Scan
<1> HIDE DEF a
<1>10. CASE k = Key(p)
  <2> DEFINE c == [call[p] EXCEPT !.avail = At(p)]
  <2>1. c \in Call /\ c.e \in Entity /\ c.avail \in Slot
    BY <1>1, <1>4, <1>5 DEF Call
  <2>2. call' = [call EXCEPT ![p] = c] /\ pc' = [pc EXCEPT ![p] = "add"]
    BY <1>1, <1>10 DEF Scan, Goto
  <2> HIDE DEF c
  <2>3. CallOK("add", c, key) /\ "add" \in Label
    BY <2>1 DEF CallOK, WithEntity, WithSlot, Decaying, Label
  <2> QED BY <1>9, <2>1, <2>2, <2>3, LocalOK
<1>11. CASE k # Key(p) /\ (k = EMPTY \/ call[p].probe + 1 = PROBE_MAX)
  <2>1. AfterScan(p, a)
    BY <1>11 DEF Scan, a
  <2>2. CASE a = NoSlot
    BY <1>9, <2>1, <2>2, ReturnOK DEF AfterScan
  <2>3. CASE a # NoSlot
    <3> DEFINE c == [call[p] EXCEPT !.avail = a]
    <3>1. c \in Call /\ c.e = call[p].e /\ c.avail = a /\ a \in Slot
      BY <1>1, <1>7, <2>3 DEF Call
    <3>2. call' = [call EXCEPT ![p] = c] /\ pc' = [pc EXCEPT ![p] = "claim"]
      BY <1>1, <2>1, <2>3 DEF AfterScan, Goto
    <3> HIDE DEF c
    <3>3. CallOK("claim", c, key) /\ "claim" \in Label
      BY <1>4, <1>8, <2>3, <3>1 DEF CallOK, WithEntity, WithSlot, Decaying, Label, Key
    <3> QED BY <1>9, <3>1, <3>2, <3>3, LocalOK
  <2> QED BY <2>2, <2>3
<1>12. CASE k # Key(p) /\ k # EMPTY /\ call[p].probe + 1 # PROBE_MAX
  <2> DEFINE c == [call[p] EXCEPT !.probe = @ + 1, !.avail = a]
  <2>0. c \in Call
    <3>1. call[p].probe + 1 \in Nat
      BY <1>3
    <3> HIDE DEF k
    <3> QED BY <1>1, <1>7, <3>1 DEF Call
  <2>1. c.e = call[p].e /\ c.avail = a /\ c.probe = call[p].probe + 1
    BY <1>1 DEF Call
  <2>2. call' = [call EXCEPT ![p] = c] /\ pc' = [pc EXCEPT ![p] = "scan"]
    BY <1>1, <1>12 DEF Scan, a
  <2>3. \A m \in 0..call[p].probe : key[ProbeSlot(Key(p), m)] # EMPTY
    BY <1>3, <1>6, <1>12 DEF At
  <2> HIDE DEF c
  <2>4. CallOK("scan", c, key) /\ "scan" \in Label
    BY <1>3, <1>4, <1>8, <1>12, <2>1, <2>3, ProbeMaxAssumption
       DEF CallOK, WithEntity, WithSlot, Decaying, Label, Key
  <2> QED BY <1>9, <2>0, <2>2, <2>4, LocalOK
<1> QED BY <1>10, <1>11, <1>12

\* The locals change in fields that CallOK does not read at the new label.
LEMMA MoveOK ==
    ASSUME IInv, NEW p \in Proc, NEW l \in Label, NEW c \in Call,
           pc' = [pc EXCEPT ![p] = l], call' = [call EXCEPT ![p] = c],
           l \in WithEntity => c.e \in Entity, l \in WithSlot => c.avail \in Slot,
           l \notin {"scan", "find", "claim", "cas"} \cup Decaying,
           UNCHANGED <<key, calls>>,
           confidence' \in [Slot -> 0..UINT32_MAX], src_count' \in [Slot -> 0..UINT16_MAX],
           version' \in [Slot -> 0..UINT32_MAX], entity' \in [Slot -> Data]
    PROVE  IInv'
<1>1. CallOK(l, c, key)
  BY DEF CallOK, Decaying
<1> QED
  BY <1>1, LocalOK

\* The accesses of pht_insert that change no key: the additions on an entry
\* found, and the stores into a slot just claimed.
LEMMA AddOK ==
    ASSUME IInv, NEW p \in Proc, Add(p)
    PROVE  IInv'
<1> DEFINE i == call[p].avail
           v == Add32(confidence[i], call[p].delta)
<1>1. /\ call[p] \in Call /\ call \in [Proc -> Call] /\ CallOK("add", call[p], key)
      /\ confidence \in [Slot -> 0..UINT32_MAX]
  BY Locals DEF Add
<1>2. i \in Slot /\ call[p].e \in Entity
  BY <1>1 DEF CallOK, WithSlot, WithEntity
<1>3. v \in 0..UINT32_MAX /\ v \in Nat
  <2>1. confidence[i] \in Nat /\ call[p].delta \in Nat
    BY <1>1, <1>2, WidthAssumption DEF Call
  <2>2. v \in 0..UINT32_MAX
    BY <2>1, AddWidth
  <2> QED BY <2>2, WidthAssumption
<1>4. /\ confidence' \in [Slot -> 0..UINT32_MAX] /\ src_count' \in [Slot -> 0..UINT16_MAX]
      /\ version' \in [Slot -> 0..UINT32_MAX] /\ entity' \in [Slot -> Data]
      /\ UNCHANGED <<key, calls>>
  BY <1>1, <1>2, <1>3, Locals DEF Add
<1>5. CASE call[p].op = "reinforce"
  <2> DEFINE c == [call[p] EXCEPT !.res = v]
  <2>1. c \in Call /\ c.e \in Entity /\ c.avail \in Slot
    BY <1>1, <1>2, <1>3 DEF Call
  <2>2. call' = [call EXCEPT ![p] = c] /\ pc' = [pc EXCEPT ![p] = "add_src"]
    BY <1>1, <1>5 DEF Add, Goto
  <2>3. "add_src" \in Label /\ "add_src" \notin {"scan", "find", "claim", "cas"} \cup Decaying
    BY DEF Label, Decaying
  <2> HIDE DEF c
  <2> QED BY <1>4, <2>1, <2>2, <2>3, MoveOK
<1>6. CASE call[p].op # "reinforce"
  <2>1. Return(p, v)
    BY <1>6 DEF Add
  <2> HIDE DEF v
  <2> QED BY <1>3, <1>4, <2>1, ReturnOK
<1> QED BY <1>5, <1>6

\* The source counter keeps its width.
LEMMA AddSrcOK ==
    ASSUME IInv, NEW p \in Proc, AddSrc(p)
    PROVE  IInv'
<1>1. /\ call[p] \in Call /\ call \in [Proc -> Call] /\ CallOK("add_src", call[p], key)
      /\ src_count \in [Slot -> 0..UINT16_MAX]
  BY Locals DEF AddSrc
<1>2. call[p].avail \in Slot
  BY <1>1 DEF CallOK, WithSlot
<1>3. Add16(src_count[call[p].avail], 1) \in 0..UINT16_MAX
  <2>1. src_count[call[p].avail] \in Nat
    BY <1>1, <1>2, WidthAssumption
  <2> QED BY <2>1, AddWidth
<1>4. /\ confidence' \in [Slot -> 0..UINT32_MAX] /\ src_count' \in [Slot -> 0..UINT16_MAX]
      /\ version' \in [Slot -> 0..UINT32_MAX] /\ entity' \in [Slot -> Data]
      /\ UNCHANGED <<key, calls>>
  BY <1>1, <1>2, <1>3, Locals DEF AddSrc
<1>5. call' = [call EXCEPT ![p] = call[p]] /\ pc' = [pc EXCEPT ![p] = "ret"]
  BY <1>1 DEF AddSrc, Goto
<1>6. "ret" \in Label /\ "ret" \notin WithEntity \cup WithSlot
      /\ "ret" \notin {"scan", "find", "claim", "cas"} \cup Decaying
  BY DEF Label, Decaying, WithEntity, WithSlot
<1> QED BY <1>1, <1>4, <1>5, <1>6, MoveOK

\* Reloading the claimed slot keeps what is known of its chain.
LEMMA ClaimOK ==
    ASSUME IInv, NEW p \in Proc, Claim(p)
    PROVE  IInv'
<1> DEFINE k == key[call[p].avail]
<1>1. /\ call[p] \in Call /\ call \in [Proc -> Call] /\ CallOK("claim", call[p], key)
      /\ key \in [Slot -> KeyHash]
  BY Locals DEF Claim
<1>2. /\ confidence' \in [Slot -> 0..UINT32_MAX] /\ src_count' \in [Slot -> 0..UINT16_MAX]
      /\ version' \in [Slot -> 0..UINT32_MAX] /\ entity' \in [Slot -> Data]
      /\ UNCHANGED <<key, calls>>
  BY Locals DEF Claim
<1>3. call[p].avail \in Slot /\ call[p].e \in Entity /\ k \in KeyHash
  BY <1>1 DEF CallOK, WithSlot, WithEntity
<1>4. CASE Free(k)
  <2> DEFINE c == [call[p] EXCEPT !.expected = k]
  <2>1. c \in Call /\ c.e = call[p].e /\ c.avail = call[p].avail /\ c.expected = k
    BY <1>1, <1>3 DEF Call
  <2>2. call' = [call EXCEPT ![p] = c] /\ pc' = [pc EXCEPT ![p] = "cas"]
    BY <1>1, <1>4 DEF Claim, Goto
  <2> HIDE DEF c, k
  <2>3. CallOK("cas", c, key) /\ "cas" \in Label
    BY <1>1, <1>3, <1>4, <2>1 DEF CallOK, WithEntity, WithSlot, Decaying, Label
  <2> QED BY <1>2, <2>1, <2>2, <2>3, LocalOK
<1>5. CASE ~Free(k)
  BY <1>2, <1>5, ReturnOK DEF Claim
<1> QED BY <1>4, <1>5

\* One key changes: a free slot is claimed for a key whose chain ends there,
\* or an entry is tombstoned.
LEMMA KeyOK ==
    ASSUME IInv, NEW p \in Proc, NEW l \in Label, NEW c \in Call,
           NEW i \in Slot, NEW v \in KeyHash,
           pc' = [pc EXCEPT ![p] = l], call' = [call EXCEPT ![p] = c],
           key' = [key EXCEPT ![i] = v], v # EMPTY,
           Free(v) \/ Chain(key, v, i), CallOK(l, c, key'),
           UNCHANGED <<confidence, src_count, version, entity, calls>>
    PROVE  IInv'
<1>1. StepOK(p)
  BY DEF StepOK, IInv, TypeOK
<1>2. TypeOK'
  BY <1>1 DEF StepOK, IInv, TypeOK
<1> QED
  BY <1>1, <1>2, Frame DEF IInv

\* The compare-and-swap that claims the slot, with its three outcomes.
LEMMA ClaimCASOK ==
    ASSUME IInv, NEW p \in Proc, ClaimCAS(p)
    PROVE  IInv'
<1>1. /\ call[p] \in Call /\ call \in [Proc -> Call] /\ CallOK("cas", call[p], key)
      /\ key \in [Slot -> KeyHash]
  BY Locals DEF ClaimCAS
<1>2. call[p].avail \in Slot /\ call[p].e \in Entity /\ Chain(key, Key(p), call[p].avail)
  BY <1>1 DEF CallOK, WithSlot, WithEntity, Key
<1>3. call' = call => call' = [call EXCEPT ![p] = call[p]]
  BY <1>1
<1>4. CASE key[call[p].avail] = call[p].expected
  <2>1. /\ key' = [key EXCEPT ![call[p].avail] = Key(p)]
        /\ pc' = [pc EXCEPT ![p] = "load_ver"] /\ call' = [call EXCEPT ![p] = call[p]]
        /\ UNCHANGED <<confidence, src_count, version, entity, calls>>
    BY <1>3, <1>4 DEF ClaimCAS, Goto
  <2>2. Key(p) \in KeyHash /\ Key(p) # EMPTY
    BY <1>2, KeyLive DEF Key, Free
  <2>3. CallOK("load_ver", call[p], key') /\ "load_ver" \in Label
    BY <1>2 DEF CallOK, WithEntity, WithSlot, Decaying, Label
  <2> QED BY <1>1, <1>2, <2>1, <2>2, <2>3, KeyOK
<1>5. CASE key[call[p].avail] # call[p].expected
  <2>1. /\ confidence' \in [Slot -> 0..UINT32_MAX] /\ src_count' \in [Slot -> 0..UINT16_MAX]
        /\ version' \in [Slot -> 0..UINT32_MAX] /\ entity' \in [Slot -> Data]
        /\ UNCHANGED <<key, calls>>
    BY <1>5, Locals DEF ClaimCAS
  <2>2. CASE key[call[p].avail] = Key(p)
    <3>1. call' = [call EXCEPT ![p] = call[p]] /\ pc' = [pc EXCEPT ![p] = "add"]
      BY <1>3, <1>5, <2>2 DEF ClaimCAS, Goto
    <3>2. CallOK("add", call[p], key) /\ "add" \in Label
      BY <1>2 DEF CallOK, WithEntity, WithSlot, Decaying, Label
    <3> QED BY <1>1, <2>1, <3>1, <3>2, LocalOK
  <2>3. CASE key[call[p].avail] # Key(p)
    BY <1>5, <2>1, <2>3, ReturnOK DEF ClaimCAS
  <2> QED BY <2>2, <2>3
<1> QED BY <1>4, <1>5

\* The odd version computed from the loaded one keeps its width.
LEMMA LoadVersionOK ==
    ASSUME IInv, NEW p \in Proc, LoadVersion(p)
    PROVE  IInv'
<1> DEFINE v == LockVersion(version[call[p].avail])
           c == [call[p] EXCEPT !.ver = v, !.todo = Writes]
<1>1. /\ call[p] \in Call /\ call \in [Proc -> Call] /\ CallOK("load_ver", call[p], key)
      /\ version \in [Slot -> 0..UINT32_MAX]
  BY Locals DEF LoadVersion
<1>2. call[p].avail \in Slot /\ call[p].e \in Entity
  BY <1>1 DEF CallOK, WithSlot, WithEntity
<1>3. v \in 0..UINT32_MAX
  <2>1. version[call[p].avail] \in Nat
    BY <1>1, <1>2, WidthAssumption
  <2> QED BY <2>1, AddWidth DEF LockVersion
<1>4. call' = [call EXCEPT ![p] = c] /\ pc' = [pc EXCEPT ![p] = "write"]
  BY <1>1 DEF LoadVersion, Goto
<1> HIDE DEF v
<1>5. c \in Call /\ c.e \in Entity /\ c.avail \in Slot
  BY <1>1, <1>2, <1>3 DEF Call
<1> HIDE DEF c
<1>6. "write" \in Label /\ "write" \notin {"scan", "find", "claim", "cas"} \cup Decaying
  BY DEF Label, Decaying
<1>7. /\ confidence' \in [Slot -> 0..UINT32_MAX] /\ src_count' \in [Slot -> 0..UINT16_MAX]
      /\ version' \in [Slot -> 0..UINT32_MAX] /\ entity' \in [Slot -> Data]
      /\ UNCHANGED <<key, calls>>
  BY Locals DEF LoadVersion
<1> QED BY <1>4, <1>5, <1>6, <1>7, MoveOK

\* The seqlock's odd version and the two halves, in any order.
LEMMA WriteOK ==
    ASSUME IInv, NEW p \in Proc, Write(p)
    PROVE  IInv'
<1>1. /\ call[p] \in Call /\ call \in [Proc -> Call] /\ CallOK("write", call[p], key)
      /\ version \in [Slot -> 0..UINT32_MAX] /\ entity \in [Slot -> Data]
  BY Locals DEF Write
<1>2. call[p].avail \in Slot /\ call[p].e \in Entity
  BY <1>1 DEF CallOK, WithSlot, WithEntity
<1>3. call[p].todo \subseteq Writes /\ call[p].ver \in 0..UINT32_MAX
  BY <1>1 DEF Call
<1>4. PICK w \in NextWrites(p) :
        /\ IF w = "lock"
           THEN version' = [version EXCEPT ![call[p].avail] = call[p].ver] /\ UNCHANGED entity
           ELSE /\ entity' = [entity EXCEPT ![call[p].avail][w] = call[p].e]
                /\ UNCHANGED version
        /\ call' = [call EXCEPT ![p].todo = @ \ {w}]
        /\ Goto(p, IF call[p].todo = {w} THEN "unlock" ELSE "write")
  BY DEF Write
<1> DEFINE c == [call[p] EXCEPT !.todo = call[p].todo \ {w}]
           l == IF call[p].todo = {w} THEN "unlock" ELSE "write"
<1>5. c \in Call /\ c.e \in Entity /\ c.avail \in Slot
  BY <1>1, <1>2, <1>3 DEF Call
<1>6. call' = [call EXCEPT ![p] = c] /\ pc' = [pc EXCEPT ![p] = l]
  BY <1>1, <1>4 DEF Goto
<1>7. l \in Label /\ l \notin {"scan", "find", "claim", "cas"} \cup Decaying
  BY DEF Label, Decaying
<1>8. version' \in [Slot -> 0..UINT32_MAX]
  BY <1>1, <1>2, <1>3, <1>4
<1>9. entity' \in [Slot -> Data]
  <2>1. CASE w = "lock"
    BY <1>1, <1>4, <2>1
  <2>2. CASE w # "lock"
    <3>1. w \in Half
      BY <1>3, <1>4, <2>2 DEF NextWrites, Writes
    <3>2. entity[call[p].avail] \in Data
      BY <1>1, <1>2
    <3>3. [entity[call[p].avail] EXCEPT ![w] = call[p].e] \in Data
      BY <1>2, <3>1, <3>2 DEF Data
    <3>4. entity' = [entity EXCEPT ![call[p].avail] =
                        [entity[call[p].avail] EXCEPT ![w] = call[p].e]]
      BY <1>1, <1>2, <1>4, <2>2
    <3> QED BY <1>1, <1>2, <3>3, <3>4
  <2> QED BY <2>1, <2>2
<1>10. confidence' \in [Slot -> 0..UINT32_MAX] /\ src_count' \in [Slot -> 0..UINT16_MAX]
       /\ UNCHANGED <<key, calls>>
  BY Locals DEF Write
<1> HIDE DEF c, l
<1> QED BY <1>5, <1>6, <1>7, <1>8, <1>9, <1>10, MoveOK

\* The stores into the claimed slot keep their widths.
LEMMA UnlockOK ==
    ASSUME IInv, NEW p \in Proc, Unlock(p)
    PROVE  IInv'
<1>1. /\ call[p] \in Call /\ call \in [Proc -> Call] /\ CallOK("unlock", call[p], key)
  BY Locals DEF Unlock
<1>2. call[p].avail \in Slot /\ call[p].e \in Entity
  BY <1>1 DEF CallOK, WithSlot, WithEntity
<1>3. Add32(call[p].ver, 1) \in 0..UINT32_MAX
  <2>1. call[p].ver \in Nat
    BY <1>1, WidthAssumption DEF Call
  <2> QED BY <2>1, AddWidth
<1>4. /\ confidence' \in [Slot -> 0..UINT32_MAX] /\ src_count' \in [Slot -> 0..UINT16_MAX]
      /\ version' \in [Slot -> 0..UINT32_MAX] /\ entity' \in [Slot -> Data]
      /\ UNCHANGED <<key, calls>>
  BY <1>2, <1>3, WidthAssumption, Locals DEF Unlock
<1>5. call' = [call EXCEPT ![p] = call[p]] /\ pc' = [pc EXCEPT ![p] = "set_conf"]
  BY <1>1 DEF Unlock, Goto
<1>6. "set_conf" \in Label /\ "set_conf" \notin {"scan", "find", "claim", "cas"} \cup Decaying
  BY DEF Label, Decaying
<1> QED BY <1>1, <1>2, <1>4, <1>5, <1>6, MoveOK

\* The initial confidence is the delta of the deposit.
LEMMA SetConfidenceOK ==
    ASSUME IInv, NEW p \in Proc, SetConfidence(p)
    PROVE  IInv'
<1>1. /\ call[p] \in Call /\ call \in [Proc -> Call] /\ CallOK("set_conf", call[p], key)
  BY Locals DEF SetConfidence
<1>2. call[p].avail \in Slot /\ call[p].e \in Entity
  BY <1>1 DEF CallOK, WithSlot, WithEntity
<1>3. call[p].delta \in 0..UINT32_MAX
  BY <1>1 DEF Call
<1>4. /\ confidence' \in [Slot -> 0..UINT32_MAX] /\ src_count' \in [Slot -> 0..UINT16_MAX]
      /\ version' \in [Slot -> 0..UINT32_MAX] /\ entity' \in [Slot -> Data]
      /\ UNCHANGED <<key, calls>>
  BY <1>2, <1>3, WidthAssumption, Locals DEF SetConfidence
<1>5. call' = [call EXCEPT ![p] = call[p]] /\ pc' = [pc EXCEPT ![p] = "set_src"]
  BY <1>1 DEF SetConfidence, Goto
<1>6. "set_src" \in Label /\ "set_src" \notin {"scan", "find", "claim", "cas"} \cup Decaying
  BY DEF Label, Decaying
<1> QED BY <1>1, <1>2, <1>4, <1>5, <1>6, MoveOK

\* The initial source count, and the return of the delta.
LEMMA SetSrcOK ==
    ASSUME IInv, NEW p \in Proc, SetSrc(p)
    PROVE  IInv'
<1>1. /\ call[p] \in Call /\ call \in [Proc -> Call] /\ CallOK("set_src", call[p], key)
  BY Locals DEF SetSrc
<1>2. call[p].avail \in Slot /\ call[p].e \in Entity
  BY <1>1 DEF CallOK, WithSlot, WithEntity
<1>3. call[p].delta \in Nat /\ 1 \in 0..UINT16_MAX
  BY <1>1, WidthAssumption DEF Call
<1>4. /\ confidence' \in [Slot -> 0..UINT32_MAX] /\ src_count' \in [Slot -> 0..UINT16_MAX]
      /\ version' \in [Slot -> 0..UINT32_MAX] /\ entity' \in [Slot -> Data]
      /\ UNCHANGED <<key, calls>>
  BY <1>2, <1>3, WidthAssumption, Locals DEF SetSrc
<1>5. Return(p, call[p].delta)
  BY DEF SetSrc
<1> QED BY <1>3, <1>4, <1>5, ReturnOK

\* The probe loop of lookup and remove.
LEMMA FindOK ==
    ASSUME IInv, NEW p \in Proc, Find(p)
    PROVE  IInv'
<1> DEFINE k == key[At(p)]
<1>1. /\ call[p] \in Call /\ pc[p] = "find" /\ call \in [Proc -> Call]
      /\ pc \in [Proc -> Label] /\ CallOK("find", call[p], key)
  BY Locals DEF Find
<1>2. call[p].probe \in Nat /\ call[p].e \in Entity /\ call[p].probe < PROBE_MAX
  BY <1>1 DEF CallOK, WithEntity, Call
<1>3. At(p) \in Slot
  BY <1>2, KeyLive, ProbeSlotIn DEF Key, At
<1>4. /\ confidence' \in [Slot -> 0..UINT32_MAX] /\ src_count' \in [Slot -> 0..UINT16_MAX]
      /\ version' \in [Slot -> 0..UINT32_MAX] /\ entity' \in [Slot -> Data]
      /\ UNCHANGED <<key, calls>>
  BY Locals DEF Find
<1>5. CASE k = Key(p)
  <2> DEFINE c == [call[p] EXCEPT !.avail = At(p)]
             l == IF call[p].op = "remove" THEN "remove_cas" ELSE "load_conf"
  <2>1. c \in Call /\ c.e \in Entity /\ c.avail \in Slot
    BY <1>1, <1>2, <1>3 DEF Call
  <2>2. call' = [call EXCEPT ![p] = c] /\ pc' = [pc EXCEPT ![p] = l]
    BY <1>1, <1>5 DEF Find, Goto
  <2>3. l \in Label /\ l \notin {"scan", "find", "claim", "cas"} \cup Decaying
    BY DEF Label, Decaying
  <2> HIDE DEF c, l
  <2> QED BY <1>4, <2>1, <2>2, <2>3, MoveOK
<1>6. CASE k # Key(p) /\ (k = EMPTY \/ call[p].probe + 1 = PROBE_MAX)
  <2>1. Return(p, 0)
    BY <1>6 DEF Find
  <2> QED BY <1>4, <2>1, ReturnOK
<1>7. CASE k # Key(p) /\ k # EMPTY /\ call[p].probe + 1 # PROBE_MAX
  <2> DEFINE c == [call[p] EXCEPT !.probe = @ + 1]
  <2>1. c \in Call /\ c.e = call[p].e /\ c.probe = call[p].probe + 1
    <3>1. call[p].probe + 1 \in Nat
      BY <1>2
    <3> HIDE DEF k
    <3> QED BY <1>1, <3>1 DEF Call
  <2>2. call' = [call EXCEPT ![p] = c] /\ pc' = [pc EXCEPT ![p] = "find"]
    BY <1>1, <1>7 DEF Find
  <2> HIDE DEF c
  <2>3. CallOK("find", c, key) /\ "find" \in Label
    BY <1>2, <1>7, <2>1, ProbeMaxAssumption DEF CallOK, WithEntity, WithSlot, Decaying, Label
  <2> QED BY <1>4, <2>1, <2>2, <2>3, LocalOK
<1> QED BY <1>5, <1>6, <1>7

\* Lookup returns the confidence it loads.
LEMMA LoadConfidenceOK ==
    ASSUME IInv, NEW p \in Proc, LoadConfidence(p)
    PROVE  IInv'
<1>1. CallOK("load_conf", call[p], key) /\ confidence \in [Slot -> 0..UINT32_MAX]
  BY Locals DEF LoadConfidence
<1>2. confidence[call[p].avail] \in Nat
  BY <1>1, WidthAssumption DEF CallOK, WithSlot
<1>3. /\ confidence' \in [Slot -> 0..UINT32_MAX] /\ src_count' \in [Slot -> 0..UINT16_MAX]
      /\ version' \in [Slot -> 0..UINT32_MAX] /\ entity' \in [Slot -> Data]
      /\ UNCHANGED <<key, calls>>
  BY Locals DEF LoadConfidence
<1>4. Return(p, confidence[call[p].avail])
  BY DEF LoadConfidence
<1> QED BY <1>2, <1>3, <1>4, ReturnOK

\* TOMBSTONE is a key value that is free but not EMPTY.
LEMMA TombstoneKey == TOMBSTONE \in KeyHash /\ TOMBSTONE # EMPTY /\ Free(TOMBSTONE)
  BY TombstoneAssumption DEF KeyHash, Free, EMPTY

\* Removal tombstones the entry if it is still there.
LEMMA RemoveCASOK ==
    ASSUME IInv, NEW p \in Proc, RemoveCAS(p)
    PROVE  IInv'
<1>1. call[p] \in Call /\ call \in [Proc -> Call] /\ CallOK("remove_cas", call[p], key)
  BY Locals DEF RemoveCAS
<1>2. call[p].avail \in Slot
  BY <1>1 DEF CallOK, WithSlot
<1>3. CASE key[call[p].avail] = Key(p)
  <2> DEFINE c == [call[p] EXCEPT !.res = 1]
  <2>1. c \in Call
    BY <1>1 DEF Call
  <2>2. /\ call' = [call EXCEPT ![p] = c] /\ pc' = [pc EXCEPT ![p] = "ret"]
        /\ key' = [key EXCEPT ![call[p].avail] = TOMBSTONE]
        /\ UNCHANGED <<confidence, src_count, version, entity, calls>>
    BY <1>1, <1>3 DEF RemoveCAS, Return, Goto
  <2> HIDE DEF c
  <2>3. CallOK("ret", c, key') /\ "ret" \in Label
    BY DEF CallOK, WithEntity, WithSlot, Decaying, Label
  <2> QED BY <1>2, <2>1, <2>2, <2>3, TombstoneKey, KeyOK
<1>4. CASE key[call[p].avail] # Key(p)
  <2>1. /\ confidence' \in [Slot -> 0..UINT32_MAX] /\ src_count' \in [Slot -> 0..UINT16_MAX]
        /\ version' \in [Slot -> 0..UINT32_MAX] /\ entity' \in [Slot -> Data]
        /\ UNCHANGED <<key, calls>>
    BY <1>4, Locals DEF RemoveCAS
  <2>2. Return(p, 0)
    BY <1>4 DEF RemoveCAS
  <2> QED BY <2>1, <2>2, ReturnOK
<1> QED BY <1>3, <1>4

\* The decay loop moves on to the next slot, or returns after the last one.
LEMMA NextSlotOK ==
    ASSUME IInv, NEW p \in Proc, NEW n \in Nat, NextSlot(p, n),
           pc[p] \in Decaying
    PROVE  \E l \in Label, c \in Call :
              /\ pc' = [pc EXCEPT ![p] = l] /\ call' = [call EXCEPT ![p] = c]
              /\ CallOK(l, c, key')
<1> DEFINE c == [call[p] EXCEPT !.probe = call[p].probe + 1, !.res = call[p].res + n]
           l == IF call[p].probe + 1 = Capacity THEN "ret" ELSE "decay_key"
<1>1. call[p] \in Call /\ call \in [Proc -> Call] /\ CallOK(pc[p], call[p], key)
  BY Locals
<1>2. call[p].probe \in Nat /\ call[p].res \in Nat /\ call[p].probe < Capacity
  BY <1>1 DEF CallOK, Call
<1>3. c \in Call
  <2>1. call[p].probe + 1 \in Nat /\ call[p].res + n \in Nat
    BY <1>2
  <2> QED BY <1>1, <2>1 DEF Call
<1>4. c.probe = call[p].probe + 1
  BY <1>1 DEF Call
<1>5. pc' = [pc EXCEPT ![p] = l] /\ call' = [call EXCEPT ![p] = c]
  BY <1>1 DEF NextSlot, Goto
<1> HIDE DEF c
<1>6. l \in Label /\ CallOK(l, c, key')
  BY <1>2, <1>4, CapacityAssumption DEF CallOK, WithEntity, WithSlot, Decaying, Label
<1> HIDE DEF l
<1> QED BY <1>3, <1>5, <1>6

\* Decay looks at a slot.
LEMMA DecayKeyOK ==
    ASSUME IInv, NEW p \in Proc, DecayKey(p)
    PROVE  IInv'
<1> DEFINE k == key[call[p].probe]
<1>1. /\ call[p] \in Call /\ call \in [Proc -> Call] /\ CallOK("decay_key", call[p], key)
      /\ key \in [Slot -> KeyHash] /\ pc[p] = "decay_key"
  BY Locals DEF DecayKey
<1>2. /\ confidence' \in [Slot -> 0..UINT32_MAX] /\ src_count' \in [Slot -> 0..UINT16_MAX]
      /\ version' \in [Slot -> 0..UINT32_MAX] /\ entity' \in [Slot -> Data]
      /\ UNCHANGED <<key, calls>>
  BY Locals DEF DecayKey
<1>3. call[p].probe \in Slot /\ call[p].probe < Capacity /\ k \in KeyHash
  BY <1>1, CapacityAssumption DEF CallOK, Decaying, Call, Slot
<1>4. CASE Free(k)
  <2>1. NextSlot(p, 0) /\ pc[p] \in Decaying /\ key' = key
    BY <1>1, <1>4 DEF DecayKey, Decaying
  <2> QED BY <1>2, <2>1, NextSlotOK, LocalOK
<1>5. CASE ~Free(k)
  <2> DEFINE c == [call[p] EXCEPT !.expected = k]
  <2>1. c \in Call /\ c.probe = call[p].probe /\ c.expected = k
    BY <1>1, <1>3 DEF Call
  <2>2. call' = [call EXCEPT ![p] = c] /\ pc' = [pc EXCEPT ![p] = "decay_load"]
    BY <1>1, <1>5 DEF DecayKey, Goto
  <2> HIDE DEF c, k
  <2>3. CallOK("decay_load", c, key) /\ "decay_load" \in Label
    BY <1>3, <1>5, <2>1 DEF CallOK, WithEntity, WithSlot, Decaying, Label
  <2> QED BY <1>2, <2>1, <2>2, <2>3, LocalOK
<1> QED BY <1>4, <1>5

\* Decay reads the confidence it will act on.
LEMMA DecayLoadOK ==
    ASSUME IInv, NEW p \in Proc, DecayLoad(p)
    PROVE  IInv'
<1> DEFINE c == [call[p] EXCEPT !.conf = confidence[call[p].probe]]
<1>1. /\ call[p] \in Call /\ call \in [Proc -> Call] /\ CallOK("decay_load", call[p], key)
      /\ confidence \in [Slot -> 0..UINT32_MAX]
  BY Locals DEF DecayLoad
<1>2. /\ confidence' \in [Slot -> 0..UINT32_MAX] /\ src_count' \in [Slot -> 0..UINT16_MAX]
      /\ version' \in [Slot -> 0..UINT32_MAX] /\ entity' \in [Slot -> Data]
      /\ UNCHANGED <<key, calls>>
  BY Locals DEF DecayLoad
<1>3. call[p].probe \in Slot /\ call[p].probe < Capacity /\ ~Free(call[p].expected)
  BY <1>1, CapacityAssumption DEF CallOK, Decaying, Call, Slot
<1>4. c \in Call /\ c.probe = call[p].probe /\ c.expected = call[p].expected
  BY <1>1, <1>3 DEF Call
<1>5. call' = [call EXCEPT ![p] = c] /\ pc' = [pc EXCEPT ![p] = "decay_cas"]
  BY <1>1 DEF DecayLoad, Goto
<1> HIDE DEF c
<1>6. CallOK("decay_cas", c, key) /\ "decay_cas" \in Label
  BY <1>3, <1>4 DEF CallOK, WithEntity, WithSlot, Decaying, Label
<1> QED BY <1>2, <1>4, <1>5, <1>6, LocalOK

\* Decay evicts, lowers, or finds the slot changed.
LEMMA DecayCASOK ==
    ASSUME IInv, NEW p \in Proc, DecayCAS(p)
    PROVE  IInv'
<1> DEFINE i == call[p].probe
           new == Decayed(call[p].conf)
           evict == new < NoiseFloor /\ key[i] = call[p].expected
           lower == new >= NoiseFloor /\ confidence[i] = call[p].conf
<1>1. /\ call[p] \in Call /\ CallOK("decay_cas", call[p], key) /\ pc[p] = "decay_cas"
      /\ confidence \in [Slot -> 0..UINT32_MAX]
  BY Locals DEF DecayCAS
<1>2. i \in Slot
  BY <1>1, CapacityAssumption DEF CallOK, Decaying, Call, Slot
<1>3. new \in Nat /\ new \in 0..UINT32_MAX
  <2>1. call[p].conf \in Nat /\ call[p].conf <= UINT32_MAX
    BY <1>1, WidthAssumption DEF Call
  <2>2. new \in 0..call[p].conf
    BY <2>1, DecayedBound
  <2> QED BY <2>1, <2>2, WidthAssumption
<1>4. pc[p] \in Decaying
  BY <1>1 DEF Decaying
<1>5. CASE evict
  <2>1. ~lower
    BY <1>3, <1>5, DecayAssumption
  <2>2. /\ key' = [key EXCEPT ![i] = TOMBSTONE] /\ NextSlot(p, 1)
        /\ UNCHANGED <<confidence, src_count, version, entity, calls>>
    BY <1>5, <2>1 DEF DecayCAS
  <2>3. PICK l \in Label, c \in Call :
          /\ pc' = [pc EXCEPT ![p] = l] /\ call' = [call EXCEPT ![p] = c]
          /\ CallOK(l, c, key')
    BY <1>4, <2>2, NextSlotOK
  <2> QED BY <1>2, <2>2, <2>3, TombstoneKey, KeyOK
<1>6. CASE ~evict
  <2>1. key' = key /\ calls' = calls /\ NextSlot(p, 0)
    BY <1>6 DEF DecayCAS
  <2>2. confidence' \in [Slot -> 0..UINT32_MAX]
    BY <1>1, <1>2, <1>3 DEF DecayCAS
  <2>3. /\ src_count' \in [Slot -> 0..UINT16_MAX] /\ version' \in [Slot -> 0..UINT32_MAX]
        /\ entity' \in [Slot -> Data]
    BY Locals DEF DecayCAS
  <2>4. PICK l \in Label, c \in Call :
          /\ pc' = [pc EXCEPT ![p] = l] /\ call' = [call EXCEPT ![p] = c]
          /\ CallOK(l, c, key')
    BY <1>4, <2>1, NextSlotOK
  <2> QED BY <2>1, <2>2, <2>3, <2>4, LocalOK
<1> QED BY <1>5, <1>6

\* The reader takes an even version.
LEMMA ReadVersionOK ==
    ASSUME IInv, NEW p \in Proc, ReadVersion(p)
    PROVE  IInv'
<1> DEFINE c == [call[p] EXCEPT !.ver = version[call[p].avail]]
<1>1. /\ call[p] \in Call /\ call \in [Proc -> Call] /\ CallOK("read_ver", call[p], key)
      /\ confidence \in [Slot -> 0..UINT32_MAX] /\ version \in [Slot -> 0..UINT32_MAX]
      /\ key \in [Slot -> KeyHash]
  BY Locals DEF ReadVersion
<1>2. call[p].avail \in Slot
  BY <1>1 DEF CallOK, WithSlot
<1>3. c \in Call /\ c.avail \in Slot
  BY <1>1, <1>2 DEF Call
<1>4. call' = [call EXCEPT ![p] = c] /\ pc' = [pc EXCEPT ![p] = "copy_key"]
  BY <1>1 DEF ReadVersion, Goto
<1>5. "copy_key" \in Label /\ "copy_key" \notin WithEntity
      /\ "copy_key" \notin {"scan", "find", "claim", "cas"} \cup Decaying
  BY DEF Label, Decaying, WithEntity
<1>6. /\ confidence' \in [Slot -> 0..UINT32_MAX] /\ src_count' \in [Slot -> 0..UINT16_MAX]
      /\ version' \in [Slot -> 0..UINT32_MAX] /\ entity' \in [Slot -> Data]
      /\ UNCHANGED <<key, calls>>
  BY Locals DEF ReadVersion
<1> HIDE DEF c
<1> QED BY <1>3, <1>4, <1>5, <1>6, MoveOK

\* The reader copies the key.
LEMMA CopyKeyOK ==
    ASSUME IInv, NEW p \in Proc, CopyKey(p)
    PROVE  IInv'
<1> DEFINE c == [call[p] EXCEPT !.expected = key[call[p].avail]]
<1>1. /\ call[p] \in Call /\ call \in [Proc -> Call] /\ CallOK("copy_key", call[p], key)
      /\ confidence \in [Slot -> 0..UINT32_MAX] /\ version \in [Slot -> 0..UINT32_MAX]
      /\ key \in [Slot -> KeyHash]
  BY Locals DEF CopyKey
<1>2. call[p].avail \in Slot
  BY <1>1 DEF CallOK, WithSlot
<1>3. c \in Call /\ c.avail \in Slot
  BY <1>1, <1>2 DEF Call
<1>4. call' = [call EXCEPT ![p] = c] /\ pc' = [pc EXCEPT ![p] = "copy_conf"]
  BY <1>1 DEF CopyKey, Goto
<1>5. "copy_conf" \in Label /\ "copy_conf" \notin WithEntity
      /\ "copy_conf" \notin {"scan", "find", "claim", "cas"} \cup Decaying
  BY DEF Label, Decaying, WithEntity
<1>6. /\ confidence' \in [Slot -> 0..UINT32_MAX] /\ src_count' \in [Slot -> 0..UINT16_MAX]
      /\ version' \in [Slot -> 0..UINT32_MAX] /\ entity' \in [Slot -> Data]
      /\ UNCHANGED <<key, calls>>
  BY Locals DEF CopyKey
<1> HIDE DEF c
<1> QED BY <1>3, <1>4, <1>5, <1>6, MoveOK

\* The reader copies the confidence.
LEMMA CopyConfidenceOK ==
    ASSUME IInv, NEW p \in Proc, CopyConfidence(p)
    PROVE  IInv'
<1> DEFINE c == [call[p] EXCEPT !.conf = confidence[call[p].avail]]
<1>1. /\ call[p] \in Call /\ call \in [Proc -> Call] /\ CallOK("copy_conf", call[p], key)
      /\ confidence \in [Slot -> 0..UINT32_MAX] /\ version \in [Slot -> 0..UINT32_MAX]
      /\ key \in [Slot -> KeyHash]
  BY Locals DEF CopyConfidence
<1>2. call[p].avail \in Slot
  BY <1>1 DEF CallOK, WithSlot
<1>3. c \in Call /\ c.avail \in Slot
  BY <1>1, <1>2 DEF Call
<1>4. call' = [call EXCEPT ![p] = c] /\ pc' = [pc EXCEPT ![p] = "copy_lo"]
  BY <1>1 DEF CopyConfidence, Goto
<1>5. "copy_lo" \in Label /\ "copy_lo" \notin WithEntity
      /\ "copy_lo" \notin {"scan", "find", "claim", "cas"} \cup Decaying
  BY DEF Label, Decaying, WithEntity
<1>6. /\ confidence' \in [Slot -> 0..UINT32_MAX] /\ src_count' \in [Slot -> 0..UINT16_MAX]
      /\ version' \in [Slot -> 0..UINT32_MAX] /\ entity' \in [Slot -> Data]
      /\ UNCHANGED <<key, calls>>
  BY Locals DEF CopyConfidence
<1> HIDE DEF c
<1> QED BY <1>3, <1>4, <1>5, <1>6, MoveOK

\* The reader copies one half of the data.
LEMMA CopyHalfOK ==
    ASSUME IInv, NEW p \in Proc, NEW from \in {"copy_lo", "copy_hi"}, NEW h \in Half,
           NEW to \in {"copy_hi", "check_ver"}, CopyHalf(p, from, h, to)
    PROVE  IInv'
<1> DEFINE o == [call[p].out EXCEPT ![h] = entity[call[p].avail][h]]
           c == [call[p] EXCEPT !.out = o]
<1>1. /\ call[p] \in Call /\ call \in [Proc -> Call] /\ CallOK(from, call[p], key)
      /\ entity \in [Slot -> Data]
  BY Locals DEF CopyHalf
<1>2. call[p].avail \in Slot
  BY <1>1 DEF CallOK, WithSlot
<1>3. o \in Data
  <2>1. call[p].out \in Data /\ entity[call[p].avail] \in Data
    BY <1>1, <1>2 DEF Call
  <2> QED BY <2>1 DEF Data
<1>4. call' = [call EXCEPT ![p] = c] /\ pc' = [pc EXCEPT ![p] = to]
  BY <1>1 DEF CopyHalf, Goto
<1> HIDE DEF o
<1>5. c \in Call /\ c.avail \in Slot
  BY <1>1, <1>2, <1>3 DEF Call
<1>6. to \in Label /\ to \notin WithEntity
      /\ to \notin {"scan", "find", "claim", "cas"} \cup Decaying
  BY DEF Label, Decaying, WithEntity
<1>7. /\ confidence' \in [Slot -> 0..UINT32_MAX] /\ src_count' \in [Slot -> 0..UINT16_MAX]
      /\ version' \in [Slot -> 0..UINT32_MAX] /\ entity' \in [Slot -> Data]
      /\ UNCHANGED <<key, calls>>
  BY Locals DEF CopyHalf
<1> HIDE DEF c
<1> QED BY <1>4, <1>5, <1>6, <1>7, MoveOK

\* The first and the last step of a read: both may return or go on to load
\* the version.
LEMMA ReadKeyOK ==
    ASSUME IInv, NEW p \in Proc, ReadKey(p) \/ CheckVersion(p)
    PROVE  IInv'
<1>1. /\ confidence' \in [Slot -> 0..UINT32_MAX] /\ src_count' \in [Slot -> 0..UINT16_MAX]
      /\ version' \in [Slot -> 0..UINT32_MAX] /\ entity' \in [Slot -> Data]
      /\ UNCHANGED <<key, calls>>
  BY Locals DEF ReadKey, CheckVersion
<1>2. /\ call[p] \in Call /\ call \in [Proc -> Call] /\ CallOK(pc[p], call[p], key)
      /\ pc[p] \in {"read_key", "check_ver"}
  BY Locals DEF ReadKey, CheckVersion
<1>3. CASE Return(p, 0) \/ Return(p, 1)
  BY <1>1, <1>3, ReturnOK
<1>4. CASE Goto(p, "read_ver") /\ call' = call
  <2>1. call[p].avail \in Slot
    BY <1>2 DEF CallOK, WithSlot
  <2>2. call' = [call EXCEPT ![p] = call[p]] /\ pc' = [pc EXCEPT ![p] = "read_ver"]
    BY <1>2, <1>4 DEF Goto
  <2>3. "read_ver" \in Label /\ "read_ver" \notin WithEntity
        /\ "read_ver" \notin {"scan", "find", "claim", "cas"} \cup Decaying
    BY DEF Label, Decaying, WithEntity
  <2> QED BY <1>1, <1>2, <2>1, <2>2, <2>3, MoveOK
<1> QED BY <1>3, <1>4 DEF ReadKey, CheckVersion

\* The locals of a process outside a call.
LEMMA NoCallOK == NoCall \in Call /\ NoCall.probe = 0 /\ NoCall.avail = NoSlot
  BY WidthAssumption DEF NoCall, Call, KeyHash, Data, Halves, Writes, Op

\* The end of a call and the death of a process leave nothing to justify.
LEMMA EndOK ==
    ASSUME IInv, NEW p \in Proc, End(p) \/ Crash(p)
    PROVE  IInv'
<1>1. /\ confidence' \in [Slot -> 0..UINT32_MAX] /\ src_count' \in [Slot -> 0..UINT16_MAX]
      /\ version' \in [Slot -> 0..UINT32_MAX] /\ entity' \in [Slot -> Data]
      /\ UNCHANGED <<key, calls>>
  BY Locals DEF End, Crash
<1>2. PICK l \in {"idle", "dead"} : pc' = [pc EXCEPT ![p] = l]
  BY DEF End, Crash, Goto
<1>3. call' = [call EXCEPT ![p] = NoCall]
  BY DEF End, Crash
<1>4. l \in Label /\ l \notin WithEntity \cup WithSlot
      /\ l \notin {"scan", "find", "claim", "cas"} \cup Decaying
  BY DEF Label, Decaying, WithEntity, WithSlot
<1> QED BY <1>1, <1>2, <1>3, <1>4, NoCallOK, MoveOK

\* Every way to begin a call.
LEMMA BeginAnyOK ==
    ASSUME IInv, NEW p \in Proc,
           BeginInsert(p) \/ BeginFind(p) \/ BeginDecay(p) \/ BeginRead(p)
    PROVE  IInv'
<1>1. CASE BeginInsert(p)
  <2>1. PICK op \in {"deposit", "reinforce"}, e \in Entity, d \in Delta :
          Begin(p, [NoCall EXCEPT !.op = op, !.e = e, !.delta = d], "scan")
    BY <1>1 DEF BeginInsert
  <2> DEFINE c == [NoCall EXCEPT !.op = op, !.e = e, !.delta = d]
  <2>2. d \in 0..UINT32_MAX
    BY DeltaAssumption
  <2>3. c \in Call /\ c.e = e /\ c.probe = 0 /\ c.avail = NoSlot
    BY <2>2, NoCallOK DEF Call, Op
  <2> HIDE DEF c
  <2>4. CallOK("scan", c, key) /\ "scan" \in Label
    BY <2>3, ProbeMaxAssumption DEF CallOK, WithEntity, WithSlot, Decaying, Label
  <2> QED BY <2>1, <2>3, <2>4, BeginOK DEF c
<1>2. CASE BeginFind(p)
  <2>1. PICK op \in {"remove", "lookup"}, e \in Entity :
          Begin(p, [NoCall EXCEPT !.op = op, !.e = e], "find")
    BY <1>2 DEF BeginFind
  <2> DEFINE c == [NoCall EXCEPT !.op = op, !.e = e]
  <2>2. c \in Call /\ c.e = e /\ c.probe = 0
    BY NoCallOK DEF Call, Op
  <2> HIDE DEF c
  <2>3. CallOK("find", c, key) /\ "find" \in Label
    BY <2>2, ProbeMaxAssumption DEF CallOK, WithEntity, WithSlot, Decaying, Label
  <2> QED BY <2>1, <2>2, <2>3, BeginOK DEF c
<1>3. CASE BeginDecay(p)
  <2> DEFINE c == [NoCall EXCEPT !.op = "decay"]
  <2>1. c \in Call /\ c.probe = 0
    BY NoCallOK DEF Call, Op
  <2>2. Begin(p, c, "decay_key")
    BY <1>3 DEF BeginDecay
  <2> HIDE DEF c
  <2>3. CallOK("decay_key", c, key) /\ "decay_key" \in Label
    BY <2>1, CapacityAssumption DEF CallOK, WithEntity, WithSlot, Decaying, Label
  <2> QED BY <2>1, <2>2, <2>3, BeginOK
<1>4. CASE BeginRead(p)
  <2>1. PICK i \in Slot : Begin(p, [NoCall EXCEPT !.op = "read", !.avail = i], "read_key")
    BY <1>4 DEF BeginRead
  <2> DEFINE c == [NoCall EXCEPT !.op = "read", !.avail = i]
  <2>2. c \in Call /\ c.avail = i
    BY NoCallOK DEF Call, Op
  <2> HIDE DEF c
  <2>3. CallOK("read_key", c, key) /\ "read_key" \in Label
    BY <2>2 DEF CallOK, WithEntity, WithSlot, Decaying, Label
  <2> QED BY <2>1, <2>2, <2>3, BeginOK DEF c
<1> QED BY <1>1, <1>2, <1>3, <1>4

-----------------------------------------------------------------------------
(* The theorems.                                                           *)

\* The zero-filled file satisfies the invariant.
LEMMA IInvInit == Init => IInv
<1> SUFFICES ASSUME Init PROVE IInv
  OBVIOUS
<1>1. TypeOK
  <2>1. Halves(NoEntity) \in Data /\ EMPTY \in KeyHash /\ "idle" \in Label
    BY DEF Halves, Data, KeyHash, Label
  <2>2. 0 \in 0..UINT32_MAX /\ 0 \in 0..UINT16_MAX
    BY WidthAssumption
  <2> QED BY <2>1, <2>2, NoCallOK DEF Init, TypeOK
<1>2. CallsOK
  BY DEF Init, CallsOK, CallOK, WithEntity, WithSlot, Decaying
<1>3. Reachable
  BY DEF Init, Reachable, Free
<1> QED BY <1>1, <1>2, <1>3 DEF IInv

\* A step of a process preserves it, action by action.
LEMMA ProcStep ==
    ASSUME IInv, NEW p \in Proc, Step(p) \/ Crash(p)
    PROVE  IInv'
<1>1. CASE Insert(p)
  BY <1>1, BeginAnyOK, ScanOK, AddOK, AddSrcOK, ClaimOK, ClaimCASOK, LoadVersionOK,
     WriteOK, UnlockOK, SetConfidenceOK, SetSrcOK DEF Insert
<1>2. CASE Lookup(p)
  BY <1>2, BeginAnyOK, FindOK, LoadConfidenceOK, RemoveCASOK DEF Lookup
<1>3. CASE Decay(p)
  BY <1>3, BeginAnyOK, DecayKeyOK, DecayLoadOK, DecayCASOK DEF Decay
<1>4. CASE Read(p)
  <2>1. CASE Spin(p)
    BY <2>1 DEF Spin, vars, IInv, TypeOK, CallsOK, CallOK, Reachable, ChainTo
  <2>2. CASE CopyHalf(p, "copy_lo", "lo", "copy_hi") \/ CopyHalf(p, "copy_hi", "hi", "check_ver")
    BY <2>2, CopyHalfOK DEF Half
  <2> QED
    BY <1>4, <2>1, <2>2, BeginAnyOK, ReadKeyOK, ReadVersionOK, CopyKeyOK,
       CopyConfidenceOK DEF Read
<1>5. CASE End(p) \/ Crash(p)
  BY <1>5, EndOK
<1> QED
  BY <1>1, <1>2, <1>3, <1>4, <1>5 DEF Step

\* Every step preserves the inductive invariant.
LEMMA IInvStep == IInv /\ [Next]_vars => IInv'
<1> SUFFICES ASSUME IInv, [Next]_vars PROVE IInv'
  OBVIOUS
<1>1. CASE UNCHANGED vars
  BY <1>1 DEF vars, IInv, TypeOK, CallsOK, CallOK, Chain, Reachable, ChainTo
<1>2. ASSUME NEW p \in Proc, Step(p) \/ Crash(p)
      PROVE  IInv'
  BY <1>2, ProcStep
<1> QED
  BY <1>1, <1>2 DEF Next, Finished

\* The inductive invariant holds in every reachable state.
LEMMA Inductive == Spec => []IInv
  BY IInvInit, IInvStep, PTL DEF Spec

\* No access of any call, at any point of any interleaving, leaves the table,
\* and every field keeps its width.
THEOREM TypeCorrect == Spec => []TypeOK
<1>1. IInv => TypeOK
  BY DEF IInv
<1> QED BY <1>1, Inductive, PTL

\* Every live entry can be found by the probe loops, whatever claims,
\* evictions and deaths of processes interleave.
THEOREM ReachableCorrect == Spec => []Reachable
<1>1. IInv => Reachable
  BY DEF IInv
<1> QED BY <1>1, Inductive, PTL

\* Only the claim, the removal and the eviction change a key.
LEMMA KeyWriters ==
    ASSUME NEW p \in Proc, Step(p) \/ Crash(p), key' # key
    PROVE  ClaimCAS(p) \/ RemoveCAS(p) \/ DecayCAS(p)
<1>1. CASE Insert(p)
  <2>1. ~BeginInsert(p)
    BY DEF BeginInsert, Begin, table
  <2>2. ~(Scan(p) \/ Add(p) \/ AddSrc(p) \/ Claim(p))
    BY DEF Scan, Add, AddSrc, Claim
  <2>3. ~(LoadVersion(p) \/ Write(p) \/ Unlock(p) \/ SetConfidence(p) \/ SetSrc(p))
    BY DEF LoadVersion, Write, Unlock, SetConfidence, SetSrc
  <2> QED BY <1>1, <2>1, <2>2, <2>3 DEF Insert
<1>2. CASE Lookup(p)
  <2>1. ~BeginFind(p)
    BY DEF BeginFind, Begin, table
  <2>2. ~(Find(p) \/ LoadConfidence(p))
    BY DEF Find, LoadConfidence
  <2> QED BY <1>2, <2>1, <2>2 DEF Lookup
<1>3. CASE Decay(p)
  BY <1>3 DEF Decay, BeginDecay, Begin, table, DecayKey, DecayLoad
<1>4. CASE Read(p)
  <2>1. ~BeginRead(p)
    BY DEF BeginRead, Begin, table
  <2>2. ~(ReadKey(p) \/ Spin(p) \/ ReadVersion(p) \/ CopyKey(p) \/ CopyConfidence(p))
    BY DEF ReadKey, Spin, vars, ReadVersion, CopyKey, CopyConfidence
  <2>3. ~(CopyHalf(p, "copy_lo", "lo", "copy_hi") \/ CopyHalf(p, "copy_hi", "hi", "check_ver"))
    BY DEF CopyHalf
  <2>4. ~CheckVersion(p)
    BY DEF CheckVersion
  <2> QED BY <1>4, <2>1, <2>2, <2>3, <2>4 DEF Read
<1>5. CASE End(p) \/ Crash(p)
  BY <1>5 DEF End, Crash
<1> QED
  BY <1>1, <1>2, <1>3, <1>4, <1>5 DEF Step

\* A slot goes from free to a key and from a key to TOMBSTONE only.
THEOREM KeyDisciplineCorrect == Spec => KeyDiscipline
<1> DEFINE Change == \A i \in Slot : key'[i] # key[i] =>
                        IF Free(key[i]) THEN ~Free(key'[i]) ELSE key'[i] = TOMBSTONE
<1>1. ASSUME IInv, Next PROVE Change
  <2>1. CASE key' = key
    BY <2>1
  <2>2. CASE key' # key
    <3>1. PICK p \in Proc : Step(p) \/ Crash(p)
      BY <1>1, <2>2 DEF Next, Finished, vars
    <3>6. ClaimCAS(p) \/ RemoveCAS(p) \/ DecayCAS(p)
      BY <2>2, <3>1, KeyWriters
    <3>2. CallOK(pc[p], call[p], key) /\ key \in [Slot -> KeyHash]
      BY <1>1, Locals
    <3>3. CASE ClaimCAS(p)
      <4>1. Free(call[p].expected) /\ call[p].e \in Entity
        BY <3>2, <3>3 DEF ClaimCAS, CallOK, WithEntity
      <4>2. ~Free(Key(p))
        BY <4>1, KeyLive DEF Key
      <4> QED BY <2>2, <3>2, <3>3, <4>1, <4>2 DEF ClaimCAS
    <3>4. CASE RemoveCAS(p)
      <4>1. call[p].e \in Entity
        BY <3>2, <3>4 DEF RemoveCAS, CallOK, WithEntity
      <4>2. ~Free(Key(p))
        BY <4>1, KeyLive DEF Key
      <4> QED BY <2>2, <3>2, <3>4, <4>2 DEF RemoveCAS
    <3>5. CASE DecayCAS(p)
      <4>1. ~Free(call[p].expected)
        BY <3>2, <3>5 DEF DecayCAS, CallOK
      <4> QED BY <2>2, <3>2, <3>5, <4>1 DEF DecayCAS
    <3> QED BY <3>6, <3>3, <3>4, <3>5
  <2> QED BY <2>1, <2>2
<1> QED BY <1>1, Inductive, PTL DEF Spec, KeyDiscipline

-----------------------------------------------------------------------------
(* Where a step leaves the process that takes it, and the others.          *)

\* A process changes its own locals only.
LEMMA Alone ==
    ASSUME IInv, NEW p \in Proc, Step(p) \/ Crash(p), NEW r \in Proc, r # p
    PROVE  pc'[r] = pc[r] /\ call'[r] = call[r]
<1> DEFINE Same == pc'[r] = pc[r] /\ call'[r] = call[r]
<1>a. pc \in [Proc -> Label] /\ call \in [Proc -> Call]
  BY Locals
<1>b. ASSUME NEW l, Goto(p, l) PROVE pc'[r] = pc[r]
  BY <1>a, <1>b DEF Goto
<1>c. ASSUME NEW v, Return(p, v) PROVE Same
  BY <1>a, <1>b, <1>c DEF Return
<1>d. ASSUME NEW c, NEW l, Begin(p, c, l) PROVE Same
  BY <1>a, <1>b, <1>d DEF Begin
<1>1. CASE Insert(p)
  <2>1. CASE BeginInsert(p)
    BY <1>d, <2>1 DEF BeginInsert
  <2>2. CASE Scan(p)
    <3>1. ASSUME NEW a, AfterScan(p, a) PROVE Same
      BY <1>a, <1>b, <1>c, <3>1 DEF AfterScan
    <3> QED BY <1>a, <1>b, <2>2, <3>1 DEF Scan
  <2>3. CASE Add(p) \/ AddSrc(p) \/ Claim(p) \/ ClaimCAS(p)
    BY <1>a, <1>b, <1>c, <2>3 DEF Add, AddSrc, Claim, ClaimCAS
  <2>4. CASE LoadVersion(p) \/ Write(p)
    BY <1>a, <1>b, <2>4 DEF LoadVersion, Write
  <2>5. CASE Unlock(p) \/ SetConfidence(p) \/ SetSrc(p)
    BY <1>a, <1>b, <1>c, <2>5 DEF Unlock, SetConfidence, SetSrc
  <2> QED BY <1>1, <2>1, <2>2, <2>3, <2>4, <2>5 DEF Insert
<1>2. CASE Lookup(p)
  BY <1>a, <1>b, <1>c, <1>d, <1>2 DEF Lookup, BeginFind, Find, LoadConfidence, RemoveCAS
<1>3. CASE Decay(p)
  <2>1. ASSUME NEW n, NextSlot(p, n) PROVE Same
    BY <1>a, <1>b, <2>1 DEF NextSlot
  <2> QED BY <1>a, <1>b, <1>d, <1>3, <2>1 DEF Decay, BeginDecay, DecayKey, DecayLoad, DecayCAS
<1>4. CASE Read(p)
  <2>1. CASE BeginRead(p)
    BY <1>d, <2>1 DEF BeginRead
  <2>2. CASE ReadKey(p) \/ Spin(p) \/ ReadVersion(p) \/ CopyKey(p) \/ CopyConfidence(p)
    BY <1>a, <1>b, <1>c, <2>2 DEF ReadKey, Spin, vars, ReadVersion, CopyKey, CopyConfidence
  <2>3. ASSUME NEW l, NEW h, NEW t, CopyHalf(p, l, h, t) PROVE Same
    BY <1>a, <1>b, <2>3 DEF CopyHalf
  <2>4. CASE CheckVersion(p)
    BY <1>a, <1>b, <1>c, <2>4 DEF CheckVersion
  <2> QED BY <1>4, <2>1, <2>2, <2>3, <2>4 DEF Read
<1>5. CASE End(p) \/ Crash(p)
  BY <1>a, <1>b, <1>5 DEF End, Crash
<1> QED BY <1>1, <1>2, <1>3, <1>4, <1>5 DEF Step

-----------------------------------------------------------------------------
(* No probe loop misses an entry that was there all the time.              *)

\* What the locals c at label l say about the slots H that have held the key since
\* the call began: the probe loop has not passed one, and it missed none.
HoldOK(l, c, H) ==
    /\ l \in {"scan", "find"} =>
          \A m \in 0..(c.probe - 1) : ProbeSlot(entity_key_hash(c.e), m) \notin H
    /\ l = "claim" => H = {}
    /\ l = "ret" /\ c.e # NoEntity /\ c.avail = NoSlot => H = {}
    /\ l \in Decaying => c.e = NoEntity

HeldNow(p) == /\ held[p] \subseteq Slot
              /\ \A i \in held[p] : key[i] = Key(p)
              /\ call[p].e = NoEntity => held[p] = {}

HInv == IInv /\ \A p \in Proc : HeldNow(p) /\ HoldOK(pc[p], call[p], held[p])

\* The history variable forgets slots and never learns one during a call.
LEMMA HeldStep ==
    ASSUME HoldNext, NEW p \in Proc, HeldNow(p)
    PROVE  /\ HeldNow(p)'
           /\ call[p].e # NoEntity => held'[p] \subseteq held[p]
<1>1. held'[p] = IF call'[p].e = NoEntity THEN {}
                 ELSE {i \in (IF call[p].e = NoEntity THEN Slot ELSE held[p]) :
                          key'[i] = entity_key_hash(call'[p].e)}
  BY DEF HoldNext
<1> QED BY <1>1 DEF HeldNow, Key

\* A probe loop that ends without a match has passed every slot the chain of its
\* key could reach, so none has held the key all the time.
LEMMA MissedAll ==
    ASSUME HInv, NEW p \in Proc, pc[p] \in {"scan", "find"}, key[At(p)] # Key(p),
           key[At(p)] = EMPTY \/ call[p].probe + 1 = PROBE_MAX
    PROVE  held[p] = {}
<1> SUFFICES ASSUME NEW i \in held[p] PROVE FALSE
  OBVIOUS
<1>1. /\ call[p] \in Call /\ CallOK(pc[p], call[p], key) /\ Reachable
      /\ HeldNow(p) /\ HoldOK(pc[p], call[p], held[p])
  BY Locals DEF HInv, IInv
<1>2. call[p].e \in Entity /\ call[p].probe \in Nat /\ call[p].probe < PROBE_MAX
  BY <1>1 DEF CallOK, WithEntity, Call
<1>3. i \in Slot /\ key[i] = Key(p) /\ ~Free(key[i])
  BY <1>1, <1>2, KeyLive DEF HeldNow, Key
<1>4. PICK n \in 0..(PROBE_MAX - 1) :
          /\ i = ProbeSlot(Key(p), n)
          /\ \A m \in 0..(n - 1) : key[ProbeSlot(Key(p), m)] # EMPTY
  BY <1>1, <1>3 DEF Reachable, ChainTo
<1>5. n \in Nat /\ n < PROBE_MAX
  BY <1>4, ProbeMaxAssumption
<1>6. ~ (n < call[p].probe)
  <2>1. \A m \in 0..(call[p].probe - 1) : ProbeSlot(Key(p), m) \notin held[p]
    BY <1>1 DEF HoldOK, Key
  <2> QED BY <1>2, <1>4, <1>5, <2>1
<1>7. n # call[p].probe
  BY <1>3, <1>4 DEF At
<1>8. call[p].probe \in 0..(n - 1)
  BY <1>2, <1>5, <1>6, <1>7
<1>9. key[At(p)] # EMPTY
  BY <1>4, <1>8 DEF At
<1>10. call[p].probe + 1 # PROBE_MAX
  BY <1>2, <1>5, <1>8, ProbeMaxAssumption
<1> QED BY <1>9, <1>10

\* One iteration of a probe loop that goes on.
LEMMA PassedOn ==
    ASSUME HInv, HoldNext, NEW p \in Proc, pc[p] \in {"scan", "find"}, key[At(p)] # Key(p),
           pc'[p] = pc[p], call'[p].e = call[p].e, call'[p].probe = call[p].probe + 1
    PROVE  HoldOK(pc'[p], call'[p], held'[p])
<1>1. /\ call[p] \in Call /\ CallOK(pc[p], call[p], key)
      /\ HeldNow(p) /\ HoldOK(pc[p], call[p], held[p])
  BY Locals DEF HInv, IInv
<1>2. call[p].e \in Entity /\ call[p].probe \in Nat
  BY <1>1 DEF CallOK, WithEntity, Call
<1>3. held'[p] \subseteq held[p]
  BY <1>1, <1>2, HeldStep, NoEntityAssumption
<1>4. At(p) \notin held[p]
  BY <1>1 DEF HeldNow
<1>5. ASSUME NEW m \in 0..call[p].probe PROVE ProbeSlot(Key(p), m) \notin held[p]
  <2>1. CASE m = call[p].probe
    BY <1>4, <2>1 DEF At
  <2>2. CASE m # call[p].probe
    <3>1. m \in 0..(call[p].probe - 1)
      BY <1>2, <2>2
    <3> QED BY <1>1, <3>1 DEF HoldOK, Key
  <2> QED BY <2>1, <2>2
<1>6. \A m \in 0..(call'[p].probe - 1) : ProbeSlot(entity_key_hash(call'[p].e), m) \notin held'[p]
  BY <1>2, <1>3, <1>5 DEF Key
<1> QED BY <1>6 DEF HoldOK, Decaying

LEMMA HoldScan ==
    ASSUME HInv, HoldNext, NEW p \in Proc, Scan(p)
    PROVE  HoldOK(pc'[p], call'[p], held'[p])
<1> DEFINE k == key[At(p)]
           a == IF Free(k) /\ call[p].avail = NoSlot THEN At(p) ELSE call[p].avail
<1>1. /\ call[p] \in Call /\ CallOK("scan", call[p], key) /\ pc[p] = "scan"
      /\ call \in [Proc -> Call] /\ pc \in [Proc -> Label] /\ HeldNow(p)
  BY Locals DEF HInv, IInv, Scan
<1>2. call[p].e \in Entity
  BY <1>1 DEF CallOK, WithEntity
<1>3. held'[p] \subseteq held[p]
  BY <1>1, <1>2, HeldStep, NoEntityAssumption
<1>4. CASE k = Key(p)
  <2>1. pc'[p] = "add"
    BY <1>1, <1>4 DEF Scan, Goto
  <2> QED BY <2>1 DEF HoldOK, Decaying
<1>5. CASE k # Key(p) /\ (k = EMPTY \/ call[p].probe + 1 = PROBE_MAX)
  <2>1. held'[p] = {}
    BY <1>1, <1>3, <1>5, MissedAll
  <2>2. AfterScan(p, a)
    BY <1>5 DEF Scan
  <2> HIDE DEF a
  <2>3. pc'[p] \in {"ret", "claim"}
    BY <1>1, <2>2 DEF AfterScan, Goto, Return
  <2> QED BY <2>1, <2>3 DEF HoldOK, Decaying
<1>6. CASE k # Key(p) /\ k # EMPTY /\ call[p].probe + 1 # PROBE_MAX
  <2>1. /\ call' = [call EXCEPT ![p].probe = @ + 1, ![p].avail = a] /\ pc' = pc
    BY <1>6 DEF Scan
  <2> HIDE DEF a
  <2>2. call'[p].e = call[p].e /\ call'[p].probe = call[p].probe + 1
    BY <1>1, <2>1 DEF Call
  <2> QED BY <1>1, <1>6, <2>1, <2>2, PassedOn
<1> QED BY <1>4, <1>5, <1>6

LEMMA HoldFind ==
    ASSUME HInv, HoldNext, NEW p \in Proc, Find(p)
    PROVE  HoldOK(pc'[p], call'[p], held'[p])
<1> DEFINE k == key[At(p)]
<1>1. /\ call[p] \in Call /\ CallOK("find", call[p], key) /\ pc[p] = "find"
      /\ call \in [Proc -> Call] /\ pc \in [Proc -> Label] /\ HeldNow(p)
  BY Locals DEF HInv, IInv, Find
<1>2. call[p].e \in Entity
  BY <1>1 DEF CallOK, WithEntity
<1>3. held'[p] \subseteq held[p]
  BY <1>1, <1>2, HeldStep, NoEntityAssumption
<1>4. CASE k = Key(p)
  <2>1. pc'[p] \in {"remove_cas", "load_conf"}
    BY <1>1, <1>4 DEF Find, Goto
  <2> QED BY <2>1 DEF HoldOK, Decaying
<1>5. CASE k # Key(p) /\ (k = EMPTY \/ call[p].probe + 1 = PROBE_MAX)
  <2>1. held'[p] = {}
    BY <1>1, <1>3, <1>5, MissedAll
  <2>2. pc'[p] = "ret"
    BY <1>1, <1>5 DEF Find, Goto, Return
  <2> QED BY <2>1, <2>2 DEF HoldOK, Decaying
<1>6. CASE k # Key(p) /\ k # EMPTY /\ call[p].probe + 1 # PROBE_MAX
  <2>1. call' = [call EXCEPT ![p].probe = @ + 1] /\ pc' = pc
    BY <1>6 DEF Find
  <2>2. call'[p].e = call[p].e /\ call'[p].probe = call[p].probe + 1
    BY <1>1, <2>1 DEF Call
  <2> QED BY <1>1, <1>6, <2>1, <2>2, PassedOn
<1> QED BY <1>4, <1>5, <1>6

LEMMA HoldMine ==
    ASSUME HInv, HoldNext, NEW p \in Proc, Step(p) \/ Crash(p), ~ Spin(p)
    PROVE  HoldOK(pc'[p], call'[p], held'[p])
<1> DEFINE Goal == HoldOK(pc'[p], call'[p], held'[p])
<1>a. /\ call[p] \in Call /\ CallOK(pc[p], call[p], key)
      /\ call \in [Proc -> Call] /\ pc \in [Proc -> Label]
      /\ HoldOK(pc[p], call[p], held[p])
  BY Locals DEF HInv, IInv
<1>b. ASSUME pc'[p] \notin {"scan", "find", "claim"} \cup Decaying,
             pc'[p] = "ret" => call'[p].avail \in Slot \/ call'[p].e = NoEntity
      PROVE  Goal
  <2>1. NoSlot \notin Slot
    BY CapacityAssumption DEF NoSlot, Slot
  <2> QED BY <1>b, <2>1 DEF HoldOK
<1>c. ASSUME NEW v, Return(p, v)
      PROVE pc'[p] = "ret" /\ call'[p].avail = call[p].avail /\ call'[p].e = call[p].e
  BY <1>a, <1>c DEF Return, Goto, Call
<1>d. ASSUME NEW l, Goto(p, l) PROVE pc'[p] = l
  BY <1>a, <1>d DEF Goto
<1>e. ASSUME NEW c, NEW l, Begin(p, c, l) PROVE pc'[p] = l /\ call'[p] = c
  BY <1>a, <1>d, <1>e DEF Begin
<1>f. pc[p] \in WithSlot => call[p].avail \in Slot
  BY <1>a DEF CallOK
<1>1. CASE Insert(p)
  <2>1. CASE BeginInsert(p)
    <3>1. PICK op \in {"deposit", "reinforce"}, e \in Entity, d \in Delta :
              Begin(p, [NoCall EXCEPT !.op = op, !.e = e, !.delta = d], "scan")
      BY <2>1 DEF BeginInsert
    <3>2. pc'[p] = "scan" /\ call'[p] = [NoCall EXCEPT !.op = op, !.e = e, !.delta = d]
      BY <1>e, <3>1
    <3>3. call'[p].probe = 0
      BY <3>2 DEF NoCall
    <3> QED BY <3>2, <3>3 DEF HoldOK, Decaying
  <2>2. CASE Scan(p)
    BY <2>2, HoldScan
  <2>3. CASE Add(p)
    <3>1. pc'[p] = "ret" \/ pc'[p] = "add_src"
      BY <1>c, <1>d, <2>3 DEF Add
    <3>2. call'[p].avail = call[p].avail
      BY <1>a, <1>c, <2>3 DEF Add, Call
    <3> QED BY <1>b, <1>f, <2>3, <3>1, <3>2 DEF Add, WithSlot, Decaying
  <2>4. CASE AddSrc(p)
    BY <1>b, <1>d, <1>f, <2>4 DEF AddSrc, WithSlot, Decaying
  <2>5. CASE Claim(p)
    <3>1. pc'[p] = "cas" \/ (pc'[p] = "ret" /\ call'[p].avail = call[p].avail)
      BY <1>c, <1>d, <2>5 DEF Claim
    <3> QED BY <1>b, <1>f, <2>5, <3>1 DEF Claim, WithSlot, Decaying
  <2>6. CASE ClaimCAS(p)
    <3>1. pc'[p] \in {"load_ver", "add"} \/ (pc'[p] = "ret" /\ call'[p].avail = call[p].avail)
      BY <1>c, <1>d, <2>6 DEF ClaimCAS
    <3> QED BY <1>b, <1>f, <2>6, <3>1 DEF ClaimCAS, WithSlot, Decaying
  <2>7. CASE LoadVersion(p) \/ Write(p) \/ Unlock(p) \/ SetConfidence(p)
    <3>1. pc'[p] \in {"write", "unlock", "set_conf", "set_src"}
      BY <1>d, <2>7 DEF LoadVersion, Write, Unlock, SetConfidence
    <3> QED BY <1>b, <3>1 DEF Decaying
  <2>8. CASE SetSrc(p)
    BY <1>b, <1>c, <1>f, <2>8 DEF SetSrc, WithSlot, Decaying
  <2> QED BY <1>1, <2>1, <2>2, <2>3, <2>4, <2>5, <2>6, <2>7, <2>8 DEF Insert
<1>2. CASE Lookup(p)
  <2>1. CASE BeginFind(p)
    <3>1. PICK op \in {"remove", "lookup"}, e \in Entity :
              Begin(p, [NoCall EXCEPT !.op = op, !.e = e], "find")
      BY <2>1 DEF BeginFind
    <3>2. pc'[p] = "find" /\ call'[p] = [NoCall EXCEPT !.op = op, !.e = e]
      BY <1>e, <3>1
    <3>3. call'[p].probe = 0
      BY <3>2 DEF NoCall
    <3> QED BY <3>2, <3>3 DEF HoldOK, Decaying
  <2>2. CASE Find(p)
    BY <2>2, HoldFind
  <2>3. CASE LoadConfidence(p) \/ RemoveCAS(p)
    BY <1>b, <1>c, <1>f, <2>3 DEF LoadConfidence, RemoveCAS, WithSlot, Decaying
  <2> QED BY <1>2, <2>1, <2>2, <2>3 DEF Lookup
<1>3. CASE Decay(p)
  <2>1. CASE BeginDecay(p)
    <3>1. call'[p].e = NoEntity /\ pc'[p] = "decay_key"
      BY <1>e, <2>1 DEF BeginDecay, NoCall
    <3> QED BY <3>1 DEF HoldOK
  <2>2. CASE DecayKey(p) \/ DecayLoad(p) \/ DecayCAS(p)
    <3>1. call[p].e = NoEntity
      BY <1>a, <2>2 DEF HoldOK, DecayKey, DecayLoad, DecayCAS, Decaying
    <3>2. call'[p].e = call[p].e
      BY <1>a, <2>2 DEF DecayKey, DecayLoad, DecayCAS, NextSlot, Call
    <3>3. pc'[p] \in {"ret"} \cup Decaying
      BY <1>d, <2>2 DEF DecayKey, DecayLoad, DecayCAS, NextSlot, Decaying
    <3> QED BY <3>1, <3>2, <3>3 DEF HoldOK, Decaying
  <2> QED BY <1>3, <2>1, <2>2 DEF Decay
<1>4. CASE Read(p)
  <2>1. CASE BeginRead(p)
    BY <1>b, <1>e, <2>1 DEF BeginRead, Decaying
  <2>2. CASE ReadKey(p)
    BY <1>b, <1>c, <1>d, <1>f, <2>2 DEF ReadKey, WithSlot, Decaying
  <2>3. CASE ReadVersion(p) \/ CopyKey(p) \/ CopyConfidence(p)
    <3>1. pc'[p] \in {"copy_key", "copy_conf", "copy_lo"}
      BY <1>d, <2>3 DEF ReadVersion, CopyKey, CopyConfidence
    <3> QED BY <1>b, <3>1 DEF Decaying
  <2>4. CASE CopyHalf(p, "copy_lo", "lo", "copy_hi") \/ CopyHalf(p, "copy_hi", "hi", "check_ver")
    <3>1. pc'[p] \in {"copy_hi", "check_ver"}
      BY <1>d, <2>4 DEF CopyHalf
    <3> QED BY <1>b, <3>1 DEF Decaying
  <2>5. CASE CheckVersion(p)
    BY <1>b, <1>c, <1>d, <1>f, <2>5 DEF CheckVersion, WithSlot, Decaying
  <2> QED BY <1>4, <2>1, <2>2, <2>3, <2>4, <2>5 DEF Read
<1>5. CASE End(p) \/ Crash(p)
  <2>1. pc'[p] \in {"idle", "dead"}
    BY <1>d, <1>5 DEF End, Crash
  <2> QED BY <1>b, <2>1 DEF Decaying
<1> QED BY <1>1, <1>2, <1>3, <1>4, <1>5 DEF Step

LEMMA HInvStep == HInv /\ [HoldNext]_<<vars, held>> => HInv'
<1> SUFFICES ASSUME HInv, [HoldNext]_<<vars, held>> PROVE HInv'
  OBVIOUS
<1>1. CASE UNCHANGED <<vars, held>>
  <2>1. IInv'
    BY <1>1, IInvStep DEF HInv
  <2>2. pc' = pc /\ call' = call /\ key' = key /\ held' = held
    BY <1>1 DEF vars
  <2>3. ASSUME NEW p \in Proc PROVE HeldNow(p)' /\ HoldOK(pc'[p], call'[p], held'[p])
    BY <2>2 DEF HInv, HeldNow, Key
  <2> QED BY <2>1, <2>3 DEF HInv
<1>2. CASE HoldNext
  <2>1. IInv'
    BY <1>2, IInvStep DEF HInv, HoldNext
  <2>2. ASSUME NEW p \in Proc, pc'[p] = pc[p], call'[p] = call[p]
        PROVE  HoldOK(pc'[p], call'[p], held'[p])
    <3>1. held'[p] \subseteq held[p]
      BY <1>2, <2>2, HeldStep DEF HInv, HeldNow
    <3>2. HoldOK(pc[p], call[p], held[p])
      BY DEF HInv
    <3> QED BY <2>2, <3>1, <3>2 DEF HoldOK
  <2>3. ASSUME NEW p \in Proc PROVE HoldOK(pc'[p], call'[p], held'[p])
    <3>1. CASE UNCHANGED vars
      BY <2>2, <3>1 DEF vars
    <3>2. CASE ~ UNCHANGED vars
      <4>1. PICK q \in Proc : Step(q) \/ Crash(q)
        BY <1>2, <3>2 DEF HoldNext, Next, Finished
      <4>2. ~ Spin(q)
        BY <3>2 DEF Spin
      <4>3. CASE p = q
        BY <1>2, <4>1, <4>2, <4>3, HoldMine
      <4>4. CASE p # q
        BY <2>2, <4>1, <4>4, Alone DEF HInv
      <4> QED BY <4>3, <4>4
    <3> QED BY <3>1, <3>2
  <2>4. ASSUME NEW p \in Proc PROVE HeldNow(p)'
    BY <1>2, HeldStep DEF HInv
  <2> QED BY <2>1, <2>3, <2>4 DEF HInv
<1> QED BY <1>1, <1>2

\* A lookup or removal that reports "absent", and a deposit that inserts anew or
\* gives up, never overlooks an entry that was in the table during the whole call,
\* whatever claims, tombstones and deaths of processes happen meanwhile.
THEOREM NoFalseMissCorrect == HoldSpec => []NoFalseMiss
<1>1. HoldInit => HInv
  <2> SUFFICES ASSUME HoldInit PROVE HInv
    OBVIOUS
  <2>1. IInv
    BY IInvInit DEF HoldInit
  <2>2. \A p \in Proc : pc[p] = "idle" /\ held[p] = {}
    BY DEF HoldInit, Init
  <2> QED BY <2>1, <2>2 DEF HInv, HeldNow, HoldOK, Decaying
<1>2. HInv => NoFalseMiss
  BY DEF HInv, HoldOK, NoFalseMiss, Missed
<1> QED BY <1>1, <1>2, HInvStep, PTL DEF HoldSpec

-----------------------------------------------------------------------------
(* Tables from which nothing is evicted: no process removes, none decays.  *)

NoEvictions == \A p \in Proc : May[p] \cap {"remove", "decay"} = {}

ReadLabel == {"read_key", "read_ver", "copy_key", "copy_conf", "copy_lo", "copy_hi", "check_ver"}

\* The n-th slot of k's probe sequence is reached through slots of other entities.
PastOthers(ky, k, n) ==
    \A m \in 0..(n - 1) : ky[ProbeSlot(k, m)] # EMPTY /\ ky[ProbeSlot(k, m)] # k

\* Without tombstones the first free slot is where the chain of the key ends.
FreshOK(l, c, ky) ==
    LET k == entity_key_hash(c.e)
    IN  /\ l \notin Decaying \cup {"remove_cas"}
        /\ c.op # "remove"
        /\ l \notin ReadLabel \cup {"ret"} => c.op # "read"
        /\ l = "scan" => c.avail = NoSlot /\ PastOthers(ky, k, c.probe)
        /\ l \in {"claim", "cas"} =>
              \E n \in 0..(PROBE_MAX - 1) : c.avail = ProbeSlot(k, n) /\ PastOthers(ky, k, n)
        /\ l = "cas" => c.expected = EMPTY

NoTombs == \A i \in Slot : key[i] # TOMBSTONE

UInv == /\ IInv /\ NoTombs /\ UniqueKey
        /\ \A p \in Proc : FreshOK(pc[p], call[p], key)

\* An occupied slot keeps its key; a claim takes an empty one.
LEMMA KeysStay ==
    ASSUME UInv, NEW p \in Proc, Step(p) \/ Crash(p)
    PROVE  \/ key' = key
           \/ /\ ClaimCAS(p) /\ key[call[p].avail] = EMPTY
              /\ key' = [key EXCEPT ![call[p].avail] = Key(p)]
<1>1. FreshOK(pc[p], call[p], key)
  BY DEF UInv
<1>2. ~ RemoveCAS(p) /\ ~ DecayCAS(p)
  BY <1>1 DEF FreshOK, RemoveCAS, DecayCAS, Decaying
<1>3. CASE key' # key
  <2>1. ClaimCAS(p)
    BY <1>2, <1>3, KeyWriters
  <2>2. call[p].expected = EMPTY
    BY <1>1, <2>1 DEF FreshOK, ClaimCAS
  <2> QED BY <1>3, <2>1, <2>2 DEF ClaimCAS
<1> QED BY <1>3

\* What a process has seen of occupied slots stays so.
LEMMA FreshStays ==
    ASSUME NEW l, NEW c \in Call, NEW ky, NEW kz, FreshOK(l, c, ky),
           l \in {"scan", "claim", "cas"} => c.e \in Entity,
           \A i \in Slot : ky[i] # EMPTY => kz[i] = ky[i]
    PROVE  FreshOK(l, c, kz)
<1> DEFINE k == entity_key_hash(c.e)
<1>1. ASSUME c.e \in Entity, NEW n \in Nat, PastOthers(ky, k, n) PROVE PastOthers(kz, k, n)
  <2>1. ASSUME NEW m \in 0..(n - 1) PROVE kz[ProbeSlot(k, m)] = ky[ProbeSlot(k, m)]
    <3>1. m \in Nat /\ k \in Nat
      BY <1>1, KeyLive
    <3>2. ProbeSlot(k, m) \in Slot
      BY <3>1, ProbeSlotIn
    <3> QED BY <1>1, <3>2 DEF PastOthers
  <2> QED BY <1>1, <2>1 DEF PastOthers
<1>2. c.probe \in Nat
  BY DEF Call
<1>3. l = "scan" => PastOthers(kz, k, c.probe)
  BY <1>1, <1>2 DEF FreshOK
<1>4. ASSUME l \in {"claim", "cas"}
      PROVE \E n \in 0..(PROBE_MAX - 1) : c.avail = ProbeSlot(k, n) /\ PastOthers(kz, k, n)
  <2>1. PICK n \in 0..(PROBE_MAX - 1) : c.avail = ProbeSlot(k, n) /\ PastOthers(ky, k, n)
    BY <1>4 DEF FreshOK
  <2>2. n \in Nat
    BY ProbeMaxAssumption
  <2> QED BY <1>1, <1>4, <2>1, <2>2
<1> QED BY <1>3, <1>4 DEF FreshOK

\* The claim of an empty slot: the key is nowhere else, for its chain would lead
\* through this slot or through one that holds another key.
LEMMA ClaimUnique ==
    ASSUME UInv, NEW p \in Proc, pc[p] = "cas", key[call[p].avail] = EMPTY, NEW j \in Slot
    PROVE  key[j] # Key(p)
<1> SUFFICES ASSUME key[j] = Key(p) PROVE FALSE
  OBVIOUS
<1>1. CallOK("cas", call[p], key) /\ FreshOK("cas", call[p], key) /\ Reachable
  BY Locals DEF UInv, IInv
<1>2. call[p].e \in Entity
  BY <1>1 DEF CallOK, WithEntity
<1>3. ~Free(key[j])
  BY <1>2, KeyLive DEF Key
<1>4. PICK n \in 0..(PROBE_MAX - 1) :
          call[p].avail = ProbeSlot(Key(p), n) /\ PastOthers(key, Key(p), n)
  BY <1>1 DEF FreshOK, Key
<1>5. PICK q \in 0..(PROBE_MAX - 1) :
          /\ j = ProbeSlot(Key(p), q)
          /\ \A m \in 0..(q - 1) : key[ProbeSlot(Key(p), m)] # EMPTY
  BY <1>3 , <1>1 DEF Reachable, ChainTo
<1>6. n \in Nat /\ q \in Nat
  BY ProbeMaxAssumption
<1>7. CASE q < n
  BY <1>4, <1>5, <1>6, <1>7 DEF PastOthers
<1>8. CASE q = n
  BY <1>3, <1>4, <1>5, <1>8 DEF Free
<1>9. CASE n < q
  BY <1>4, <1>5, <1>6, <1>9
<1> QED BY <1>6, <1>7, <1>8, <1>9

LEMMA FreshScan ==
    ASSUME UInv, NEW p \in Proc, Scan(p)
    PROVE  FreshOK(pc'[p], call'[p], key)
<1> DEFINE k == key[At(p)]
           a == IF Free(k) /\ call[p].avail = NoSlot THEN At(p) ELSE call[p].avail
<1>1. /\ call[p] \in Call /\ CallOK("scan", call[p], key) /\ FreshOK("scan", call[p], key)
      /\ pc[p] = "scan" /\ call \in [Proc -> Call] /\ pc \in [Proc -> Label]
      /\ key \in [Slot -> KeyHash]
  BY Locals DEF UInv, IInv, Scan
<1>2. /\ call[p].e \in Entity /\ call[p].probe \in Nat /\ call[p].probe < PROBE_MAX
      /\ call[p].avail = NoSlot /\ PastOthers(key, Key(p), call[p].probe)
      /\ call[p].op # "remove" /\ call[p].op # "read"
  BY <1>1 DEF CallOK, WithEntity, Call, FreshOK, Key, ReadLabel
<1>3. At(p) \in Slot /\ At(p) = ProbeSlot(Key(p), call[p].probe)
  BY <1>2, KeyLive, ProbeSlotIn DEF Key, At
<1>4. k # TOMBSTONE
  BY <1>3 DEF UInv, NoTombs
<1>5. CASE k = Key(p)
  <2>1. pc'[p] = "add" /\ call'[p].op = call[p].op
    BY <1>1, <1>5 DEF Scan, Goto, Call
  <2> QED BY <1>2, <2>1 DEF FreshOK, Decaying
<1>6. CASE k # Key(p) /\ k = EMPTY
  <2>1. a = At(p) /\ a # NoSlot
    BY <1>2, <1>3, <1>6, CapacityAssumption DEF Free, NoSlot, Slot
  <2>2. AfterScan(p, a)
    BY <1>6 DEF Scan
  <2> HIDE DEF a
  <2>3. /\ pc'[p] = "claim" /\ call'[p].avail = a /\ call'[p].e = call[p].e
        /\ call'[p].op = call[p].op
    BY <1>1, <2>1, <2>2 DEF AfterScan, Goto, Call
  <2>4. call[p].probe \in 0..(PROBE_MAX - 1)
    BY <1>2, ProbeMaxAssumption
  <2> QED BY <1>2, <1>3, <2>1, <2>3, <2>4 DEF FreshOK, Decaying, Key
<1>7. CASE k # Key(p) /\ k # EMPTY
  <2>1. a = NoSlot
    BY <1>2, <1>4, <1>7 DEF Free
  <2>2. CASE call[p].probe + 1 = PROBE_MAX
    <3>1. AfterScan(p, a)
      BY <1>7, <2>2 DEF Scan
    <3> HIDE DEF a
    <3>2. pc'[p] = "ret" /\ call'[p].op = call[p].op
      BY <1>1, <2>1, <3>1 DEF AfterScan, Goto, Return, Call
    <3> QED BY <1>2, <3>2 DEF FreshOK, Decaying
  <2>3. CASE call[p].probe + 1 # PROBE_MAX
    <3>1. call' = [call EXCEPT ![p].probe = @ + 1, ![p].avail = a] /\ pc' = pc
      BY <1>7, <2>3 DEF Scan
    <3> HIDE DEF a
    <3>2. /\ call'[p].e = call[p].e /\ call'[p].probe = call[p].probe + 1
          /\ call'[p].avail = NoSlot /\ call'[p].op = call[p].op
      BY <1>1, <2>1, <3>1 DEF Call
    <3>3. PastOthers(key, Key(p), call[p].probe + 1)
      BY <1>2, <1>3, <1>7 DEF PastOthers
    <3> QED BY <1>1, <1>2, <3>1, <3>2, <3>3 DEF FreshOK, Decaying, Key
  <2> QED BY <2>2, <2>3
<1> QED BY <1>5, <1>6, <1>7

LEMMA FreshMine ==
    ASSUME NoEvictions, UInv, NEW p \in Proc, Step(p) \/ Crash(p), ~ Spin(p)
    PROVE  FreshOK(pc'[p], call'[p], key')
<1> DEFINE Goal == FreshOK(pc'[p], call'[p], key')
<1>a. /\ call[p] \in Call /\ FreshOK(pc[p], call[p], key)
      /\ call \in [Proc -> Call] /\ pc \in [Proc -> Label] /\ CallOK(pc[p], call[p], key)
  BY Locals DEF UInv, IInv
<1>b. ASSUME pc'[p] \notin {"scan", "claim", "cas", "remove_cas"} \cup Decaying,
             call'[p].op # "remove",
             pc'[p] \notin ReadLabel \cup {"ret"} => call'[p].op # "read"
      PROVE  Goal
  BY <1>b DEF FreshOK
<1>c. ASSUME NEW v, Return(p, v) PROVE pc'[p] = "ret" /\ call'[p].op = call[p].op
  BY <1>a, <1>c DEF Return, Goto, Call
<1>d. ASSUME NEW l, Goto(p, l) PROVE pc'[p] = l
  BY <1>a, <1>d DEF Goto
<1>e. ASSUME NEW c, NEW l, Begin(p, c, l)
      PROVE  pc'[p] = l /\ call'[p] = c /\ c.op # "remove" /\ c.op # "decay"
  BY <1>a, <1>d, <1>e DEF Begin, NoEvictions
<1>f. call[p].op # "remove" /\ (pc[p] \notin ReadLabel \cup {"ret"} => call[p].op # "read")
  BY <1>a DEF FreshOK
<1>1. CASE Insert(p)
  <2>1. CASE BeginInsert(p)
    <3>1. PICK op \in {"deposit", "reinforce"}, e \in Entity, d \in Delta :
              Begin(p, [NoCall EXCEPT !.op = op, !.e = e, !.delta = d], "scan")
      BY <2>1 DEF BeginInsert
    <3>2. pc'[p] = "scan" /\ call'[p] = [NoCall EXCEPT !.op = op, !.e = e, !.delta = d]
      BY <1>e, <3>1
    <3>3. call'[p].probe = 0 /\ call'[p].avail = NoSlot /\ call'[p].op = op
      BY <3>2 DEF NoCall
    <3>4. PastOthers(key', entity_key_hash(call'[p].e), 0)
      BY DEF PastOthers
    <3> QED BY <3>2, <3>3, <3>4 DEF FreshOK, Decaying
  <2>2. CASE Scan(p)
    BY <2>2, FreshScan DEF Scan
  <2>3. CASE Add(p)
    <3>1. pc'[p] \in {"ret", "add_src"} /\ call'[p].op = call[p].op
      BY <1>a, <1>c, <1>d, <2>3 DEF Add, Call
    <3> QED BY <1>b, <1>f, <2>3, <3>1 DEF Add, ReadLabel, Decaying
  <2>4. CASE AddSrc(p)
    BY <1>b, <1>d, <1>f, <2>4 DEF AddSrc, ReadLabel, Decaying
  <2>5. CASE Claim(p)
    <3>1. CASE Free(key[call[p].avail])
      <4>1. /\ pc'[p] = "cas" /\ call'[p].expected = key[call[p].avail]
            /\ call'[p].avail = call[p].avail /\ call'[p].e = call[p].e
            /\ call'[p].op = call[p].op /\ key' = key
        BY <1>a, <1>d, <2>5, <3>1 DEF Claim, Call
      <4>2. key[call[p].avail] = EMPTY
        <5>1. call[p].avail \in Slot
          BY <1>a, <2>5 DEF CallOK, Claim, WithSlot
        <5> QED BY <3>1, <5>1 DEF UInv, NoTombs, Free
      <4>3. FreshOK("claim", call[p], key)
        BY <1>a, <2>5 DEF Claim
      <4> QED BY <4>1, <4>2, <4>3 DEF FreshOK, Decaying, ReadLabel
    <3>2. CASE ~Free(key[call[p].avail])
      BY <1>b, <1>c, <1>f, <2>5, <3>2 DEF Claim, ReadLabel, Decaying
    <3> QED BY <3>1, <3>2
  <2>6. CASE ClaimCAS(p)
    <3>1. pc'[p] \in {"load_ver", "add", "ret"} /\ call'[p].op = call[p].op
      BY <1>c, <1>d, <2>6 DEF ClaimCAS
    <3> QED BY <1>b, <1>f, <2>6, <3>1 DEF ClaimCAS, ReadLabel, Decaying
  <2>7. CASE LoadVersion(p) \/ Write(p) \/ Unlock(p) \/ SetConfidence(p)
    <3>1. pc'[p] \in {"write", "unlock", "set_conf", "set_src"}
      BY <1>d, <2>7 DEF LoadVersion, Write, Unlock, SetConfidence
    <3>2. call'[p].op = call[p].op
      BY <1>a, <2>7 DEF LoadVersion, Write, Unlock, SetConfidence, Call
    <3> QED BY <1>b, <1>f, <2>7, <3>1, <3>2
            DEF LoadVersion, Write, Unlock, SetConfidence, ReadLabel, Decaying
  <2>8. CASE SetSrc(p)
    BY <1>b, <1>c, <1>f, <2>8 DEF SetSrc, ReadLabel, Decaying
  <2> QED BY <1>1, <2>1, <2>2, <2>3, <2>4, <2>5, <2>6, <2>7, <2>8 DEF Insert
<1>2. CASE Lookup(p)
  <2>1. CASE BeginFind(p)
    <3>1. PICK op \in {"remove", "lookup"}, e \in Entity :
              Begin(p, [NoCall EXCEPT !.op = op, !.e = e], "find")
      BY <2>1 DEF BeginFind
    <3>2. pc'[p] = "find" /\ call'[p] = [NoCall EXCEPT !.op = op, !.e = e]
          /\ call'[p].op # "remove"
      BY <1>e, <3>1
    <3>3. call'[p].op = op
      BY <3>2 DEF NoCall
    <3> QED BY <1>b, <3>2, <3>3 DEF Decaying
  <2>2. CASE Find(p)
    <3>1. pc'[p] \in {"load_conf", "ret", "find"} /\ call'[p].op = call[p].op
      BY <1>a, <1>c, <1>d, <1>f, <2>2 DEF Find, Call
    <3> QED BY <1>b, <1>f, <2>2, <3>1 DEF Find, ReadLabel, Decaying
  <2>3. CASE LoadConfidence(p)
    BY <1>b, <1>c, <1>f, <2>3 DEF LoadConfidence, ReadLabel, Decaying
  <2>4. ~ RemoveCAS(p)
    BY <1>a DEF RemoveCAS, FreshOK
  <2> QED BY <1>2, <2>1, <2>2, <2>3, <2>4 DEF Lookup
<1>3. ~ Decay(p)
  <2>1. ~ BeginDecay(p)
    <3> SUFFICES ASSUME BeginDecay(p) PROVE FALSE
      OBVIOUS
    <3>1. [NoCall EXCEPT !.op = "decay"].op # "decay"
      BY <1>e DEF BeginDecay
    <3> QED BY <3>1 DEF NoCall
  <2> QED BY <1>a, <2>1 DEF Decay, DecayKey, DecayLoad, DecayCAS, FreshOK, Decaying
<1>4. CASE Read(p)
  <2>1. CASE BeginRead(p)
    BY <1>b, <1>e, <2>1 DEF BeginRead, ReadLabel, Decaying
  <2>2. CASE ReadKey(p) \/ ReadVersion(p) \/ CopyKey(p) \/ CopyConfidence(p) \/ CheckVersion(p)
    <3>1. pc'[p] \in ReadLabel \cup {"ret"}
      BY <1>c, <1>d, <2>2 DEF ReadKey, ReadVersion, CopyKey, CopyConfidence, CheckVersion, ReadLabel
    <3>2. call'[p].op = call[p].op
      BY <1>a, <1>c, <2>2 DEF ReadKey, ReadVersion, CopyKey, CopyConfidence, CheckVersion, Call
    <3> QED BY <1>b, <1>f, <3>1, <3>2 DEF ReadLabel, Decaying
  <2>3. CASE CopyHalf(p, "copy_lo", "lo", "copy_hi") \/ CopyHalf(p, "copy_hi", "hi", "check_ver")
    <3>1. pc'[p] \in {"copy_hi", "check_ver"} /\ call'[p].op = call[p].op
      BY <1>a, <1>d, <2>3 DEF CopyHalf, Call
    <3> QED BY <1>b, <1>f, <3>1 DEF ReadLabel, Decaying
  <2> QED BY <1>4, <2>1, <2>2, <2>3 DEF Read
<1>5. CASE End(p) \/ Crash(p)
  <2>1. pc'[p] \in {"idle", "dead"} /\ call'[p] = NoCall
    BY <1>a, <1>d, <1>5 DEF End, Crash
  <2> QED BY <1>b, <2>1 DEF NoCall, Decaying
<1> QED BY <1>1, <1>2, <1>3, <1>4, <1>5 DEF Step

\* Every step on a table without evictions.
LEMMA UInvStep ==
    ASSUME NoEvictions, UInv, [Next]_vars
    PROVE  UInv'
<1>0. IInv'
  BY IInvStep DEF UInv
<1>1. CASE UNCHANGED vars
  BY <1>0, <1>1 DEF vars, UInv, NoTombs, UniqueKey
<1>2. ASSUME NEW p \in Proc, Step(p) \/ Crash(p), ~ UNCHANGED vars
      PROVE  UInv'
  <2>1. key \in [Slot -> KeyHash] /\ CallOK(pc[p], call[p], key)
    BY Locals DEF UInv
  <2>2. \A i \in Slot : key[i] # EMPTY => key'[i] = key[i]
    BY <1>2, <2>1, KeysStay
  <2>3. ASSUME NEW r \in Proc PROVE FreshOK(pc'[r], call'[r], key')
    <3>1. CASE r = p
      BY <1>2, <3>1, FreshMine DEF Spin
    <3>2. CASE r # p
      <4>1. pc'[r] = pc[r] /\ call'[r] = call[r]
        BY <1>2, <3>2, Alone DEF UInv
      <4>2. call[r] \in Call /\ CallOK(pc[r], call[r], key) /\ FreshOK(pc[r], call[r], key)
        BY Locals DEF UInv
      <4>3. pc[r] \in {"scan", "claim", "cas"} => call[r].e \in Entity
        BY <4>2 DEF CallOK, WithEntity
      <4>4. FreshOK(pc[r], call[r], key')
        BY <2>2, <4>2, <4>3, FreshStays
      <4> QED BY <4>1, <4>4
    <3> QED BY <3>1, <3>2
  <2>4. CASE key' = key
    BY <1>0, <2>3, <2>4 DEF UInv, NoTombs, UniqueKey
  <2>5. CASE /\ ClaimCAS(p) /\ key[call[p].avail] = EMPTY
             /\ key' = [key EXCEPT ![call[p].avail] = Key(p)]
    <3>1. pc[p] = "cas" /\ call[p].e \in Entity /\ call[p].avail \in Slot
      BY <2>1, <2>5 DEF ClaimCAS, CallOK, WithEntity, WithSlot
    <3>2. ~Free(Key(p))
      BY <3>1, KeyLive DEF Key
    <3>3. \A j \in Slot : key[j] # Key(p)
      BY <2>5, <3>1, ClaimUnique
    <3>4. NoTombs'
      BY <2>1, <2>5, <3>1, <3>2 DEF UInv, NoTombs, Free
    <3>5. UniqueKey'
      BY <2>1, <2>5, <3>1, <3>2, <3>3 DEF UInv, UniqueKey
    <3> QED BY <1>0, <2>3, <3>4, <3>5 DEF UInv
  <2> QED BY <1>2, <2>4, <2>5, KeysStay
<1> QED BY <1>1, <1>2 DEF Next, Finished

LEMMA UInvInit == Init => UInv
<1> SUFFICES ASSUME Init PROVE UInv
  OBVIOUS
<1>1. IInv
  BY IInvInit
<1>2. \A i \in Slot : key[i] = EMPTY /\ EMPTY # TOMBSTONE /\ Free(EMPTY)
  BY TombstoneAssumption DEF Init, EMPTY, Free
<1>3. \A p \in Proc : pc[p] = "idle" /\ call[p] = NoCall
  BY DEF Init
<1>4. \A p \in Proc : FreshOK(pc[p], call[p], key)
  BY <1>3 DEF FreshOK, Decaying, NoCall
<1> QED BY <1>1, <1>2, <1>4 DEF UInv, NoTombs, UniqueKey

\* Where nothing is evicted, processes that insert one entity at once, through the
\* probe loop, the claim and the compare-and-swap, leave one entry for it.
THEOREM UniqueKeyCorrect == NoEvictions => (Spec => []UniqueKey)
<1> SUFFICES ASSUME NoEvictions PROVE Spec => []UniqueKey
  OBVIOUS
<1>1. UInv /\ [Next]_vars => UInv'
  BY UInvStep
<1>2. UInv => UniqueKey
  BY DEF UInv
<1> QED BY <1>1, <1>2, UInvInit, PTL DEF Spec

-----------------------------------------------------------------------------
(* The seqlock, on a table without evictions and a platform that keeps the *)
(* order of the stores: every slot is written once, by the process that    *)
(* claimed it, under versions 0, 1 and 2.                                  *)

Owner == {"load_ver", "write", "unlock"}
Copying == {"copy_key", "copy_conf", "copy_lo", "copy_hi", "check_ver"}

\* Only under the odd version are the halves apart; an empty slot is untouched.
SlotOK(i) ==
    /\ version[i] \in {0, 1, 2}
    /\ version[i] # 1 => entity[i]["lo"] = entity[i]["hi"]
    /\ key[i] = EMPTY => version[i] = 0

\* How far the process that claimed the slot has come.
OwnOK(l, c, ky, vr, en) ==
    /\ l \in Owner => ky[c.avail] # EMPTY
    /\ l = "load_ver" => vr[c.avail] = 0
    /\ l = "write" /\ "lock" \in c.todo => c.ver = 1 /\ c.todo = Writes /\ vr[c.avail] = 0
    /\ l = "write" /\ "lock" \notin c.todo =>
          c.ver = 1 /\ vr[c.avail] = 1 /\ \A h \in Half \ c.todo : en[c.avail][h] = c.e
    /\ l = "unlock" => c.ver = 1 /\ vr[c.avail] = 1 /\ \A h \in Half : en[c.avail][h] = c.e

\* As long as the version is the one loaded, the copy is the data.
ReadOK(l, c, vr, en) ==
    /\ l \in Copying => c.ver \in {0, 2} /\ (c.ver = 2 => vr[c.avail] = 2)
    /\ l \in {"copy_hi", "check_ver"} /\ vr[c.avail] = c.ver =>
          c.out["lo"] = en[c.avail]["lo"]
    /\ l = "check_ver" /\ vr[c.avail] = c.ver => c.out["hi"] = en[c.avail]["hi"]
    /\ l = "ret" /\ c.op = "read" /\ c.res = 1 => c.out["lo"] = c.out["hi"]

OneOwner == \A p, q \in Proc : /\ p # q /\ pc[p] \in Owner /\ pc[q] \in Owner
                               => call[p].avail # call[q].avail

SeqInv == /\ UInv /\ OneOwner
          /\ \A i \in Slot : SlotOK(i)
          /\ \A p \in Proc : /\ OwnOK(pc[p], call[p], key, version, entity)
                             /\ ReadOK(pc[p], call[p], version, entity)

\* Only the owner's stores change a version or the data.
LEMMA SlotWriters ==
    ASSUME NEW p \in Proc, Step(p) \/ Crash(p), ~ Write(p), ~ Unlock(p)
    PROVE  version' = version /\ entity' = entity
<1>1. CASE Insert(p)
  <2>1. CASE BeginInsert(p)
    BY <2>1 DEF BeginInsert, Begin, table
  <2>2. CASE Scan(p) \/ Add(p) \/ AddSrc(p) \/ Claim(p) \/ ClaimCAS(p)
    BY <2>2 DEF Scan, Add, AddSrc, Claim, ClaimCAS
  <2>3. CASE LoadVersion(p) \/ SetConfidence(p) \/ SetSrc(p)
    BY <2>3 DEF LoadVersion, SetConfidence, SetSrc
  <2> QED BY <1>1, <2>1, <2>2, <2>3 DEF Insert
<1>2. CASE Lookup(p)
  BY <1>2 DEF Lookup, BeginFind, Begin, table, Find, LoadConfidence, RemoveCAS
<1>3. CASE Decay(p)
  BY <1>3 DEF Decay, BeginDecay, Begin, table, DecayKey, DecayLoad, DecayCAS
<1>4. CASE Read(p)
  <2>1. CASE BeginRead(p)
    BY <2>1 DEF BeginRead, Begin, table
  <2>2. CASE ReadKey(p) \/ Spin(p) \/ ReadVersion(p) \/ CopyKey(p) \/ CopyConfidence(p)
    BY <2>2 DEF ReadKey, Spin, vars, ReadVersion, CopyKey, CopyConfidence
  <2>3. CASE CopyHalf(p, "copy_lo", "lo", "copy_hi") \/ CopyHalf(p, "copy_hi", "hi", "check_ver")
    BY <2>3 DEF CopyHalf
  <2> QED BY <1>4, <2>1, <2>2, <2>3 DEF Read, CheckVersion
<1>5. CASE End(p) \/ Crash(p)
  BY <1>5 DEF End, Crash
<1> QED BY <1>1, <1>2, <1>3, <1>4, <1>5 DEF Step

\* What a step may do to a slot: lock it, fill it while it is locked, release it.
SlotMove(i) ==
    \/ version'[i] = version[i] /\ entity'[i] = entity[i]
    \/ version[i] = 0 /\ version'[i] = 1 /\ entity'[i] = entity[i]
    \/ version[i] = 1 /\ version'[i] = 1
    \/ /\ version[i] = 1 /\ version'[i] = 2 /\ entity'[i] = entity[i]
       /\ entity[i]["lo"] = entity[i]["hi"]

LEMMA SlotMoves ==
    ASSUME ~ Reorder, SeqInv, NEW p \in Proc, Step(p) \/ Crash(p), NEW i \in Slot
    PROVE  /\ SlotMove(i)
           /\ i # call[p].avail \/ pc[p] \notin Owner =>
                 version'[i] = version[i] /\ entity'[i] = entity[i]
<1>1. /\ call[p] \in Call /\ CallOK(pc[p], call[p], key)
      /\ version \in [Slot -> 0..UINT32_MAX] /\ entity \in [Slot -> Data]
      /\ OwnOK(pc[p], call[p], key, version, entity)
  BY Locals DEF SeqInv, UInv
<1>2. CASE ~ Write(p) /\ ~ Unlock(p)
  BY <1>2, SlotWriters DEF SlotMove
<1>3. CASE Write(p)
  <2>1. pc[p] = "write" /\ call[p].avail \in Slot
    BY <1>1, <1>3 DEF Write, CallOK, WithSlot
  <2>2. PICK w \in NextWrites(p) :
           IF w = "lock"
           THEN version' = [version EXCEPT ![call[p].avail] = call[p].ver] /\ entity' = entity
           ELSE entity' = [entity EXCEPT ![call[p].avail][w] = call[p].e] /\ version' = version
    BY <1>3 DEF Write
  <2>3. CASE "lock" \in call[p].todo
    <3>1. w = "lock" /\ call[p].ver = 1 /\ version[call[p].avail] = 0
      BY <1>1, <2>1, <2>2, <2>3 DEF NextWrites, OwnOK
    <3> QED BY <1>1, <2>1, <2>2, <3>1 DEF SlotMove, Owner
  <2>4. CASE "lock" \notin call[p].todo
    <3>1. w # "lock" /\ version[call[p].avail] = 1
      BY <1>1, <2>1, <2>2, <2>4 DEF NextWrites, OwnOK
    <3> QED BY <1>1, <2>1, <2>2, <3>1 DEF SlotMove, Owner
  <2> QED BY <2>3, <2>4
<1>4. CASE Unlock(p)
  <2>1. pc[p] = "unlock" /\ call[p].avail \in Slot
    BY <1>1, <1>4 DEF Unlock, CallOK, WithSlot
  <2>2. /\ call[p].ver = 1 /\ version[call[p].avail] = 1
        /\ \A h \in Half : entity[call[p].avail][h] = call[p].e
    BY <1>1, <2>1 DEF OwnOK
  <2>3. Add32(1, 1) = 2
    BY WidthAssumption DEF Add32
  <2>4. /\ version' = [version EXCEPT ![call[p].avail] = 2] /\ entity' = entity
    BY <1>4, <2>2, <2>3 DEF Unlock
  <2> QED BY <1>1, <2>1, <2>2, <2>4 DEF SlotMove, Owner, Half
<1> QED BY <1>2, <1>3, <1>4

\* The steps after which the seqlock matters to the process that takes them.
LEMMA SeqSteps ==
    ASSUME UInv, NEW p \in Proc, Step(p) \/ Crash(p), ~ Spin(p)
    PROVE  \/ ClaimCAS(p) \/ LoadVersion(p) \/ Write(p) \/ ReadVersion(p)
           \/ CopyKey(p) \/ CopyConfidence(p) \/ CheckVersion(p)
           \/ CopyHalf(p, "copy_lo", "lo", "copy_hi") \/ CopyHalf(p, "copy_hi", "hi", "check_ver")
           \/ pc'[p] \notin Owner \cup Copying \cup {"ret"}
           \/ pc'[p] = "ret" /\ (call'[p].op = "read" => call'[p].res = 0)
<1> DEFINE Quiet == \/ pc'[p] \notin Owner \cup Copying \cup {"ret"}
                    \/ pc'[p] = "ret" /\ (call'[p].op = "read" => call'[p].res = 0)
<1>a. /\ call[p] \in Call /\ FreshOK(pc[p], call[p], key)
      /\ call \in [Proc -> Call] /\ pc \in [Proc -> Label]
  BY Locals DEF UInv
<1>b. ASSUME NEW v, Return(p, v)
      PROVE  pc'[p] = "ret" /\ call'[p].op = call[p].op /\ call'[p].res = v
  BY <1>a, <1>b DEF Return, Goto, Call
<1>c. ASSUME NEW l, Goto(p, l) PROVE pc'[p] = l
  BY <1>a, <1>c DEF Goto
<1>d. ASSUME NEW c, NEW l, Begin(p, c, l) PROVE pc'[p] = l
  BY <1>c, <1>d DEF Begin
<1>e. pc[p] \notin ReadLabel \cup {"ret"} => call[p].op # "read"
  BY <1>a DEF FreshOK
<1>1. CASE BeginInsert(p) \/ BeginFind(p) \/ BeginDecay(p) \/ BeginRead(p)
  <2>1. pc'[p] \in {"scan", "find", "decay_key", "read_key"}
    BY <1>1, <1>d DEF BeginInsert, BeginFind, BeginDecay, BeginRead
  <2> QED BY <2>1 DEF Owner, Copying
<1>2. CASE Scan(p)
  <2>1. ASSUME NEW a, AfterScan(p, a)
        PROVE  pc'[p] \in {"ret", "claim"} /\ (pc'[p] = "ret" => call'[p].op = call[p].op)
    BY <2>1, <1>b, <1>c DEF AfterScan
  <2>2. /\ pc'[p] \in {"ret", "claim", "add", "scan"}
        /\ pc'[p] = "ret" => call'[p].op = call[p].op
    BY <1>2, <1>c, <2>1 DEF Scan
  <2> QED BY <1>2, <1>e, <2>2 DEF Scan, ReadLabel, Owner, Copying
<1>3. CASE Add(p) \/ AddSrc(p) \/ Claim(p) \/ SetSrc(p)
  <2>1. pc'[p] \in {"ret", "cas", "add_src"}
    BY <1>3, <1>b, <1>c DEF Add, AddSrc, Claim, SetSrc
  <2>2. call'[p].op = call[p].op
    BY <1>3, <1>a, <1>b DEF Add, AddSrc, Claim, SetSrc, Call
  <2> QED BY <1>3, <1>e, <2>1, <2>2 DEF Add, AddSrc, Claim, SetSrc, ReadLabel, Owner, Copying
<1>4. CASE Unlock(p) \/ SetConfidence(p)
  BY <1>4, <1>c DEF Unlock, SetConfidence, Owner, Copying
<1>5. CASE Find(p) \/ LoadConfidence(p) \/ RemoveCAS(p)
  <2>1. pc'[p] \in {"ret", "load_conf", "remove_cas", "find"}
    BY <1>5, <1>b, <1>c DEF Find, LoadConfidence, RemoveCAS
  <2>2. call'[p].op = call[p].op
    BY <1>5, <1>a, <1>b DEF Find, LoadConfidence, RemoveCAS, Call
  <2> QED BY <1>5, <1>e, <2>1, <2>2 DEF Find, LoadConfidence, RemoveCAS, ReadLabel, Owner, Copying
<1>6. CASE DecayKey(p) \/ DecayLoad(p) \/ DecayCAS(p)
  BY <1>6, <1>a DEF DecayKey, DecayLoad, DecayCAS, FreshOK, Decaying
<1>7. CASE ReadKey(p)
  BY <1>7, <1>b, <1>c DEF ReadKey, Owner, Copying
<1>8. CASE End(p) \/ Crash(p)
  BY <1>8, <1>c DEF End, Crash, Owner, Copying
<1> QED BY <1>1, <1>2, <1>3, <1>4, <1>5, <1>6, <1>7, <1>8
        DEF Step, Insert, Lookup, Decay, Read

\* The claim, and the stores of the owner.
LEMMA OwnMine ==
    ASSUME ~ Reorder, SeqInv, NEW p \in Proc, Step(p) \/ Crash(p), ~ Spin(p)
    PROVE  OwnOK(pc'[p], call'[p], key', version', entity')
<1>a. /\ call[p] \in Call /\ CallOK(pc[p], call[p], key) /\ UInv
      /\ call \in [Proc -> Call] /\ pc \in [Proc -> Label] /\ key \in [Slot -> KeyHash]
      /\ version \in [Slot -> 0..UINT32_MAX] /\ entity \in [Slot -> Data]
      /\ OwnOK(pc[p], call[p], key, version, entity)
  BY Locals DEF SeqInv, UInv
<1>b. ASSUME NEW l, Goto(p, l) PROVE pc'[p] = l
  BY <1>a, <1>b DEF Goto
<1>c. ASSUME pc'[p] \notin Owner PROVE OwnOK(pc'[p], call'[p], key', version', entity')
  BY <1>c DEF OwnOK, Owner
<1>1. CASE ClaimCAS(p)
  <2>1. pc[p] = "cas" /\ call[p].avail \in Slot /\ call[p].e \in Entity
    BY <1>1, <1>a DEF ClaimCAS, CallOK, WithSlot, WithEntity
  <2>2. CASE key[call[p].avail] = call[p].expected
    <3>1. /\ pc'[p] = "load_ver" /\ call' = call /\ version' = version /\ entity' = entity
          /\ key' = [key EXCEPT ![call[p].avail] = Key(p)]
      BY <1>1, <1>b, <2>2 DEF ClaimCAS
    <3>2. key[call[p].avail] = EMPTY
      <4>1. FreshOK(pc[p], call[p], key)
        BY <1>a DEF UInv
      <4> QED BY <2>1, <2>2, <4>1 DEF FreshOK
    <3>3. version[call[p].avail] = 0
      BY <2>1, <3>2 DEF SeqInv, SlotOK
    <3>4. Key(p) # EMPTY
      BY <2>1, KeyLive DEF Key, Free
    <3>5. key'[call'[p].avail] # EMPTY /\ version'[call'[p].avail] = 0
      BY <1>a, <2>1, <3>1, <3>3, <3>4
    <3> QED BY <3>1, <3>5 DEF OwnOK
  <2>3. CASE key[call[p].avail] # call[p].expected
    <3>1. pc'[p] \in {"add", "ret"}
      BY <1>1, <1>b, <2>3 DEF ClaimCAS, Return
    <3> QED BY <1>c, <3>1 DEF Owner
  <2> QED BY <2>2, <2>3
<1>2. CASE LoadVersion(p)
  <2>1. pc[p] = "load_ver" /\ call[p].avail \in Slot
    BY <1>2, <1>a DEF LoadVersion, CallOK, WithSlot
  <2>2. LockVersion(0) = 1
    BY WidthAssumption DEF LockVersion, Add32
  <2>3. key[call[p].avail] # EMPTY /\ version[call[p].avail] = 0
    BY <1>a, <2>1 DEF OwnOK, Owner
  <2>4. /\ pc'[p] = "write" /\ key' = key /\ version' = version /\ entity' = entity
        /\ call'[p].avail = call[p].avail /\ call'[p].todo = Writes /\ call'[p].ver = 1
    BY <1>2, <1>a, <1>b, <2>2, <2>3 DEF LoadVersion, Call
  <2> QED BY <2>3, <2>4 DEF OwnOK, Writes
<1>3. CASE Write(p)
  <2> DEFINE i == call[p].avail
  <2>1. pc[p] = "write" /\ i \in Slot /\ call[p].todo \in SUBSET Writes
    BY <1>3, <1>a DEF Write, CallOK, WithSlot, Call
  <2>2. PICK w \in NextWrites(p) :
           /\ IF w = "lock"
              THEN version' = [version EXCEPT ![i] = call[p].ver] /\ entity' = entity
              ELSE entity' = [entity EXCEPT ![i][w] = call[p].e] /\ version' = version
           /\ call' = [call EXCEPT ![p].todo = @ \ {w}]
           /\ Goto(p, IF call[p].todo = {w} THEN "unlock" ELSE "write")
    BY <1>3 DEF Write
  <2>3. /\ call'[p].avail = i /\ call'[p].todo = call[p].todo \ {w} /\ call'[p].ver = call[p].ver
        /\ call'[p].e = call[p].e
        /\ pc'[p] = (IF call[p].todo = {w} THEN "unlock" ELSE "write") /\ key' = key
    BY <1>3, <1>a, <1>b, <2>2 DEF Write, Call
  <2>4. key[i] # EMPTY
    BY <1>a, <2>1 DEF OwnOK, Owner
  <2>5. CASE "lock" \in call[p].todo
    <3>1. w = "lock" /\ call[p].ver = 1 /\ call[p].todo = Writes
      BY <1>a, <2>1, <2>2, <2>5 DEF NextWrites, OwnOK
    <3>2. call'[p].todo = Half /\ pc'[p] = "write"
      BY <2>3, <3>1 DEF Writes, Half
    <3>3. version'[i] = 1
      BY <1>a, <2>1, <2>2, <3>1
    <3> QED BY <2>3, <2>4, <3>1, <3>2, <3>3 DEF OwnOK, Half
  <2>6. CASE "lock" \notin call[p].todo
    <3>1. /\ w # "lock" /\ w \in call[p].todo /\ w \in Half
          /\ call[p].ver = 1 /\ version[i] = 1
          /\ \A h \in Half \ call[p].todo : entity[i][h] = call[p].e
      BY <1>a, <2>1, <2>2, <2>6 DEF NextWrites, OwnOK, Writes
    <3>2. version'[i] = 1 /\ entity[i] \in Data
      BY <1>a, <2>1, <2>2, <3>1
    <3>3. entity'[i] = [entity[i] EXCEPT ![w] = call[p].e]
      BY <1>a, <2>1, <2>2, <3>1
    <3>4. \A h \in Half \ (call[p].todo \ {w}) : entity'[i][h] = call[p].e
      BY <3>1, <3>2, <3>3 DEF Data
    <3> QED BY <2>3, <2>4, <2>6, <3>1, <3>2, <3>4 DEF OwnOK, Half
  <2> QED BY <2>5, <2>6
<1>4. CASE \/ ReadVersion(p) \/ CopyKey(p) \/ CopyConfidence(p) \/ CheckVersion(p)
           \/ CopyHalf(p, "copy_lo", "lo", "copy_hi") \/ CopyHalf(p, "copy_hi", "hi", "check_ver")
  <2>1. pc'[p] \notin Owner
    BY <1>4, <1>b DEF ReadVersion, CopyKey, CopyConfidence, CheckVersion, CopyHalf, Return, Owner
  <2> QED BY <1>c, <2>1
<1>5. CASE pc'[p] \notin Owner
  BY <1>5, <1>c
<1> QED BY <1>a, <1>1, <1>2, <1>3, <1>4, <1>5, SeqSteps DEF Owner

\* The reader's own steps.
LEMMA ReadMine ==
    ASSUME SeqInv, NEW p \in Proc, Step(p) \/ Crash(p), ~ Spin(p)
    PROVE  ReadOK(pc'[p], call'[p], version', entity')
<1> DEFINE i == call[p].avail
<1>a. /\ call[p] \in Call /\ CallOK(pc[p], call[p], key) /\ UInv
      /\ call \in [Proc -> Call] /\ pc \in [Proc -> Label]
      /\ ReadOK(pc[p], call[p], version, entity)
      /\ FreshOK(pc[p], call[p], key)
  BY Locals DEF SeqInv, UInv
<1>b. ASSUME NEW l, Goto(p, l) PROVE pc'[p] = l
  BY <1>a, <1>b DEF Goto
<1>c. ASSUME pc'[p] \notin Copying,
             pc'[p] = "ret" /\ call'[p].op = "read" => call'[p].res = 0
      PROVE  ReadOK(pc'[p], call'[p], version', entity')
  BY <1>c DEF ReadOK, Copying
<1>d. pc[p] \in ReadLabel => i \in Slot /\ SlotOK(i)
  BY <1>a DEF CallOK, ReadLabel, WithSlot, SeqInv
<1>1. CASE ReadVersion(p)
  <2>1. /\ pc'[p] = "copy_key" /\ call'[p].ver = version[i] /\ call'[p].avail = i
        /\ version' = version /\ pc[p] = "read_ver" /\ version[i] % 2 = 0
    BY <1>1, <1>a, <1>b DEF ReadVersion, Call
  <2>2. version[i] \in {0, 2}
    <3>1. version[i] \in {0, 1, 2}
      BY <1>d, <2>1 DEF ReadLabel, SlotOK
    <3> QED BY <2>1, <3>1
  <2> QED BY <2>1, <2>2 DEF ReadOK
<1>2. CASE CopyKey(p) \/ CopyConfidence(p)
  <2>1. /\ pc'[p] \in {"copy_conf", "copy_lo"} /\ call'[p].ver = call[p].ver
        /\ call'[p].avail = i /\ version' = version /\ pc[p] \in Copying
    BY <1>2, <1>a, <1>b DEF CopyKey, CopyConfidence, Call, Copying
  <2> QED BY <1>a, <2>1 DEF ReadOK
<1>3. CASE CopyHalf(p, "copy_lo", "lo", "copy_hi")
  <2>1. /\ pc'[p] = "copy_hi" /\ call'[p].ver = call[p].ver /\ call'[p].avail = i
        /\ call'[p].out = [call[p].out EXCEPT !["lo"] = entity[i]["lo"]]
        /\ version' = version /\ entity' = entity /\ pc[p] = "copy_lo"
    BY <1>3, <1>a, <1>b DEF CopyHalf, Call
  <2>2. call[p].out \in Data
    BY <1>a DEF Call
  <2>3. call'[p].out["lo"] = entity[i]["lo"]
    BY <2>1, <2>2 DEF Data, Half
  <2> QED BY <1>a, <2>1, <2>3 DEF ReadOK, Copying
<1>4. CASE CopyHalf(p, "copy_hi", "hi", "check_ver")
  <2>1. /\ pc'[p] = "check_ver" /\ call'[p].ver = call[p].ver /\ call'[p].avail = i
        /\ call'[p].out = [call[p].out EXCEPT !["hi"] = entity[i]["hi"]]
        /\ version' = version /\ entity' = entity /\ pc[p] = "copy_hi"
    BY <1>4, <1>a, <1>b DEF CopyHalf, Call
  <2>2. call[p].out \in Data
    BY <1>a DEF Call
  <2>3. call'[p].out["hi"] = entity[i]["hi"] /\ call'[p].out["lo"] = call[p].out["lo"]
    BY <2>1, <2>2 DEF Data, Half
  <2> QED BY <1>a, <2>1, <2>3 DEF ReadOK, Copying
<1>5. CASE CheckVersion(p)
  <2>1. pc[p] = "check_ver"
    BY <1>5 DEF CheckVersion
  <2>2. CASE version[i] = call[p].ver
    <3>1. pc'[p] = "ret" /\ call'[p].out = call[p].out
      BY <1>5, <1>a, <1>b, <2>2 DEF CheckVersion, Return, Call
    <3>2. /\ call[p].ver \in {0, 2} /\ call[p].out["lo"] = entity[i]["lo"]
          /\ call[p].out["hi"] = entity[i]["hi"]
      BY <1>a, <2>1, <2>2 DEF ReadOK, Copying
    <3>3. entity[i]["lo"] = entity[i]["hi"]
      BY <1>d, <2>1, <2>2, <3>2 DEF ReadLabel, SlotOK
    <3> QED BY <3>1, <3>2, <3>3 DEF ReadOK, Copying
  <2>3. CASE version[i] # call[p].ver
    <3>1. pc'[p] = "read_ver"
      BY <1>5, <1>b, <2>3 DEF CheckVersion
    <3> QED BY <1>c, <3>1 DEF Copying
  <2> QED BY <2>2, <2>3
<1>6. CASE ClaimCAS(p)
  <2>1. pc'[p] \in {"load_ver", "add", "ret"} /\ call'[p].op = call[p].op
    BY <1>6, <1>a, <1>b DEF ClaimCAS, Return, Call
  <2>2. call[p].op # "read"
    BY <1>6, <1>a DEF ClaimCAS, FreshOK, ReadLabel
  <2> QED BY <1>c, <2>1, <2>2 DEF Copying
<1>7. CASE LoadVersion(p) \/ Write(p)
  <2>1. pc'[p] \in {"write", "unlock"}
    BY <1>7, <1>b DEF LoadVersion, Write
  <2> QED BY <1>c, <2>1 DEF Copying
<1>8. CASE \/ pc'[p] \notin Owner \cup Copying \cup {"ret"}
           \/ pc'[p] = "ret" /\ (call'[p].op = "read" => call'[p].res = 0)
  BY <1>8, <1>c DEF Copying
<1> QED BY <1>a, <1>1, <1>2, <1>3, <1>4, <1>5, <1>6, <1>7, <1>8, SeqSteps

\* What another process's step leaves true for r.
LEMMA SeqFrame ==
    ASSUME ~ Reorder, SeqInv, NEW p \in Proc, Step(p) \/ Crash(p), NEW r \in Proc,
           pc'[r] = pc[r], call'[r] = call[r], p # r \/ UNCHANGED vars
    PROVE  /\ OwnOK(pc'[r], call'[r], key', version', entity')
           /\ ReadOK(pc'[r], call'[r], version', entity')
<1> DEFINE i == call[r].avail
<1>1. /\ OwnOK(pc[r], call[r], key, version, entity) /\ ReadOK(pc[r], call[r], version, entity)
      /\ CallOK(pc[r], call[r], key) /\ UInv /\ key \in [Slot -> KeyHash]
  BY Locals DEF SeqInv, UInv
<1>2. pc[r] \in Owner \cup Copying => i \in Slot
  BY <1>1 DEF CallOK, WithSlot, Owner, Copying
<1>3. pc[r] \in Owner => version'[i] = version[i] /\ entity'[i] = entity[i]
  <2>1. CASE UNCHANGED vars
    BY <2>1 DEF vars
  <2>2. CASE p # r
    <3>1. pc[r] \in Owner /\ pc[p] \in Owner => i # call[p].avail
      BY <2>2 DEF SeqInv, OneOwner
    <3> QED BY <1>2, <3>1, SlotMoves
  <2> QED BY <2>1, <2>2
<1>4. pc[r] \in Owner => key'[i] # EMPTY
  <2>1. \A j \in Slot : key[j] # EMPTY => key'[j] # EMPTY
    BY <1>1, KeysStay
  <2> QED BY <1>1, <1>2, <2>1 DEF OwnOK
<1>5. OwnOK(pc[r], call[r], key', version', entity')
  BY <1>1, <1>3, <1>4 DEF OwnOK, Owner
<1>6. pc[r] \in Copying => SlotMove(i)
  BY <1>2, SlotMoves
<1>7. ReadOK(pc[r], call[r], version', entity')
  <2>1. CASE pc[r] \in Copying
    <3>1. /\ call[r].ver \in {0, 2} /\ (call[r].ver = 2 => version[i] = 2)
      BY <1>1, <2>1 DEF ReadOK
    <3>2. /\ call[r].ver = 2 => version'[i] = 2
          /\ version'[i] = call[r].ver => version[i] = call[r].ver /\ entity'[i] = entity[i]
      BY <1>6, <2>1, <3>1 DEF SlotMove
    <3> QED BY <1>1, <2>1, <3>1, <3>2 DEF ReadOK, Copying
  <2>2. CASE pc[r] \notin Copying
    BY <1>1, <2>2 DEF ReadOK, Copying
  <2> QED BY <2>1, <2>2
<1> QED BY <1>5, <1>7

\* A process becomes the owner of a slot by claiming it while it is empty.
LEMMA BecomesOwner ==
    ASSUME UInv, NEW p \in Proc, Step(p) \/ Crash(p), ~ Spin(p), pc'[p] \in Owner
    PROVE  /\ call'[p].avail = call[p].avail
           /\ pc[p] \in Owner \/ (key[call[p].avail] = EMPTY /\ pc[p] = "cas")
<1>1. /\ call[p] \in Call /\ call \in [Proc -> Call] /\ pc \in [Proc -> Label]
      /\ FreshOK(pc[p], call[p], key)
  BY Locals DEF UInv
<1>2. CASE ClaimCAS(p)
  <2>1. key[call[p].avail] = call[p].expected /\ call' = call /\ pc[p] = "cas"
    BY <1>1, <1>2 DEF ClaimCAS, Goto, Return, Owner
  <2> QED BY <1>1, <2>1 DEF FreshOK
<1>3. CASE LoadVersion(p) \/ Write(p)
  BY <1>1, <1>3 DEF LoadVersion, Write, Owner, Call
<1>4. ~ (\/ ReadVersion(p) \/ CopyKey(p) \/ CopyConfidence(p) \/ CheckVersion(p)
         \/ CopyHalf(p, "copy_lo", "lo", "copy_hi") \/ CopyHalf(p, "copy_hi", "hi", "check_ver"))
  BY <1>1 DEF ReadVersion, CopyKey, CopyConfidence, CheckVersion, CopyHalf, Goto, Return, Owner
<1> QED BY <1>2, <1>3, <1>4, SeqSteps DEF Owner

LEMMA SeqInvStep ==
    ASSUME NoEvictions, ~ Reorder, SeqInv, [Next]_vars
    PROVE  SeqInv'
<1>0. UInv /\ UInv'
  BY UInvStep DEF SeqInv
<1>1. CASE UNCHANGED vars
  <2>1. /\ key' = key /\ version' = version /\ entity' = entity /\ pc' = pc /\ call' = call
    BY <1>1 DEF vars
  <2> QED BY <1>0, <2>1 DEF SeqInv, SlotOK, OneOwner
<1>2. ASSUME NEW p \in Proc, Step(p) \/ Crash(p), ~ UNCHANGED vars
      PROVE  SeqInv'
  <2>0. ~ Spin(p)
    BY <1>2 DEF Spin
  <2>1. \A r \in Proc : r # p => pc'[r] = pc[r] /\ call'[r] = call[r]
    BY <1>0, <1>2, Alone DEF UInv
  <2>2. ASSUME NEW r \in Proc
        PROVE  /\ OwnOK(pc'[r], call'[r], key', version', entity')
               /\ ReadOK(pc'[r], call'[r], version', entity')
    <3>1. CASE r = p
      BY <1>2, <2>0, <3>1, OwnMine, ReadMine
    <3>2. CASE r # p
      BY <1>2, <2>1, <3>2, SeqFrame
    <3> QED BY <3>1, <3>2
  <2>3. ASSUME NEW i \in Slot PROVE SlotOK(i)'
    <3>1. SlotOK(i) /\ SlotMove(i)
      BY <1>2, SlotMoves DEF SeqInv
    <3>2. ASSUME key'[i] = EMPTY PROVE version'[i] = 0
      <4>1. key[i] = EMPTY
        BY <1>0, <1>2, <3>2, KeysStay, Locals DEF UInv
      <4>2. i # call[p].avail \/ pc[p] \notin Owner
        BY <4>1 DEF SeqInv, OwnOK
      <4>3. version'[i] = version[i]
        BY <1>2, <4>2, SlotMoves
      <4> QED BY <3>1, <4>1, <4>3 DEF SlotOK
    <3>3. version'[i] \in {0, 1, 2}
      BY <3>1 DEF SlotOK, SlotMove
    <3>4. version'[i] # 1 => entity'[i]["lo"] = entity'[i]["hi"]
      BY <3>1 DEF SlotOK, SlotMove
    <3> QED BY <3>2, <3>3, <3>4 DEF SlotOK
  <2>4. ASSUME NEW q \in Proc, q # p, pc'[q] \in Owner, pc'[p] \in Owner
        PROVE  call'[p].avail # call'[q].avail
    <3>1. pc[q] \in Owner /\ call'[q].avail = call[q].avail
      BY <2>1, <2>4
    <3>2. /\ call'[p].avail = call[p].avail
          /\ pc[p] \in Owner \/ key[call[p].avail] = EMPTY
      BY <1>0, <1>2, <2>0, <2>4, BecomesOwner
    <3>3. key[call[q].avail] # EMPTY
      BY <3>1 DEF SeqInv, OwnOK
    <3> QED BY <2>4, <3>1, <3>2, <3>3 DEF SeqInv, OneOwner
  <2>5. ASSUME NEW q \in Proc, NEW r \in Proc, q # r, q # p, r # p,
               pc'[q] \in Owner, pc'[r] \in Owner
        PROVE  call'[q].avail # call'[r].avail
    BY <2>1, <2>5 DEF SeqInv, OneOwner
  <2>6. OneOwner'
    <3> SUFFICES ASSUME NEW q \in Proc, NEW r \in Proc, q # r,
                        pc'[q] \in Owner, pc'[r] \in Owner
                 PROVE  call'[q].avail # call'[r].avail
      BY DEF OneOwner
    <3> QED BY <2>4, <2>5
  <2> QED BY <1>0, <2>2, <2>3, <2>6 DEF SeqInv
<1> QED BY <1>1, <1>2 DEF Next, Finished

LEMMA SeqInvInit == Init => SeqInv
<1> SUFFICES ASSUME Init PROVE SeqInv
  OBVIOUS
<1>1. UInv
  BY UInvInit
<1>2. ASSUME NEW i \in Slot PROVE SlotOK(i)
  BY DEF Init, SlotOK, Halves, Half
<1>3. \A p \in Proc : pc[p] = "idle"
  BY DEF Init
<1> QED BY <1>1, <1>2, <1>3 DEF SeqInv, OneOwner, OwnOK, ReadOK, Owner, Copying

\* Where nothing is evicted and stores stay in order, read_entry never returns a
\* snapshot that mixes the halves of two states of the data, even when the process
\* filling the slot dies.
THEOREM SnapshotCorrect == NoEvictions /\ ~ Reorder => (Spec => []SnapshotNotTorn)
<1> SUFFICES ASSUME NoEvictions, ~ Reorder PROVE Spec => []SnapshotNotTorn
  OBVIOUS
<1>1. SeqInv /\ [Next]_vars => SeqInv'
  BY SeqInvStep
<1>2. SeqInv => SnapshotNotTorn
  BY DEF SeqInv, ReadOK, SnapshotNotTorn, ReadReturns
<1> QED BY <1>1, <1>2, SeqInvInit, PTL DEF Spec

-----------------------------------------------------------------------------
(* At rest every entry is whole, on a table without evictions, deaths or   *)
(* overflow and with either store order: the process that claimed a slot   *)
(* alone fills it, and no counter wraps because every deposit is counted   *)
(* once.                                                                   *)

Filling == Owner \cup {"set_conf", "set_src"}
Inserting == {"scan", "claim", "cas", "add", "add_src"} \cup Filling

\* The labels at which the confidence, and the source, of a deposit are still due.
ConfidenceDue == Inserting \ {"add_src", "set_src"}
SourceDue == Inserting

\* The calls that may deposit: the n-th call of p.
Depositors == {p \in Proc : May[p] \cap {"deposit", "reinforce"} # {}}
Deposits == UNION {{p} \X (1..MaxCalls[p]) : p \in Depositors}

\* Every deposit adds evidence, at most D, and all of them together fit the fields.
Fits(D) ==
    /\ IsFiniteSet(Deposits)
    /\ Delta \subseteq 1..D
    /\ D * Cardinality(Deposits) <= UINT32_MAX
    /\ Cardinality(Deposits) <= UINT16_MAX

\* The deposits that have passed the labels due.
Paid(due) ==
    {x \in Deposits : /\ x[2] <= calls[x[1]]
                      /\ x[2] = calls[x[1]] => pc[x[1]] \notin due}

\* No slot has more evidence than the deposits paid so far.
Evidence(D) ==
    \A i \in Slot : /\ confidence[i] <= D * Cardinality(Paid(ConfidenceDue))
                    /\ src_count[i] <= Cardinality(Paid(SourceDue))

\* A process inside pht_insert is in one of its deposits.
InDeposit(p) ==
    /\ calls[p] <= MaxCalls[p]
    /\ pc[p] \in Inserting => <<p, calls[p]>> \in Deposits /\ call[p].delta \in Delta

\* How far the process that claimed a slot has come.
FillOK(l, c, ky, vr, en, cf) ==
    /\ l \in Filling => ky[c.avail] = entity_key_hash(c.e)
    /\ l = "load_ver" => vr[c.avail] = 0
    /\ l = "write" => /\ c.ver = 1 /\ c.todo # {}
                      /\ \A h \in Half \ c.todo : en[c.avail][h] = c.e
    /\ l = "unlock" => c.ver = 1 /\ \A h \in Half : en[c.avail][h] = c.e
    /\ l \in {"set_conf", "set_src"} => vr[c.avail] = 2 /\ en[c.avail] = Halves(c.e)
    /\ l = "set_src" => cf[c.avail] > 0

Filler(p, i) == pc[p] \in Filling /\ call[p].avail = i

OneFiller == \A p, q \in Proc : \A i \in Slot : Filler(p, i) /\ Filler(q, i) => p = q

Whole(i) ==
    /\ version[i] = 2 /\ confidence[i] > 0 /\ src_count[i] > 0
    /\ \E e \in Entity : entity[i] = Halves(e) /\ key[i] = entity_key_hash(e)

\* An entry is being filled or it is whole; an empty slot is untouched.
EntryOK(i) ==
    /\ key[i] = EMPTY => version[i] = 0
    /\ key[i] # EMPTY => Whole(i) \/ \E p \in Proc : Filler(p, i)

FillInv(D) ==
    /\ UInv /\ OneFiller /\ Evidence(D)
    /\ \A i \in Slot : EntryOK(i)
    /\ \A p \in Proc : InDeposit(p) /\ FillOK(pc[p], call[p], key, version, entity, confidence)
-----------------------------------------------------------------------------
(* The deposits paid.                                                      *)

LEMMA PaidIn ==
    ASSUME NEW D, Fits(D), NEW due
    PROVE  /\ Paid(due) \subseteq Deposits /\ IsFiniteSet(Paid(due))
           /\ Cardinality(Paid(due)) \in Nat /\ Cardinality(Paid(due)) <= Cardinality(Deposits)
<1>1. Paid(due) \subseteq Deposits
  BY DEF Paid
<1>2. IsFiniteSet(Deposits)
  BY DEF Fits
<1> QED
  BY <1>1, <1>2, FS_Subset, FS_CardinalityType

\* The same after the step.
LEMMA PaidInNext ==
    ASSUME NEW D, Fits(D), NEW due
    PROVE  /\ Paid(due)' \subseteq Deposits /\ IsFiniteSet(Paid(due)')
           /\ Cardinality(Paid(due)') \in Nat /\ Cardinality(Paid(due)') <= Cardinality(Deposits)
<1>1. Paid(due)' \subseteq Deposits
  BY DEF Paid
<1>2. IsFiniteSet(Deposits)
  BY DEF Fits
<1> QED
  BY <1>1, <1>2, FS_Subset, FS_CardinalityType

\* What a step does to the ledger: p begins a call, or goes on with one without
\* coming back to a label at which it is due.
PaysOn(p, due) ==
    /\ \A r \in Proc : r # p => pc'[r] = pc[r] /\ calls'[r] = calls[r]
    /\ \/ calls'[p] = calls[p] + 1
       \/ calls'[p] = calls[p] /\ (pc'[p] \in due => pc[p] \in due)

\* What is paid stays paid.
LEMMA PaidGrows ==
    ASSUME NEW D, Fits(D), NEW due, NEW p \in Proc, calls \in [Proc -> Nat], PaysOn(p, due)
    PROVE  /\ Paid(due) \subseteq Paid(due)'
           /\ Cardinality(Paid(due)) <= Cardinality(Paid(due)')
<1>1. ASSUME NEW x \in Paid(due) PROVE x \in Paid(due)'
  <2>1. /\ x \in Deposits /\ x[2] <= calls[x[1]]
        /\ x[2] = calls[x[1]] => pc[x[1]] \notin due
    BY DEF Paid
  <2>2. x[1] \in Proc /\ x[2] \in Nat
    BY <2>1, MaxCallsAssumption DEF Deposits, Depositors
  <2>3. x[2] <= calls'[x[1]] /\ (x[2] = calls'[x[1]] => pc'[x[1]] \notin due)
    <3>1. CASE x[1] # p
      BY <2>1, <2>2, <3>1 DEF PaysOn
    <3>2. CASE x[1] = p
      BY <2>1, <2>2, <3>2 DEF PaysOn
    <3> QED BY <3>1, <3>2
  <2> QED BY <2>1, <2>3 DEF Paid
<1>2. Paid(due) \subseteq Paid(due)'
  BY <1>1
<1>3. IsFiniteSet(Paid(due)')
  BY PaidInNext
<1> QED
  BY <1>2, <1>3, FS_Subset

\* A step that leaves the labels due pays for one deposit more.
LEMMA PaidOne ==
    ASSUME NEW D, Fits(D), NEW due, NEW p \in Proc, calls \in [Proc -> Nat], PaysOn(p, due),
           <<p, calls[p]>> \in Deposits, pc[p] \in due,
           calls'[p] = calls[p], pc'[p] \notin due
    PROVE  Cardinality(Paid(due)) + 1 <= Cardinality(Paid(due)')
<1> DEFINE x == <<p, calls[p]>>
           S == Paid(due)
           T == Paid(due)'
<1>1. S \subseteq T
  BY PaidGrows
<1>2. x \notin S /\ x \in T
  BY DEF Paid
<1>3. IsFiniteSet(S) /\ IsFiniteSet(T)
  BY PaidIn, PaidInNext
<1> HIDE DEF S, T, x
<1>4. Cardinality(S \cup {x}) = Cardinality(S) + 1 /\ S \cup {x} \subseteq T
  BY <1>1, <1>2, <1>3, FS_AddElement
<1>5. Cardinality(S \cup {x}) <= Cardinality(T)
  BY <1>3, <1>4, FS_Subset
<1> QED
  BY <1>4, <1>5 DEF S, T

\* Room for one more deposit: the sum of D * a and d stays below D * b.
LEMMA Room ==
    ASSUME NEW D \in Nat, NEW a \in Nat, NEW b \in Nat, a + 1 <= b,
           NEW n \in Nat, n <= D * a, NEW d \in 1..D
    PROVE  n + d <= D * b /\ n + d \in Nat /\ n + d > 0 /\ d <= D * b
<1>1. D * a \in Nat /\ D * (b - a) \in Nat /\ D * b = D * a + D * (b - a)
  BY SMT
<1>2. D * 1 <= D * (b - a)
  BY SMT
<1> DEFINE x == D * a
           y == D * (b - a)
           z == D * b
<1>3. x \in Nat /\ y \in Nat /\ z = x + y /\ D <= y /\ n <= x
  BY <1>1, <1>2
<1> HIDE DEF x, y, z
<1>4. n + d <= z /\ n + d \in Nat /\ n + d > 0 /\ d <= z
  BY <1>3
<1> QED BY <1>4 DEF z

\* More deposits, more room.
LEMMA MoreRoom ==
    ASSUME NEW D \in Nat, NEW a \in Nat, NEW b \in Nat, a <= b
    PROVE  D * a \in Nat /\ D * b \in Nat /\ D * a <= D * b
<1>1. D * a \in Nat /\ D * (b - a) \in Nat /\ D * b = D * a + D * (b - a)
  BY SMT
<1> QED BY <1>1

-----------------------------------------------------------------------------
(* The steps of pht_insert, and all the others.                            *)

InsertStep(p) ==
    \/ Scan(p) \/ Add(p) \/ AddSrc(p) \/ Claim(p) \/ ClaimCAS(p)
    \/ LoadVersion(p) \/ Write(p) \/ Unlock(p) \/ SetConfidence(p) \/ SetSrc(p)

\* A step outside pht_insert leaves the table alone; one that enters it begins a deposit.
Outside(p) ==
    /\ UNCHANGED table
    /\ pc[p] \notin Inserting
    /\ \/ calls' = calls /\ pc'[p] \notin Inserting
       \/ /\ calls[p] < MaxCalls[p] /\ calls' = [calls EXCEPT ![p] = @ + 1]
          /\ pc'[p] \in Inserting => /\ pc'[p] = "scan" /\ p \in Depositors
                                     /\ call'[p].delta \in Delta

LEMMA Sides ==
    ASSUME UInv, NEW p \in Proc, Step(p)
    PROVE  (InsertStep(p) /\ calls' = calls) \/ Outside(p)
<1>a. /\ pc \in [Proc -> Label] /\ call \in [Proc -> Call] /\ FreshOK(pc[p], call[p], key)
      /\ May \in [Proc -> SUBSET Op]
  BY Locals, MayAssumption DEF UInv
<1>b. ASSUME NEW l, Goto(p, l) PROVE pc'[p] = l
  BY <1>a, <1>b DEF Goto
<1>c. ASSUME NEW c, NEW l, Begin(p, c, l), l \notin Inserting PROVE Outside(p)
  <2>1. pc[p] = "idle" /\ calls[p] < MaxCalls[p] /\ pc'[p] = l /\ UNCHANGED table
    BY <1>b, <1>c DEF Begin
  <2> QED BY <1>c, <2>1 DEF Begin, Outside, Inserting, Filling, Owner
<1>d. ASSUME UNCHANGED table, calls' = calls, pc[p] \notin Inserting, pc'[p] \notin Inserting
      PROVE  Outside(p)
  BY <1>d DEF Outside
<1>1. CASE Insert(p)
  <2>1. CASE BeginInsert(p)
    <3>1. PICK op \in {"deposit", "reinforce"}, e \in Entity, d \in Delta :
             Begin(p, [NoCall EXCEPT !.op = op, !.e = e, !.delta = d], "scan")
      BY <2>1 DEF BeginInsert
    <3> DEFINE c == [NoCall EXCEPT !.op = op, !.e = e, !.delta = d]
    <3>2. c.op = op /\ c.delta = d
      BY DEF NoCall
    <3> HIDE DEF c
    <3>3. /\ pc[p] = "idle" /\ calls[p] < MaxCalls[p] /\ pc'[p] = "scan" /\ UNCHANGED table
          /\ op \in May[p] /\ call'[p] = c /\ calls' = [calls EXCEPT ![p] = @ + 1]
      BY <1>a, <1>b, <3>1, <3>2 DEF Begin, c
    <3>4. p \in Depositors
      BY <3>3 DEF Depositors
    <3> QED BY <3>2, <3>3, <3>4 DEF Outside, Inserting, Filling, Owner
  <2>2. CASE InsertStep(p)
    BY <2>2 DEF InsertStep, Scan, Add, AddSrc, Claim, ClaimCAS, LoadVersion, Write, Unlock,
                SetConfidence, SetSrc
  <2> QED BY <1>1, <2>1, <2>2 DEF Insert, InsertStep
<1>2. CASE Lookup(p)
  <2>1. CASE BeginFind(p)
    BY <1>c, <2>1 DEF BeginFind, Inserting, Filling, Owner
  <2>2. CASE Find(p)
    <3>1. /\ UNCHANGED table /\ calls' = calls /\ pc[p] = "find"
          /\ pc'[p] \in {"remove_cas", "load_conf", "ret", "find"}
      BY <1>b, <2>2 DEF Find, Return, table
    <3> QED BY <1>d, <3>1 DEF Inserting, Filling, Owner
  <2>3. CASE LoadConfidence(p)
    <3>1. /\ UNCHANGED table /\ calls' = calls /\ pc[p] = "load_conf" /\ pc'[p] = "ret"
      BY <1>b, <2>3 DEF LoadConfidence, Return, table
    <3> QED BY <1>d, <3>1 DEF Inserting, Filling, Owner
  <2>4. ~ RemoveCAS(p)
    BY <1>a DEF RemoveCAS, FreshOK
  <2> QED BY <1>2, <2>1, <2>2, <2>3, <2>4 DEF Lookup
<1>3. CASE Decay(p)
  <2>1. BeginDecay(p)
    BY <1>a, <1>3 DEF Decay, DecayKey, DecayLoad, DecayCAS, FreshOK, Decaying
  <2> QED BY <1>c, <2>1 DEF BeginDecay, Inserting, Filling, Owner
<1>4. CASE Read(p)
  <2>1. CASE BeginRead(p)
    BY <1>c, <2>1 DEF BeginRead, Inserting, Filling, Owner
  <2>2. CASE ReadKey(p) \/ Spin(p) \/ ReadVersion(p) \/ CopyKey(p) \/ CopyConfidence(p)
    <3>1. /\ UNCHANGED table /\ calls' = calls
          /\ pc[p] \in ReadLabel /\ pc'[p] \in ReadLabel \cup {"ret"}
      BY <1>b, <2>2 DEF ReadKey, Spin, vars, ReadVersion, CopyKey, CopyConfidence, Return, table,
                        ReadLabel
    <3> QED BY <1>d, <3>1 DEF ReadLabel, Inserting, Filling, Owner
  <2>3. CASE \/ CopyHalf(p, "copy_lo", "lo", "copy_hi") \/ CopyHalf(p, "copy_hi", "hi", "check_ver")
             \/ CheckVersion(p)
    <3>1. /\ UNCHANGED table /\ calls' = calls
          /\ pc[p] \in ReadLabel /\ pc'[p] \in ReadLabel \cup {"ret"}
      BY <1>b, <2>3 DEF CopyHalf, CheckVersion, Return, table, ReadLabel
    <3> QED BY <1>d, <3>1 DEF ReadLabel, Inserting, Filling, Owner
  <2> QED BY <1>4, <2>1, <2>2, <2>3 DEF Read
<1>5. CASE End(p)
  <2>1. UNCHANGED table /\ calls' = calls /\ pc[p] = "ret" /\ pc'[p] = "idle"
    BY <1>b, <1>5 DEF End, table
  <2> QED BY <1>d, <2>1 DEF Inserting, Filling, Owner
<1> QED BY <1>1, <1>2, <1>3, <1>4, <1>5 DEF Step

\* A step of pht_insert keeps the parameters of the call and never makes a
\* confidence due again.
LEMMA InsertMoves ==
    ASSUME IInv, NEW p \in Proc, InsertStep(p)
    PROVE  /\ pc[p] \in Inserting /\ pc'[p] \in Inserting \cup {"ret"}
           /\ call'[p].e = call[p].e /\ call'[p].delta = call[p].delta
           /\ pc'[p] \in ConfidenceDue => pc[p] \in ConfidenceDue
<1>a. call[p] \in Call /\ pc \in [Proc -> Label] /\ call \in [Proc -> Call]
  BY Locals
<1>b. ASSUME NEW l, Goto(p, l) PROVE pc'[p] = l
  BY <1>a, <1>b DEF Goto
<1>c. ASSUME NEW v, Return(p, v)
      PROVE  pc'[p] = "ret" /\ call'[p].e = call[p].e /\ call'[p].delta = call[p].delta
  BY <1>a, <1>b, <1>c DEF Return, Call
<1>d. ASSUME NEW l, NEW m, pc[p] = l, pc'[p] = m, l \in ConfidenceDue, m \in Inserting \cup {"ret"},
             call'[p].e = call[p].e, call'[p].delta = call[p].delta
      PROVE  /\ pc[p] \in Inserting /\ pc'[p] \in Inserting \cup {"ret"}
             /\ call'[p].e = call[p].e /\ call'[p].delta = call[p].delta
             /\ pc'[p] \in ConfidenceDue => pc[p] \in ConfidenceDue
  BY <1>d DEF ConfidenceDue
<1>1. CASE Scan(p)
  <2>1. ASSUME NEW a, AfterScan(p, a)
        PROVE  /\ pc'[p] \in {"claim", "ret"}
               /\ call'[p].e = call[p].e /\ call'[p].delta = call[p].delta
    BY <1>a, <1>b, <1>c, <2>1 DEF AfterScan, Call
  <2>2. /\ pc[p] = "scan" /\ pc'[p] \in {"scan", "add", "claim", "ret"}
        /\ call'[p].e = call[p].e /\ call'[p].delta = call[p].delta
    BY <1>a, <1>b, <1>1, <2>1 DEF Scan, Call
  <2> QED BY <1>d, <2>2 DEF ConfidenceDue, Inserting, Filling, Owner
<1>2. CASE Add(p) \/ Claim(p) \/ ClaimCAS(p)
  <2>1. /\ pc[p] \in {"add", "claim", "cas"} /\ pc'[p] \in {"add_src", "cas", "load_ver", "add", "ret"}
        /\ call'[p].e = call[p].e /\ call'[p].delta = call[p].delta
    BY <1>a, <1>b, <1>c, <1>2 DEF Add, Claim, ClaimCAS, Call
  <2> QED BY <1>d, <2>1 DEF ConfidenceDue, Inserting, Filling, Owner
<1>3. CASE LoadVersion(p) \/ Write(p) \/ Unlock(p) \/ SetConfidence(p)
  <2>1. /\ pc[p] \in {"load_ver", "write", "unlock", "set_conf"}
        /\ pc'[p] \in {"write", "unlock", "set_conf", "set_src"}
        /\ call'[p].e = call[p].e /\ call'[p].delta = call[p].delta
    BY <1>a, <1>b, <1>3 DEF LoadVersion, Write, Unlock, SetConfidence, Call
  <2> QED BY <1>d, <2>1 DEF ConfidenceDue, Inserting, Filling, Owner
<1>4. CASE AddSrc(p) \/ SetSrc(p)
  <2>1. /\ pc[p] \in {"add_src", "set_src"} /\ pc'[p] = "ret"
        /\ call'[p].e = call[p].e /\ call'[p].delta = call[p].delta
    BY <1>a, <1>b, <1>c, <1>4 DEF AddSrc, SetSrc
  <2> QED BY <2>1 DEF ConfidenceDue, Inserting, Filling, Owner
<1> QED BY <1>1, <1>2, <1>3, <1>4 DEF InsertStep

\* Every step keeps the ledger.
LEMMA Ledger ==
    ASSUME UInv, NEW p \in Proc, Step(p), calls \in [Proc -> Nat]
    PROVE  PaysOn(p, ConfidenceDue) /\ PaysOn(p, SourceDue)
<1>1. \A r \in Proc : r # p => pc'[r] = pc[r]
  BY Alone DEF UInv
<1>2. CASE InsertStep(p) /\ calls' = calls
  <2>1. IInv
    BY DEF UInv
  <2>2. pc[p] \in Inserting /\ (pc'[p] \in ConfidenceDue => pc[p] \in ConfidenceDue)
    BY <1>2, <2>1, InsertMoves
  <2> QED BY <1>1, <1>2, <2>2 DEF PaysOn, SourceDue
<1>3. CASE Outside(p)
  <2>1. CASE calls' = calls /\ pc'[p] \notin Inserting
    BY <1>1, <2>1 DEF PaysOn, SourceDue, ConfidenceDue
  <2>2. CASE calls' = [calls EXCEPT ![p] = @ + 1]
    BY <1>1, <2>2 DEF PaysOn
  <2> QED BY <1>3, <2>1, <2>2 DEF Outside
<1> QED BY <1>2, <1>3, Sides

\* A deposit stays one of the calls its process may make.
LEMMA InDepositStep ==
    ASSUME UInv, NEW p \in Proc, Step(p), calls \in [Proc -> Nat], InDeposit(p)
    PROVE  InDeposit(p)'
<1>1. CASE InsertStep(p) /\ calls' = calls
  <2>1. IInv
    BY DEF UInv
  <2>2. pc[p] \in Inserting /\ call'[p].delta = call[p].delta
    BY <1>1, <2>1, InsertMoves
  <2> QED BY <1>1, <2>2 DEF InDeposit
<1>2. CASE Outside(p)
  <2>1. CASE calls' = calls /\ pc'[p] \notin Inserting
    BY <2>1 DEF InDeposit
  <2>2. CASE /\ calls[p] < MaxCalls[p] /\ calls' = [calls EXCEPT ![p] = @ + 1]
             /\ pc'[p] \in Inserting => p \in Depositors /\ call'[p].delta \in Delta
    <3>1. calls'[p] = calls[p] + 1 /\ calls[p] \in Nat /\ MaxCalls[p] \in Nat
      BY <2>2, MaxCallsAssumption
    <3>2. calls'[p] \in 1..MaxCalls[p]
      BY <2>2, <3>1
    <3>3. p \in Depositors => <<p, calls'[p]>> \in Deposits
      BY <3>2 DEF Deposits
    <3> QED BY <2>2, <3>2, <3>3 DEF InDeposit
  <2> QED BY <1>2, <2>1, <2>2 DEF Outside
<1> QED BY <1>1, <1>2, Sides

-----------------------------------------------------------------------------
(* The evidence.                                                           *)

\* The state in which a step of pht_insert is taken.
LEMMA FillLocals ==
    ASSUME NEW D \in Nat, FillInv(D), NEW p \in Proc
    PROVE  /\ UInv /\ IInv /\ calls \in [Proc -> Nat] /\ InDeposit(p) /\ Evidence(D)
           /\ FillOK(pc[p], call[p], key, version, entity, confidence)
           /\ call[p] \in Call /\ CallOK(pc[p], call[p], key)
           /\ confidence \in [Slot -> 0..UINT32_MAX] /\ src_count \in [Slot -> 0..UINT16_MAX]
           /\ version \in [Slot -> 0..UINT32_MAX] /\ entity \in [Slot -> Data]
           /\ key \in [Slot -> KeyHash] /\ call \in [Proc -> Call] /\ pc \in [Proc -> Label]
<1>1. UInv /\ IInv
  BY DEF FillInv, UInv
<1> QED BY <1>1, Locals DEF FillInv, IInv, TypeOK

\* Sums that fit do not wrap.
LEMMA NoWrap ==
    ASSUME NEW a \in Nat, NEW b \in Nat
    PROVE  /\ a + b <= UINT32_MAX => Add32(a, b) = a + b
           /\ a + b <= UINT16_MAX => Add16(a, b) = a + b
  BY WidthAssumption DEF Add32, Add16

\* A deposit adds to a confidence, or starts it, without overflow.
LEMMA PayConfidence ==
    ASSUME NEW D \in Nat, Fits(D), FillInv(D), NEW p \in Proc, Step(p), NEW i \in Slot,
           pc[p] \in ConfidenceDue, pc'[p] \notin ConfidenceDue, calls' = calls
    PROVE  /\ confidence[i] + call[p].delta <= D * Cardinality(Paid(ConfidenceDue)')
           /\ Add32(confidence[i], call[p].delta) = confidence[i] + call[p].delta
           /\ confidence[i] + call[p].delta > 0
           /\ call[p].delta > 0 /\ call[p].delta <= D * Cardinality(Paid(ConfidenceDue)')
<1> DEFINE a == Cardinality(Paid(ConfidenceDue))
           b == Cardinality(Paid(ConfidenceDue)')
           n == Cardinality(Deposits)
<1>1. /\ UInv /\ calls \in [Proc -> Nat] /\ <<p, calls[p]>> \in Deposits /\ call[p].delta \in 1..D
      /\ confidence[i] \in Nat /\ confidence[i] <= D * a
  <2>1. pc[p] \in Inserting
    BY DEF ConfidenceDue
  <2>2. /\ UInv /\ calls \in [Proc -> Nat] /\ InDeposit(p) /\ Evidence(D)
        /\ confidence[i] \in 0..UINT32_MAX
    BY FillLocals
  <2>3. confidence[i] \in Nat
    BY <2>2, WidthAssumption
  <2> QED BY <2>1, <2>2, <2>3 DEF InDeposit, Evidence, Fits
<1>2. a \in Nat /\ b \in Nat /\ n \in Nat /\ b <= n
  BY PaidIn, PaidInNext, FS_CardinalityType DEF Fits
<1>3. PaysOn(p, ConfidenceDue)
  BY <1>1, Ledger
<1>4. a + 1 <= b
  BY <1>1, <1>3, PaidOne
<1>5. D * n <= UINT32_MAX
  BY DEF Fits
<1> HIDE DEF a, b, n
<1>6. D * b \in Nat /\ D * n \in Nat /\ D * b <= D * n
  BY <1>2, MoreRoom
<1>7. /\ confidence[i] + call[p].delta <= D * b /\ confidence[i] + call[p].delta \in Nat
      /\ confidence[i] + call[p].delta > 0 /\ call[p].delta <= D * b
  BY <1>1, <1>2, <1>4, Room
<1>8. confidence[i] + call[p].delta <= UINT32_MAX
  <2> DEFINE x == D * b
             y == D * n
  <2>1. x \in Nat /\ y \in Nat /\ x <= y /\ y <= UINT32_MAX /\ confidence[i] + call[p].delta <= x
    BY <1>5, <1>6, <1>7
  <2> HIDE DEF x, y
  <2> QED BY <1>7, <2>1, WidthAssumption
<1>9. call[p].delta \in Nat /\ call[p].delta > 0
  BY <1>1
<1> QED BY <1>1, <1>7, <1>8, <1>9, NoWrap DEF b

\* So does the source it counts.
LEMMA PaySource ==
    ASSUME NEW D \in Nat, Fits(D), FillInv(D), NEW p \in Proc, Step(p), NEW i \in Slot,
           pc[p] \in SourceDue, pc'[p] \notin SourceDue, calls' = calls
    PROVE  /\ src_count[i] + 1 <= Cardinality(Paid(SourceDue)')
           /\ Add16(src_count[i], 1) = src_count[i] + 1
           /\ src_count[i] + 1 > 0 /\ 1 <= Cardinality(Paid(SourceDue)')
<1> DEFINE a == Cardinality(Paid(SourceDue))
           b == Cardinality(Paid(SourceDue)')
           n == Cardinality(Deposits)
<1>1. /\ UInv /\ calls \in [Proc -> Nat] /\ <<p, calls[p]>> \in Deposits
      /\ src_count[i] \in Nat /\ src_count[i] <= a
  <2>1. /\ UInv /\ calls \in [Proc -> Nat] /\ InDeposit(p) /\ Evidence(D)
        /\ src_count[i] \in 0..UINT16_MAX
    BY FillLocals
  <2>2. src_count[i] \in Nat
    BY <2>1, WidthAssumption
  <2> QED BY <2>1, <2>2 DEF InDeposit, Evidence, SourceDue
<1>2. a \in Nat /\ b \in Nat /\ n \in Nat /\ b <= n
  BY PaidIn, PaidInNext, FS_CardinalityType DEF Fits
<1>3. PaysOn(p, SourceDue)
  BY <1>1, Ledger
<1>4. a + 1 <= b
  BY <1>1, <1>3, PaidOne
<1>5. n <= UINT16_MAX
  BY DEF Fits
<1> HIDE DEF a, b, n
<1>6. src_count[i] + 1 <= b /\ src_count[i] + 1 <= UINT16_MAX /\ src_count[i] + 1 > 0 /\ 1 <= b
  BY <1>1, <1>2, <1>4, <1>5, WidthAssumption
<1> QED BY <1>1, <1>6, NoWrap DEF b

\* What a step does to the evidence of a slot.
Credit(p, i) ==
    /\ \/ confidence'[i] = confidence[i]
       \/ /\ confidence'[i] \in {Add32(confidence[i], call[p].delta), call[p].delta}
          /\ pc[p] \in ConfidenceDue /\ pc'[p] \notin ConfidenceDue /\ calls' = calls
    /\ \/ src_count'[i] = src_count[i]
       \/ /\ src_count'[i] \in {Add16(src_count[i], 1), 1}
          /\ pc[p] \in SourceDue /\ pc'[p] \notin SourceDue /\ calls' = calls

LEMMA Credits ==
    ASSUME NEW D \in Nat, FillInv(D), NEW p \in Proc, Step(p), NEW i \in Slot
    PROVE  Credit(p, i)
<1>a. /\ confidence \in [Slot -> 0..UINT32_MAX] /\ src_count \in [Slot -> 0..UINT16_MAX]
      /\ UInv /\ pc \in [Proc -> Label] /\ CallOK(pc[p], call[p], key)
  BY FillLocals
<1>b. ASSUME NEW l, Goto(p, l) PROVE pc'[p] = l
  BY <1>a, <1>b DEF Goto
<1>1. CASE Outside(p)
  BY <1>1 DEF Outside, table, Credit
<1>2. CASE InsertStep(p) /\ calls' = calls
  <2>1. CASE confidence' = confidence /\ src_count' = src_count
    BY <2>1 DEF Credit
  <2>2. CASE Add(p)
    <3>1. /\ pc[p] = "add" /\ pc'[p] \in {"add_src", "ret"} /\ src_count' = src_count
          /\ confidence' = [confidence EXCEPT ![call[p].avail] =
                               Add32(confidence[call[p].avail], call[p].delta)]
      BY <1>b, <2>2 DEF Add, Return
    <3> QED BY <1>a, <1>2, <3>1 DEF Credit, ConfidenceDue, Inserting, Filling, Owner
  <2>3. CASE SetConfidence(p)
    <3>1. /\ pc[p] = "set_conf" /\ pc'[p] = "set_src" /\ src_count' = src_count
          /\ confidence' = [confidence EXCEPT ![call[p].avail] = call[p].delta]
      BY <1>b, <2>3 DEF SetConfidence
    <3> QED BY <1>a, <1>2, <3>1 DEF Credit, ConfidenceDue, Inserting, Filling, Owner
  <2>4. CASE AddSrc(p)
    <3>1. /\ pc[p] = "add_src" /\ pc'[p] = "ret" /\ confidence' = confidence
          /\ src_count' = [src_count EXCEPT ![call[p].avail] = Add16(src_count[call[p].avail], 1)]
      BY <1>b, <2>4 DEF AddSrc
    <3> QED BY <1>a, <1>2, <3>1 DEF Credit, SourceDue, Inserting, Filling, Owner
  <2>5. CASE SetSrc(p)
    <3>1. /\ pc[p] = "set_src" /\ pc'[p] = "ret" /\ confidence' = confidence
          /\ src_count' = [src_count EXCEPT ![call[p].avail] = 1]
      BY <1>b, <2>5 DEF SetSrc, Return
    <3> QED BY <1>a, <1>2, <3>1 DEF Credit, SourceDue, Inserting, Filling, Owner
  <2> QED BY <1>2, <2>1, <2>2, <2>3, <2>4, <2>5
          DEF InsertStep, Scan, Claim, ClaimCAS, LoadVersion, Write, Unlock
<1> QED BY <1>a, <1>1, <1>2, Sides

\* The evidence is bounded by the deposits paid, and none of it is lost to a wrap.
LEMMA EvidenceStep ==
    ASSUME NEW D \in Nat, Fits(D), FillInv(D), NEW p \in Proc, Step(p)
    PROVE  /\ Evidence(D)'
           /\ \A i \in Slot : /\ confidence[i] > 0 => confidence'[i] > 0
                              /\ src_count[i] > 0 => src_count'[i] > 0
<1> DEFINE a == Cardinality(Paid(ConfidenceDue))
           b == Cardinality(Paid(ConfidenceDue)')
           s == Cardinality(Paid(SourceDue))
           t == Cardinality(Paid(SourceDue)')
<1>1. /\ UInv /\ calls \in [Proc -> Nat] /\ Evidence(D)
      /\ confidence \in [Slot -> 0..UINT32_MAX] /\ src_count \in [Slot -> 0..UINT16_MAX]
  BY FillLocals
<1>2. a \in Nat /\ b \in Nat /\ s \in Nat /\ t \in Nat
  BY PaidIn, PaidInNext
<1>3. PaysOn(p, ConfidenceDue) /\ PaysOn(p, SourceDue)
  BY <1>1, Ledger
<1>4. a <= b /\ s <= t
  BY <1>1, <1>3, PaidGrows
<1> SUFFICES ASSUME NEW i \in Slot
             PROVE  /\ confidence'[i] <= D * b /\ src_count'[i] <= t
                    /\ confidence[i] > 0 => confidence'[i] > 0
                    /\ src_count[i] > 0 => src_count'[i] > 0
  BY DEF Evidence
<1>5. Credit(p, i)
  BY Credits
<1>6. confidence[i] \in Nat /\ confidence[i] <= D * a /\ src_count[i] \in Nat /\ src_count[i] <= s
  BY <1>1, WidthAssumption DEF Evidence
<1>7. ASSUME confidence'[i] = confidence[i] PROVE confidence'[i] <= D * b
  <2> HIDE DEF a, b
  <2> DEFINE x == D * a
             y == D * b
  <2>1. x \in Nat /\ y \in Nat /\ x <= y /\ confidence[i] <= x
    BY <1>2, <1>4, <1>6, MoreRoom
  <2> HIDE DEF x, y
  <2>2. confidence[i] <= y
    BY <1>6, <2>1
  <2> QED BY <1>7, <2>2 DEF y
<1>8. ASSUME src_count'[i] = src_count[i] PROVE src_count'[i] <= t
  <2> HIDE DEF s, t
  <2> QED BY <1>2, <1>4, <1>6, <1>8
<1>9. confidence'[i] <= D * b /\ (confidence[i] > 0 => confidence'[i] > 0)
  <2>1. CASE confidence'[i] # confidence[i]
    <3>1. /\ confidence[i] + call[p].delta <= D * b
          /\ Add32(confidence[i], call[p].delta) = confidence[i] + call[p].delta
          /\ confidence[i] + call[p].delta > 0
          /\ call[p].delta > 0 /\ call[p].delta <= D * b
          /\ confidence'[i] \in {Add32(confidence[i], call[p].delta), call[p].delta}
      BY <1>5, <2>1, PayConfidence DEF Credit
    <3> HIDE DEF b
    <3> QED BY <3>1
  <2>2. CASE confidence'[i] = confidence[i]
    <3>1. confidence'[i] <= D * b
      BY <1>7, <2>2
    <3> QED BY <2>2, <3>1
  <2> QED BY <2>1, <2>2
<1>10. src_count'[i] <= t /\ (src_count[i] > 0 => src_count'[i] > 0)
  <2>1. CASE src_count'[i] # src_count[i]
    <3>1. /\ src_count[i] + 1 <= t /\ Add16(src_count[i], 1) = src_count[i] + 1
          /\ src_count[i] + 1 > 0 /\ 1 <= t
          /\ src_count'[i] \in {Add16(src_count[i], 1), 1}
      BY <1>5, <2>1, PaySource DEF Credit
    <3> HIDE DEF t
    <3> QED BY <3>1
  <2> QED BY <1>8, <2>1
<1> QED BY <1>9, <1>10

-----------------------------------------------------------------------------
(* Filling a slot.                                                         *)

\* What a step of p does to the entries: only the process that fills a slot writes
\* its version and its data, a slot is claimed while it is empty, and it is left whole.
Fills(p) ==
    /\ \A i \in Slot : ~ Filler(p, i) => version'[i] = version[i] /\ entity'[i] = entity[i]
    /\ \A i \in Slot : key[i] # EMPTY => key'[i] = key[i]
    /\ \A i \in Slot : key[i] = EMPTY /\ key'[i] # EMPTY => Filler(p, i)'
    /\ \A i \in Slot : Filler(p, i)' => Filler(p, i) \/ key[i] = EMPTY
    /\ \A i \in Slot : Filler(p, i) => Filler(p, i)' \/ Whole(i)'
    /\ FillOK(pc'[p], call'[p], key', version', entity', confidence')

\* The slot of a filler is in the table and has its key.
LEMMA FillerSlot ==
    ASSUME NEW D \in Nat, FillInv(D), NEW p \in Proc, pc[p] \in Filling
    PROVE  /\ call[p].avail \in Slot /\ call[p].e \in Entity
           /\ key[call[p].avail] = entity_key_hash(call[p].e) /\ key[call[p].avail] # EMPTY
<1>1. CallOK(pc[p], call[p], key) /\ FillOK(pc[p], call[p], key, version, entity, confidence)
  BY FillLocals
<1>2. call[p].avail \in Slot /\ call[p].e \in Entity
  BY <1>1 DEF CallOK, WithSlot, WithEntity, Filling, Owner
<1> QED BY <1>1, <1>2, KeyLive DEF FillOK, Free

\* A step that writes neither keys, versions nor data, of a process that fills
\* nothing before or after.
LEMMA FillsNothing ==
    ASSUME NEW p \in Proc, key' = key, version' = version, entity' = entity,
           pc[p] \notin Filling, pc'[p] \notin Filling
    PROVE  Fills(p)
  BY DEF Fills, Filler, FillOK, Filling, Owner

\* The claim.
LEMMA FillClaim ==
    ASSUME NEW D \in Nat, FillInv(D), NEW p \in Proc, ClaimCAS(p)
    PROVE  Fills(p)
<1> DEFINE i == call[p].avail
<1>a. /\ UInv /\ call[p] \in Call /\ CallOK(pc[p], call[p], key) /\ key \in [Slot -> KeyHash]
      /\ pc \in [Proc -> Label] /\ call \in [Proc -> Call]
  BY FillLocals
<1>b. ASSUME NEW l, Goto(p, l) PROVE pc'[p] = l
  BY <1>a, <1>b DEF Goto
<1>1. pc[p] = "cas" /\ i \in Slot /\ call[p].e \in Entity /\ version' = version /\ entity' = entity
  BY <1>a DEF ClaimCAS, CallOK, WithSlot, WithEntity
<1>2. CASE key[i] = call[p].expected
  <2>1. pc'[p] = "load_ver" /\ call' = call /\ key' = [key EXCEPT ![i] = Key(p)]
    BY <1>b, <1>2 DEF ClaimCAS
  <2>2. key[i] = EMPTY
    <3>1. FreshOK(pc[p], call[p], key)
      BY <1>a DEF UInv
    <3> QED BY <1>1, <1>2, <3>1 DEF FreshOK
  <2>3. version[i] = 0
    BY <1>1, <2>2 DEF FillInv, EntryOK
  <2>4. key'[i] = Key(p) /\ \A j \in Slot : j # i => key'[j] = key[j]
    BY <1>a, <1>1, <2>1
  <2>5. FillOK(pc'[p], call'[p], key', version', entity', confidence')
    BY <1>1, <2>1, <2>3, <2>4 DEF FillOK, Key
  <2>6. \A j \in Slot : Filler(p, j)' <=> j = i
    BY <2>1 DEF Filler, Filling, Owner
  <2>7. \A j \in Slot : ~ Filler(p, j)
    BY <1>1 DEF Filler, Filling, Owner
  <2> QED BY <1>1, <2>2, <2>4, <2>5, <2>6, <2>7 DEF Fills
<1>3. CASE key[i] # call[p].expected
  <2>1. pc'[p] \in {"add", "ret"} /\ key' = key
    BY <1>b, <1>3 DEF ClaimCAS, Return
  <2> QED BY <1>1, <2>1, FillsNothing DEF Filling, Owner
<1> QED BY <1>2, <1>3

\* A step of the filler that keeps it at its slot.
LEMMA FillsOn ==
    ASSUME NEW D \in Nat, FillInv(D), NEW p \in Proc, pc[p] \in Filling, pc'[p] \in Filling,
           call'[p].avail = call[p].avail, key' = key,
           \A j \in Slot : j # call[p].avail => version'[j] = version[j] /\ entity'[j] = entity[j],
           FillOK(pc'[p], call'[p], key', version', entity', confidence')
    PROVE  Fills(p)
<1>1. \A j : Filler(p, j) <=> j = call[p].avail
  BY DEF Filler
<1>2. \A j : Filler(p, j)' <=> j = call[p].avail
  BY DEF Filler
<1> QED BY <1>1, <1>2 DEF Fills

\* The version loaded from a slot just claimed is 0.
LEMMA FillLoad ==
    ASSUME NEW D \in Nat, FillInv(D), NEW p \in Proc, LoadVersion(p)
    PROVE  Fills(p)
<1>a. /\ call[p] \in Call /\ pc \in [Proc -> Label] /\ call \in [Proc -> Call]
      /\ FillOK(pc[p], call[p], key, version, entity, confidence)
  BY FillLocals
<1>1. pc[p] = "load_ver" /\ pc[p] \in Filling
  BY DEF LoadVersion, Filling, Owner
<1>2. version[call[p].avail] = 0 /\ key[call[p].avail] = entity_key_hash(call[p].e)
  BY <1>a, <1>1 DEF FillOK
<1>3. LockVersion(0) = 1
  BY WidthAssumption DEF LockVersion, Add32
<1>4. /\ pc'[p] = "write" /\ key' = key /\ version' = version /\ entity' = entity
      /\ call'[p].avail = call[p].avail /\ call'[p].e = call[p].e
      /\ call'[p].todo = Writes /\ call'[p].ver = 1
  BY <1>a, <1>2, <1>3 DEF LoadVersion, Goto, Call
<1>5. FillOK(pc'[p], call'[p], key', version', entity', confidence')
  BY <1>2, <1>4 DEF FillOK, Writes
<1> QED BY <1>1, <1>4, <1>5, FillsOn DEF Filling, Owner

\* The stores of the lock and of the halves, in either order.
LEMMA FillWrite ==
    ASSUME NEW D \in Nat, FillInv(D), NEW p \in Proc, Write(p)
    PROVE  Fills(p)
<1> DEFINE i == call[p].avail
<1>a. /\ call[p] \in Call /\ pc \in [Proc -> Label] /\ call \in [Proc -> Call]
      /\ FillOK(pc[p], call[p], key, version, entity, confidence)
      /\ version \in [Slot -> 0..UINT32_MAX] /\ entity \in [Slot -> Data]
  BY FillLocals
<1>1. pc[p] = "write" /\ pc[p] \in Filling /\ key' = key
  BY DEF Write, Filling, Owner
<1>2. i \in Slot /\ key[i] = entity_key_hash(call[p].e)
  BY <1>1, FillerSlot
<1>3. /\ call[p].ver = 1 /\ call[p].todo \in SUBSET Writes
      /\ \A h \in Half \ call[p].todo : entity[i][h] = call[p].e
  BY <1>a, <1>1 DEF FillOK, Call
<1>4. PICK w \in NextWrites(p) :
         /\ IF w = "lock"
            THEN version' = [version EXCEPT ![i] = call[p].ver] /\ entity' = entity
            ELSE entity' = [entity EXCEPT ![i][w] = call[p].e] /\ version' = version
         /\ call' = [call EXCEPT ![p].todo = @ \ {w}]
         /\ Goto(p, IF call[p].todo = {w} THEN "unlock" ELSE "write")
  BY DEF Write
<1>5. w \in call[p].todo
  BY <1>4 DEF NextWrites
<1>6. /\ call'[p].avail = i /\ call'[p].todo = call[p].todo \ {w} /\ call'[p].ver = 1
      /\ call'[p].e = call[p].e
      /\ pc'[p] = (IF call[p].todo = {w} THEN "unlock" ELSE "write")
  BY <1>a, <1>3, <1>4 DEF Goto, Call
<1>7. \A j \in Slot : j # i => version'[j] = version[j] /\ entity'[j] = entity[j]
  BY <1>a, <1>2, <1>4
<1>8. \A h \in Half \ (call[p].todo \ {w}) : entity'[i][h] = call[p].e
  <2>1. CASE w = "lock"
    <3>1. entity' = entity /\ \A h \in Half : h # "lock"
      BY <1>4, <2>1 DEF Half
    <3> QED BY <1>3, <2>1, <3>1
  <2>2. CASE w # "lock"
    <3>1. w \in Half /\ entity[i] \in Data /\ entity'[i] = [entity[i] EXCEPT ![w] = call[p].e]
      BY <1>a, <1>2, <1>3, <1>4, <1>5, <2>2 DEF Writes
    <3> QED BY <1>3, <3>1 DEF Data
  <2> QED BY <2>1, <2>2
<1>9. FillOK(pc'[p], call'[p], key', version', entity', confidence')
  <2>1. CASE call[p].todo = {w}
    BY <1>1, <1>2, <1>6, <1>8, <2>1 DEF FillOK
  <2>2. CASE call[p].todo # {w}
    <3>1. call'[p].todo # {} /\ pc'[p] = "write"
      BY <1>5, <1>6, <2>2
    <3> QED BY <1>1, <1>2, <1>6, <1>8, <3>1 DEF FillOK
  <2> QED BY <2>1, <2>2
<1> QED BY <1>1, <1>6, <1>7, <1>9, FillsOn DEF Filling, Owner

\* The release, over complete data.
LEMMA FillUnlock ==
    ASSUME NEW D \in Nat, FillInv(D), NEW p \in Proc, Unlock(p)
    PROVE  Fills(p)
<1> DEFINE i == call[p].avail
<1>a. /\ pc \in [Proc -> Label] /\ FillOK(pc[p], call[p], key, version, entity, confidence)
      /\ version \in [Slot -> 0..UINT32_MAX] /\ entity \in [Slot -> Data]
  BY FillLocals
<1>1. /\ pc[p] = "unlock" /\ pc[p] \in Filling /\ pc'[p] = "set_conf" /\ key' = key
      /\ entity' = entity /\ call' = call
      /\ version' = [version EXCEPT ![i] = Add32(call[p].ver, 1)]
  BY <1>a DEF Unlock, Goto, Filling, Owner
<1>2. i \in Slot /\ key[i] = entity_key_hash(call[p].e)
  BY <1>1, FillerSlot
<1>3. call[p].ver = 1 /\ \A h \in Half : entity[i][h] = call[p].e
  BY <1>a, <1>1 DEF FillOK
<1>4. Add32(1, 1) = 2
  BY WidthAssumption DEF Add32
<1>5. version'[i] = 2 /\ \A j \in Slot : j # i => version'[j] = version[j]
  BY <1>a, <1>1, <1>2, <1>3, <1>4
<1>6. entity[i] = Halves(call[p].e)
  <2>1. entity[i] \in Data
    BY <1>a, <1>2
  <2> QED BY <1>3, <2>1 DEF Data, Halves
<1>7. FillOK(pc'[p], call'[p], key', version', entity', confidence')
  BY <1>1, <1>2, <1>5, <1>6 DEF FillOK
<1> QED BY <1>1, <1>5, <1>7, FillsOn DEF Filling, Owner

\* The initial confidence, which is not 0.
LEMMA FillConfidence ==
    ASSUME NEW D \in Nat, Fits(D), FillInv(D), NEW p \in Proc, SetConfidence(p)
    PROVE  Fills(p)
<1> DEFINE i == call[p].avail
<1>a. /\ pc \in [Proc -> Label] /\ FillOK(pc[p], call[p], key, version, entity, confidence)
      /\ confidence \in [Slot -> 0..UINT32_MAX] /\ InDeposit(p)
  BY FillLocals
<1>1. /\ pc[p] = "set_conf" /\ pc[p] \in Filling /\ pc'[p] = "set_src" /\ key' = key
      /\ entity' = entity /\ version' = version /\ call' = call
      /\ confidence' = [confidence EXCEPT ![i] = call[p].delta]
  BY <1>a DEF SetConfidence, Goto, Filling, Owner
<1>2. i \in Slot /\ key[i] = entity_key_hash(call[p].e)
  BY <1>1, FillerSlot
<1>3. call[p].delta \in 1..D
  BY <1>a, <1>1 DEF InDeposit, Inserting, Fits
<1>4. confidence'[i] > 0
  BY <1>a, <1>1, <1>2, <1>3
<1>5. version[i] = 2 /\ entity[i] = Halves(call[p].e)
  BY <1>a, <1>1 DEF FillOK
<1>6. FillOK(pc'[p], call'[p], key', version', entity', confidence')
  BY <1>1, <1>2, <1>4, <1>5 DEF FillOK
<1> QED BY <1>1, <1>6, FillsOn DEF Filling, Owner

\* The first source, which leaves the entry whole.
LEMMA FillSource ==
    ASSUME NEW D \in Nat, FillInv(D), NEW p \in Proc, SetSrc(p)
    PROVE  Fills(p)
<1> DEFINE i == call[p].avail
<1>a. /\ pc \in [Proc -> Label] /\ FillOK(pc[p], call[p], key, version, entity, confidence)
      /\ src_count \in [Slot -> 0..UINT16_MAX]
  BY FillLocals
<1>1. /\ pc[p] = "set_src" /\ pc[p] \in Filling /\ pc'[p] = "ret" /\ key' = key
      /\ entity' = entity /\ version' = version /\ confidence' = confidence
      /\ src_count' = [src_count EXCEPT ![i] = 1]
  BY <1>a DEF SetSrc, Return, Goto, Filling, Owner
<1>2. i \in Slot /\ key[i] = entity_key_hash(call[p].e) /\ call[p].e \in Entity
  BY <1>1, FillerSlot
<1>3. version[i] = 2 /\ entity[i] = Halves(call[p].e) /\ confidence[i] > 0
  BY <1>a, <1>1 DEF FillOK
<1>4. ASSUME NEW j \in Slot, j = i PROVE Whole(j)'
  <2>1. src_count'[j] > 0
    BY <1>a, <1>1, <1>2, <1>4
  <2> QED BY <1>1, <1>2, <1>3, <1>4, <2>1 DEF Whole
<1>5. \A j : ~ Filler(p, j)'
  BY <1>1 DEF Filler, Filling, Owner
<1>6. FillOK(pc'[p], call'[p], key', version', entity', confidence')
  BY <1>1 DEF FillOK, Filling, Owner
<1>7. \A j : Filler(p, j) => j = i
  BY DEF Filler
<1> QED BY <1>1, <1>4, <1>5, <1>6, <1>7 DEF Fills

LEMMA FillStep ==
    ASSUME NEW D \in Nat, Fits(D), FillInv(D), NEW p \in Proc, Step(p)
    PROVE  Fills(p)
<1>a. UInv /\ IInv /\ pc \in [Proc -> Label]
  BY FillLocals
<1>b. ASSUME NEW l, Goto(p, l) PROVE pc'[p] = l
  BY <1>a, <1>b DEF Goto
<1>1. CASE Outside(p)
  BY <1>1, FillsNothing DEF Outside, table, Inserting, Filling, Owner
<1>2. CASE Scan(p) \/ Add(p) \/ AddSrc(p) \/ Claim(p)
  <2>1. ASSUME NEW a, AfterScan(p, a) PROVE pc'[p] \in {"claim", "ret"}
    BY <1>b, <2>1 DEF AfterScan, Return
  <2>2. /\ pc[p] \in {"scan", "add", "add_src", "claim"}
        /\ pc'[p] \in {"scan", "add", "claim", "add_src", "cas", "ret"}
        /\ key' = key /\ version' = version /\ entity' = entity
    BY <1>b, <1>2, <2>1 DEF Scan, Add, AddSrc, Claim, Return
  <2> QED BY <2>2, FillsNothing DEF Filling, Owner
<1>3. CASE ClaimCAS(p)
  BY <1>3, FillClaim
<1>4. CASE LoadVersion(p)
  BY <1>4, FillLoad
<1>5. CASE Write(p)
  BY <1>5, FillWrite
<1>6. CASE Unlock(p)
  BY <1>6, FillUnlock
<1>7. CASE SetConfidence(p)
  BY <1>7, FillConfidence
<1>8. CASE SetSrc(p)
  BY <1>8, FillSource
<1> QED BY <1>a, <1>1, <1>2, <1>3, <1>4, <1>5, <1>6, <1>7, <1>8, Sides DEF InsertStep

-----------------------------------------------------------------------------
(* The invariant.                                                          *)

\* What p's step leaves of the entries, of the other fillers and of its own.
LEMMA FillFrame ==
    ASSUME NEW D \in Nat, FillInv(D), NEW p \in Proc, Fills(p),
           \A r \in Proc : r # p => pc'[r] = pc[r] /\ call'[r] = call[r],
           \A i \in Slot : /\ confidence[i] > 0 => confidence'[i] > 0
                           /\ src_count[i] > 0 => src_count'[i] > 0
    PROVE  /\ OneFiller' /\ \A i \in Slot : EntryOK(i)'
           /\ \A r \in Proc : FillOK(pc'[r], call'[r], key', version', entity', confidence')
<1>a. \A r \in Proc : \A i \in Slot : r # p => (Filler(r, i)' <=> Filler(r, i))
  BY DEF Filler
<1>b. \A r \in Proc : \A i \in Slot : Filler(r, i) => key[i] # EMPTY
  BY FillerSlot DEF Filler
<1>c. \A q, r \in Proc : \A i \in Slot : Filler(q, i) /\ Filler(r, i) => q = r
  BY DEF FillInv, OneFiller
<1>1. ASSUME NEW q \in Proc, NEW r \in Proc, NEW i \in Slot, Filler(q, i)', Filler(r, i)'
      PROVE  q = r
  <2>1. \A s \in Proc : Filler(s, i)' => Filler(s, i) \/ (s = p /\ key[i] = EMPTY)
    BY <1>a DEF Fills
  <2> QED BY <1>1, <1>b, <1>c, <2>1
<1>2. ASSUME NEW i \in Slot PROVE EntryOK(i)'
  <2>1. EntryOK(i)
    BY DEF FillInv
  <2>2. ASSUME key'[i] = EMPTY PROVE version'[i] = 0
    <3>1. key[i] = EMPTY
      BY <2>2 DEF Fills
    <3>2. ~ Filler(p, i)
      BY <1>b, <3>1
    <3>3. version'[i] = version[i]
      BY <3>2 DEF Fills
    <3> QED BY <2>1, <3>1, <3>3 DEF EntryOK
  <2>3. ASSUME key'[i] # EMPTY PROVE Whole(i)' \/ \E r \in Proc : Filler(r, i)'
    <3>1. CASE key[i] = EMPTY
      BY <2>3, <3>1 DEF Fills
    <3>2. CASE Filler(p, i)
      BY <3>2 DEF Fills
    <3>3. CASE \E r \in Proc : r # p /\ Filler(r, i)
      BY <1>a, <3>3
    <3>4. CASE key[i] # EMPTY /\ ~ Filler(p, i) /\ Whole(i)
      <4>1. version'[i] = version[i] /\ entity'[i] = entity[i] /\ key'[i] = key[i]
        BY <3>4 DEF Fills
      <4>2. Whole(i)'
        BY <3>4, <4>1 DEF Whole
      <4> QED BY <4>2
    <3> QED BY <2>1, <3>1, <3>2, <3>3, <3>4 DEF EntryOK
  <2> QED BY <2>2, <2>3 DEF EntryOK
<1>3. ASSUME NEW r \in Proc
      PROVE  FillOK(pc'[r], call'[r], key', version', entity', confidence')
  <2>1. CASE r = p
    BY <2>1 DEF Fills
  <2>2. CASE r # p
    <3> DEFINE i == call[r].avail
    <3>1. pc'[r] = pc[r] /\ call'[r] = call[r]
      BY <2>2
    <3>2. FillOK(pc[r], call[r], key, version, entity, confidence)
      BY FillLocals
    <3>3. CASE pc[r] \in Filling
      <4>1. i \in Slot /\ key[i] # EMPTY
        BY <3>3, FillerSlot
      <4>2. ~ Filler(p, i)
        BY <1>c, <2>2, <3>3, <4>1 DEF Filler
      <4>3. /\ version'[i] = version[i] /\ entity'[i] = entity[i] /\ key'[i] = key[i]
            /\ confidence[i] > 0 => confidence'[i] > 0
        BY <4>1, <4>2 DEF Fills
      <4> QED BY <3>1, <3>2, <4>3 DEF FillOK
    <3>4. CASE pc[r] \notin Filling
      BY <3>1, <3>4 DEF FillOK, Filling, Owner
    <3> QED BY <3>3, <3>4
  <2> QED BY <2>1, <2>2
<1>4. OneFiller'
  BY <1>1 DEF OneFiller
<1> QED BY <1>2, <1>3, <1>4

LEMMA FillInvStep ==
    ASSUME NoEvictions, Mortal = {}, NEW D \in Nat, Fits(D), FillInv(D), [Next]_vars
    PROVE  FillInv(D)'
<1>0. UInv /\ UInv' /\ IInv
  BY UInvStep DEF FillInv, UInv
<1>1. CASE UNCHANGED vars
  <2>1. /\ key' = key /\ version' = version /\ entity' = entity /\ pc' = pc /\ call' = call
        /\ confidence' = confidence /\ src_count' = src_count /\ calls' = calls
    BY <1>1 DEF vars
  <2>2. Paid(ConfidenceDue)' = Paid(ConfidenceDue) /\ Paid(SourceDue)' = Paid(SourceDue)
    BY <2>1 DEF Paid
  <2>3. Evidence(D)'
    BY <2>1, <2>2 DEF FillInv, Evidence
  <2>4. \A p \in Proc : \A i \in Slot : Filler(p, i)' <=> Filler(p, i)
    BY <2>1 DEF Filler
  <2>5. \A i \in Slot : Whole(i)' <=> Whole(i)
    BY <2>1 DEF Whole
  <2>6. OneFiller' /\ \A i \in Slot : EntryOK(i)'
    BY <2>1, <2>4, <2>5 DEF FillInv, OneFiller, EntryOK
  <2>7. \A p \in Proc : InDeposit(p)' /\ FillOK(pc'[p], call'[p], key', version', entity', confidence')
    BY <2>1 DEF FillInv, InDeposit
  <2> QED BY <1>0, <2>3, <2>6, <2>7 DEF FillInv
<1>2. ASSUME NEW p \in Proc, Step(p)
      PROVE  FillInv(D)'
  <2>1. \A r \in Proc : r # p => pc'[r] = pc[r] /\ call'[r] = call[r]
    BY <1>0, <1>2, Alone
  <2>2. calls \in [Proc -> Nat]
    BY <1>2, FillLocals
  <2>3. Fills(p)
    BY <1>2, FillStep
  <2>4. /\ Evidence(D)'
        /\ \A i \in Slot : /\ confidence[i] > 0 => confidence'[i] > 0
                           /\ src_count[i] > 0 => src_count'[i] > 0
    BY <1>2, EvidenceStep
  <2>5. /\ OneFiller' /\ \A i \in Slot : EntryOK(i)'
        /\ \A r \in Proc : FillOK(pc'[r], call'[r], key', version', entity', confidence')
    BY <2>1, <2>3, <2>4, FillFrame
  <2>6. ASSUME NEW r \in Proc PROVE InDeposit(r)'
    <3>1. InDeposit(r)
      BY DEF FillInv
    <3>2. CASE r = p
      BY <1>0, <1>2, <2>2, <3>1, <3>2, InDepositStep
    <3>3. CASE r # p
      <4>1. PaysOn(p, SourceDue)
        BY <1>0, <1>2, <2>2, Ledger
      <4>2. calls'[r] = calls[r] /\ pc'[r] = pc[r] /\ call'[r] = call[r]
        BY <2>1, <3>3, <4>1 DEF PaysOn
      <4> QED BY <3>1, <4>2 DEF InDeposit
    <3> QED BY <3>2, <3>3
  <2> QED BY <1>0, <2>4, <2>5, <2>6 DEF FillInv
<1>3. \A p \in Proc : ~ Crash(p)
  BY DEF Crash
<1> QED BY <1>1, <1>2, <1>3 DEF Next, Finished

LEMMA FillInvInit ==
    ASSUME NEW D \in Nat, Fits(D), Init
    PROVE  FillInv(D)
<1>1. UInv
  BY UInvInit
<1>2. \A p \in Proc : pc[p] = "idle" /\ calls[p] = 0
  BY DEF Init
<1>3. \A p \in Proc : pc[p] \notin Inserting /\ pc[p] \notin Filling
  BY <1>2 DEF Inserting, Filling, Owner
<1>4. \A i \in Slot : confidence[i] = 0 /\ src_count[i] = 0 /\ version[i] = 0 /\ key[i] = EMPTY
  BY DEF Init
<1>5. Evidence(D)
  <2>1. Cardinality(Paid(ConfidenceDue)) \in Nat /\ Cardinality(Paid(SourceDue)) \in Nat
    BY PaidIn
  <2>2. D * Cardinality(Paid(ConfidenceDue)) \in Nat
    BY <2>1, MoreRoom
  <2> QED BY <1>4, <2>1, <2>2 DEF Evidence
<1>6. OneFiller /\ \A i \in Slot : EntryOK(i)
  BY <1>3, <1>4 DEF OneFiller, Filler, EntryOK
<1>7. ASSUME NEW p \in Proc
      PROVE InDeposit(p) /\ FillOK(pc[p], call[p], key, version, entity, confidence)
  <2>1. MaxCalls[p] \in Nat
    BY MaxCallsAssumption
  <2> QED BY <1>2, <1>3, <2>1 DEF InDeposit, FillOK
<1> QED BY <1>1, <1>5, <1>6, <1>7 DEF FillInv

\* Where nothing is evicted, no process dies in a call and the deposits together fit
\* the fields, the end of all calls in progress leaves every live entry whole,
\* whatever the store order: released, filled with its entity, and with evidence.
THEOREM SettledCorrect ==
    \A D \in Nat : NoEvictions /\ Mortal = {} /\ Fits(D) => (Spec => []Settled)
<1> SUFFICES ASSUME NEW D \in Nat, NoEvictions, Mortal = {}, Fits(D) PROVE Spec => []Settled
  OBVIOUS
<1>1. Init => FillInv(D)
  BY FillInvInit
<1>2. FillInv(D) /\ [Next]_vars => FillInv(D)'
  BY FillInvStep
<1>3. FillInv(D) => Settled
  <2> SUFFICES ASSUME FillInv(D), \A p \in Proc : ~InCall(p), NEW i \in Slot, ~Free(key[i])
               PROVE  /\ version[i] % 2 = 0
                      /\ \E e \in Entity : entity[i] = Halves(e) /\ key[i] = entity_key_hash(e)
                      /\ confidence[i] > 0 /\ src_count[i] > 0
    BY DEF Settled
  <2>1. key[i] # EMPTY
    BY DEF Free
  <2>2. \A p \in Proc : ~ Filler(p, i)
    BY DEF InCall, Filler, Filling, Owner
  <2>3. Whole(i)
    BY <2>1, <2>2 DEF FillInv, EntryOK
  <2>4. 2 % 2 = 0
    OBVIOUS
  <2> QED BY <2>3, <2>4 DEF Whole
<1> QED BY <1>1, <1>2, <1>3, PTL DEF Spec

=============================================================================
