---------------------------- MODULE QuorumProofs -----------------------------
(***************************************************************************)
(* Proofs about QuorumSweep, for every table, evaluator size, threshold    *)
(* and hits array: the sweep stays typed, a recorded report is one the     *)
(* host has, and slot by slot the evaluator implements module Alarm.       *)
(***************************************************************************)
EXTENDS QuorumSweep, NatFacts, TLAPS

-----------------------------------------------------------------------------
(* Constants and small facts.                                              *)

LEMMA Consts ==
  /\ EMPTY \notin Keys /\ TOMBSTONE \notin Keys /\ EMPTY # TOMBSTONE
  /\ Cap \in Nat /\ Cap <= TableCapacity /\ TableCapacity \in Nat /\ HitsCapacity \in Nat
  /\ Delta \in 0 .. MaxConfidence /\ MaxConfidence \in Nat
  /\ MaxSources \in Nat \ {0} /\ MaxHits \in Nat \ {0}
  /\ DecayFactor \in Nat /\ DecayFactor <= 65536
  /\ "idle" \notin Modes
  /\ Swept \subseteq Slots
<1>1. /\ EMPTY \notin Keys /\ TOMBSTONE \notin Keys /\ EMPTY # TOMBSTONE
      /\ TableCapacity \in Nat /\ HitsCapacity \in Nat /\ Capacity \in Nat
  BY QuorumAssumption
<1>2. Cap \in Nat /\ Cap <= TableCapacity
  BY <1>1 DEF Cap
<1>3. /\ Delta \in Nat /\ DecayFactor \in Nat /\ MaxConfidence \in Nat
      /\ MaxSources \in Nat /\ MaxHits \in Nat
  BY QuorumAssumption
<1>4. DecayFactor <= 65536 /\ Delta <= MaxConfidence /\ MaxSources >= 1 /\ MaxHits >= 1
  BY QuorumAssumption
<1>5. "idle" \notin Modes
  BY QuorumAssumption
<1>6. Swept \subseteq Slots
  BY <1>1, <1>2 DEF Swept, Slots
<1>7. Delta \in 0 .. MaxConfidence
      /\ MaxSources # 0 /\ MaxHits # 0
  BY <1>3, <1>4
<1> QED BY <1>1, <1>2, <1>3, <1>4, <1>5, <1>6, <1>7

\* Nothing reported is a report, of no entity and no tier.
LEMMA QuietOK == Quiet \in Report /\ Quiet.key = EMPTY /\ Quiet.tier = NONE
BY DEF Quiet, Report, Names, Tiers, NONE, ALERT

\* The product of an entry's confidence and a factor of at most 1.0, scaled
\* back, is no larger than the confidence.
LEMMA DecayedBound ==
  ASSUME NEW c \in 0 .. MaxConfidence
  PROVE  Decayed(c) \in 0 .. MaxConfidence
<1>1. c \in Nat /\ c <= MaxConfidence /\ MaxConfidence \in Nat
      /\ DecayFactor \in Nat /\ DecayFactor <= 65536
  BY Consts
<1>2. c * DecayFactor \in Nat /\ c * DecayFactor <= c * 65536
  BY <1>1
<1>3. ASSUME NEW p \in Nat, p <= c * 65536 PROVE p \div 65536 \in Nat /\ p \div 65536 <= c
  BY <1>1, <1>3
<1> HIDE DEF Decayed
<1>4. Decayed(c) \in Nat /\ Decayed(c) <= c
  BY <1>2, <1>3 DEF Decayed
<1> QED BY <1>1, <1>4

\* classify returns a tier.
LEMMA ClassifyTier == ASSUME NEW e PROVE classify(e) \in Tiers
BY DEF classify, Tiers, NONE, OBSERVE, ALERT

\* What is recorded after a snapshot of a typed entry is a report.
LEMMA AfterReport ==
  ASSUME NEW s \in Report, NEW e, e.key \in Names
  PROVE  After(s, e) \in Report
<1>1. Emitted(s, e) \in Tiers
  BY DEF Emitted, Report, Tiers, NONE, ALERT
<1>2. ASSUME NEW t \in Tiers PROVE [key |-> e.key, tier |-> t] \in Report
  BY <1>2 DEF Report
<1> QED BY <1>1, <1>2, ClassifyTier, QuietOK DEF After

-----------------------------------------------------------------------------
(* What the host knows once it has read the hits.                          *)

Hit == [slot : Swept, report : Report]

\* The positions of the hits on slot i.
On(h, i) == {n \in 1 .. Len(h) : h[n].slot = i}

\* The last hit on a slot is what the host learns about it.
LEMMA LastHit ==
  ASSUME NEW t \in [Swept -> Report], NEW h \in Seq(Hit), NEW i \in Swept
  PROVE  /\ On(h, i) = {} => Applied(t, h)[i] = t[i]
         /\ \A n \in On(h, i) : (\A m \in On(h, i) : m <= n)
                                  => Applied(t, h)[i] = h[n].report
         /\ Applied(t, h)[i] \in Report
<1> DEFINE of == On(h, i)
           last == CHOOSE n \in of : \A m \in of : m <= n
<1>1. Applied(t, h)[i] = IF of = {} THEN t[i] ELSE h[last].report
  BY DEF Applied, On
<1>2. of \subseteq 0 .. Len(h) /\ Len(h) \in Nat
  BY DEF On
<1>3. ASSUME NEW n \in of, \A m \in of : m <= n PROVE last = n
  <2>1. last \in of /\ \A m \in of : m <= last
    BY <1>3
  <2>2. last <= n /\ n <= last
    BY <2>1, <1>3
  <2> QED BY <2>1, <2>2, <1>2
<1>4. ASSUME of # {} PROVE h[last].report \in Report
  <2>1. PICK n \in of : \A m \in of : m <= n
    BY <1>2, <1>4, GreatestNat
  <2>2. last = n
    BY <1>3, <2>1
  <2>3. h[n] \in Hit
    BY DEF On
  <2> QED BY <2>2, <2>3 DEF Hit
<1> HIDE DEF of, last
<1>5. \A n \in of : (\A m \in of : m <= n) => Applied(t, h)[i] = h[n].report
  BY <1>1, <1>3
<1> QED BY <1>1, <1>4, <1>5 DEF of

\* With no hits the host knows what it was told.
LEMMA AppliedEmpty ==
  ASSUME NEW t \in [Swept -> Report]
  PROVE  Applied(t, << >>) = t
<1>1. << >> \in Seq(Hit)
  OBVIOUS
<1>2. \A i \in Swept : On(<< >>, i) = {}
  BY DEF On
<1>3. \A i \in Swept : Applied(t, << >>)[i] = t[i]
  BY <1>1, <1>2, LastHit
<1>4. Applied(t, << >>) = [i \in Swept |-> Applied(t, << >>)[i]]
  BY DEF Applied
<1> QED BY <1>3, <1>4

LEMMA AppliedType ==
  ASSUME NEW t \in [Swept -> Report], NEW h \in Seq(Hit)
  PROVE  Applied(t, h) \in [Swept -> Report]
<1>1. Applied(t, h) = [i \in Swept |-> Applied(t, h)[i]]
  BY DEF Applied
<1>2. \A i \in Swept : Applied(t, h)[i] \in Report
  BY LastHit
<1> QED BY <1>1, <1>2

\* A hit that is written becomes what the host knows of its slot.
LEMMA AppliedAppend ==
  ASSUME NEW t \in [Swept -> Report], NEW h \in Seq(Hit), NEW x \in Hit
  PROVE  Applied(t, Append(h, x)) = [Applied(t, h) EXCEPT ![x.slot] = x.report]
<1> DEFINE g == Append(h, x)
<1>1. /\ g \in Seq(Hit) /\ Len(g) = Len(h) + 1 /\ Len(h) \in Nat
      /\ g[Len(h) + 1] = x
      /\ \A n \in 1 .. Len(h) : g[n] = h[n]
  OBVIOUS
<1>x. x.slot \in Swept /\ x.report \in Report
  BY DEF Hit
<1> HIDE DEF g
<1>2. Applied(t, g)[x.slot] = x.report
  <2>1. Len(h) + 1 \in On(g, x.slot)
    BY <1>1 DEF On
  <2>2. \A m \in On(g, x.slot) : m <= Len(h) + 1
    BY <1>1 DEF On
  <2> QED BY <1>1, <1>x, <2>1, <2>2, LastHit
<1>3. ASSUME NEW i \in Swept, i # x.slot PROVE Applied(t, g)[i] = Applied(t, h)[i]
  <2>1. On(g, i) = On(h, i)
    BY <1>1, <1>3 DEF On
  <2>2. \A n \in On(h, i) : g[n] = h[n]
    BY <1>1 DEF On
  <2>3. CASE On(h, i) = {}
    BY <1>1, <2>1, <2>3, LastHit
  <2>4. CASE On(h, i) # {}
    <3>1. On(h, i) \subseteq 0 .. Len(h)
      BY DEF On
    <3>2. PICK n \in On(h, i) : \A m \in On(h, i) : m <= n
      BY <1>1, <2>4, <3>1, GreatestNat
    <3>3. Applied(t, h)[i] = h[n].report
      BY <3>2, LastHit
    <3>4. Applied(t, g)[i] = g[n].report
      BY <1>1, <2>1, <3>2, LastHit
    <3> QED BY <2>2, <3>3, <3>4
  <2> QED BY <2>3, <2>4
<1>4. /\ Applied(t, g) \in [Swept -> Report] /\ Applied(t, h) \in [Swept -> Report]
  BY <1>1, AppliedType
<1> QED BY <1>2, <1>3, <1>4, <1>x DEF g

\* What the host is told about a slot without a hit is what it knows of it.
LEMMA AppliedTold ==
  ASSUME NEW t \in [Swept -> Report], NEW h \in Seq(Hit), NEW j \in Swept,
         NEW u \in [Swept -> Report], On(h, j) = {},
         \A i \in Swept : i # j => u[i] = t[i]
  PROVE  /\ Applied(u, h)[j] = u[j]
         /\ \A i \in Swept : i # j => Applied(u, h)[i] = Applied(t, h)[i]
<1>1. Applied(u, h)[j] = u[j]
  BY LastHit
<1>2. ASSUME NEW i \in Swept, i # j PROVE Applied(u, h)[i] = Applied(t, h)[i]
  BY <1>2 DEF Applied
<1> QED BY <1>1, <1>2

-----------------------------------------------------------------------------
(* The inductive invariant.                                                *)

\* Hits are written only by sweep_collect and only about slots the sweep has
\* passed; a slot whose key was seen live is not EMPTY when it is copied; and
\* nothing is reported about EMPTY.
SweepInv ==
  /\ sweep.mode # "collect" => hits = << >>
  /\ \A n \in 1 .. Len(hits) : hits[n].slot < sweep.next
  /\ sweep.seen => sweep.next \in Swept /\ table[sweep.next].key # EMPTY
  /\ \A i \in Swept : slots[i].key = EMPTY => slots[i].tier = NONE

IInv == TypeOK /\ SweepInv /\ Accounted

Entry == [key : Names, conf : 0 .. MaxConfidence, src : 0 .. MaxSources,
          hits : 0 .. MaxHits, fresh : BOOLEAN]

\* The fields of an entry.
LEMMA EntryParts ==
  ASSUME NEW e \in Entry
  PROVE  /\ e.key \in Names /\ e.conf \in 0 .. MaxConfidence /\ e.src \in 0 .. MaxSources
         /\ e.hits \in 0 .. MaxHits /\ e.fresh \in BOOLEAN
BY DEF Entry

\* The updates of an entry the operations make.
LEMMA EntryKey ==
  ASSUME NEW e \in Entry, NEW k \in Names
  PROVE  /\ [e EXCEPT !.key = k] \in Entry /\ [e EXCEPT !.key = k].key = k
         /\ [e EXCEPT !.key = k, !.fresh = TRUE] \in Entry
         /\ [e EXCEPT !.key = k, !.fresh = TRUE].key = k
BY DEF Entry

LEMMA EntryConf ==
  ASSUME NEW e \in Entry, NEW c \in 0 .. MaxConfidence
  PROVE  [e EXCEPT !.conf = c] \in Entry /\ [e EXCEPT !.conf = c].key = e.key
BY DEF Entry

Steady == UNCHANGED <<slots, sweep, hits, told, silent>>

\* A change of the table that never empties a slot keeps the invariant.
LEMMA TableOK ==
  ASSUME IInv, Steady, NEW i \in Slots, NEW e \in Entry, e.key # EMPTY \/ e.key = table[i].key,
         table' = [table EXCEPT ![i] = e]
  PROVE  IInv'
<1>1. TypeOK'
  BY DEF IInv, TypeOK, Entry, Steady
<1>2. SweepInv'
  BY Consts DEF IInv, TypeOK, SweepInv, Steady
<1>3. Accounted'
  BY DEF IInv, Accounted, Steady
<1> QED BY <1>1, <1>2, <1>3 DEF IInv

\* Claims, counters, decay and removal by the other processes.
LEMMA TableStep ==
  ASSUME IInv, NEW i \in Slots,
         \/ Fill(i) \/ Decay(i) \/ Remove(i)
         \/ \E k \in Keys : Claim(i, k)
         \/ \E source \in BOOLEAN : Add(i, source)
  PROVE  IInv'
<1> DEFINE x == table[i]
<1>t. table \in [Slots -> Entry] /\ x \in Entry
  BY DEF IInv, TypeOK, Entry
<1>p. /\ x.conf \in 0 .. MaxConfidence /\ x.src \in 0 .. MaxSources /\ x.hits \in 0 .. MaxHits
  BY <1>t, EntryParts
<1>c. /\ Delta \in 0 .. MaxConfidence /\ MaxConfidence \in Nat
      /\ MaxSources \in Nat /\ MaxHits \in Nat
      /\ 1 \in 0 .. MaxSources /\ 1 \in 0 .. MaxHits
      /\ TOMBSTONE \in Names /\ TOMBSTONE # EMPTY
  BY Consts DEF Names
<1>1. CASE Fill(i)
  <2> DEFINE e == [x EXCEPT !.conf = Delta, !.src = 1, !.hits = 1, !.fresh = FALSE]
  <2>1. e \in Entry /\ e.key = x.key
    BY <1>t, <1>c DEF Entry
  <2>2. table' = [table EXCEPT ![i] = e]
    BY <1>1 DEF Fill
  <2> HIDE DEF e
  <2> QED BY <1>1, <2>1, <2>2, TableOK DEF Fill, Steady
<1>2. CASE Decay(i)
  <2>1. Decayed(x.conf) \in 0 .. MaxConfidence
    BY <1>p, DecayedBound
  <2> DEFINE a == [x EXCEPT !.key = TOMBSTONE]
             b == [x EXCEPT !.conf = Decayed(x.conf)]
  <2>2. a \in Entry /\ a.key # EMPTY /\ b \in Entry /\ b.key = x.key
    BY <1>t, <1>c, <2>1, EntryKey, EntryConf
  <2>3. table' = [table EXCEPT ![i] = IF Decayed(x.conf) < NoiseFloor THEN a ELSE b]
    BY <1>2 DEF Decay
  <2> HIDE DEF a, b
  <2>4. table' = [table EXCEPT ![i] = a] \/ table' = [table EXCEPT ![i] = b]
    BY <2>3
  <2> QED BY <1>2, <2>2, <2>4, TableOK DEF Decay, Steady
<1>3. CASE Remove(i)
  <2> DEFINE e == [x EXCEPT !.key = TOMBSTONE]
  <2>1. e \in Entry /\ e.key # EMPTY
    BY <1>t, <1>c, EntryKey
  <2>2. table' = [table EXCEPT ![i] = e]
    BY <1>3, <1>t DEF Remove, Entry
  <2> HIDE DEF e
  <2> QED BY <1>3, <2>1, <2>2, TableOK DEF Remove, Steady
<1>4. ASSUME NEW k \in Keys, Claim(i, k) PROVE IInv'
  <2> DEFINE e == [x EXCEPT !.key = k, !.fresh = TRUE]
  <2>1. k \in Names /\ k # EMPTY
    BY Consts DEF Names
  <2>2. e \in Entry /\ e.key # EMPTY
    BY <1>t, <2>1, EntryKey
  <2>3. table' = [table EXCEPT ![i] = e]
    BY <1>4, <1>t DEF Claim, Entry
  <2> HIDE DEF e
  <2> QED BY <1>4, <2>2, <2>3, TableOK DEF Claim, Steady
<1>5. ASSUME NEW source \in BOOLEAN, Add(i, source) PROVE IInv'
  <2> DEFINE c == x.conf + Delta
             h == IF x.hits < MaxHits THEN x.hits + 1 ELSE x.hits
             s == IF source /\ x.src < MaxSources THEN x.src + 1 ELSE x.src
             e == [x EXCEPT !.conf = c, !.hits = h, !.src = s]
  <2>1. c <= MaxConfidence
    BY <1>5 DEF Add
  <2>2. c \in 0 .. MaxConfidence
    BY <1>p, <1>c, <2>1
  <2>3. h \in 0 .. MaxHits
    BY <1>p, <1>c
  <2>4. s \in 0 .. MaxSources
    BY <1>p, <1>c
  <2>5. table' = [table EXCEPT ![i] = e]
    BY <1>5 DEF Add
  <2>6. e \in Entry /\ e.key = x.key
    <3> HIDE DEF c, h, s
    <3> QED BY <1>t, <2>2, <2>3, <2>4 DEF Entry
  <2> HIDE DEF e
  <2> QED BY <1>5, <2>5, <2>6, TableOK DEF Add, Steady
<1> QED BY <1>1, <1>2, <1>3, <1>4, <1>5

-----------------------------------------------------------------------------
(* One slot of a sweep.                                                    *)

Known == Applied(told, hits)

LEMMA Facts ==
  ASSUME IInv
  PROVE  /\ table \in [Slots -> Entry] /\ slots \in [Swept -> Report]
         /\ told \in [Swept -> Report] /\ hits \in Seq(Hit) /\ Known \in [Swept -> Report]
         /\ sweep \in [mode : Modes \cup {"idle"}, next : 0 .. Cap, seen : BOOLEAN]
         /\ silent \subseteq Swept
BY AppliedType DEF IInv, TypeOK, Entry, Hit, Known

\* The slot under the sweep has no hit yet.
LEMMA HereOK ==
  ASSUME IInv, Sweeping
  PROVE  /\ Here \in Swept /\ On(hits, Here) = {} /\ Snapshot \in Entry
         /\ Here \in 0 .. Cap /\ Here + 1 \in 0 .. Cap
<1>1. Here \in 0 .. Cap /\ Here < Cap /\ Cap \in Nat /\ Cap <= TableCapacity
      /\ TableCapacity \in Nat
  BY Facts, Consts DEF Sweeping, Here
<1>2. Here \in Swept /\ Here \in Slots /\ Here + 1 \in 0 .. Cap
  BY <1>1 DEF Swept, Slots
<1>3. On(hits, Here) = {}
  <2> SUFFICES ASSUME NEW n \in 1 .. Len(hits), hits[n].slot = Here PROVE FALSE
    BY DEF On
  <2>1. hits[n].slot < Here
    BY DEF IInv, SweepInv, Here
  <2> QED BY <2>1, <1>1
<1>4. Snapshot \in Entry
  BY Facts, <1>2 DEF Snapshot
<1> QED BY <1>1, <1>2, <1>3, <1>4

AbsStep == [Alarms!Next]_(Alarms!vars)

\* The abstract steps about slot i, told in the refinement mapping.
LEMMA AbsRaise ==
  ASSUME NEW i \in Swept, NEW r \in Report, NEW u \in {r, Quiet},
         slots[i].key = r.key => r.tier > slots[i].tier, r.tier # NONE,
         slots' = [slots EXCEPT ![i] = r], Known' = [Known EXCEPT ![i] = u]
  PROVE  AbsStep
<1>1. Alarms!Becomes(i, r)
  BY DEF Alarms!Becomes, Known
<1>2. Alarms!Raise(i, r)
  BY <1>1 DEF Alarms!Raise
<1> QED BY <1>2 DEF AbsStep, Alarms!Next, Alarms!Report, Report

LEMMA AbsRetract ==
  ASSUME NEW i \in Swept, NEW u \in Report, u = Quiet, slots[i].tier = ALERT,
         slots' = [slots EXCEPT ![i] = Quiet], Known' = [Known EXCEPT ![i] = u]
  PROVE  AbsStep
<1>1. Alarms!Becomes(i, Quiet)
  BY DEF Alarms!Becomes, Known
<1>2. Alarms!Retract(i)
  BY <1>1 DEF Alarms!Retract
<1> QED BY <1>2 DEF AbsStep, Alarms!Next

LEMMA AbsForget ==
  ASSUME NEW i \in Swept, NEW r \in Report, r.tier = NONE,
         slots[i].key = r.key => r = slots[i],
         slots' = [slots EXCEPT ![i] = r], Known' = [Known EXCEPT ![i] = Quiet]
  PROVE  AbsStep
<1>1. Alarms!Forget(i, r)
  BY DEF Alarms!Forget, Known
<1> QED BY <1>1 DEF AbsStep, Alarms!Next, Alarms!Report, Report

LEMMA AbsStutter == ASSUME slots' = slots, Known' = Known PROVE AbsStep
BY DEF AbsStep, Alarms!vars, Known

\* A step of the sweep records r for its slot and lets the host know u: it keeps
\* the invariant if u is r unless the slot is silent or r says nothing.
LEMMA RecordOK ==
  ASSUME IInv, Sweeping, NEW r \in Report, NEW u \in Report,
         UNCHANGED table, slots' = [slots EXCEPT ![Here] = r],
         Known' = [Known EXCEPT ![Here] = u],
         told' \in [Swept -> Report], hits' \in Seq(Hit), Len(hits') <= HitsCapacity,
         MoveOn \/ (sweep' = Idle /\ hits' = << >>),
         sweep.mode # "collect" => hits' = << >>,
         \A n \in 1 .. Len(hits') : hits'[n].slot <= Here,
         silent' \subseteq Swept, silent' \cup {Here} = silent \cup {Here},
         r.tier # NONE /\ Here \notin silent' => u = r,
         r.key = EMPTY => r.tier = NONE
  PROVE  IInv'
<1>h. /\ Here \in Swept /\ Here + 1 \in 0 .. Cap /\ Here \in 0 .. Cap
      /\ sweep \in [mode : Modes \cup {"idle"}, next : 0 .. Cap, seen : BOOLEAN]
      /\ Here = sweep.next /\ Cap \in Nat
  BY HereOK, Facts, Consts DEF Here
<1>s. /\ sweep' \in [mode : Modes \cup {"idle"}, next : 0 .. Cap, seen : BOOLEAN]
      /\ sweep'.seen = FALSE
      /\ sweep'.mode # "collect" => hits' = << >>
      /\ \A n \in 1 .. Len(hits') : hits'[n].slot < sweep'.next
  <2>1. CASE MoveOn
    <3>1. sweep'.next = Here + 1 /\ sweep'.mode = sweep.mode /\ sweep'.seen = FALSE
          /\ sweep' \in [mode : Modes \cup {"idle"}, next : 0 .. Cap, seen : BOOLEAN]
      BY <1>h, <2>1 DEF MoveOn
    <3>2. ASSUME NEW n \in 1 .. Len(hits') PROVE hits'[n].slot < sweep'.next
      <4>0. hits'[n] \in Hit
        OBVIOUS
      <4>1. hits'[n].slot \in Swept
        BY <4>0 DEF Hit
      <4>2. hits'[n].slot \in Int /\ hits'[n].slot <= Here
        BY <4>1 DEF Swept
      <4> QED BY <3>1, <4>2, <1>h
    <3> QED BY <3>1, <3>2
  <2>2. CASE sweep' = Idle /\ hits' = << >>
    BY <2>2, <1>h DEF Idle
  <2> QED BY <2>1, <2>2
<1>1. TypeOK'
  BY <1>h, <1>s DEF IInv, TypeOK, Hit
<1>2. SweepInv'
  <2>1. \A i \in Swept : slots'[i].key = EMPTY => slots'[i].tier = NONE
    BY Facts DEF IInv, SweepInv
  <2> QED BY <1>s, <2>1 DEF SweepInv
<1>3. Accounted'
  <2> SUFFICES ASSUME NEW i \in Swept, slots'[i].tier # NONE, i \notin silent'
               PROVE  Known'[i] = slots'[i]
    BY DEF Accounted, Known
  <2>1. CASE i = Here
    BY <2>1, <1>h, Facts
  <2>2. CASE i # Here
    <3>1. slots[i].tier # NONE /\ i \notin silent
      BY <2>2, Facts
    <3>2. Known[i] = slots[i]
      BY <3>1 DEF IInv, Accounted, Known
    <3> QED BY <2>2, <3>2, Facts
  <2> QED BY <2>1, <2>2
<1> QED BY <1>1, <1>2, <1>3 DEF IInv

\* What the evaluator remembers of the snapshot's entity.
LEMMA AfterCases ==
  ASSUME IInv, Sweeping, sweep.seen
  PROVE  /\ After(slots[Here], Snapshot) \in Report
         /\ After(slots[Here], Snapshot).key = EMPTY => After(slots[Here], Snapshot).tier = NONE
         /\ Rising(slots[Here], Snapshot) =>
              /\ After(slots[Here], Snapshot).tier # NONE
              /\ slots[Here].key = After(slots[Here], Snapshot).key
                   => After(slots[Here], Snapshot).tier > slots[Here].tier
         /\ ~Rising(slots[Here], Snapshot) /\ Retracting(slots[Here], Snapshot) =>
              After(slots[Here], Snapshot) = Quiet /\ slots[Here].tier = ALERT
         /\ ~Rising(slots[Here], Snapshot) /\ ~Retracting(slots[Here], Snapshot) =>
              IF slots[Here].key = Snapshot.key
              THEN After(slots[Here], Snapshot) = slots[Here]
              ELSE /\ After(slots[Here], Snapshot).tier = NONE
                   /\ After(slots[Here], Snapshot).key = Snapshot.key
<1> DEFINE s == slots[Here]
           e == Snapshot
<1>1. s \in Report /\ e.key \in Names /\ e.key # EMPTY
  BY HereOK, Facts, EntryParts DEF IInv, SweepInv, Snapshot, Here
<1>2. s = [key |-> s.key, tier |-> s.tier] /\ s.tier \in 0 .. 2
  BY <1>1 DEF Report, Tiers, NONE, ALERT
<1> HIDE DEF s, e
<1>3. classify(e) \in 0 .. 2
  BY ClassifyTier DEF Tiers, NONE, ALERT
<1>4. Emitted(s, e) = IF s.key = e.key THEN s.tier ELSE 0
  BY DEF Emitted, NONE
<1>5. After(s, e) \in Report
  BY <1>1, AfterReport
<1>6. CASE Rising(s, e)
  <2>2. classify(e) > Emitted(s, e)
    BY <1>6 DEF Rising
  <2>3. ~Retracting(s, e)
    BY <1>2, <1>3, <1>4, <2>2 DEF Retracting, ALERT
  <2>1. After(s, e) = [key |-> e.key, tier |-> classify(e)]
    BY <1>6, <2>3 DEF After
  <2> QED BY <1>1, <1>2, <1>3, <1>4, <1>5, <1>6, <2>1, <2>2 DEF NONE, s, e
<1>7. CASE ~Rising(s, e) /\ Retracting(s, e)
  <2>1. After(s, e) = Quiet
    BY <1>7 DEF After
  <2>2. s.tier = ALERT
    BY <1>4, <1>7 DEF Retracting, ALERT
  <2> QED BY <1>5, <1>7, <2>1, <2>2, QuietOK DEF s, e
<1>8. CASE ~Rising(s, e) /\ ~Retracting(s, e)
  <2>1. After(s, e) = [key |-> e.key, tier |-> Emitted(s, e)]
    BY <1>8 DEF After
  <2> QED BY <1>1, <1>2, <1>4, <1>5, <1>8, <2>1 DEF NONE, s, e
<1> QED BY <1>6, <1>7, <1>8

-----------------------------------------------------------------------------
(* The steps of the sweep.                                                 *)

\* A host that hears nothing now: Known says Quiet for the slot.
LEMMA QuietHere ==
  ASSUME IInv, Sweeping, NEW r \in Report, told' = [told EXCEPT ![Here] = r], hits' = hits
  PROVE  /\ Known' = [Known EXCEPT ![Here] = r]
         /\ told' \in [Swept -> Report] /\ hits' \in Seq(Hit) /\ Len(hits') <= HitsCapacity
         /\ sweep.mode # "collect" => hits' = << >>
         /\ \A n \in 1 .. Len(hits') : hits'[n].slot <= Here
<1>1. Known' = [Known EXCEPT ![Here] = r]
  <2>1. told \in [Swept -> Report] /\ hits \in Seq(Hit) /\ Here \in Swept /\ On(hits, Here) = {}
    BY Facts, HereOK
  <2> DEFINE u == told'
  <2>2. /\ u \in [Swept -> Report] /\ u[Here] = r
        /\ \A i \in Swept : i # Here => u[i] = told[i]
    BY <2>1
  <2> HIDE DEF u
  <2>3. /\ Applied(u, hits)[Here] = r
        /\ \A i \in Swept : i # Here => Applied(u, hits)[i] = Applied(told, hits)[i]
    BY <2>1, <2>2, AppliedTold
  <2>4. Applied(u, hits) \in [Swept -> Report] /\ Applied(told, hits) \in [Swept -> Report]
    BY <2>1, <2>2, AppliedType
  <2>5. Known' = Applied(u, hits)
    BY DEF Known, u
  <2> QED BY <2>1, <2>3, <2>4, <2>5 DEF Known
<1>2. ASSUME NEW n \in 1 .. Len(hits) PROVE hits[n].slot <= Here
  <2>1. hits[n] \in Hit
    BY Facts
  <2>2. hits[n].slot \in Int /\ hits[n].slot < Here /\ Here \in Int
    BY <2>1, HereOK DEF Hit, Swept, IInv, SweepInv, Here
  <2> QED BY <2>2
<1>3. told' \in [Swept -> Report] /\ hits' \in Seq(Hit) /\ Len(hits') <= HitsCapacity
  BY Facts, HereOK DEF IInv, TypeOK
<1>4. sweep.mode # "collect" => hits' = << >>
  BY DEF IInv, SweepInv
<1> QED BY <1>1, <1>2, <1>3, <1>4

LEMMA SkipDeadOK == ASSUME IInv, SkipDead PROVE IInv' /\ AbsStep
<1>1. Sweeping /\ MoveOn /\ UNCHANGED table /\ hits' = hits
      /\ slots' = [slots EXCEPT ![Here] = Quiet]
      /\ told' = [told EXCEPT ![Here] = Quiet] /\ silent' = silent \ {Here}
  BY DEF SkipDead, Forgotten
<1>2. /\ Known' = [Known EXCEPT ![Here] = Quiet]
      /\ told' \in [Swept -> Report] /\ hits' \in Seq(Hit) /\ Len(hits') <= HitsCapacity
      /\ sweep.mode # "collect" => hits' = << >>
      /\ \A n \in 1 .. Len(hits') : hits'[n].slot <= Here
  BY <1>1, QuietHere, QuietOK
<1>3. IInv'
  BY <1>1, <1>2, RecordOK, QuietOK, HereOK, Facts
<1>4. slots[Here].key = Quiet.key => Quiet = slots[Here]
  <2>1. slots[Here] \in Report
    BY <1>1, HereOK, Facts
  <2>2. slots[Here].key = EMPTY => slots[Here].tier = NONE
    BY <1>1, HereOK DEF IInv, SweepInv
  <2> QED BY <2>1, <2>2 DEF Quiet, Report
<1>5. AbsStep
  BY <1>1, <1>2, <1>4, AbsForget, QuietOK, HereOK
<1> QED BY <1>3, <1>5

LEMMA SuppressOK == ASSUME IInv, Suppress PROVE IInv' /\ AbsStep
<1> DEFINE r == After(slots[Here], Snapshot)
<1>1. /\ Sweeping /\ sweep.seen /\ MoveOn /\ UNCHANGED table /\ hits' = hits
      /\ slots' = [slots EXCEPT ![Here] = r]
      /\ ~Rising(slots[Here], Snapshot) /\ ~Retracting(slots[Here], Snapshot)
      /\ IF slots[Here].key = Snapshot.key THEN UNCHANGED <<told, silent>> ELSE Forgotten
  BY DEF Suppress
<1>2. /\ r \in Report
      /\ r.key = EMPTY => r.tier = NONE
      /\ IF slots[Here].key = Snapshot.key THEN r = slots[Here]
         ELSE r.tier = NONE /\ r.key = Snapshot.key
  BY <1>1, AfterCases
<1>3. Here \in Swept /\ slots[Here] \in Report
  BY <1>1, HereOK, Facts
<1> HIDE DEF r
<1>4. CASE slots[Here].key = Snapshot.key
  <2>1. slots' = slots /\ Known' = Known /\ told' = told /\ silent' = silent
    BY <1>1, <1>2, <1>3, <1>4, Facts DEF Known
  <2>2. Known[Here] \in Report /\ Known' = [Known EXCEPT ![Here] = Known[Here]]
    BY <2>1, <1>3, Facts
  <2>3. told' = [told EXCEPT ![Here] = told[Here]] /\ told[Here] \in Report
    BY <2>1, <1>3, Facts
  <2>4. /\ told' \in [Swept -> Report] /\ hits' \in Seq(Hit) /\ Len(hits') <= HitsCapacity
        /\ sweep.mode # "collect" => hits' = << >>
        /\ \A n \in 1 .. Len(hits') : hits'[n].slot <= Here
    BY <1>1, <2>3, QuietHere
  <2>5. r.tier # NONE /\ Here \notin silent' => Known[Here] = r
    BY <1>2, <1>3, <1>4, <2>1 DEF IInv, Accounted, Known
  <2>6. IInv'
    BY <1>1, <1>2, <2>1, <2>2, <2>4, <2>5, RecordOK, Facts
  <2> QED BY <2>1, <2>6, AbsStutter
<1>5. CASE slots[Here].key # Snapshot.key
  <2>1. told' = [told EXCEPT ![Here] = Quiet] /\ silent' = silent \ {Here}
    BY <1>1, <1>5 DEF Forgotten
  <2>2. /\ Known' = [Known EXCEPT ![Here] = Quiet]
        /\ told' \in [Swept -> Report] /\ hits' \in Seq(Hit) /\ Len(hits') <= HitsCapacity
        /\ sweep.mode # "collect" => hits' = << >>
        /\ \A n \in 1 .. Len(hits') : hits'[n].slot <= Here
    BY <1>1, <2>1, QuietHere, QuietOK
  <2>3. IInv'
    BY <1>1, <1>2, <1>3, <1>5, <2>1, <2>2, RecordOK, QuietOK, Facts
  <2>4. AbsStep
    BY <1>1, <1>2, <1>3, <1>5, <2>2, AbsForget
  <2> QED BY <2>3, <2>4
<1> QED BY <1>4, <1>5

\* The parts common to the three modes of a step that acts.
LEMMA ActingFacts ==
  ASSUME IInv, NEW m, Acting(m)
  PROVE  LET r == After(slots[Here], Snapshot) IN
         /\ Sweeping /\ sweep.mode = m /\ UNCHANGED table
         /\ slots' = [slots EXCEPT ![Here] = r]
         /\ Here \in Swept /\ r \in Report
         /\ r.key = EMPTY => r.tier = NONE
         /\ \A u \in {r, Quiet} : Known' = [Known EXCEPT ![Here] = u] => AbsStep
         /\ ~Rising(slots[Here], Snapshot) => r.tier = NONE
<1> DEFINE r == After(slots[Here], Snapshot)
<1>1. /\ Sweeping /\ sweep.seen /\ sweep.mode = m /\ UNCHANGED table
      /\ Rising(slots[Here], Snapshot) \/ Retracting(slots[Here], Snapshot)
      /\ slots' = [slots EXCEPT ![Here] = r]
  BY DEF Acting
<1>2. /\ r \in Report
      /\ r.key = EMPTY => r.tier = NONE
      /\ Rising(slots[Here], Snapshot) =>
           r.tier # NONE /\ (slots[Here].key = r.key => r.tier > slots[Here].tier)
      /\ ~Rising(slots[Here], Snapshot) => r = Quiet /\ slots[Here].tier = ALERT
  BY <1>1, AfterCases
<1>3. Here \in Swept
  BY <1>1, HereOK
<1> HIDE DEF r
<1>4. ASSUME NEW u \in {r, Quiet}, Known' = [Known EXCEPT ![Here] = u] PROVE AbsStep
  <2>1. CASE Rising(slots[Here], Snapshot)
    BY <1>1, <1>2, <1>3, <1>4, <2>1, AbsRaise
  <2>2. CASE ~Rising(slots[Here], Snapshot)
    <3>1. r = Quiet /\ u = Quiet /\ slots[Here].tier = ALERT
      BY <1>2, <2>2
    <3> QED BY <1>1, <1>3, <1>4, <3>1, AbsRetract, QuietOK
  <2> QED BY <2>1, <2>2
<1>5. ~Rising(slots[Here], Snapshot) => r.tier = NONE
  BY <1>2, QuietOK
<1> QED BY <1>1, <1>2, <1>3, <1>4, <1>5 DEF r

LEMMA EmitOK == ASSUME IInv, NEW goOn \in BOOLEAN, Emit(goOn) PROVE IInv' /\ AbsStep
<1> DEFINE r == After(slots[Here], Snapshot)
<1>1. /\ Sweeping /\ sweep.mode = "emit" /\ UNCHANGED table
      /\ slots' = [slots EXCEPT ![Here] = r]
      /\ Here \in Swept /\ r \in Report
      /\ r.key = EMPTY => r.tier = NONE
      /\ \A u \in {r, Quiet} : Known' = [Known EXCEPT ![Here] = u] => AbsStep
  BY ActingFacts DEF Emit
<1>2. /\ told' = [told EXCEPT ![Here] = r] /\ hits' = hits /\ silent' = silent \ {Here}
      /\ MoveOn \/ sweep' = Idle
  BY DEF Emit
<1> HIDE DEF r
<1>3. /\ Known' = [Known EXCEPT ![Here] = r]
      /\ told' \in [Swept -> Report] /\ hits' \in Seq(Hit) /\ Len(hits') <= HitsCapacity
      /\ sweep.mode # "collect" => hits' = << >>
      /\ \A n \in 1 .. Len(hits') : hits'[n].slot <= Here
  BY <1>1, <1>2, QuietHere
<1>4. hits' = << >>
  BY <1>1, <1>3
<1>5. IInv'
  BY <1>1, <1>2, <1>3, <1>4, RecordOK, Facts
<1> QED BY <1>1, <1>3, <1>5

\* What is recorded and not heard is silent.
LEMMA UnheardOK ==
  ASSUME IInv, NEW m, Acting(m), Unheard, MoveOn, UNCHANGED hits
  PROVE  IInv' /\ AbsStep
<1> DEFINE r == After(slots[Here], Snapshot)
<1>1. /\ Sweeping /\ sweep.mode = m /\ UNCHANGED table
      /\ slots' = [slots EXCEPT ![Here] = r]
      /\ Here \in Swept /\ r \in Report
      /\ r.key = EMPTY => r.tier = NONE
      /\ \A u \in {r, Quiet} : Known' = [Known EXCEPT ![Here] = u] => AbsStep
      /\ ~Rising(slots[Here], Snapshot) => r.tier = NONE
  BY ActingFacts
<1> HIDE DEF r
<1>2. /\ told' = [told EXCEPT ![Here] = Quiet] /\ hits' = hits
      /\ silent' = IF Rising(slots[Here], Snapshot) THEN silent \cup {Here} ELSE silent \ {Here}
  BY DEF Unheard
<1>3. /\ Known' = [Known EXCEPT ![Here] = Quiet]
      /\ told' \in [Swept -> Report] /\ hits' \in Seq(Hit) /\ Len(hits') <= HitsCapacity
      /\ sweep.mode # "collect" => hits' = << >>
      /\ \A n \in 1 .. Len(hits') : hits'[n].slot <= Here
  BY <1>1, <1>2, QuietHere, QuietOK
<1>4. silent' \subseteq Swept /\ silent' \cup {Here} = silent \cup {Here}
  BY <1>1, <1>2, Facts
<1>5. r.tier # NONE /\ Here \notin silent' => Quiet = r
  BY <1>1, <1>2
<1>6. IInv'
  BY <1>1, <1>3, <1>4, <1>5, RecordOK, QuietOK
<1> QED BY <1>1, <1>3, <1>6

LEMMA CollectOK == ASSUME IInv, Collect PROVE IInv' /\ AbsStep
<1>1. Acting("collect") /\ MoveOn
  BY DEF Collect
<1>2. CASE ~(Len(hits) < HitsCapacity)
  BY <1>1, <1>2, UnheardOK DEF Collect
<1>3. CASE Len(hits) < HitsCapacity
  <2> DEFINE r == After(slots[Here], Snapshot)
             x == [slot |-> Here, report |-> r]
  <2>1. /\ Sweeping /\ sweep.mode = "collect" /\ UNCHANGED table
        /\ slots' = [slots EXCEPT ![Here] = r]
        /\ Here \in Swept /\ r \in Report
        /\ r.key = EMPTY => r.tier = NONE
        /\ \A u \in {r, Quiet} : Known' = [Known EXCEPT ![Here] = u] => AbsStep
    BY <1>1, ActingFacts
  <2>2. hits' = Append(hits, x) /\ told' = told /\ silent' = silent \ {Here}
    BY <1>3 DEF Collect
  <2> HIDE DEF r
  <2>3. x \in Hit /\ x.slot = Here /\ x.report = r
    BY <2>1 DEF Hit
  <2> HIDE DEF x
  <2>4. told \in [Swept -> Report] /\ hits \in Seq(Hit) /\ Len(hits) \in Nat /\ HitsCapacity \in Nat
    BY Facts, Consts
  <2>5. Known' = [Known EXCEPT ![Here] = r]
    <3>1. Applied(told, Append(hits, x)) = [Applied(told, hits) EXCEPT ![x.slot] = x.report]
      BY <2>3, <2>4, AppliedAppend
    <3>2. Known' = Applied(told', hits')
      BY DEF Known
    <3> QED BY <2>2, <2>3, <3>1, <3>2 DEF Known
  <2>6. hits' \in Seq(Hit) /\ Len(hits') = Len(hits) + 1
    BY <2>2, <2>3, <2>4
  <2>7. Len(hits') <= HitsCapacity
    BY <1>3, <2>4, <2>6
  <2>8. ASSUME NEW n \in 1 .. Len(hits') PROVE hits'[n].slot <= Here
    <3>1. CASE n = Len(hits) + 1
      BY <2>1, <2>2, <2>3, <2>4, <3>1 DEF Swept
    <3>2. CASE n \in 1 .. Len(hits)
      <4>1. hits'[n] = hits[n] /\ hits[n] \in Hit
        BY <2>2, <2>3, <2>4, <3>2
      <4>2. hits[n].slot < Here
        BY <3>2 DEF IInv, SweepInv, Here
      <4>3. hits[n].slot \in Int /\ Here \in Int
        BY <4>1, <2>1 DEF Hit, Swept
      <4> QED BY <4>1, <4>2, <4>3
    <3> QED BY <2>4, <2>6, <3>1, <3>2
  <2>9. IInv'
    BY <1>1, <2>1, <2>2, <2>4, <2>5, <2>6, <2>7, <2>8, RecordOK, Facts
  <2> QED BY <2>1, <2>5, <2>9
<1> QED BY <1>2, <1>3

\* The step that ends a sweep: what was in the hits is what the host was told.
LEMMA EndSweepOK == ASSUME IInv, EndSweep PROVE IInv' /\ AbsStep
<1>1. /\ told' = Known /\ hits' = << >> /\ sweep' = Idle
      /\ UNCHANGED <<table, slots, silent>>
  BY DEF EndSweep, Known
<1>2. Known' = Known
  <2>1. Known \in [Swept -> Report]
    BY Facts
  <2>2. Known' = Applied(told', hits')
    BY DEF Known
  <2> QED BY <1>1, <2>1, <2>2, AppliedEmpty
<1>3. TypeOK'
  <2>1. Idle \in [mode : Modes \cup {"idle"}, next : 0 .. Cap, seen : BOOLEAN]
    BY Consts DEF Idle
  <2>2. hits' \in Seq([slot : Swept, report : Report]) /\ Len(hits') <= HitsCapacity
    BY <1>1, Consts
  <2>3. told' \in [Swept -> Report]
    BY <1>1, Facts
  <2> QED BY <1>1, <2>1, <2>2, <2>3 DEF IInv, TypeOK
<1>4. SweepInv'
  BY <1>1 DEF IInv, SweepInv, Idle
<1>5. Accounted'
  BY <1>1, <1>2 DEF IInv, Accounted, Known
<1> QED BY <1>1, <1>2, <1>3, <1>4, <1>5, AbsStutter DEF IInv

\* A new evaluator, or a forgotten one, has reported nothing.
LEMMA StartOK ==
  ASSUME TypeOK, slots' = [i \in Swept |-> Quiet], told' = [i \in Swept |-> Quiet],
         silent' = {}, hits' = << >>, sweep' = Idle, UNCHANGED table
  PROVE  IInv' /\ AbsStep
<1>1. told' \in [Swept -> Report] /\ slots' \in [Swept -> Report]
  BY QuietOK
<1>2. Known' = told'
  <2>1. Known' = Applied(told', hits')
    BY DEF Known
  <2> QED BY <1>1, <2>1, AppliedEmpty
<1>3. TypeOK'
  <2>1. Idle \in [mode : Modes \cup {"idle"}, next : 0 .. Cap, seen : BOOLEAN]
    BY Consts DEF Idle
  <2>2. hits' \in Seq([slot : Swept, report : Report]) /\ Len(hits') <= HitsCapacity
    BY Consts
  <2> QED BY <1>1, <2>1, <2>2 DEF TypeOK
<1>4. SweepInv'
  BY QuietOK DEF SweepInv, Idle
<1>5. Accounted'
  BY QuietOK DEF Accounted
<1>6. AbsStep
  BY <1>2 DEF AbsStep, Alarms!Next, Alarms!StartAgain, Known
<1> QED BY <1>3, <1>4, <1>5, <1>6 DEF IInv

\* Steps that leave slots, hits, told and silent alone.
LEMMA BeginSweepOK == ASSUME IInv, NEW mode \in Modes, BeginSweep(mode) PROVE IInv' /\ AbsStep
<1>1. /\ sweep = Idle /\ sweep' = [mode |-> mode, next |-> 0, seen |-> FALSE]
      /\ UNCHANGED <<table, slots, hits, told, silent>>
  BY DEF BeginSweep
<1>2. hits = << >>
  BY <1>1 DEF IInv, SweepInv, Idle
<1>3. TypeOK'
  BY <1>1, Consts DEF IInv, TypeOK
<1>4. SweepInv'
  BY <1>1, <1>2 DEF IInv, SweepInv
<1>5. Accounted'
  BY <1>1 DEF IInv, Accounted
<1>6. AbsStep
  BY <1>1, AbsStutter DEF Known
<1> QED BY <1>3, <1>4, <1>5, <1>6 DEF IInv

LEMMA SeeLiveOK == ASSUME IInv, SeeLive PROVE IInv' /\ AbsStep
<1>1. /\ Sweeping /\ Snapshot.key # EMPTY /\ sweep' = [sweep EXCEPT !.seen = TRUE]
      /\ UNCHANGED <<table, slots, hits, told, silent>>
  BY DEF SeeLive
<1>2. sweep'.mode = sweep.mode /\ sweep'.next = sweep.next
      /\ sweep' \in [mode : Modes \cup {"idle"}, next : 0 .. Cap, seen : BOOLEAN]
  BY <1>1, Facts
<1>3. TypeOK'
  BY <1>1, <1>2 DEF IInv, TypeOK
<1>4. SweepInv'
  BY <1>1, <1>2, HereOK DEF IInv, SweepInv, Snapshot, Here
<1>5. Accounted'
  BY <1>1 DEF IInv, Accounted
<1>6. AbsStep
  BY <1>1, AbsStutter DEF Known
<1> QED BY <1>3, <1>4, <1>5, <1>6 DEF IInv

-----------------------------------------------------------------------------
(* The specification.                                                      *)

\* A new evaluator over a new table satisfies the invariant and Alarm's Init.
LEMMA InitOK == ASSUME Init PROVE IInv /\ Alarms!Init
<1>1. /\ table \in [Slots -> Entry]
      /\ slots = [i \in Swept |-> Quiet] /\ told = [i \in Swept |-> Quiet]
      /\ silent = {} /\ hits = << >> /\ sweep = Idle
  BY Consts DEF Init, Entry, Names
<1>2. told \in [Swept -> Report] /\ slots \in [Swept -> Report]
  BY <1>1, QuietOK
<1>3. Applied(told, hits) = told
  BY <1>1, <1>2, AppliedEmpty
<1>4. TypeOK
  <2>1. Idle \in [mode : Modes \cup {"idle"}, next : 0 .. Cap, seen : BOOLEAN]
    BY Consts DEF Idle
  <2>2. hits \in Seq([slot : Swept, report : Report]) /\ Len(hits) <= HitsCapacity
    BY <1>1, Consts
  <2> QED BY <1>1, <1>2, <2>1, <2>2 DEF TypeOK, Entry
<1>5. SweepInv
  BY <1>1, QuietOK DEF SweepInv, Idle
<1>6. Accounted
  BY <1>1, QuietOK DEF Accounted
<1>7. Alarms!Init
  BY <1>1, <1>3 DEF Alarms!Init
<1> QED BY <1>4, <1>5, <1>6, <1>7 DEF IInv

\* Every step keeps the invariant and is a step of Alarm or none.
LEMMA StepOK == ASSUME IInv, [Next]_vars PROVE IInv' /\ AbsStep
<1>1. CASE Evaluator
  <2>1. CASE Record
    BY <2>1, UnheardOK DEF Record
  <2> QED BY <1>1, <2>1, BeginSweepOK, SkipDeadOK, SeeLiveOK, SuppressOK, CollectOK,
             EndSweepOK, EmitOK DEF Evaluator
<1>2. CASE Reset
  <2>1. sweep' = Idle /\ hits' = << >>
    BY <1>2 DEF Reset, IInv, SweepInv, Idle
  <2> QED BY <1>2, <2>1, StartOK DEF Reset, IInv
<1>3. CASE Restart
  BY <1>3, StartOK DEF Restart, IInv
<1>4. ASSUME NEW i \in Slots,
             \/ Fill(i) \/ Decay(i) \/ Remove(i)
             \/ \E k \in Keys : Claim(i, k)
             \/ \E source \in BOOLEAN : Add(i, source)
      PROVE  IInv' /\ AbsStep
  <2>1. slots' = slots /\ told' = told /\ hits' = hits
    BY <1>4 DEF Fill, Decay, Remove, Claim, Add
  <2>2. Known' = Known
    BY <2>1 DEF Known
  <2> QED BY <1>4, <2>1, <2>2, TableStep, AbsStutter
<1>5. CASE UNCHANGED vars
  <2>1. IInv'
    BY <1>5 DEF vars, IInv, TypeOK, SweepInv, Accounted
  <2>2. slots' = slots /\ Known' = Known
    BY <1>5 DEF vars, Known
  <2> QED BY <2>1, <2>2, AbsStutter
<1> QED BY <1>1, <1>2, <1>3, <1>4, <1>5 DEF Next

LEMMA Inductive == Spec => []IInv
<1>1. Init => IInv
  BY InitOK
<1>2. IInv /\ [Next]_vars => IInv'
  BY StepOK
<1> QED BY <1>1, <1>2, PTL DEF Spec

\* Table, evaluator and hits array stay in range for every size of each, in
\* particular when the array of sweep_collect is full or has no room at all.
THEOREM TypeCorrect == Spec => []TypeOK
<1>1. IInv => TypeOK
  BY DEF IInv
<1> QED BY Inductive, <1>1, PTL

\* A tier the evaluator remembers has reached the host, whatever the table does
\* between the slots of a sweep and wherever a callback stops it, except where a
\* dry sweep or a full hits array swallowed it.
THEOREM AccountedCorrect == Spec => []Accounted
<1>1. IInv => Accounted
  BY DEF IInv
<1> QED BY Inductive, <1>1, PTL

\* The evaluator over a concurrently changing table implements Alarm.
THEOREM ImplementsAlarm == Spec => AlarmSpec
<1>1. Init => Alarms!Init
  BY InitOK
<1>2. IInv /\ [Next]_vars => [Alarms!Next]_(Alarms!vars)
  BY StepOK DEF AbsStep
<1> QED BY Inductive, <1>1, <1>2, PTL DEF Spec, AlarmSpec, Alarms!Spec
=============================================================================
