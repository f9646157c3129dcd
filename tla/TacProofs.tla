------------------------------ MODULE TacProofs ------------------------------
(***************************************************************************)
(* Proofs about the technique co-activation graph (module Tac), for every  *)
(* table, sidecar, cap, budget and batch, with a writer that crashes       *)
(* anywhere: the types hold and no budget is overdrawn, a reinforcement    *)
(* never costs an edge, the sidecar is an exact index between calls, the   *)
(* cap holds up to what crashes cost, and the sources counted are the      *)
(* witnesses that really paid.                                             *)
(***************************************************************************)
EXTENDS Tac, NatFacts, FiniteSetTheorems, SequenceTheorems

Budget == [src : 0 .. SRC_OTHER, spent : 0 .. BudgetPerSource]

Entry == [key : Edges \cup {EMPTY, TOMBSTONE}, weight : Nat, pair : Nat \X Nat,
          ent : Entity \cup {NoEntity}, eta : Nat, src : 0 .. BUDGET_NAMED + 1,
          quarantine : BOOLEAN, budget : [Budgets -> Budget]]

\* A reinforcement to apply; only the second witness may be absent.
JobT == [edge : Edges, eta0 : Strengths, src0 : 1 .. SRC_OTHER - 1,
         eta1 : Strengths, src1 : 0 .. SRC_OTHER - 1]

OccPos == 0 .. OccSlots - 1

OccEntry == [ent : Entity \cup {NoEntity}, list : Seq(Slots)]

OccOK(o) == /\ o \in [OccPos -> OccEntry]
            /\ \A x \in OccPos : Len(o[x].list) <= PER_ENTITY_CAP_MAX

Inserting == {"retire", "unlist", "shrink", "hide", "describe", "name", "list", "publish"}

WriterT == [pc : {"idle", "next", "weigh", "reassess", "decay"} \cup Inserting,
            todo : Seq(JobT), job : JobT \cup {NoJob}, slot : 0 .. Capacity,
            victim : 0 .. Capacity, fresh : SUBSET Budgets, had : Nat]

\* Where the writer works on a slot, it has one, and the job it works for.
WriterOK ==
  /\ writer \in WriterT
  /\ writer.pc \in {"weigh", "reassess"} \cup Inserting =>
       writer.slot \in Slots /\ writer.job \in JobT
  /\ writer.pc \in {"retire", "unlist", "shrink"} => writer.victim \in Slots

TInv ==
  /\ entries \in [Slots -> Entry]
  /\ OccOK(occ)
  /\ WriterOK
  /\ crashes \in 0 .. MaxCrashes /\ drift \in BOOLEAN
  /\ broken \subseteq Slots
  /\ who \in [Slots -> SUBSET (1 .. SRC_OTHER - 1)]

-----------------------------------------------------------------------------
(* Budgets                                                                 *)

LEMMA LowerHigher ==
    ASSUME NEW a \in Nat, NEW b \in Nat
    PROVE  /\ Lower(a, b) \in Nat /\ Lower(a, b) <= a /\ Lower(a, b) <= b
           /\ Higher(a, b) \in Nat /\ a <= Higher(a, b) /\ b <= Higher(a, b)
BY DEF Lower, Higher

LEMMA DeltaNat ==
    ASSUME NEW j \in JobT
    PROVE  /\ EtaLo(j) \in Nat /\ EtaHi(j) \in Nat
           /\ Delta(j) \in Nat /\ Delta(j) >= 1 /\ Delta(j) <= BudgetPerSource
<1>0. j.eta0 \in Strengths /\ j.eta1 \in Strengths
  BY DEF JobT
<1>1. j.eta0 \in Nat /\ j.eta1 \in Nat
  BY <1>0 DEF Strengths
<1>2. EtaLo(j) \in Nat /\ EtaHi(j) \in Nat
  BY <1>1, LowerHigher DEF EtaLo, EtaHi
<1>3. ETA_UNIT \in Nat \ {0} /\ BudgetPerSource \in Nat /\ BudgetPerSource >= 1
  BY TacAssumption
<1>4. EtaLo(j) \div ETA_UNIT \in Nat
  BY <1>2, <1>3
<1>5. EtaLo(j) \in Strengths
  BY <1>0 DEF EtaLo, Lower
<1> DEFINE q == EtaLo(j) \div ETA_UNIT
<1>6. q <= BudgetPerSource
  BY <1>5 DEF Strengths
<1>7. Delta(j) = Higher(q, 1)
  BY DEF Delta
<1> HIDE DEF q
<1>8. q \in Nat
  BY <1>4 DEF q
<1>9. Delta(j) \in Nat /\ Delta(j) >= 1 /\ Delta(j) <= BudgetPerSource
  BY <1>3, <1>6, <1>7, <1>8 DEF Higher
<1> QED BY <1>2, <1>9

\* A source is always charged to one of the budgets of the edge: the first one
\* that is its own, else the first free one, else the shared one.
LEMMA ChargedToOK ==
    ASSUME NEW b \in [Budgets -> Budget], NEW s \in Nat
    PROVE  /\ ChargedTo(b, s) \in Budgets
           /\ (\E i \in Named : b[i].src = s)
                => ChargedTo(b, s) \in Named /\ b[ChargedTo(b, s)].src = s
           /\ (\A i \in Named : b[i].src # s) /\ (\E i \in Named : b[i].src = SRC_NONE)
                => ChargedTo(b, s) \in Named /\ b[ChargedTo(b, s)].src = SRC_NONE
           /\ (\A i \in Named : b[i].src # s /\ b[i].src # SRC_NONE)
                => ChargedTo(b, s) = BUDGET_NAMED + 1
<1> DEFINE own == {i \in Named : b[i].src = s}
           free == {i \in Named : b[i].src = SRC_NONE}
           low(S) == CHOOSE i \in S : \A j \in S : i <= j
<1>1. BUDGET_NAMED \in Nat /\ Named \subseteq Nat /\ Named \subseteq Budgets
      /\ BUDGET_NAMED + 1 \in Budgets
  BY TacAssumption DEF Named, Budgets
<1>2. ASSUME NEW S \in SUBSET Named, S # {} PROVE low(S) \in S
  <2>1. S \in SUBSET Nat
    BY <1>1
  <2>2. \E i \in S : \A j \in S : i <= j
    BY <2>1, <1>2, LeastNat
  <2> QED BY <2>2
<1>3. ChargedTo(b, s) = IF own # {} THEN low(own) ELSE IF free # {} THEN low(free)
                        ELSE BUDGET_NAMED + 1
  BY DEF ChargedTo
<1>4. own \in SUBSET Named /\ free \in SUBSET Named
  OBVIOUS
<1>5. CASE own # {}
  <2>1. low(own) \in own
    BY <1>2, <1>4, <1>5
  <2> HIDE DEF low
  <2> QED BY <2>1, <1>1, <1>3, <1>5
<1>6. CASE own = {} /\ free # {}
  <2>1. low(free) \in free
    BY <1>2, <1>4, <1>6
  <2> HIDE DEF low
  <2> QED BY <2>1, <1>1, <1>3, <1>6
<1>7. CASE own = {} /\ free = {}
  <2>1. ChargedTo(b, s) = BUDGET_NAMED + 1
    BY <1>3, <1>7
  <2> QED BY <2>1, <1>1, <1>7
<1> QED BY <1>5, <1>6, <1>7

\* A charge keeps every budget within bounds.
LEMMA ChargeOK ==
    ASSUME NEW b \in [Budgets -> Budget], NEW s \in 1 .. SRC_OTHER - 1, NEW d \in Nat
    PROVE  budget_charge(b, s, d) \in [Budgets -> Budget]
<1> DEFINE c == ChargedTo(b, s)
           src == CASE b[c].src # SRC_NONE -> b[c].src
                    [] c \in Named -> s
                    [] OTHER -> SRC_OTHER
<1>0. SRC_OTHER \in Nat /\ BudgetPerSource \in Nat /\ s \in Nat
  BY TacAssumption
<1>1. c \in Budgets
  BY <1>0, ChargedToOK
<1>2. CASE Affords(b, s, d)
  <2>1. budget_charge(b, s, d) = [b EXCEPT ![c] = [src |-> src, spent |-> b[c].spent + d]]
    <3>1. budget_charge(b, s, d) =
            [b EXCEPT ![c] = [src |-> CASE b[c].src # SRC_NONE -> b[c].src
                                        [] c \in Named -> s
                                        [] OTHER -> SRC_OTHER,
                              spent |-> b[c].spent + d]]
      BY <1>2, <1>1 DEF budget_charge
    <3> QED BY <3>1
  <2>2. b[c].spent + d <= BudgetPerSource
    BY <1>2 DEF Affords
  <2>3. b[c] \in Budget
    BY <1>1
  <2>4. b[c].src \in 0 .. SRC_OTHER /\ b[c].spent \in 0 .. BudgetPerSource
    BY <2>3 DEF Budget
  <2>5. b[c].spent + d \in 0 .. BudgetPerSource
    BY <2>2, <2>4, <1>0
  <2>6. src \in 0 .. SRC_OTHER
    <3>1. CASE b[c].src # SRC_NONE
      <4>1. src \in {b[c].src, s, SRC_OTHER}
        OBVIOUS
      <4> QED BY <4>1, <2>4, <1>0
    <3>2. CASE b[c].src = SRC_NONE
      <4>1. src = IF c \in Named THEN s ELSE SRC_OTHER
        BY <3>2
      <4> QED BY <4>1, <1>0
    <3> QED BY <3>1, <3>2
  <2> HIDE DEF src, c
  <2>7. [src |-> src, spent |-> b[c].spent + d] \in Budget
    BY <2>5, <2>6 DEF Budget
  <2> QED BY <2>1, <2>7, <1>1
<1>3. CASE ~ Affords(b, s, d)
  BY <1>3 DEF budget_charge
<1> QED BY <1>2, <1>3

LEMMA ChargedOK ==
    ASSUME NEW b \in [Budgets -> Budget], NEW j \in JobT
    PROVE  /\ Charged(b, j) \in [Budgets -> Budget]
           /\ NewSources(b, j) \in SUBSET Budgets
           /\ Payers(b, j) \in SUBSET (1 .. SRC_OTHER - 1)
<1>0. j.src0 \in 1 .. SRC_OTHER - 1 /\ j.src1 \in 0 .. SRC_OTHER - 1 /\ SRC_OTHER \in Nat
  BY TacAssumption DEF JobT
<1>1. Delta(j) \in Nat
  BY DeltaNat
<1> DEFINE b0 == budget_charge(b, j.src0, Delta(j))
<1>2. b0 \in [Budgets -> Budget]
  BY <1>0, <1>1, ChargeOK
<1>3. Second(j) \in SUBSET (1 .. SRC_OTHER - 1)
  BY <1>0 DEF Second, SRC_NONE
<1>4. Charged(b, j) \in [Budgets -> Budget]
  <2>1. CASE Second(j) = {}
    BY <1>2, <2>1 DEF Charged
  <2>2. CASE Second(j) # {}
    <3>1. j.src1 \in 1 .. SRC_OTHER - 1
      BY <2>2, <1>3 DEF Second
    <3>2. budget_charge(b0, j.src1, Delta(j)) \in [Budgets -> Budget]
      BY <3>1, <1>1, <1>2, ChargeOK
    <3> QED BY <3>2, <2>2 DEF Charged
  <2> QED BY <2>1, <2>2
<1>5. Payers(b, j) \in SUBSET (1 .. SRC_OTHER - 1)
  BY <1>0, <1>3 DEF Payers
<1>6. NewSources(b, j) \in SUBSET Budgets
  BY DEF NewSources
<1> QED BY <1>4, <1>5, <1>6

LEMMA NoBudgetOK == NoBudget \in [Budgets -> Budget]
BY TacAssumption DEF NoBudget, Budget, SRC_NONE

\* A set of budgets is finite and no larger than the table of budgets.
LEMMA BudgetCount ==
    ASSUME NEW S \in SUBSET Budgets
    PROVE  IsFiniteSet(S) /\ Cardinality(S) \in 0 .. BUDGET_NAMED + 1
<1>1. BUDGET_NAMED \in Nat
  BY TacAssumption
<1>2. IsFiniteSet(Budgets) /\ Cardinality(Budgets) = BUDGET_NAMED + 1
  <2>1. Cardinality(1 .. BUDGET_NAMED + 1) = IF 1 > BUDGET_NAMED + 1 THEN 0
                                             ELSE (BUDGET_NAMED + 1) - 1 + 1
    BY <1>1, FS_Interval
  <2>2. IsFiniteSet(1 .. BUDGET_NAMED + 1)
    BY <1>1, FS_Interval
  <2> QED BY <2>1, <2>2, <1>1 DEF Budgets
<1>3. IsFiniteSet(S) /\ Cardinality(S) <= Cardinality(Budgets)
  BY <1>2, FS_Subset
<1>4. Cardinality(S) \in Nat
  BY <1>3, FS_CardinalityType
<1> QED BY <1>1, <1>2, <1>3, <1>4

-----------------------------------------------------------------------------
(* Lookup                                                                  *)

LEMMA SlotFacts ==
    /\ Capacity \in Nat \ {0} /\ OccSlots \in Nat \ {0}
    /\ Slots \subseteq 0 .. Capacity /\ NoSlot \in 0 .. Capacity /\ NoSlot \notin Slots
    /\ \A x \in 0 .. Capacity : x # NoSlot => x \in Slots
    /\ EMPTY \notin Edges /\ TOMBSTONE \notin Edges /\ NoEntity \notin Entity
    /\ \A k \in Edges : k[1] \in Entity /\ k[2] \in Nat /\ k[3] \in Nat
BY TacAssumption DEF Slots, NoSlot

LEMMA ProbeOK ==
    ASSUME NEW k \in Edges
    PROVE  /\ DOMAIN Probe(k) = 0 .. PROBE_MAX - 1
           /\ \A p \in 0 .. PROBE_MAX - 1 : Probe(k)[p] \in Slots
<1>1. Home[k] \in Slots /\ Capacity \in Nat \ {0} /\ PROBE_MAX \in 1 .. Capacity
  BY TacAssumption
<1>2. ASSUME NEW p \in 0 .. PROBE_MAX - 1 PROVE (Home[k] + p) % Capacity \in Slots
  BY <1>1 DEF Slots
<1> QED BY <1>2 DEF Probe

\* First finds a position that is in the set it looks for, if there is one.
LEMMA FirstOK ==
    ASSUME NEW k \in Edges, NEW P \in SUBSET (0 .. PROBE_MAX - 1)
    PROVE  \/ P = {} /\ First(k, P) = NoSlot
           \/ First(k, P) \in Slots /\ \E p \in P : First(k, P) = Probe(k)[p]
<1>1. CASE P = {}
  BY <1>1 DEF First
<1>2. CASE P # {}
  <2>1. PROBE_MAX \in Nat /\ P \in SUBSET Nat
    BY TacAssumption
  <2>2. \E p \in P : \A q \in P : p <= q
    BY <2>1, <1>2, LeastNat
  <2>3. (CHOOSE p \in P : \A q \in P : p <= q) \in P
    BY <2>2
  <2>4. First(k, P) = Probe(k)[CHOOSE p \in P : \A q \in P : p <= q]
    BY <1>2 DEF First
  <2> QED BY <2>3, <2>4, ProbeOK
<1> QED BY <1>1, <1>2

LEMMA FindSlotOK ==
    ASSUME NEW k \in Edges
    PROVE  /\ find_slot(k) \in 0 .. Capacity
           /\ find_slot(k) # NoSlot => find_slot(k) \in Slots /\ entries[find_slot(k)].key = k
<1> DEFINE P == {p \in DOMAIN Probe(k) :
                   /\ entries[Probe(k)[p]].key = k
                   /\ \A q \in 0 .. p - 1 : entries[Probe(k)[q]].key # EMPTY}
<1>1. P \in SUBSET (0 .. PROBE_MAX - 1)
  BY ProbeOK
<1>2. find_slot(k) = First(k, P)
  BY DEF find_slot
<1>3. \A p \in P : entries[Probe(k)[p]].key = k
  OBVIOUS
<1> HIDE DEF P
<1>4. \/ P = {} /\ First(k, P) = NoSlot
      \/ First(k, P) \in Slots /\ \E p \in P : First(k, P) = Probe(k)[p]
  BY <1>1, FirstOK
<1> QED BY <1>2, <1>3, <1>4, SlotFacts

LEMMA FreeSlotOK ==
    ASSUME NEW k \in Edges
    PROVE  /\ FreeSlot(k) \in 0 .. Capacity
           /\ FreeSlot(k) # NoSlot => FreeSlot(k) \in Slots /\ ~ IsLive(entries[FreeSlot(k)])
<1> DEFINE P == {p \in DOMAIN Probe(k) : ~ IsLive(entries[Probe(k)[p]])}
<1>1. P \in SUBSET (0 .. PROBE_MAX - 1)
  BY ProbeOK
<1>2. FreeSlot(k) = First(k, P)
  BY DEF FreeSlot
<1>3. \A p \in P : ~ IsLive(entries[Probe(k)[p]])
  OBVIOUS
<1> HIDE DEF P
<1> QED BY <1>1, <1>2, <1>3, FirstOK, SlotFacts

\* The probe window of an entity in the sidecar.
OccWin(e) == [p \in 0 .. OCC_PROBE_MAX - 1 |-> (OccHome[e] + p) % OccSlots]

LEMMA OccWinOK ==
    ASSUME NEW e \in Entity \cup {NoEntity}
    PROVE  OccWin(e) \in [0 .. OCC_PROBE_MAX - 1 -> OccPos]
<1>1. OccHome[e] \in 0 .. OccSlots - 1 /\ OccSlots \in Nat \ {0}
      /\ OCC_PROBE_MAX \in 1 .. OccSlots
  BY TacAssumption, SlotFacts
<1>2. ASSUME NEW p \in 0 .. OCC_PROBE_MAX - 1 PROVE (OccHome[e] + p) % OccSlots \in OccPos
  BY <1>1 DEF OccPos
<1> QED BY <1>2 DEF OccWin

\* OccAt is the first position of the window that e holds or could claim.
LEMMA OccAtOK ==
    ASSUME NEW o, NEW e \in Entity \cup {NoEntity}
    PROVE  \/ /\ OccAt(o, e) = OccSlots
              /\ \A p \in 0 .. OCC_PROBE_MAX - 1 : o[OccWin(e)[p]].ent \notin {e, NoEntity}
           \/ /\ OccAt(o, e) \in OccPos /\ OccAt(o, e) # OccSlots
              /\ \E p \in 0 .. OCC_PROBE_MAX - 1 :
                   /\ OccAt(o, e) = OccWin(e)[p]
                   /\ o[OccWin(e)[p]].ent \in {e, NoEntity}
                   /\ \A q \in 0 .. p - 1 : o[OccWin(e)[q]].ent \notin {e, NoEntity}
<1> DEFINE P == {p \in 0 .. OCC_PROBE_MAX - 1 : o[(OccHome[e] + p) % OccSlots].ent \in {e, NoEntity}}
           m == CHOOSE p \in P : \A q \in P : p <= q
<1>0. OCC_PROBE_MAX \in Nat /\ OccSlots \in Nat /\ OccSlots \notin OccPos
  BY TacAssumption, SlotFacts DEF OccPos
<1>1. OccAt(o, e) = IF P = {} THEN OccSlots ELSE (OccHome[e] + m) % OccSlots
  BY DEF OccAt
<1>2. \A p \in 0 .. OCC_PROBE_MAX - 1 : OccWin(e)[p] = (OccHome[e] + p) % OccSlots
  BY DEF OccWin
<1>3. CASE P = {}
  BY <1>1, <1>2, <1>3
<1>4. CASE P # {}
  <2>1. P \in SUBSET Nat
    BY <1>0
  <2>2. \E p \in P : \A q \in P : p <= q
    BY <2>1, <1>4, LeastNat
  <2>3. m \in P /\ \A q \in P : m <= q
    BY <2>2
  <2> HIDE DEF m
  <2>4. OccAt(o, e) = OccWin(e)[m] /\ OccWin(e)[m] \in OccPos
    BY <2>3, <1>1, <1>2, <1>4, OccWinOK
  <2>5. \A q \in 0 .. m - 1 : o[OccWin(e)[q]].ent \notin {e, NoEntity}
    <3> SUFFICES ASSUME NEW q \in 0 .. m - 1 PROVE q \in 0 .. OCC_PROBE_MAX - 1 /\ q \notin P
      BY <1>2
    <3> QED BY <2>3, <1>0
  <2>6. m \in 0 .. OCC_PROBE_MAX - 1 /\ o[OccWin(e)[m]].ent \in {e, NoEntity}
    BY <2>3, <1>2
  <2> QED BY <2>4, <2>5, <2>6, <1>0
<1> QED BY <1>3, <1>4

\* The list of an entity.
LEMMA ListedOK ==
    ASSUME NEW o, OccOK(o), NEW e \in Entity \cup {NoEntity}
    PROVE  /\ Listed(o, e) \in Seq(Slots) /\ occ_count(o, e) \in Nat
           /\ occ_count(o, e) <= PER_ENTITY_CAP_MAX
           /\ occ_find(o, e) => OccAt(o, e) \in OccPos /\ o[OccAt(o, e)].list = Listed(o, e)
                                /\ o[OccAt(o, e)].ent = e
<1>0. PER_ENTITY_CAP_MAX \in Nat
  BY TacAssumption
<1>1. CASE occ_find(o, e)
  <2>1. OccAt(o, e) \in OccPos /\ o[OccAt(o, e)].ent = e
    BY <1>1, OccAtOK DEF occ_find
  <2>2. o[OccAt(o, e)].list \in Seq(Slots) /\ Len(o[OccAt(o, e)].list) <= PER_ENTITY_CAP_MAX
    BY <2>1 DEF OccOK, OccEntry
  <2>3. Listed(o, e) = o[OccAt(o, e)].list
    BY <1>1 DEF Listed
  <2> QED BY <2>1, <2>2, <2>3 DEF occ_count
<1>2. CASE ~ occ_find(o, e)
  <2>1. Listed(o, e) = <<>>
    BY <1>2 DEF Listed
  <2> QED BY <2>1, <1>0, <1>2 DEF occ_count
<1> QED BY <1>1, <1>2

LEMMA AddSlotOK ==
    ASSUME NEW o, OccOK(o), NEW e \in Entity \cup {NoEntity}, NEW i \in Slots
    PROVE  OccOK(occ_add_slot(o, e, i))
<1> DEFINE x == OccAt(o, e)
           new == [ent |-> e, list |-> Append(Listed(o, e), i)]
<1>0. PER_ENTITY_CAP_MAX \in Nat
  BY TacAssumption
<1>1. CASE CanList(o, e)
  <2>1. x \in OccPos /\ occ_count(o, e) < PER_ENTITY_CAP_MAX
    BY <1>1, OccAtOK DEF CanList
  <2>2. Listed(o, e) \in Seq(Slots) /\ Len(Listed(o, e)) < PER_ENTITY_CAP_MAX
    BY <2>1, ListedOK DEF occ_count
  <2>3. Append(Listed(o, e), i) \in Seq(Slots)
        /\ Len(Append(Listed(o, e), i)) = Len(Listed(o, e)) + 1
    BY <2>2
  <2>4. new \in OccEntry /\ Len(new.list) <= PER_ENTITY_CAP_MAX
    <3>1. Len(Listed(o, e)) \in Nat
      BY <2>2
    <3> QED BY <3>1, <2>2, <2>3, <1>0 DEF OccEntry
  <2>5. occ_add_slot(o, e, i) = [o EXCEPT ![x] = new]
    BY <1>1 DEF occ_add_slot
  <2> HIDE DEF x, new
  <2> QED BY <2>1, <2>4, <2>5 DEF OccOK
<1>2. CASE ~ CanList(o, e)
  BY <1>2 DEF occ_add_slot
<1> QED BY <1>1, <1>2

LEMMA OverwrittenOK ==
    ASSUME NEW l \in Seq(Slots), NEW i
    PROVE  Overwritten(l, i) \in Seq(Slots) /\ Len(Overwritten(l, i)) = Len(l)
<1> DEFINE P == {p \in 1 .. Len(l) : l[p] = i}
           m == CHOOSE p \in P : \A q \in P : p <= q
<1>1. CASE P = {}
  BY <1>1 DEF Overwritten
<1>2. CASE P # {}
  <2>0. Len(l) \in Nat /\ P \in SUBSET Nat
    OBVIOUS
  <2>1. \E p \in P : \A q \in P : p <= q
    BY <2>0, <1>2, LeastNat
  <2>2. m \in P
    BY <2>1
  <2>3. Overwritten(l, i) = [l EXCEPT ![m] = l[Len(l)]]
    BY <1>2 DEF Overwritten
  <2>4. m \in 1 .. Len(l) /\ l[Len(l)] \in Slots
    BY <2>2, <2>0
  <2> HIDE DEF m
  <2> QED BY <2>3, <2>4
<1> QED BY <1>1, <1>2

LEMMA ShrunkOK ==
    ASSUME NEW l \in Seq(Slots)
    PROVE  /\ Shrunk(l) \in Seq(Slots) /\ Len(Shrunk(l)) <= Len(l)
           /\ Len(l) >= 1 => Len(Shrunk(l)) = Len(l) - 1
           /\ \A p \in 1 .. Len(l) - 1 : Shrunk(l)[p] = l[p]
<1>1. Len(l) \in Nat /\ Len(l) - 1 \in Int
  OBVIOUS
<1>2. \A p \in 1 .. Len(l) - 1 : l[p] \in Slots
  BY <1>1
<1>3. /\ SubSeq(l, 1, Len(l) - 1) \in Seq(Slots)
      /\ Len(SubSeq(l, 1, Len(l) - 1)) = IF 1 <= Len(l) - 1 THEN (Len(l) - 1) - 1 + 1 ELSE 0
      /\ \A p \in 1 .. (Len(l) - 1) - 1 + 1 : SubSeq(l, 1, Len(l) - 1)[p] = l[1 + p - 1]
  BY <1>1, <1>2, SubSeqProperties
<1> DEFINE s == SubSeq(l, 1, Len(l) - 1)
           n == Len(l)
<1>4. s \in Seq(Slots) /\ Shrunk(l) = s
  BY <1>3 DEF Shrunk
<1>5. /\ Len(s) = IF 1 <= n - 1 THEN (n - 1) - 1 + 1 ELSE 0
      /\ \A p \in 1 .. (n - 1) - 1 + 1 : s[p] = l[1 + p - 1]
  BY <1>3
<1> HIDE DEF s, n
<1>6. n \in Nat
  BY <1>1 DEF n
<1>7. Len(s) <= n /\ (n >= 1 => Len(s) = n - 1)
  BY <1>5, <1>6
<1>8. \A p \in 1 .. n - 1 : s[p] = l[p]
  <2> SUFFICES ASSUME NEW p \in 1 .. n - 1 PROVE s[p] = l[p]
    OBVIOUS
  <2>1. p \in 1 .. (n - 1) - 1 + 1 /\ 1 + p - 1 = p
    BY <1>6
  <2> QED BY <2>1, <1>5
<1> QED BY <1>4, <1>7, <1>8 DEF n

\* The victim of the cap is a live edge of the entity that its list names.
LEMMA WeakestOK ==
    ASSUME TInv, NEW e \in Entity
    PROVE  /\ Weakest(e) \in 0 .. Capacity
           /\ Weakest(e) # NoSlot =>
                /\ Weakest(e) \in LiveOf(e)
                /\ occ_find(occ, e)
                /\ \E p \in 1 .. occ_count(occ, e) : Listed(occ, e)[p] = Weakest(e)
<1> DEFINE l == Listed(occ, e)
           P == {p \in 1 .. Len(l) : l[p] \in Candidates(e)}
           w(p) == entries[l[p]].weight
           best(p) == \A q \in P : \/ entries[l[p]].weight < entries[l[q]].weight
                                   \/ entries[l[p]].weight = entries[l[q]].weight /\ p <= q
<1>1. l \in Seq(Slots) /\ Len(l) \in Nat /\ Len(l) = occ_count(occ, e)
  BY ListedOK DEF TInv, occ_count
<1>2. Weakest(e) = IF P = {} THEN NoSlot ELSE l[CHOOSE p \in P : best(p)]
  BY DEF Weakest
<1>3. CASE P = {}
  BY <1>2, <1>3, SlotFacts
<1>4. CASE P # {}
  <2>1. P \in SUBSET Nat /\ \A p \in P : l[p] \in Slots /\ w(p) \in Nat
    <3>1. P \subseteq 1 .. Len(l)
      OBVIOUS
    <3>2. \A p \in 1 .. Len(l) : l[p] \in Slots
      BY <1>1
    <3>3. \A i \in Slots : entries[i].weight \in Nat
      BY DEF TInv, Entry
    <3> QED BY <1>1, <3>1, <3>2, <3>3
  <2> DEFINE W == {w(p) : p \in P}
  <2>2. PICK v \in W : \A u \in W : v <= u
    <3>1. W \in SUBSET Nat /\ W # {}
      BY <2>1, <1>4
    <3> HIDE DEF W
    <3> QED BY <3>1, LeastNat
  <2> DEFINE Q == {p \in P : w(p) = v}
  <2>3. PICK m \in Q : \A q \in Q : m <= q
    <3>1. Q \in SUBSET Nat /\ Q # {}
      BY <2>1, <2>2
    <3> HIDE DEF Q
    <3> QED BY <3>1, LeastNat
  <2>4. m \in P /\ best(m)
    <3>1. m \in P /\ w(m) = v
      BY <2>3
    <3>2. ASSUME NEW q \in P PROVE w(m) < w(q) \/ (w(m) = w(q) /\ m <= q)
      <4>1. v <= w(q) /\ v \in Nat /\ w(q) \in Nat
        BY <2>1, <2>2, <3>1
      <4>2. w(q) = v => m <= q
        BY <2>3
      <4> HIDE DEF w
      <4> QED BY <4>1, <4>2, <3>1
    <3> QED BY <3>1, <3>2
  <2>5. (CHOOSE p \in P : best(p)) \in P
    <3> HIDE DEF P, best
    <3> QED BY <2>4
  <2>6. PICK x \in P : Weakest(e) = l[x]
    BY <2>5, <1>2, <1>4
  <2>7. x \in 1 .. occ_count(occ, e) /\ l[x] \in Slots /\ l[x] \in Candidates(e)
    BY <2>6, <2>1, <1>1
  <2>8. l[x] \in LiveOf(e)
    BY <2>7 DEF Candidates, LiveOf, LiveIn
  <2>9. occ_find(occ, e)
    <3> SUFFICES ASSUME ~ occ_find(occ, e) PROVE FALSE
      OBVIOUS
    <3>1. l = <<>>
      BY DEF Listed
    <3> QED BY <3>1, <2>7, <1>1
  <2> QED BY <2>6, <2>7, <2>8, <2>9, SlotFacts
<1> QED BY <1>3, <1>4

-----------------------------------------------------------------------------
(* Calls                                                                   *)

LEMMA SourceOK ==
    ASSUME NEW s \in 0 .. SRC_OTHER, s # SRC_NONE
    PROVE  normalize_source(s) \in 1 .. SRC_OTHER - 1
BY TacAssumption DEF normalize_source, SRC_NONE

LEMMA SingleOK ==
    ASSUME NEW r \in Reinforcements, r.source # SRC_NONE, r.a # r.b
    PROVE  <<[edge |-> Canonical(r.entity, r.a, r.b),
              eta0 |-> r.eta, src0 |-> normalize_source(r.source),
              eta1 |-> 0, src1 |-> SRC_NONE]>> \in Seq(JobT)
<1>1. Canonical(r.entity, r.a, r.b) \in Edges /\ r.eta \in Strengths /\ r.source \in 0 .. SRC_OTHER
  BY CallAssumption
<1>2. normalize_source(r.source) \in 1 .. SRC_OTHER - 1
  BY <1>1, SourceOK
<1>3. SRC_NONE \in 0 .. SRC_OTHER - 1
  BY TacAssumption DEF SRC_NONE
<1>4. 0 \in Strengths
  BY TacAssumption DEF Strengths
<1> QED BY <1>1, <1>2, <1>3, <1>4 DEF JobT

\* The steps of two nested loops.
LEMMA GridIndex ==
    ASSUME NEW n \in Nat, n >= 2, NEW m \in 1 .. n * n
    PROVE  /\ ((m - 1) \div n) + 1 \in 1 .. n
           /\ ((m - 1) % n) + 1 \in 1 .. n
<1>1. n * n \in Nat
  OBVIOUS
<1> DEFINE k == m - 1
           N == n * n
           q == k \div n
<1>2. k \in Nat /\ k < N
  BY <1>1
<1>3. k % n \in 0 .. n - 1 /\ q \in Nat
  <2> HIDE DEF N, k
  <2> QED BY <1>2
<1>4. n * q <= k
  <2> HIDE DEF N, k
  <2> QED BY <1>2
<1>5. q < n
  <2> SUFFICES ASSUME q >= n PROVE FALSE
    <3> HIDE DEF q
    <3> QED BY <1>3
  <2>1. n * q >= n * n
    <3> HIDE DEF q
    <3> QED BY <1>3
  <2> HIDE DEF q, k
  <2>2. n * q \in Nat
    BY <1>3
  <2> QED BY <2>1, <2>2, <1>1, <1>2, <1>4
<1> HIDE DEF q, k
<1>6. q + 1 \in 1 .. n /\ (k % n) + 1 \in 1 .. n
  BY <1>3, <1>5
<1> QED BY <1>6 DEF q, k

\* The jobs of a batch.
LEMMA PairsOK ==
    ASSUME NEW b \in Batches, Len(b.acts) >= 2
    PROVE  PairsOf(b) \in Seq(JobT)
<1> DEFINE n == Len(b.acts)
           N == n * n
           i(m) == ((m - 1) \div n) + 1
           j(m) == ((m - 1) % n) + 1
           Grown(m, s) == IF UsablePair(b, i(m), j(m)) THEN Append(s, PairJob(b, i(m), j(m))) ELSE s
           upto[m \in 0 .. N] ==
             IF m = 0 THEN <<>>
             ELSE IF UsablePair(b, i(m), j(m)) THEN Append(upto[m - 1], PairJob(b, i(m), j(m)))
             ELSE upto[m - 1]
           Run(f, k) == \A m \in 0 .. k : f[m] = IF m = 0 THEN <<>> ELSE Grown(m, f[m - 1])
<1>0. PairsOf(b) = upto[N]
  BY DEF PairsOf
<1>1. n \in Nat /\ n >= 2
  <2>1. b.acts \in Seq([technique : Nat, eta : Strengths, source : 0 .. SRC_OTHER])
    BY CallAssumption
  <2> QED BY <2>1
<1>a. \A x \in 1 .. n : b.acts[x] \in [technique : Nat, eta : Strengths, source : 0 .. SRC_OTHER]
  <2>1. b.acts \in Seq([technique : Nat, eta : Strengths, source : 0 .. SRC_OTHER])
    BY CallAssumption
  <2> QED BY <2>1, ElementOfSeq
<1>b. \A x, y \in 1 .. n : b.acts[x].technique # b.acts[y].technique =>
         Canonical(b.entity, b.acts[x].technique, b.acts[y].technique) \in Edges
  BY CallAssumption
<1> HIDE DEF n
<1>2. N \in Nat
  BY <1>1
<1>3. ASSUME NEW m \in 1 .. N PROVE i(m) \in 1 .. n /\ j(m) \in 1 .. n
  BY <1>1, GridIndex
<1>4. ASSUME NEW x \in 1 .. n, NEW y \in 1 .. n, UsablePair(b, x, y)
      PROVE  PairJob(b, x, y) \in JobT
  <2>1. /\ b.acts[x].source \in 0 .. SRC_OTHER /\ b.acts[x].eta \in Strengths
        /\ b.acts[y].source \in 0 .. SRC_OTHER /\ b.acts[y].eta \in Strengths
    BY <1>a
  <2>2. /\ normalize_source(b.acts[x].source) \in 1 .. SRC_OTHER - 1
        /\ normalize_source(b.acts[y].source) \in 1 .. SRC_OTHER - 1
    BY <1>4, <2>1, SourceOK DEF UsablePair
  <2>3. normalize_source(b.acts[y].source) \in 0 .. SRC_OTHER - 1
    BY <2>2, TacAssumption
  <2>4. Canonical(b.entity, b.acts[x].technique, b.acts[y].technique) \in Edges
    BY <1>4, <1>b DEF UsablePair
  <2> QED BY <2>1, <2>2, <2>3, <2>4 DEF PairJob, JobT
<1>5. ASSUME NEW m \in 1 .. N, NEW s \in Seq(JobT) PROVE Grown(m, s) \in Seq(JobT)
  <2>1. CASE UsablePair(b, i(m), j(m))
    <3>1. PairJob(b, i(m), j(m)) \in JobT
      BY <2>1, <1>3, <1>4
    <3> DEFINE x == PairJob(b, i(m), j(m))
    <3>2. Grown(m, s) = Append(s, x)
      BY <2>1
    <3> HIDE DEF x, Grown
    <3>3. x \in JobT
      BY <3>1 DEF x
    <3> QED BY <3>2, <3>3
  <2>2. CASE ~ UsablePair(b, i(m), j(m))
    BY <2>2
  <2> QED BY <2>1, <2>2
<1> HIDE DEF N, Grown
<1>6. \E f \in [0 .. N -> Seq(JobT)] : Run(f, N)
  <2> DEFINE S == {k \in Nat : k <= N => \E f \in [0 .. k -> Seq(JobT)] : Run(f, k)}
  <2>1. 0 \in S
    <3> DEFINE g == [m \in 0 .. 0 |-> <<>>]
    <3>1. g \in [0 .. 0 -> Seq(JobT)] /\ Run(g, 0)
      OBVIOUS
    <3> QED BY <3>1
  <2>2. ASSUME NEW k \in Nat, k \in S PROVE k + 1 \in S
    <3> SUFFICES ASSUME k + 1 <= N PROVE \E f \in [0 .. (k + 1) -> Seq(JobT)] : Run(f, k + 1)
      OBVIOUS
    <3>1. PICK f \in [0 .. k -> Seq(JobT)] : Run(f, k)
      <4>1. k <= N
        BY <1>2
      <4> HIDE DEF Run
      <4> QED BY <2>2, <4>1
    <3> DEFINE v == Grown(k + 1, f[k])
               g == [m \in 0 .. (k + 1) |-> IF m <= k THEN f[m] ELSE v]
    <3>2. v \in Seq(JobT)
      <4>1. f[k] \in Seq(JobT) /\ k + 1 \in 1 .. N
        BY <3>1, <1>2
      <4> QED BY <4>1, <1>5
    <3> HIDE DEF v
    <3>3. g \in [0 .. (k + 1) -> Seq(JobT)]
      BY <3>2
    <3>4. Run(g, k + 1)
      <4> SUFFICES ASSUME NEW m \in 0 .. (k + 1)
                   PROVE  g[m] = IF m = 0 THEN <<>> ELSE Grown(m, g[m - 1])
        OBVIOUS
      <4>1. CASE m <= k
        BY <3>1, <4>1
      <4>2. CASE m = k + 1
        BY <4>2 DEF v
      <4> QED BY <4>1, <4>2
    <3> QED BY <3>3, <3>4
  <2>3. Nat \subseteq S
    <3> HIDE DEF S
    <3> QED BY <2>1, <2>2, NatSetInduction
  <2> HIDE DEF Run
  <2>4. N \in S /\ N <= N
    <3> HIDE DEF S
    <3> QED BY <2>3, <1>2
  <2> QED BY <2>4
<1>7. PICK f \in [0 .. N -> Seq(JobT)] : Run(f, N)
  BY <1>6
<1>8. f = [m \in 0 .. N |->
             IF m = 0 THEN <<>>
             ELSE IF UsablePair(b, i(m), j(m)) THEN Append(f[m - 1], PairJob(b, i(m), j(m)))
             ELSE f[m - 1]]
  <2> HIDE DEF i, j
  <2> QED BY <1>7 DEF Grown
<1>9. upto = [m \in 0 .. N |->
                IF m = 0 THEN <<>>
                ELSE IF UsablePair(b, i(m), j(m)) THEN Append(upto[m - 1], PairJob(b, i(m), j(m)))
                ELSE upto[m - 1]]
  BY <1>8
<1> HIDE DEF upto
<1>10. upto[N] \in Seq(JobT)
  <2> DEFINE S == {k \in Nat : k <= N => upto[k] \in Seq(JobT)}
  <2>1. 0 \in S
    BY <1>2, <1>9
  <2>2. ASSUME NEW k \in Nat, k \in S PROVE k + 1 \in S
    <3> SUFFICES ASSUME k + 1 <= N PROVE upto[k + 1] \in Seq(JobT)
      OBVIOUS
    <3>1. upto[k] \in Seq(JobT) /\ k + 1 \in 1 .. N /\ (k + 1) - 1 = k
      BY <2>2, <1>2
    <3>2. upto[k + 1] = Grown(k + 1, upto[k])
      <4> HIDE DEF i, j
      <4>1. k + 1 \in 0 .. N /\ k + 1 # 0
        BY <3>1, <1>2
      <4>2. upto[k + 1] = IF UsablePair(b, i(k + 1), j(k + 1))
                          THEN Append(upto[(k + 1) - 1], PairJob(b, i(k + 1), j(k + 1)))
                          ELSE upto[(k + 1) - 1]
        BY <1>9, <4>1
      <4> QED BY <4>2, <3>1 DEF Grown
    <3> QED BY <3>1, <3>2, <1>5
  <2>3. Nat \subseteq S
    <3> HIDE DEF S
    <3> QED BY <2>1, <2>2, NatSetInduction
  <2> QED BY <2>3, <1>2
<1> QED BY <1>0, <1>10

-----------------------------------------------------------------------------
(* Type correctness                                                        *)

LEMMA SetOK ==
    ASSUME entries \in [Slots -> Entry], NEW i \in Slots, NEW e \in Entry, Set(i, e)
    PROVE  entries' \in [Slots -> Entry]
BY DEF Set

LEMMA IdleOK == Idle \in WriterT
<1>1. NoSlot \in 0 .. Capacity
  BY SlotFacts
<1> QED BY <1>1 DEF Idle, WriterT

LEMMA ContinueOK ==
    ASSUME NEW rest \in Seq(JobT), Continue(rest)
    PROVE  /\ WriterOK' /\ writer'.pc \in {"idle", "next"}
           /\ writer'.slot = NoSlot /\ writer'.had = 0 /\ writer'.todo = rest
<1>1. writer' = [Idle EXCEPT !.pc = IF rest = <<>> THEN "idle" ELSE "next", !.todo = rest]
  BY DEF Continue
<1>2. writer' \in WriterT
  BY <1>1, IdleOK DEF WriterT
<1>3. /\ writer'.pc = IF rest = <<>> THEN "idle" ELSE "next"
      /\ writer'.slot = Idle.slot /\ writer'.had = Idle.had /\ writer'.todo = rest
  BY <1>1, IdleOK DEF WriterT
<1>4. Idle.slot = NoSlot /\ Idle.had = 0
  BY DEF Idle
<1>5. writer'.pc \in {"idle", "next"}
  BY <1>3
<1> QED BY <1>2, <1>3, <1>4, <1>5 DEF WriterOK, Inserting

LEMMA GotoOK ==
    ASSUME writer \in WriterT, NEW l, Goto(l)
    PROVE  /\ writer'.pc = l /\ writer'.todo = writer.todo /\ writer'.job = writer.job
           /\ writer'.slot = writer.slot /\ writer'.victim = writer.victim
           /\ writer'.fresh = writer.fresh /\ writer'.had = writer.had
           /\ l \in {"idle", "next", "weigh", "reassess", "decay"} \cup Inserting
                => writer' \in WriterT
BY DEF Goto, WriterT

\* Going from one step of an insertion, or of a reinforcement, to a later one.
LEMMA GotoLater ==
    ASSUME TInv, NEW l, Goto(l),
           \/ writer.pc = "weigh" /\ l = "reassess"
           \/ /\ writer.pc \in {"retire", "unlist", "shrink"}
              /\ l \in {"unlist", "shrink", "hide"}
           \/ /\ writer.pc \in {"hide", "describe", "name", "list"}
              /\ l \in {"describe", "name", "list", "publish"}
    PROVE  WriterOK'
<1>1. writer \in WriterT
  BY DEF TInv, WriterOK
<1>2. /\ writer'.pc = l /\ writer'.job = writer.job /\ writer'.slot = writer.slot
      /\ writer'.victim = writer.victim
      /\ l \in {"idle", "next", "weigh", "reassess", "decay"} \cup Inserting => writer' \in WriterT
  BY <1>1, GotoOK
<1>3. writer' \in WriterT
  BY <1>2 DEF Inserting
<1>4. writer.pc \in {"weigh", "reassess"} \cup Inserting
  BY DEF Inserting
<1>5. writer.slot \in Slots /\ writer.job \in JobT
  BY <1>4 DEF TInv, WriterOK
<1>6. l \in {"retire", "unlist", "shrink"} => writer.pc \in {"retire", "unlist", "shrink"}
  OBVIOUS
<1>7. l \in {"retire", "unlist", "shrink"} => writer.victim \in Slots
  BY <1>6 DEF TInv, WriterOK
<1> QED BY <1>2, <1>3, <1>5, <1>7 DEF WriterOK

LEMMA TakeOK ==
    ASSUME TInv, Take
    PROVE  /\ Job \in JobT /\ Job.edge \in Edges /\ Job.edge[1] \in Entity
           /\ Tail(writer.todo) \in Seq(JobT)
<1>1. writer.todo \in Seq(JobT) /\ writer.todo # <<>>
  BY DEF TInv, WriterOK, WriterT, Take
<1>2. Job \in JobT /\ Tail(writer.todo) \in Seq(JobT)
  BY <1>1, HeadTailProperties DEF Job
<1> QED BY <1>2, SlotFacts DEF JobT

\* Where the writer works on a slot.
LEMMA WorkOK ==
    ASSUME TInv, writer.pc \in {"weigh", "reassess"} \cup Inserting
    PROVE  /\ writer.slot \in Slots /\ entries[writer.slot] \in Entry
           /\ writer.job \in JobT /\ writer.job.edge \in Edges
           /\ writer.job.edge[1] \in Entity
           /\ <<writer.job.edge[2], writer.job.edge[3]>> \in Nat \X Nat
<1>1. writer.slot \in Slots /\ writer.job \in JobT
  BY DEF TInv, WriterOK
<1>2. writer.job.edge \in Edges
  BY <1>1 DEF JobT
<1> QED BY <1>1, <1>2, SlotFacts DEF TInv

\* How each field of an entry may be changed.
LEMMA EntryOK ==
    ASSUME NEW e \in Entry
    PROVE  /\ \A k \in Edges \cup {TOMBSTONE} : [e EXCEPT !.key = k] \in Entry
           /\ \A b \in [Budgets -> Budget] : [e EXCEPT !.budget = b] \in Entry
           /\ \A w \in Nat : [e EXCEPT !.weight = w] \in Entry
           /\ [e EXCEPT !.weight = 0, !.key = TOMBSTONE] \in Entry
           /\ \A q \in BOOLEAN : [e EXCEPT !.quarantine = q] \in Entry
BY DEF Entry

LEMMA FreshOK == Fresh \in Entry
<1>1. NoBudget \in [Budgets -> Budget]
  BY NoBudgetOK
<1>2. 0 \in 0 .. BUDGET_NAMED + 1
  BY TacAssumption
<1> QED BY <1>1, <1>2 DEF Fresh, Entry

LEMMA NoIndexOK == OccOK(NoIndex)
<1>1. PER_ENTITY_CAP_MAX \in Nat
  BY TacAssumption
<1>2. [ent |-> NoEntity, list |-> <<>>] \in OccEntry
  BY DEF OccEntry
<1>3. NoIndex \in [OccPos -> OccEntry]
  BY <1>2 DEF NoIndex, OccPos
<1>4. \A x \in OccPos : NoIndex[x].list = <<>>
  BY DEF NoIndex, OccPos
<1> QED BY <1>1, <1>3, <1>4 DEF OccOK

LEMMA InitTyped == Init => TInv
<1> SUFFICES ASSUME Init PROVE TInv
  OBVIOUS
<1>1. entries \in [Slots -> Entry]
  BY FreshOK DEF Init
<1>2. OccOK(occ)
  BY NoIndexOK DEF Init
<1>3. WriterOK
  <2>1. writer \in WriterT
    BY IdleOK DEF Init
  <2>2. writer.pc = "idle"
    BY DEF Init, Idle
  <2> QED BY <2>1, <2>2 DEF WriterOK, Inserting
<1>4. crashes \in 0 .. MaxCrashes
  BY TacAssumption DEF Init
<1> QED BY <1>1, <1>2, <1>3, <1>4 DEF Init, TInv

\* The victim and the slot are dealt with in steps of their own; what the
\* sidecar does to its lists keeps them within bounds.
LEMMA OccListOK ==
    ASSUME OccOK(occ), NEW x \in OccPos, NEW l \in Seq(Slots), Len(l) <= Len(occ[x].list)
    PROVE  OccOK([occ EXCEPT ![x].list = l])
<1>1. occ[x] \in OccEntry /\ Len(occ[x].list) <= PER_ENTITY_CAP_MAX
      /\ PER_ENTITY_CAP_MAX \in Nat
  BY TacAssumption DEF OccOK
<1>2. occ[x].list \in Seq(Slots)
  BY <1>1 DEF OccEntry
<1>3. Len(l) \in Nat /\ Len(occ[x].list) \in Nat
  BY <1>2
<1>4. Len(l) <= PER_ENTITY_CAP_MAX
  BY <1>1, <1>3
<1>5. [occ[x] EXCEPT !.list = l] \in OccEntry /\ [occ[x] EXCEPT !.list = l].list = l
  BY <1>1 DEF OccEntry
<1> QED BY <1>4, <1>5 DEF OccOK

LEMMA ChargeTyped == TInv /\ ChargeExisting => TInv'
<1> SUFFICES ASSUME TInv, ChargeExisting PROVE TInv'
  OBVIOUS
<1> DEFINE i == find_slot(Job.edge)
           e == entries[i]
           paid == ~ Refuses(e, Job) /\ Payers(e.budget, Job) # {}
<1>1. Take /\ i # NoSlot /\ UNCHANGED <<occ, crashes, drift, broken>>
  BY DEF ChargeExisting
<1>2. /\ Job \in JobT /\ Tail(writer.todo) \in Seq(JobT) /\ Job.edge \in Edges
  BY <1>1, TakeOK
<1>3. i \in Slots
  BY <1>1, <1>2, FindSlotOK
<1>4. e \in Entry /\ e.budget \in [Budgets -> Budget]
  BY <1>3 DEF TInv, Entry
<1>5. /\ Charged(e.budget, Job) \in [Budgets -> Budget]
      /\ NewSources(e.budget, Job) \in SUBSET Budgets
      /\ Payers(e.budget, Job) \in SUBSET (1 .. SRC_OTHER - 1)
  BY <1>2, <1>4, ChargedOK
<1>6. CASE paid
  <2>1. /\ Set(i, [e EXCEPT !.budget = Charged(e.budget, Job)])
        /\ who' = [who EXCEPT ![i] = @ \cup Payers(e.budget, Job)]
        /\ writer' = [writer EXCEPT !.pc = "weigh", !.job = Job, !.slot = i,
                        !.todo = Tail(@), !.fresh = NewSources(e.budget, Job)]
    BY <1>6 DEF ChargeExisting
  <2> HIDE DEF i, e
  <2>2. [e EXCEPT !.budget = Charged(e.budget, Job)] \in Entry
    BY <1>4, <1>5, EntryOK
  <2>3. entries' \in [Slots -> Entry]
    BY <2>1, <2>2, <1>3, SetOK DEF TInv
  <2>4. who' \in [Slots -> SUBSET (1 .. SRC_OTHER - 1)]
    BY <2>1, <1>3, <1>5 DEF TInv
  <2>5. writer \in WriterT /\ i \in 0 .. Capacity
    BY <1>3, SlotFacts DEF TInv, WriterOK
  <2>6. writer' \in WriterT
    BY <2>1, <2>5, <1>2, <1>5 DEF WriterT
  <2>7. writer'.pc = "weigh" /\ writer'.slot = i /\ writer'.job = Job
    BY <2>1, <2>5 DEF WriterT
  <2>8. WriterOK'
    BY <2>6, <2>7, <1>2, <1>3 DEF WriterOK
  <2> QED BY <2>3, <2>4, <2>8, <1>1 DEF TInv
<1>7. CASE ~ paid
  <2>1. Continue(Tail(writer.todo)) /\ UNCHANGED <<entries, who>>
    BY <1>7 DEF ChargeExisting
  <2>2. WriterOK'
    BY <2>1, <1>2, ContinueOK
  <2> QED BY <2>1, <2>2, <1>1 DEF TInv
<1> QED BY <1>6, <1>7

LEMMA WeighTyped == TInv /\ Weigh => TInv'
<1> SUFFICES ASSUME TInv, Weigh PROVE TInv'
  OBVIOUS
<1> DEFINE e == entries[writer.slot]
           n == Cardinality(writer.fresh)
           new == [e EXCEPT !.weight = @ + Delta(writer.job),
                            !.eta = Higher(@, EtaHi(writer.job)),
                            !.src = Lower(@ + n, BUDGET_NAMED + 1)]
<1>1. At("weigh") /\ Set(writer.slot, new) /\ Goto("reassess") /\ UNCHANGED occ /\ Bookkeeping
  BY DEF Weigh
<1>2. writer.pc = "weigh"
  BY <1>1 DEF At
<1>3. writer.slot \in Slots /\ e \in Entry /\ writer.job \in JobT
  BY <1>2, WorkOK
<1>4. n \in 0 .. BUDGET_NAMED + 1 /\ BUDGET_NAMED \in Nat
  BY BudgetCount, TacAssumption DEF TInv, WriterOK, WriterT
<1>5. EtaHi(writer.job) \in Nat /\ Delta(writer.job) \in Nat
  BY <1>3, DeltaNat
<1>6. e.weight \in Nat /\ e.eta \in Nat /\ e.src \in 0 .. BUDGET_NAMED + 1
  BY <1>3 DEF Entry
<1> HIDE DEF e, n
<1>7. /\ e.weight + Delta(writer.job) \in Nat
      /\ Higher(e.eta, EtaHi(writer.job)) \in Nat
      /\ Lower(e.src + n, BUDGET_NAMED + 1) \in 0 .. BUDGET_NAMED + 1
  <2>1. e.src + n \in Nat /\ BUDGET_NAMED + 1 \in Nat
    BY <1>4, <1>6
  <2>2. Lower(e.src + n, BUDGET_NAMED + 1) \in 0 .. BUDGET_NAMED + 1
    BY <2>1 DEF Lower
  <2>3. e.weight + Delta(writer.job) \in Nat
    BY <1>5, <1>6
  <2> QED BY <2>2, <2>3, <1>5, <1>6, LowerHigher
<1>8. new \in Entry
  <2>1. new = [e EXCEPT !.weight = e.weight + Delta(writer.job),
                        !.eta = Higher(e.eta, EtaHi(writer.job)),
                        !.src = Lower(e.src + n, BUDGET_NAMED + 1)]
    BY <1>3 DEF Entry
  <2> QED BY <2>1, <1>3, <1>7 DEF Entry
<1> HIDE DEF new
<1>9. entries' \in [Slots -> Entry]
  BY <1>1, <1>3, <1>8, SetOK DEF TInv
<1>10. WriterOK'
  BY <1>1, <1>2, GotoLater
<1> QED BY <1>1, <1>9, <1>10 DEF TInv, Bookkeeping

LEMMA ReassessTyped == TInv /\ Reassess => TInv'
<1> SUFFICES ASSUME TInv, Reassess PROVE TInv'
  OBVIOUS
<1> DEFINE e == entries[writer.slot]
<1>1. /\ At("reassess") /\ Set(writer.slot, [e EXCEPT !.quarantine = quarantine_reassess(e)])
      /\ Continue(writer.todo) /\ UNCHANGED occ /\ Bookkeeping
  BY DEF Reassess
<1>2. writer.pc = "reassess"
  BY <1>1 DEF At
<1>3. writer.slot \in Slots /\ e \in Entry /\ writer.todo \in Seq(JobT)
  BY <1>2, WorkOK DEF TInv, WriterOK, WriterT
<1> HIDE DEF e
<1>4. quarantine_reassess(e) \in BOOLEAN
  <2>1. e.quarantine \in BOOLEAN
    BY <1>3 DEF Entry
  <2> QED BY <2>1 DEF quarantine_reassess
<1>5. entries' \in [Slots -> Entry]
  BY <1>1, <1>3, <1>4, EntryOK, SetOK DEF TInv
<1>6. WriterOK'
  BY <1>1, <1>3, ContinueOK
<1> QED BY <1>1, <1>5, <1>6 DEF TInv, Bookkeeping

LEMMA LiveFinite ==
    ASSUME NEW t, NEW e
    PROVE  IsFiniteSet(LiveIn(t, e)) /\ Cardinality(LiveIn(t, e)) \in Nat
<1>1. IsFiniteSet(Slots)
  <2>1. Capacity - 1 \in Int
    BY SlotFacts
  <2> QED BY <2>1, FS_Interval DEF Slots
<1>2. IsFiniteSet(LiveIn(t, e))
  BY <1>1, FS_Subset DEF LiveIn
<1> QED BY <1>2, FS_CardinalityType

\* What Claim does: it gives the job up, or it takes a slot for it.
LEMMA ClaimCases ==
    ASSUME TInv, Claim
    PROVE  LET e == Job.edge[1]
               full == occ_count(occ, e) >= PerEntityCap
               i == FreeSlot(Job.edge)
           IN /\ Take /\ UNCHANGED occ /\ Bookkeeping
              /\ Job \in JobT /\ Job.edge \in Edges /\ e \in Entity
              /\ \/ /\ Continue(Tail(writer.todo)) /\ UNCHANGED entries
                    /\ Tail(writer.todo) \in Seq(JobT)
                 \/ /\ i \in Slots /\ ~ IsLive(entries[i])
                    /\ Set(i, [entries[i] EXCEPT !.key = Job.edge])
                    /\ writer' \in WriterT
                    /\ writer'.pc = IF full THEN "retire" ELSE "hide"
                    /\ writer'.job = Job /\ writer'.slot = i
                    /\ writer'.victim = IF full THEN Weakest(e) ELSE NoSlot
                    /\ writer'.had = Cardinality(LiveOf(e))
                    /\ full => Weakest(e) # NoSlot
<1> DEFINE k == Job.edge
           e == k[1]
           full == occ_count(occ, e) >= PerEntityCap
           victim == IF full THEN Weakest(e) ELSE NoSlot
           refused == full /\ (victim = NoSlot \/ Delta(Job) <= entries[victim].weight)
           i == FreeSlot(k)
<1>1. Take /\ UNCHANGED occ /\ Bookkeeping
  BY DEF Claim
<1>2. Job \in JobT /\ k \in Edges /\ e \in Entity /\ Tail(writer.todo) \in Seq(JobT)
  BY <1>1, TakeOK
<1>3. CASE refused \/ i = NoSlot
  <2>1. Continue(Tail(writer.todo)) /\ UNCHANGED entries
    BY <1>3 DEF Claim
  <2> QED BY <2>1, <1>1, <1>2
<1>4. CASE ~ (refused \/ i = NoSlot)
  <2>1. /\ Set(i, [entries[i] EXCEPT !.key = k])
        /\ writer' = [writer EXCEPT !.pc = IF full THEN "retire" ELSE "hide",
                        !.job = Job, !.slot = i, !.victim = victim,
                        !.todo = Tail(@), !.had = Cardinality(LiveOf(e))]
    BY <1>4 DEF Claim
  <2>2. i \in Slots /\ ~ IsLive(entries[i])
    BY <1>2, <1>4, FreeSlotOK
  <2>3. full => Weakest(e) # NoSlot
    BY <1>4
  <2>4. victim \in 0 .. Capacity
    BY <1>2, WeakestOK, SlotFacts
  <2>5. Cardinality(LiveOf(e)) \in Nat
    BY LiveFinite DEF LiveOf
  <2> HIDE DEF i, victim, full, e
  <2>6. writer \in WriterT /\ i \in 0 .. Capacity
    BY <2>2, SlotFacts DEF TInv, WriterOK
  <2>7. writer' \in WriterT
    BY <2>1, <2>4, <2>5, <2>6, <1>2 DEF WriterT, Inserting
  <2>8. /\ writer'.pc = IF full THEN "retire" ELSE "hide"
        /\ writer'.job = Job /\ writer'.slot = i /\ writer'.victim = victim
        /\ writer'.had = Cardinality(LiveOf(e))
    BY <2>1, <2>6 DEF WriterT
  <2> QED BY <2>1, <2>2, <2>3, <2>7, <2>8, <1>1, <1>2 DEF i, victim, full, e
<1> QED BY <1>3, <1>4

LEMMA ClaimTyped == TInv /\ Claim => TInv'
<1> SUFFICES ASSUME TInv, Claim PROVE TInv'
  OBVIOUS
<1> DEFINE e == Job.edge[1]
           full == occ_count(occ, e) >= PerEntityCap
           i == FreeSlot(Job.edge)
<1>1. UNCHANGED occ /\ Bookkeeping /\ Job \in JobT /\ Job.edge \in Edges /\ e \in Entity
  BY ClaimCases
<1>2. CASE Continue(Tail(writer.todo)) /\ UNCHANGED entries /\ Tail(writer.todo) \in Seq(JobT)
  <2>1. WriterOK'
    BY <1>2, ContinueOK
  <2> QED BY <2>1, <1>1, <1>2 DEF TInv, Bookkeeping
<1>3. CASE /\ i \in Slots
           /\ Set(i, [entries[i] EXCEPT !.key = Job.edge])
           /\ writer' \in WriterT
           /\ writer'.pc = IF full THEN "retire" ELSE "hide"
           /\ writer'.job = Job /\ writer'.slot = i
           /\ writer'.victim = IF full THEN Weakest(e) ELSE NoSlot
           /\ full => Weakest(e) # NoSlot
  <2>1. entries[i] \in Entry
    BY <1>3 DEF TInv
  <2>2. entries' \in [Slots -> Entry]
    <3> HIDE DEF i
    <3> QED BY <2>1, <1>1, <1>3, EntryOK, SetOK DEF TInv
  <2>3. Weakest(e) # NoSlot => Weakest(e) \in Slots
    BY <1>1, WeakestOK, SlotFacts
  <2> HIDE DEF full, i, e
  <2>4. WriterOK'
    BY <1>1, <1>3, <2>3 DEF WriterOK
  <2> QED BY <2>2, <2>4, <1>1 DEF TInv, Bookkeeping
<1> QED BY <1>2, <1>3, ClaimCases

LEMMA RetireTyped == TInv /\ Retire => TInv'
<1> SUFFICES ASSUME TInv, Retire PROVE TInv'
  OBVIOUS
<1> DEFINE v == writer.victim
<1>1. /\ writer.pc = "retire" /\ Goto("unlist") /\ UNCHANGED occ /\ Bookkeeping
      /\ Set(v, [entries[v] EXCEPT !.weight = 0, !.key = TOMBSTONE])
  BY DEF Retire, At
<1>2. v \in Slots
  BY <1>1 DEF TInv, WriterOK
<1>3. entries[v] \in Entry
  BY <1>2 DEF TInv
<1>4. entries' \in [Slots -> Entry]
  BY <1>1, <1>2, <1>3, EntryOK, SetOK DEF TInv
<1>5. WriterOK'
  BY <1>1, GotoLater
<1> QED BY <1>1, <1>4, <1>5 DEF TInv, Bookkeeping

\* Unlist and Shrink touch one list, if the entity has an entry at all.
LEMMA EditListOK ==
    ASSUME OccOK(occ), NEW e \in Entity, NEW l,
           OccAt(occ, e) \in OccPos =>
             l \in Seq(Slots) /\ Len(l) <= Len(occ[OccAt(occ, e)].list)
    PROVE  OccOK([occ EXCEPT ![OccAt(occ, e)].list = l])
<1> DEFINE x == OccAt(occ, e)
<1>1. CASE x \in OccPos
  BY <1>1, OccListOK
<1>2. CASE x \notin OccPos
  <2>1. [occ EXCEPT ![x].list = l] = occ
    BY <1>2 DEF OccOK
  <2> QED BY <2>1
<1> QED BY <1>1, <1>2

LEMMA UnlistTyped == TInv /\ Unlist => TInv'
<1> SUFFICES ASSUME TInv, Unlist PROVE TInv'
  OBVIOUS
<1> DEFINE e == writer.job.edge[1]
           F(l) == Overwritten(l, writer.victim)
<1>1. /\ writer.pc = "unlist" /\ Goto("shrink") /\ UNCHANGED entries /\ Bookkeeping
      /\ occ' = [occ EXCEPT ![OccAt(occ, e)].list = F(@)]
  BY DEF Unlist, At
<1>2. e \in Entity
  BY <1>1, WorkOK DEF Inserting
<1>3. \A l \in Seq(Slots) : F(l) \in Seq(Slots) /\ Len(F(l)) <= Len(l)
  <2> SUFFICES ASSUME NEW l \in Seq(Slots) PROVE F(l) \in Seq(Slots) /\ Len(F(l)) <= Len(l)
    OBVIOUS
  <2>1. F(l) \in Seq(Slots) /\ Len(F(l)) = Len(l) /\ Len(l) \in Nat
    BY OverwrittenOK
  <2> QED BY <2>1
<1> HIDE DEF F, e
<1>4. OccOK(occ')
  <2> DEFINE x == OccAt(occ, e)
             l == F(occ[x].list)
  <2>1. x \in OccPos => occ[x].list \in Seq(Slots)
    BY DEF TInv, OccOK, OccEntry
  <2>2. x \in OccPos => l \in Seq(Slots) /\ Len(l) <= Len(occ[x].list)
    BY <2>1, <1>3
  <2>3. occ' = [occ EXCEPT ![x].list = l]
    BY <1>1
  <2> HIDE DEF l
  <2>4. OccOK([occ EXCEPT ![x].list = l])
    BY <2>2, <1>2, EditListOK DEF TInv
  <2> QED BY <2>3, <2>4
<1>5. WriterOK'
  BY <1>1, GotoLater
<1> QED BY <1>1, <1>4, <1>5 DEF TInv, Bookkeeping, OccOK

LEMMA ShrinkTyped == TInv /\ Shrink => TInv'
<1> SUFFICES ASSUME TInv, Shrink PROVE TInv'
  OBVIOUS
<1> DEFINE e == writer.job.edge[1]
<1>1. /\ writer.pc = "shrink" /\ Goto("hide") /\ UNCHANGED entries /\ Bookkeeping
      /\ occ' = [occ EXCEPT ![OccAt(occ, e)].list = Shrunk(@)]
  BY DEF Shrink, At
<1>2. e \in Entity
  BY <1>1, WorkOK DEF Inserting
<1>3. \A l \in Seq(Slots) : Shrunk(l) \in Seq(Slots) /\ Len(Shrunk(l)) <= Len(l)
  BY ShrunkOK
<1> HIDE DEF e
<1>4. OccOK(occ')
  <2> DEFINE x == OccAt(occ, e)
             l == Shrunk(occ[x].list)
  <2>1. x \in OccPos => occ[x].list \in Seq(Slots)
    BY DEF TInv, OccOK, OccEntry
  <2>2. x \in OccPos => l \in Seq(Slots) /\ Len(l) <= Len(occ[x].list)
    BY <2>1, <1>3
  <2>3. occ' = [occ EXCEPT ![x].list = l]
    BY <1>1
  <2> HIDE DEF l
  <2>4. OccOK([occ EXCEPT ![x].list = l])
    BY <2>2, <1>2, EditListOK DEF TInv
  <2> QED BY <2>3, <2>4
<1>5. WriterOK'
  BY <1>1, GotoLater
<1> QED BY <1>1, <1>4, <1>5 DEF TInv, Bookkeeping, OccOK

LEMMA HideTyped == TInv /\ Hide => TInv'
<1> SUFFICES ASSUME TInv, Hide PROVE TInv'
  OBVIOUS
<1>1. /\ writer.pc = "hide" /\ Goto("describe") /\ UNCHANGED occ /\ Bookkeeping
      /\ Set(writer.slot, [entries[writer.slot] EXCEPT !.weight = 0])
  BY DEF Hide, At
<1>2. writer.slot \in Slots /\ entries[writer.slot] \in Entry
  BY <1>1, WorkOK DEF Inserting
<1>3. entries' \in [Slots -> Entry]
  BY <1>1, <1>2, EntryOK, SetOK DEF TInv
<1>4. WriterOK'
  BY <1>1, GotoLater
<1> QED BY <1>1, <1>3, <1>4 DEF TInv, Bookkeeping

LEMMA DescribeTyped == TInv /\ Describe => TInv'
<1> SUFFICES ASSUME TInv, Describe PROVE TInv'
  OBVIOUS
<1> DEFINE j == writer.job
           e == entries[writer.slot]
           new == [e EXCEPT !.pair = <<j.edge[2], j.edge[3]>>,
                            !.eta = EtaHi(j), !.quarantine = FALSE,
                            !.budget = Charged(NoBudget, j)]
<1>1. /\ writer.pc = "describe" /\ Goto("name") /\ Set(writer.slot, new)
      /\ who' = [who EXCEPT ![writer.slot] = Payers(NoBudget, j)]
      /\ broken' = broken \ {writer.slot} /\ UNCHANGED <<occ, crashes, drift>>
  BY DEF Describe, At
<1>2. /\ writer.slot \in Slots /\ e \in Entry /\ j \in JobT
      /\ <<j.edge[2], j.edge[3]>> \in Nat \X Nat
  BY <1>1, WorkOK DEF Inserting
<1>3. /\ Charged(NoBudget, j) \in [Budgets -> Budget]
      /\ Payers(NoBudget, j) \in SUBSET (1 .. SRC_OTHER - 1)
  BY <1>2, ChargedOK, NoBudgetOK
<1>4. EtaHi(j) \in Nat
  BY <1>2, DeltaNat
<1>5. new \in Entry
  <2> HIDE DEF j, e
  <2> QED BY <1>2, <1>3, <1>4 DEF Entry
<1> HIDE DEF new, j
<1>6. entries' \in [Slots -> Entry]
  BY <1>1, <1>2, <1>5, SetOK DEF TInv
<1>7. who' \in [Slots -> SUBSET (1 .. SRC_OTHER - 1)]
  BY <1>1, <1>2, <1>3 DEF TInv
<1>8. WriterOK'
  BY <1>1, GotoLater
<1> QED BY <1>1, <1>6, <1>7, <1>8 DEF TInv

LEMMA NameTyped == TInv /\ Name => TInv'
<1> SUFFICES ASSUME TInv, Name PROVE TInv'
  OBVIOUS
<1> DEFINE j == writer.job
           e == entries[writer.slot]
           new == [e EXCEPT !.src = Cardinality(NewSources(NoBudget, j)), !.ent = j.edge[1]]
<1>1. /\ writer.pc = "name" /\ Goto("list") /\ Set(writer.slot, new)
      /\ UNCHANGED occ /\ Bookkeeping
  BY DEF Name, At
<1>2. writer.slot \in Slots /\ e \in Entry /\ j \in JobT /\ j.edge[1] \in Entity
  BY <1>1, WorkOK DEF Inserting
<1>3. Cardinality(NewSources(NoBudget, j)) \in 0 .. BUDGET_NAMED + 1
  BY BudgetCount DEF NewSources
<1>4. new \in Entry
  <2> HIDE DEF j, e
  <2> QED BY <1>2, <1>3 DEF Entry
<1> HIDE DEF new
<1>5. entries' \in [Slots -> Entry]
  BY <1>1, <1>2, <1>4, SetOK DEF TInv
<1>6. WriterOK'
  BY <1>1, GotoLater
<1> QED BY <1>1, <1>5, <1>6 DEF TInv, Bookkeeping

LEMMA ListTyped == TInv /\ List => TInv'
<1> SUFFICES ASSUME TInv, List PROVE TInv'
  OBVIOUS
<1> DEFINE e == writer.job.edge[1]
<1>1. /\ writer.pc = "list" /\ occ' = occ_add_slot(occ, e, writer.slot) /\ Bookkeeping
      /\ \/ Goto("publish") /\ UNCHANGED entries
         \/ /\ Set(writer.slot, [entries[writer.slot] EXCEPT !.key = TOMBSTONE])
            /\ Continue(writer.todo)
  BY DEF List, At
<1>2. writer.slot \in Slots /\ entries[writer.slot] \in Entry /\ e \in Entity
      /\ writer.todo \in Seq(JobT)
  BY <1>1, WorkOK DEF Inserting, TInv, WriterOK, WriterT
<1>3. OccOK(occ')
  BY <1>1, <1>2, AddSlotOK DEF TInv
<1>4. CASE Goto("publish") /\ UNCHANGED entries
  <2>1. WriterOK'
    BY <1>1, <1>4, GotoLater
  <2> QED BY <1>1, <1>3, <1>4, <2>1 DEF TInv, Bookkeeping, OccOK
<1>5. CASE /\ Set(writer.slot, [entries[writer.slot] EXCEPT !.key = TOMBSTONE])
           /\ Continue(writer.todo)
  <2>1. WriterOK'
    BY <1>2, <1>5, ContinueOK
  <2>2. entries' \in [Slots -> Entry]
    BY <1>2, <1>5, EntryOK, SetOK DEF TInv
  <2> QED BY <1>1, <1>3, <2>1, <2>2 DEF TInv, Bookkeeping, OccOK
<1> QED BY <1>1, <1>4, <1>5

LEMMA PublishTyped == TInv /\ Publish => TInv'
<1> SUFFICES ASSUME TInv, Publish PROVE TInv'
  OBVIOUS
<1>1. /\ writer.pc = "publish" /\ Continue(writer.todo) /\ UNCHANGED occ /\ Bookkeeping
      /\ Set(writer.slot, [entries[writer.slot] EXCEPT !.weight = Delta(writer.job)])
  BY DEF Publish, At
<1>2. writer.slot \in Slots /\ entries[writer.slot] \in Entry /\ writer.job \in JobT
      /\ writer.todo \in Seq(JobT)
  BY <1>1, WorkOK DEF Inserting, TInv, WriterOK, WriterT
<1>3. Delta(writer.job) \in Nat
  BY <1>2, DeltaNat
<1>4. entries' \in [Slots -> Entry]
  BY <1>1, <1>2, <1>3, EntryOK, SetOK DEF TInv
<1>5. WriterOK'
  BY <1>1, <1>2, ContinueOK
<1> QED BY <1>1, <1>4, <1>5 DEF TInv, Bookkeeping

LEMMA DecayedNat ==
    ASSUME NEW e \in Entry
    PROVE  Decayed(e) \in Nat
<1>1. e.weight \in Nat
  BY DEF Entry
<1>2. DecayCorr \in Nat /\ DecayNovel \in Nat /\ FP_ONE \in Nat \ {0}
  BY TacAssumption
<1> DEFINE d == IF edge_corroborated(e) THEN DecayCorr ELSE DecayNovel
<1>3. d \in Nat
  BY <1>2
<1>4. Decayed(e) = (e.weight * d) \div FP_ONE
  BY DEF Decayed
<1> HIDE DEF d
<1>5. e.weight * d \in Nat
  BY <1>1, <1>3
<1> QED BY <1>2, <1>4, <1>5

LEMMA DecaySlotTyped == TInv /\ DecaySlot => TInv'
<1> SUFFICES ASSUME TInv, DecaySlot PROVE TInv'
  OBVIOUS
<1> DEFINE i == writer.slot
           e == entries[i]
<1>1. /\ writer.pc = "decay" /\ i # NoSlot /\ Bookkeeping
      /\ writer' = [writer EXCEPT !.slot = @ + 1]
  BY DEF DecaySlot, At
<1>2. writer \in WriterT
  BY DEF TInv, WriterOK
<1>3. i \in Slots /\ i + 1 \in 0 .. Capacity
  BY <1>1, <1>2, SlotFacts DEF WriterT, Slots, NoSlot
<1>4. WriterOK'
  <2>1. writer' \in WriterT /\ writer'.pc = "decay"
    BY <1>1, <1>2, <1>3 DEF WriterT
  <2> QED BY <2>1 DEF WriterOK, Inserting
<1>5. e \in Entry /\ e.ent \in Entity \cup {NoEntity} /\ Decayed(e) \in Nat
  BY <1>3, DecayedNat DEF TInv, Entry
<1>6. \/ UNCHANGED <<entries, occ>>
      \/ Set(i, [e EXCEPT !.key = TOMBSTONE]) /\ UNCHANGED occ
      \/ Set(i, [e EXCEPT !.weight = Decayed(e)]) /\ occ' = occ_add_slot(occ, e.ent, i)
  BY DEF DecaySlot
<1> HIDE DEF e, i
<1>7. entries' \in [Slots -> Entry]
  BY <1>3, <1>5, <1>6, EntryOK, SetOK DEF TInv
<1>8. OccOK(occ')
  BY <1>3, <1>5, <1>6, AddSlotOK DEF TInv
<1> QED BY <1>1, <1>4, <1>7, <1>8 DEF TInv, Bookkeeping, OccOK

LEMMA OtherTyped == TInv /\ (wake_tac_decay \/ EndDecay \/ wake_tac_reset \/ Crash) => TInv'
<1> SUFFICES ASSUME TInv, wake_tac_decay \/ EndDecay \/ wake_tac_reset \/ Crash PROVE TInv'
  OBVIOUS
<1>0. Idle \in WriterT /\ Idle.pc = "idle"
  BY IdleOK DEF Idle
<1>1. CASE wake_tac_decay
  <2>1. writer' = [Idle EXCEPT !.pc = "decay", !.slot = 0]
    BY <1>1 DEF wake_tac_decay
  <2>2. writer' \in WriterT /\ writer'.pc = "decay"
    <3>1. 0 \in 0 .. Capacity
      BY SlotFacts
    <3> QED BY <2>1, <3>1, <1>0 DEF WriterT
  <2>3. WriterOK'
    BY <2>2 DEF WriterOK, Inserting
  <2> QED BY <1>1, <2>3, NoIndexOK DEF wake_tac_decay, Bookkeeping, TInv, OccOK
<1>2. CASE EndDecay
  <2>1. WriterOK'
    BY <1>0, <1>2 DEF EndDecay, WriterOK, Inserting
  <2> QED BY <1>2, <2>1 DEF EndDecay, TInv
<1>3. CASE wake_tac_reset
  BY <1>3, FreshOK, NoIndexOK DEF wake_tac_reset, TInv, WriterOK, OccOK
<1>4. CASE Crash
  <2>1. WriterOK'
    BY <1>0, <1>4 DEF Crash, WriterOK, Inserting
  <2>2. crashes' \in 0 .. MaxCrashes
    BY <1>4, TacAssumption DEF Crash, TInv
  <2>3. broken' \subseteq Slots
    BY <1>4 DEF Crash, TInv
  <2> QED BY <1>4, <2>1, <2>2, <2>3 DEF Crash, TInv
<1> QED BY <1>1, <1>2, <1>3, <1>4

LEMMA CallTyped ==
    ASSUME TInv, \/ \E r \in Reinforcements : wake_tac_reinforce(r)
                 \/ \E b \in Batches : wake_tac_reinforce_batch(b)
    PROVE  /\ TInv' /\ UNCHANGED <<entries, occ>> /\ Bookkeeping /\ At("idle")
           /\ writer'.pc \in {"idle", "next"} /\ writer'.slot = NoSlot /\ writer'.had = 0
<1>1. PICK jobs \in Seq(JobT) : Call(jobs)
  <2>1. CASE \E r \in Reinforcements : wake_tac_reinforce(r)
    <3>1. PICK r \in Reinforcements : wake_tac_reinforce(r)
      BY <2>1
    <3> QED BY <3>1, SingleOK DEF wake_tac_reinforce
  <2>2. CASE \E b \in Batches : wake_tac_reinforce_batch(b)
    <3>1. PICK b \in Batches : wake_tac_reinforce_batch(b)
      BY <2>2
    <3> QED BY <3>1, PairsOK DEF wake_tac_reinforce_batch
  <2> QED BY <2>1, <2>2
<1>2. Continue(jobs) /\ UNCHANGED <<entries, occ>> /\ Bookkeeping /\ At("idle")
  BY <1>1 DEF Call
<1>3. /\ WriterOK' /\ writer'.pc \in {"idle", "next"}
      /\ writer'.slot = NoSlot /\ writer'.had = 0
  BY <1>2, ContinueOK
<1> QED BY <1>2, <1>3 DEF TInv, Bookkeeping

LEMMA StepTyped == TInv /\ [Next]_vars => TInv'
<1> SUFFICES ASSUME TInv, [Next]_vars PROVE TInv'
  OBVIOUS
<1>1. CASE UNCHANGED vars
  BY <1>1 DEF vars, TInv, WriterOK, OccOK
<1>2. CASE Next
  BY <1>2, CallTyped, ChargeTyped, WeighTyped, ReassessTyped, ClaimTyped, RetireTyped,
     UnlistTyped, ShrinkTyped, HideTyped, DescribeTyped, NameTyped, ListTyped,
     PublishTyped, DecaySlotTyped, OtherTyped
     DEF Next, Write, Step, Insert
<1> QED BY <1>1, <1>2

LEMMA Typed == Spec => []TInv
<1> QED BY InitTyped, StepTyped, PTL DEF Spec

LEMMA TInvTypeOK == TInv => TypeOK
<1> SUFFICES ASSUME TInv PROVE TypeOK
  OBVIOUS
<1>1. \A o \in 0 .. OccSlots - 1 :
        /\ occ[o].ent \in Entity \cup {NoEntity}
        /\ occ[o].list \in Seq(Slots) /\ Len(occ[o].list) <= PER_ENTITY_CAP_MAX
  BY DEF TInv, OccOK, OccPos, OccEntry
<1>2. writer.slot \in 0 .. Capacity /\ writer.victim \in 0 .. Capacity
  BY DEF TInv, WriterOK, WriterT
<1> QED BY <1>1, <1>2 DEF TInv, TypeOK, Entry, Budget

\* Every word of the edge table, the sidecar and the writer's state stays in
\* range, through crashes too, and no source ever overspends its budget on an
\* edge (budget_charge, occ_add_slot, decay).
THEOREM TypeCorrect == Spec => []TypeOK
BY Typed, TInvTypeOK, PTL

-----------------------------------------------------------------------------
(* No entity is left short                                                 *)

\* Where a position is looked for depends on the holders of the entries only.
LEMMA SameHolders ==
    ASSUME NEW o, NEW p, \A x \in OccPos : p[x].ent = o[x].ent,
           NEW e \in Entity \cup {NoEntity}
    PROVE  OccAt(p, e) = OccAt(o, e) /\ (occ_find(p, e) <=> occ_find(o, e))
<1> DEFINE P(r) == {q \in 0 .. OCC_PROBE_MAX - 1 :
                      r[(OccHome[e] + q) % OccSlots].ent \in {e, NoEntity}}
           A(S) == IF S = {} THEN OccSlots
                   ELSE (OccHome[e] + (CHOOSE q \in S : \A k \in S : q <= k)) % OccSlots
<1>1. \A q \in 0 .. OCC_PROBE_MAX - 1 : (OccHome[e] + q) % OccSlots \in OccPos
  BY OccWinOK DEF OccWin
<1>2. P(p) = P(o)
  BY <1>1
<1>3. OccAt(p, e) = A(P(p)) /\ OccAt(o, e) = A(P(o))
  BY DEF OccAt
<1>4. OccAt(p, e) = OccAt(o, e)
  <2> HIDE DEF P, A
  <2> QED BY <1>2, <1>3
<1>5. OccAt(o, e) # OccSlots => OccAt(o, e) \in OccPos
  BY OccAtOK
<1> QED BY <1>4, <1>5 DEF occ_find

\* Replacing the list of an entity that has one.
WithList(e, l) == [occ EXCEPT ![OccAt(occ, e)].list = l]

LEMMA EditListAt ==
    ASSUME OccOK(occ), NEW e \in Entity, occ_find(occ, e), NEW l
    PROVE  /\ \A f \in Entity \cup {NoEntity} :
                /\ OccAt(WithList(e, l), f) = OccAt(occ, f)
                /\ occ_find(WithList(e, l), f) <=> occ_find(occ, f)
           /\ Listed(WithList(e, l), e) = l
           /\ \A f \in Entity \cup {NoEntity} :
                f # e => Listed(WithList(e, l), f) = Listed(occ, f)
<1> DEFINE o == WithList(e, l)
<1> DEFINE x == OccAt(occ, e)
<1>1. x \in OccPos /\ occ[x].ent = e
  BY ListedOK
<1>2. \A y \in OccPos : occ[y] \in OccEntry
  BY DEF OccOK
<1>3. \A y \in OccPos : o[y] = IF y = x THEN [occ[x] EXCEPT !.list = l] ELSE occ[y]
  BY DEF OccOK, WithList
<1>4. [occ[x] EXCEPT !.list = l].ent = occ[x].ent /\ [occ[x] EXCEPT !.list = l].list = l
  BY <1>1, <1>2 DEF OccEntry
<1> HIDE DEF x, o
<1>5. \A y \in OccPos : o[y].ent = occ[y].ent
  BY <1>3, <1>4
<1>6. \A f \in Entity \cup {NoEntity} :
        OccAt(o, f) = OccAt(occ, f) /\ (occ_find(o, f) <=> occ_find(occ, f))
  BY <1>5, SameHolders
<1>7. Listed(o, e) = l
  <2>1. occ_find(o, e) /\ OccAt(o, e) = x
    BY <1>6 DEF x
  <2> QED BY <2>1, <1>1, <1>3, <1>4 DEF Listed
<1>8. ASSUME NEW f \in Entity \cup {NoEntity}, f # e PROVE Listed(o, f) = Listed(occ, f)
  <2>1. CASE occ_find(occ, f)
    <3>1. OccAt(occ, f) \in OccPos /\ occ[OccAt(occ, f)].ent = f
      BY <2>1, ListedOK
    <3>2. OccAt(occ, f) # x
      BY <3>1, <1>1, <1>8
    <3>3. o[OccAt(occ, f)] = occ[OccAt(occ, f)]
      BY <3>1, <3>2, <1>3
    <3>4. OccAt(o, f) = OccAt(occ, f) /\ occ_find(o, f)
      BY <2>1, <1>6
    <3>5. Listed(o, f) = o[OccAt(o, f)].list
      BY <3>4 DEF Listed
    <3>6. Listed(occ, f) = occ[OccAt(occ, f)].list
      BY <2>1 DEF Listed
    <3>7. o[OccAt(o, f)].list = occ[OccAt(occ, f)].list
      BY <3>3, <3>4
    <3> QED BY <3>5, <3>6, <3>7
  <2>2. CASE ~ occ_find(occ, f)
    BY <2>2, <1>6 DEF Listed
  <2> QED BY <2>1, <2>2
<1> QED BY <1>6, <1>7, <1>8 DEF o

\* The live edges of the entity of the job, but for the slot being filled.
Others(t, e, i) == LiveIn(t, e) \ {i}

LEMMA OthersCount ==
    ASSUME NEW t, NEW e, NEW i
    PROVE  IsFiniteSet(Others(t, e, i)) /\ Cardinality(Others(t, e, i)) \in Nat
<1>1. IsFiniteSet(LiveIn(t, e))
  BY LiveFinite
<1>2. IsFiniteSet(Others(t, e, i))
  BY <1>1, FS_Subset DEF Others
<1> QED BY <1>2, FS_CardinalityType

\* A store to a slot does not touch the other slots.
LEMMA SetOthers ==
    ASSUME entries \in [Slots -> Entry], NEW i \in Slots, NEW n, Set(i, n), NEW e
    PROVE  /\ Others(entries', e, i) = Others(entries, e, i)
           /\ entries'[i] = n
           /\ \A j \in Slots : j # i => entries'[j] = entries[j]
<1>1. entries' = [entries EXCEPT ![i] = n]
  BY DEF Set
<1>2. entries'[i] = n /\ \A j \in Slots : j # i => entries'[j] = entries[j]
  BY <1>1
<1>3. Others(entries', e, i) = Others(entries, e, i)
  BY <1>2 DEF Others, LiveIn
<1> QED BY <1>2, <1>3

\* How far an insertion has come.  Until the victim is retired the entity has
\* what it had; from then on it is one short, and its list has room for the
\* newcomer.
ShortInv ==
  LET e == writer.job.edge[1]
      n == Cardinality(Others(entries, e, writer.slot))
  IN  /\ writer.pc \notin Inserting => writer.had = 0
      /\ writer.pc \in Inserting => IsLive(entries[writer.slot])
      /\ writer.pc = "retire" =>
           /\ n >= writer.had /\ occ_find(occ, e) /\ occ_count(occ, e) >= 1
           /\ writer.victim \in Others(entries, e, writer.slot)
      /\ writer.pc \in {"unlist", "shrink"} =>
           n >= writer.had - 1 /\ occ_find(occ, e) /\ occ_count(occ, e) >= 1
      /\ writer.pc \in {"hide", "describe", "name", "list"} =>
           n >= writer.had \/ (n >= writer.had - 1 /\ CanList(occ, e))
      /\ writer.pc = "publish" => n >= writer.had - 1
      /\ writer.pc \in {"list", "publish"} => entries[writer.slot].ent = e

\* A step that returns to the caller, or to the next job, ends the insertion.
LEMMA ShortReturn ==
    ASSUME writer'.pc \in {"idle", "next"} \/ writer'.pc = "decay", writer'.had = 0
    PROVE  ShortInv'
BY DEF ShortInv, Inserting

LEMMA ShortInit == Init => ShortInv
BY DEF Init, Idle, ShortInv, Inserting

\* A step within an insertion that leaves the sidecar alone and stores to the
\* slot something that is still live.
LEMMA ShortStore ==
    ASSUME TInv, ShortInv, writer.pc \in Inserting, UNCHANGED occ, NEW n, IsLive(n),
           Set(writer.slot, n), NEW l, Goto(l),
           \/ writer.pc = "hide" /\ l = "describe"
           \/ writer.pc = "describe" /\ l = "name"
           \/ writer.pc = "name" /\ l = "list" /\ n.ent = writer.job.edge[1]
    PROVE  ShortInv'
<1>1. writer.slot \in Slots /\ entries \in [Slots -> Entry] /\ writer \in WriterT
  BY WorkOK DEF TInv, WriterOK
<1>2. /\ writer'.pc = l /\ writer'.job = writer.job /\ writer'.slot = writer.slot
      /\ writer'.had = writer.had
  BY <1>1, GotoOK
<1>3. entries'[writer.slot] = n
  BY <1>1, SetOthers
<1>4. Others(entries', writer.job.edge[1], writer.slot) = Others(entries, writer.job.edge[1], writer.slot)
  BY <1>1, SetOthers
<1>5. \/ writer.pc = "hide" /\ l = "describe"
      \/ writer.pc = "describe" /\ l = "name"
      \/ writer.pc = "name" /\ l = "list" /\ n.ent = writer.job.edge[1]
  OBVIOUS
<1>6. CanList(occ, writer.job.edge[1])' <=> CanList(occ, writer.job.edge[1])
  BY <1>2 DEF CanList, OccAt, occ_count, Listed, occ_find
<1> QED BY <1>2, <1>3, <1>4, <1>5, <1>6 DEF ShortInv, Inserting

LEMMA ShortClaim == TInv /\ ShortInv /\ Claim => ShortInv'
<1> SUFFICES ASSUME TInv, ShortInv, Claim PROVE ShortInv'
  OBVIOUS
<1> DEFINE e == Job.edge[1]
           full == occ_count(occ, e) >= PerEntityCap
           i == FreeSlot(Job.edge)
<1>1. UNCHANGED occ /\ Job.edge \in Edges /\ e \in Entity
  BY ClaimCases
<1>2. CASE Continue(Tail(writer.todo)) /\ Tail(writer.todo) \in Seq(JobT)
  BY <1>2, ContinueOK, ShortReturn
<1>3. CASE /\ i \in Slots /\ ~ IsLive(entries[i])
           /\ Set(i, [entries[i] EXCEPT !.key = Job.edge])
           /\ writer'.pc = IF full THEN "retire" ELSE "hide"
           /\ writer'.job = Job /\ writer'.slot = i
           /\ writer'.victim = IF full THEN Weakest(e) ELSE NoSlot
           /\ writer'.had = Cardinality(LiveOf(e))
           /\ full => Weakest(e) # NoSlot
  <2>1. entries[i] \in Entry /\ entries \in [Slots -> Entry]
    BY <1>3 DEF TInv
  <2>2. Others(entries', e, i) = Others(entries, e, i)
        /\ entries'[i] = [entries[i] EXCEPT !.key = Job.edge]
    BY <1>3, <2>1, SetOthers
  <2>3. IsLive(entries'[i])
    <3>1. entries'[i].key = Job.edge
      BY <2>1, <2>2 DEF Entry
    <3> QED BY <3>1, <1>1, SlotFacts DEF IsLive
  <2>4. Others(entries, e, i) = LiveOf(e)
    BY <1>3 DEF Others, LiveOf, LiveIn
  <2>5. Cardinality(Others(entries', e, i)) = Cardinality(LiveOf(e)) /\ Cardinality(LiveOf(e)) \in Nat
    BY <2>2, <2>4, LiveFinite DEF LiveOf
  <2>6. full => /\ Weakest(e) \in Others(entries', e, i)
                /\ occ_find(occ, e) /\ occ_count(occ, e) >= 1
    <3> SUFFICES ASSUME full PROVE /\ Weakest(e) \in Others(entries', e, i)
                                   /\ occ_find(occ, e) /\ occ_count(occ, e) >= 1
      OBVIOUS
    <3>1. Weakest(e) \in LiveOf(e) /\ occ_find(occ, e)
      BY <1>1, <1>3, WeakestOK
    <3>2. occ_count(occ, e) >= 1
      <4>1. PerEntityCap >= 1 /\ PerEntityCap \in Nat
        BY TacAssumption
      <4>2. occ_count(occ, e) \in Nat /\ occ_count(occ, e) >= PerEntityCap
        BY <1>1, ListedOK DEF TInv
      <4> QED BY <4>1, <4>2
    <3> QED BY <2>2, <2>4, <3>1, <3>2
  <2>7. occ' = occ
    BY <1>1
  <2>8. writer'.job.edge[1] = e /\ writer'.slot = i
    BY <1>3
  <2>9. /\ Cardinality(Others(entries, writer.job.edge[1], writer.slot))' = writer'.had
        /\ writer'.had \in Nat
    BY <2>5, <2>8, <1>3
  <2>10. full => /\ (writer.victim \in Others(entries, writer.job.edge[1], writer.slot))'
                 /\ occ_find(occ, writer.job.edge[1])'
                 /\ occ_count(occ, writer.job.edge[1])' >= 1
    <3> SUFFICES ASSUME full PROVE /\ (writer.victim \in Others(entries, writer.job.edge[1], writer.slot))'
                                   /\ occ_find(occ, writer.job.edge[1])'
                                   /\ occ_count(occ, writer.job.edge[1])' >= 1
      OBVIOUS
    <3>1. writer'.victim = Weakest(e)
      BY <1>3
    <3>2. occ_find(occ', writer'.job.edge[1]) /\ occ_count(occ', writer'.job.edge[1]) >= 1
      <4> HIDE DEF e
      <4> QED BY <2>6, <2>7, <2>8
    <3> QED BY <3>1, <3>2, <2>6, <2>8
  <2>11. IsLive(entries[writer.slot])'
    BY <2>3, <2>8
  <2> HIDE DEF full, i, e
  <2>12. CASE full
    <3>1. writer'.pc = "retire"
      BY <1>3, <2>12
    <3> QED BY <3>1, <2>9, <2>10, <2>11, <2>12 DEF ShortInv, Inserting
  <2>13. CASE ~ full
    <3>1. writer'.pc = "hide"
      BY <1>3, <2>13
    <3> QED BY <3>1, <2>9, <2>11, <2>13 DEF ShortInv, Inserting
  <2> QED BY <2>12, <2>13
<1> QED BY <1>2, <1>3, ClaimCases

LEMMA ShortRetire == TInv /\ ShortInv /\ Retire => ShortInv'
<1> SUFFICES ASSUME TInv, ShortInv, Retire PROVE ShortInv'
  OBVIOUS
<1> DEFINE v == writer.victim
           e == writer.job.edge[1]
           i == writer.slot
           O == Others(entries, e, i)
           P == Others(entries', e, i)
<1>1. /\ writer.pc = "retire" /\ Goto("unlist") /\ UNCHANGED occ
      /\ Set(v, [entries[v] EXCEPT !.weight = 0, !.key = TOMBSTONE])
  BY DEF Retire, At
<1>2. v \in Slots /\ writer \in WriterT /\ entries \in [Slots -> Entry] /\ i \in Slots
  BY <1>1, WorkOK DEF TInv, WriterOK, Inserting
<1>3. /\ Cardinality(O) >= writer.had /\ occ_find(occ, e) /\ occ_count(occ, e) >= 1
      /\ v \in O /\ IsLive(entries[i])
  BY <1>1 DEF ShortInv, Inserting
<1>4. /\ entries'[v] = [entries[v] EXCEPT !.weight = 0, !.key = TOMBSTONE]
      /\ \A j \in Slots : j # v => entries'[j] = entries[j]
  BY <1>1, <1>2, SetOthers
<1>5. ~ IsLive(entries'[v])
  <2>1. entries[v] \in Entry
    BY <1>2
  <2>2. entries'[v].key = TOMBSTONE
    BY <1>4, <2>1 DEF Entry
  <2> QED BY <2>2 DEF IsLive
<1>6. P = O \ {v}
  BY <1>4, <1>5 DEF Others, LiveIn
<1>7. Cardinality(P) = Cardinality(O) - 1 /\ Cardinality(O) \in Nat
  <2>1. IsFiniteSet(O) /\ Cardinality(O) \in Nat
    BY OthersCount
  <2> HIDE DEF O, P
  <2> QED BY <2>1, <1>3, <1>6, FS_RemoveElement
<1>8. writer.had \in Nat
  BY <1>2 DEF WriterT
<1>9. v # i
  BY <1>3 DEF Others
<1>10. IsLive(entries'[i])
  BY <1>2, <1>3, <1>4, <1>9
<1>11. /\ writer'.pc = "unlist" /\ writer'.job = writer.job /\ writer'.slot = i
       /\ writer'.had = writer.had
  BY <1>1, <1>2, GotoOK
<1>12. Cardinality(P) >= writer.had - 1
  <2> HIDE DEF P, O
  <2> QED BY <1>3, <1>7, <1>8
<1>13. /\ Cardinality(Others(entries, writer.job.edge[1], writer.slot))' >= writer'.had - 1
       /\ IsLive(entries[writer.slot])'
  BY <1>10, <1>11, <1>12
<1>14. occ_find(occ, writer.job.edge[1])' /\ occ_count(occ, writer.job.edge[1])' >= 1
  <2>1. writer'.job.edge[1] = e /\ occ' = occ
    BY <1>1, <1>11
  <2>2. occ_find(occ', writer'.job.edge[1]) /\ occ_count(occ', writer'.job.edge[1]) >= 1
    <3> HIDE DEF e
    <3> QED BY <2>1, <1>3
  <2> QED BY <2>2
<1> QED BY <1>11, <1>13, <1>14 DEF ShortInv, Inserting

\* occ_del_slot in two steps: the list keeps its length, then loses one.
LEMMA ShortUnlist == TInv /\ ShortInv /\ (Unlist \/ Shrink) => ShortInv'
<1> SUFFICES ASSUME TInv, ShortInv, Unlist \/ Shrink PROVE ShortInv'
  OBVIOUS
<1> DEFINE e == writer.job.edge[1]
           x == OccAt(occ, e)
<1>1. writer.pc \in {"unlist", "shrink"} /\ UNCHANGED entries
  BY DEF Unlist, Shrink, At
<1>2. e \in Entity /\ writer \in WriterT /\ OccOK(occ)
  BY <1>1, WorkOK DEF TInv, WriterOK, Inserting
<1>3. /\ Cardinality(Others(entries, e, writer.slot)) >= writer.had - 1
      /\ occ_find(occ, e) /\ occ_count(occ, e) >= 1 /\ IsLive(entries[writer.slot])
  BY <1>1 DEF ShortInv, Inserting
<1>4. occ[x].list = Listed(occ, e) /\ occ[x].list \in Seq(Slots)
      /\ Len(occ[x].list) >= 1 /\ Len(occ[x].list) <= PER_ENTITY_CAP_MAX
  BY <1>2, <1>3, ListedOK DEF occ_count
<1>5. CASE Unlist
  <2> DEFINE l == Overwritten(occ[x].list, writer.victim)
  <2>1. occ' = WithList(e, l) /\ Goto("shrink")
    BY <1>5 DEF Unlist, WithList
  <2>2. Len(l) >= 1
    BY <1>4, OverwrittenOK
  <2> HIDE DEF l
  <2>3. Listed(occ', e) = l /\ occ_find(occ', e)
    BY <2>1, <1>2, <1>3, EditListAt
  <2>4. occ_count(occ', e) >= 1
    BY <2>2, <2>3 DEF occ_count
  <2>5. /\ writer'.pc = "shrink" /\ writer'.job = writer.job /\ writer'.slot = writer.slot
        /\ writer'.had = writer.had
    BY <2>1, <1>2, GotoOK
  <2>6. occ_find(occ, writer.job.edge[1])' /\ occ_count(occ, writer.job.edge[1])' >= 1
    BY <2>3, <2>4, <2>5
  <2>7. /\ Cardinality(Others(entries, writer.job.edge[1], writer.slot))' >= writer'.had - 1
        /\ IsLive(entries[writer.slot])'
    BY <2>5, <1>1, <1>3
  <2> QED BY <2>5, <2>6, <2>7 DEF ShortInv, Inserting
<1>6. CASE Shrink
  <2> DEFINE l == Shrunk(occ[x].list)
  <2>1. occ' = WithList(e, l) /\ Goto("hide")
    BY <1>6 DEF Shrink, WithList
  <2>2. l \in Seq(Slots) /\ Len(l) = Len(occ[x].list) - 1
    BY <1>4, ShrunkOK
  <2>3. Len(l) < PER_ENTITY_CAP_MAX
    <3>1. Len(occ[x].list) \in Nat /\ PER_ENTITY_CAP_MAX \in Nat
      BY <1>4, TacAssumption
    <3> QED BY <3>1, <2>2, <1>4
  <2> HIDE DEF l
  <2>4. Listed(occ', e) = l /\ occ_find(occ', e)
    BY <2>1, <1>2, <1>3, EditListAt
  <2>5. CanList(occ', e)
    BY <2>3, <2>4 DEF CanList, occ_count, occ_find
  <2>6. /\ writer'.pc = "hide" /\ writer'.job = writer.job /\ writer'.slot = writer.slot
        /\ writer'.had = writer.had
    BY <2>1, <1>2, GotoOK
  <2>7. CanList(occ, writer.job.edge[1])'
    BY <2>5, <2>6
  <2>8. /\ Cardinality(Others(entries, writer.job.edge[1], writer.slot))' >= writer'.had - 1
        /\ IsLive(entries[writer.slot])'
    BY <2>6, <1>1, <1>3
  <2> QED BY <2>6, <2>7, <2>8 DEF ShortInv, Inserting
<1> QED BY <1>5, <1>6

LEMMA ShortBuild == TInv /\ ShortInv /\ (Hide \/ Describe \/ Name) => ShortInv'
<1> SUFFICES ASSUME TInv, ShortInv, Hide \/ Describe \/ Name PROVE ShortInv'
  OBVIOUS
<1> DEFINE e == entries[writer.slot]
           j == writer.job
<1>1. writer.pc \in {"hide", "describe", "name"} /\ UNCHANGED occ
  BY DEF Hide, Describe, Name, At
<1>2. writer.pc \in Inserting
  BY <1>1 DEF Inserting
<1>3. e \in Entry /\ IsLive(e)
  BY <1>2, WorkOK DEF ShortInv
<1>4. CASE Hide
  <2> DEFINE n == [e EXCEPT !.weight = 0]
  <2>1. Set(writer.slot, n) /\ Goto("describe") /\ writer.pc = "hide"
    BY <1>4 DEF Hide, At
  <2>2. IsLive(n)
    BY <1>3 DEF IsLive, Entry
  <2> HIDE DEF n
  <2> QED BY <1>1, <1>2, <2>1, <2>2, ShortStore
<1>5. CASE Describe
  <2> DEFINE n == [e EXCEPT !.pair = <<j.edge[2], j.edge[3]>>,
                            !.eta = EtaHi(j), !.quarantine = FALSE,
                            !.budget = Charged(NoBudget, j)]
  <2>1. Set(writer.slot, n) /\ Goto("name") /\ writer.pc = "describe"
    BY <1>5 DEF Describe, At
  <2>2. IsLive(n)
    BY <1>3 DEF IsLive, Entry
  <2> HIDE DEF n
  <2> QED BY <1>1, <1>2, <2>1, <2>2, ShortStore
<1>6. CASE Name
  <2> DEFINE n == [e EXCEPT !.src = Cardinality(NewSources(NoBudget, j)), !.ent = j.edge[1]]
  <2>1. Set(writer.slot, n) /\ Goto("list") /\ writer.pc = "name"
    BY <1>6 DEF Name, At
  <2>2. IsLive(n) /\ n.ent = j.edge[1]
    BY <1>3 DEF IsLive, Entry
  <2> HIDE DEF n
  <2> QED BY <1>1, <1>2, <2>1, <2>2, ShortStore
<1> QED BY <1>4, <1>5, <1>6

LEMMA ShortList == TInv /\ ShortInv /\ List => ShortInv'
<1> SUFFICES ASSUME TInv, ShortInv, List PROVE ShortInv'
  OBVIOUS
<1> DEFINE e == writer.job.edge[1]
<1>1. /\ writer.pc = "list"
      /\ \/ CanList(occ, e) /\ Goto("publish") /\ UNCHANGED entries
         \/ Continue(writer.todo)
  BY DEF List, At
<1>2. writer \in WriterT /\ writer.todo \in Seq(JobT)
  BY DEF TInv, WriterOK, WriterT
<1>3. CASE Continue(writer.todo)
  BY <1>2, <1>3, ContinueOK, ShortReturn
<1>4. CASE Goto("publish") /\ UNCHANGED entries
  <2> DEFINE n == Cardinality(Others(entries, e, writer.slot))
  <2>1. /\ n >= writer.had \/ n >= writer.had - 1
        /\ IsLive(entries[writer.slot]) /\ entries[writer.slot].ent = e
    BY <1>1 DEF ShortInv, Inserting
  <2>2. n \in Nat /\ writer.had \in Nat
    BY <1>2, OthersCount DEF WriterT
  <2> HIDE DEF n
  <2>3. n >= writer.had - 1
    BY <2>1, <2>2
  <2>4. /\ writer'.pc = "publish" /\ writer'.job = writer.job /\ writer'.slot = writer.slot
        /\ writer'.had = writer.had
    BY <1>2, <1>4, GotoOK
  <2>5. /\ Cardinality(Others(entries, writer.job.edge[1], writer.slot))' >= writer'.had - 1
        /\ IsLive(entries[writer.slot])' /\ (entries[writer.slot].ent = writer.job.edge[1])'
    BY <2>1, <2>3, <2>4, <1>4 DEF n
  <2> QED BY <2>4, <2>5 DEF ShortInv, Inserting
<1> QED BY <1>1, <1>3, <1>4

\* Every other step is outside insertions.
LEMMA ShortOther ==
    ASSUME TInv, ShortInv,
           \/ \E r \in Reinforcements : wake_tac_reinforce(r)
           \/ \E b \in Batches : wake_tac_reinforce_batch(b)
           \/ ChargeExisting \/ Weigh \/ Reassess \/ Publish \/ DecaySlot
           \/ wake_tac_decay \/ EndDecay \/ wake_tac_reset \/ Crash
    PROVE  ShortInv'
<1>0. writer \in WriterT /\ writer.todo \in Seq(JobT) /\ writer.pc \notin Inserting => writer.had = 0
  BY DEF TInv, WriterOK, WriterT, ShortInv
<1>1. CASE \/ \E r \in Reinforcements : wake_tac_reinforce(r)
           \/ \E b \in Batches : wake_tac_reinforce_batch(b)
  <2>1. writer'.pc \in {"idle", "next"} /\ writer'.had = 0
    BY <1>1, CallTyped
  <2> QED BY <2>1, ShortReturn
<1>2. CASE ChargeExisting
  <2>1. Take /\ writer.pc = "next" /\ writer.had = 0
    BY <1>0, <1>2 DEF ChargeExisting, Take, At, Inserting, TInv, ShortInv
  <2>2. CASE Continue(Tail(writer.todo))
    <3>1. Tail(writer.todo) \in Seq(JobT)
      BY <2>1, TakeOK
    <3> QED BY <2>2, <3>1, ContinueOK, ShortReturn
  <2>3. CASE \E i, t, f : writer' = [writer EXCEPT !.pc = "weigh", !.job = Job, !.slot = i,
                                       !.todo = t, !.fresh = f]
    <3>1. writer'.pc = "weigh" /\ writer'.had = 0
      BY <1>0, <2>1, <2>3 DEF WriterT, TInv, WriterOK
    <3> QED BY <3>1 DEF ShortInv, Inserting
  <2> QED BY <1>2, <2>2, <2>3 DEF ChargeExisting
<1>3. CASE Weigh
  <2>1. Goto("reassess") /\ writer.pc = "weigh" /\ writer \in WriterT
    BY <1>3 DEF Weigh, At, TInv, WriterOK
  <2>2. writer'.pc = "reassess" /\ writer'.had = writer.had
    BY <2>1, GotoOK
  <2> QED BY <2>1, <2>2 DEF ShortInv, Inserting
<1>4. CASE Reassess \/ Publish
  <2>1. Continue(writer.todo) /\ writer.todo \in Seq(JobT)
    BY <1>4 DEF Reassess, Publish, TInv, WriterOK, WriterT
  <2> QED BY <2>1, ContinueOK, ShortReturn
<1>5. CASE DecaySlot
  <2>1. writer' = [writer EXCEPT !.slot = @ + 1] /\ writer.pc = "decay" /\ writer \in WriterT
    BY <1>5 DEF DecaySlot, At, TInv, WriterOK
  <2>2. writer'.pc = "decay" /\ writer'.had = writer.had
    BY <2>1 DEF WriterT
  <2> QED BY <2>1, <2>2 DEF ShortInv, Inserting
<1>6. CASE wake_tac_decay
  <2>1. writer' = [Idle EXCEPT !.pc = "decay", !.slot = 0]
    BY <1>6 DEF wake_tac_decay
  <2>2. writer'.pc = "decay" /\ writer'.had = 0
    BY <2>1 DEF Idle
  <2> QED BY <2>2, ShortReturn
<1>7. CASE EndDecay \/ Crash
  <2>1. writer' = Idle
    BY <1>7 DEF EndDecay, Crash
  <2>2. writer'.pc = "idle" /\ writer'.had = 0
    BY <2>1 DEF Idle
  <2> QED BY <2>2, ShortReturn
<1>8. CASE wake_tac_reset
  <2>1. writer.pc = "idle" /\ writer' = writer
    BY <1>8 DEF wake_tac_reset, At
  <2>2. writer'.pc = "idle" /\ writer'.had = 0
    BY <2>1 DEF ShortInv, Inserting
  <2> QED BY <2>2, ShortReturn
<1> QED BY <1>1, <1>2, <1>3, <1>4, <1>5, <1>6, <1>7, <1>8

LEMMA ShortStep == TInv /\ ShortInv /\ [Next]_vars => ShortInv'
<1> SUFFICES ASSUME TInv, ShortInv, [Next]_vars PROVE ShortInv'
  OBVIOUS
<1>1. CASE UNCHANGED vars
  <2>1. entries' = entries /\ occ' = occ /\ writer' = writer
    BY <1>1 DEF vars
  <2>2. (CanList(occ, writer.job.edge[1])' <=> CanList(occ, writer.job.edge[1]))
        /\ (occ_find(occ, writer.job.edge[1])' <=> occ_find(occ, writer.job.edge[1]))
        /\ occ_count(occ, writer.job.edge[1])' = occ_count(occ, writer.job.edge[1])
    BY <2>1
  <2> QED BY <2>1, <2>2 DEF ShortInv
<1>2. CASE Next
  BY <1>2, ShortClaim, ShortRetire, ShortUnlist, ShortBuild, ShortList, ShortOther
     DEF Next, Write, Step, Insert
<1> QED BY <1>1, <1>2

\* The step that ends a reinforcement leaves the entity what it had.
ShortAct ==
  ~ At("idle") /\ ~ At("decay") /\ writer'.pc \in {"next", "idle"} /\ crashes' = crashes =>
    LET e == (IF At("next") THEN Job ELSE writer.job).edge[1]
        had == IF At("next") THEN Cardinality(LiveOf(e)) ELSE writer.had
    IN  Cardinality(LiveIn(entries', e)) >= had

LEMMA ShortEnd == TInv /\ ShortInv /\ [Next]_vars => [ShortAct]_vars
<1> SUFFICES ASSUME TInv, ShortInv, Next,
                    ~ At("idle"), ~ At("decay"), writer'.pc \in {"next", "idle"},
                    crashes' = crashes
             PROVE  ShortAct
  BY DEF ShortAct
<1> DEFINE e == (IF At("next") THEN Job ELSE writer.job).edge[1]
           had == IF At("next") THEN Cardinality(LiveOf(e)) ELSE writer.had
<1>0. /\ Cardinality(LiveIn(entries', e)) \in Nat
      /\ Cardinality(LiveOf(e)) \in Nat
      /\ writer \in WriterT /\ writer.had \in Nat
  BY LiveFinite DEF LiveOf, TInv, WriterOK, WriterT
<1>1. CASE At("next")
  <2>1. ChargeExisting \/ Claim
    BY <1>1 DEF Next, Write, Step, Insert, At, wake_tac_reset, wake_tac_decay, Crash,
            wake_tac_reinforce, wake_tac_reinforce_batch, Call, Weigh, Reassess,
            Retire, Unlist, Shrink, Hide, Describe, Name, List, Publish, DecaySlot, EndDecay,
            TInv, TacAssumption
  <2>2. UNCHANGED entries
    <3>1. CASE ChargeExisting
      <4>1. CASE UNCHANGED entries
        BY <4>1
      <4>2. CASE \E i, f : writer' = [writer EXCEPT !.pc = "weigh", !.job = Job, !.slot = i,
                                        !.todo = Tail(@), !.fresh = f]
        <5>1. writer'.pc = "weigh"
          BY <1>0, <4>2 DEF WriterT
        <5> QED BY <5>1
      <4> QED BY <3>1, <4>1, <4>2 DEF ChargeExisting
    <3>2. CASE Claim
      BY <3>2, ClaimCases
    <3> QED BY <2>1, <3>1, <3>2
  <2>3. Cardinality(LiveIn(entries', e)) = Cardinality(LiveOf(e))
    BY <2>2 DEF LiveOf
  <2> QED BY <2>3, <1>0, <1>1 DEF ShortAct
<1>2. CASE writer.pc \in {"weigh", "reassess"}
  <2>1. writer.had = 0 /\ ~ At("next")
    BY <1>2 DEF ShortInv, Inserting, At
  <2> QED BY <2>1, <1>0 DEF ShortAct
<1>3. CASE writer.pc \in Inserting
  <2>1. ~ At("next") /\ e = writer.job.edge[1]
    BY <1>3 DEF At, Inserting
  <2> DEFINE i == writer.slot
             O == Others(entries, e, i)
  <2>2. i \in Slots /\ entries[i] \in Entry /\ IsLive(entries[i]) /\ entries \in [Slots -> Entry]
    BY <1>3, WorkOK DEF ShortInv, TInv
  <2>3. \/ Publish
        \/ List /\ ~ CanList(occ, e)
    <3>1. ASSUME NEW l, Goto(l) PROVE l \in {"next", "idle"}
      BY <3>1, <1>0, GotoOK
    <3>2. ~ Claim
      BY <1>3 DEF Claim, Take, At, Inserting
    <3>3. ~ (Retire \/ Unlist \/ Shrink \/ Hide \/ Describe \/ Name)
      BY <3>1 DEF Retire, Unlist, Shrink, Hide, Describe, Name
    <3>4. ~ (ChargeExisting \/ Weigh \/ Reassess)
      BY <1>3 DEF ChargeExisting, Weigh, Reassess, Take, At, Inserting
    <3>5. ~ (DecaySlot \/ EndDecay \/ wake_tac_decay \/ wake_tac_reset)
      BY DEF DecaySlot, EndDecay, wake_tac_decay, wake_tac_reset
    <3>6. ~ Crash
      BY TacAssumption DEF Crash, TInv
    <3>7. ~ (\/ \E r \in Reinforcements : wake_tac_reinforce(r)
             \/ \E b \in Batches : wake_tac_reinforce_batch(b))
      BY DEF wake_tac_reinforce, wake_tac_reinforce_batch, Call
    <3>8. List => ~ CanList(occ, e)
      <4> SUFFICES ASSUME List, CanList(occ, e) PROVE FALSE
        OBVIOUS
      <4>1. Goto("publish")
        BY <2>1 DEF List
      <4> QED BY <4>1, <3>1
    <3> QED BY <3>2, <3>3, <3>4, <3>5, <3>6, <3>7, <3>8 DEF Next, Write, Step, Insert
  <2>4. Cardinality(O) \in Nat /\ IsFiniteSet(O)
    BY OthersCount
  <2>5. CASE Publish
    <3>1. Set(i, [entries[i] EXCEPT !.weight = Delta(writer.job)]) /\ writer.pc = "publish"
      BY <2>5 DEF Publish, At
    <3>2. Cardinality(O) >= writer.had - 1 /\ entries[i].ent = e
      BY <2>1, <3>1 DEF ShortInv
    <3>3. /\ entries'[i] = [entries[i] EXCEPT !.weight = Delta(writer.job)]
          /\ \A j \in Slots : j # i => entries'[j] = entries[j]
      BY <2>2, <3>1, SetOthers
    <3>4. IsLive(entries'[i]) /\ entries'[i].ent = e
      BY <2>2, <3>2, <3>3 DEF IsLive, Entry
    <3>5. LiveIn(entries', e) = O \cup {i} /\ i \notin O
      BY <2>2, <3>3, <3>4 DEF LiveIn, Others
    <3>6. Cardinality(LiveIn(entries', e)) = Cardinality(O) + 1
      <4> HIDE DEF O
      <4> QED BY <2>4, <3>5, FS_AddElement
    <3> HIDE DEF O
    <3>7. Cardinality(LiveIn(entries', e)) >= writer.had
      BY <1>0, <2>4, <3>2, <3>6
    <3> QED BY <2>1, <3>7 DEF ShortAct
  <2>6. CASE List /\ ~ CanList(occ, e)
    <3>1. /\ Set(i, [entries[i] EXCEPT !.key = TOMBSTONE]) /\ writer.pc = "list"
      BY <2>1, <2>6 DEF List, At
    <3>2. Cardinality(O) >= writer.had
      BY <2>1, <2>6, <3>1 DEF ShortInv
    <3>3. /\ entries'[i] = [entries[i] EXCEPT !.key = TOMBSTONE]
          /\ Others(entries', e, i) = O
      BY <2>2, <3>1, SetOthers
    <3>4. i \notin LiveIn(entries', e)
      <4>1. entries'[i].key = TOMBSTONE
        BY <2>2, <3>3 DEF Entry
      <4> QED BY <4>1 DEF LiveIn, IsLive
    <3>5. LiveIn(entries', e) = O
      BY <3>3, <3>4 DEF Others
    <3> QED BY <2>1, <3>2, <3>5 DEF ShortAct
  <2> QED BY <2>3, <2>5, <2>6
<1>4. writer.pc \in {"next", "weigh", "reassess"} \cup Inserting
  BY <1>0 DEF WriterT, At
<1> QED BY <1>1, <1>2, <1>3, <1>4 DEF At

LEMMA Shorts == Spec => [](TInv /\ ShortInv)
<1>1. Init => TInv /\ ShortInv
  BY InitTyped, ShortInit
<1>2. (TInv /\ ShortInv) /\ [Next]_vars => (TInv /\ ShortInv)'
  BY StepTyped, ShortStep
<1> QED BY <1>1, <1>2, PTL DEF Spec

\* However a reinforcement ends, applied, refused by the cap or for want of a
\* slot, or taken back because the sidecar is full, the entity has no fewer
\* live edges than before it (apply_edge claims a slot before it evicts, and
\* an eviction leaves the sidecar room for the newcomer).
THEOREM NeverShortCorrect == Spec => NeverShort
<1>1. (TInv /\ ShortInv) /\ [Next]_vars => [ShortAct]_vars
  BY ShortEnd
<1>2. NeverShort <=> [][ShortAct]_vars
  BY PTL DEF NeverShort, ShortAct
<1> QED BY <1>1, <1>2, Shorts, PTL DEF Spec

-----------------------------------------------------------------------------
(* The sidecar                                                             *)

\* An entity has one entry, and lookup leads to it: entries are given up by a
\* whole rebuild only, so nothing before an entry in its window is ever freed.
Chain(o) == \A x \in OccPos : o[x].ent \in Entity => OccAt(o, o[x].ent) = x

\* OccAt is the only such position.
LEMMA OccAtIs ==
    ASSUME NEW o, NEW e \in Entity \cup {NoEntity}, NEW p \in 0 .. OCC_PROBE_MAX - 1,
           o[OccWin(e)[p]].ent \in {e, NoEntity},
           \A q \in 0 .. p - 1 : o[OccWin(e)[q]].ent \notin {e, NoEntity}
    PROVE  OccAt(o, e) = OccWin(e)[p] /\ OccAt(o, e) # OccSlots
<1>0. OCC_PROBE_MAX \in Nat
  BY TacAssumption
<1>1. PICK r \in 0 .. OCC_PROBE_MAX - 1 :
        /\ OccAt(o, e) = OccWin(e)[r] /\ OccAt(o, e) # OccSlots
        /\ o[OccWin(e)[r]].ent \in {e, NoEntity}
        /\ \A q \in 0 .. r - 1 : o[OccWin(e)[q]].ent \notin {e, NoEntity}
  BY OccAtOK
<1>2. ~ (r < p) /\ ~ (p < r)
  <2>1. ASSUME r < p PROVE FALSE
    <3>1. r \in 0 .. p - 1
      BY <2>1, <1>0
    <3> QED BY <3>1, <1>1
  <2>2. ASSUME p < r PROVE FALSE
    <3>1. p \in 0 .. r - 1
      BY <2>2, <1>0
    <3> QED BY <3>1, <1>1
  <2> QED BY <2>1, <2>2
<1>3. r = p
  BY <1>0, <1>2
<1> QED BY <1>1, <1>3

\* What occ_add_slot(f, i) does to every entity, when it succeeds.
LEMMA AddSlotAt ==
    ASSUME NEW o, OccOK(o), Chain(o), NEW f \in Entity \cup {NoEntity}, NEW i, CanList(o, f)
    PROVE  /\ Chain(occ_add_slot(o, f, i))
           /\ \A e \in Entity : e # f =>
                /\ OccAt(occ_add_slot(o, f, i), e) # OccSlots => OccAt(o, e) # OccSlots
                /\ Listed(occ_add_slot(o, f, i), e) = Listed(o, e)
           /\ f \in Entity =>
                /\ OccAt(o, f) # OccSlots
                /\ Listed(occ_add_slot(o, f, i), f) = Append(Listed(o, f), i)
<1> DEFINE n == occ_add_slot(o, f, i)
           x == OccAt(o, f)
           new == [ent |-> f, list |-> Append(Listed(o, f), i)]
<1>1. n = [o EXCEPT ![x] = new]
  BY DEF occ_add_slot
<1>2. PICK p \in 0 .. OCC_PROBE_MAX - 1 :
        /\ x \in OccPos /\ x # OccSlots /\ x = OccWin(f)[p]
        /\ o[x].ent \in {f, NoEntity}
        /\ \A q \in 0 .. p - 1 : o[OccWin(f)[q]].ent \notin {f, NoEntity}
  BY OccAtOK DEF CanList
<1>3. n[x] = new /\ \A y \in OccPos : y # x => n[y] = o[y]
  BY <1>1, <1>2 DEF OccOK
<1>4. new.ent = f /\ new.list = Append(Listed(o, f), i)
  OBVIOUS
<1> HIDE DEF n, x, new
<1>5. OCC_PROBE_MAX \in Nat /\ NoEntity \notin Entity
  BY TacAssumption
<1>6. \A e \in Entity : \A q \in 0 .. OCC_PROBE_MAX - 1 : OccWin(e)[q] \in OccPos
  BY OccWinOK
\* A holder other than f stays where it is ...
<1>7. ASSUME NEW e \in Entity, e # f, occ_find(o, e)
      PROVE  OccAt(n, e) = OccAt(o, e) /\ occ_find(n, e) /\ n[OccAt(o, e)] = o[OccAt(o, e)]
  <2>1. PICK r \in 0 .. OCC_PROBE_MAX - 1 :
          /\ OccAt(o, e) = OccWin(e)[r]
          /\ \A q \in 0 .. r - 1 : o[OccWin(e)[q]].ent \notin {e, NoEntity}
    BY <1>7, OccAtOK DEF occ_find
  <2>2. OccAt(o, e) \in OccPos /\ o[OccAt(o, e)].ent = e
    BY <1>7, ListedOK
  <2>3. OccAt(o, e) # x
    BY <2>2, <1>2, <1>5, <1>7
  <2>4. n[OccAt(o, e)] = o[OccAt(o, e)]
    BY <2>2, <2>3, <1>3
  <2>5. \A q \in 0 .. r - 1 : n[OccWin(e)[q]].ent \notin {e, NoEntity}
    <3> SUFFICES ASSUME NEW q \in 0 .. r - 1 PROVE n[OccWin(e)[q]].ent \notin {e, NoEntity}
      OBVIOUS
    <3>1. q \in 0 .. OCC_PROBE_MAX - 1 /\ OccWin(e)[q] \in OccPos
      BY <1>5, <1>6
    <3>2. o[OccWin(e)[q]].ent \notin {e, NoEntity}
      BY <2>1
    <3>3. CASE OccWin(e)[q] = x
      <4>1. f # NoEntity
        BY <3>2, <3>3, <1>2
      <4> QED BY <4>1, <3>3, <1>3, <1>4, <1>7
    <3>4. CASE OccWin(e)[q] # x
      BY <3>1, <3>2, <3>4, <1>3
    <3> QED BY <3>3, <3>4
  <2>6. n[OccWin(e)[r]].ent \in {e, NoEntity}
    BY <2>1, <2>2, <2>4
  <2>7. OccAt(n, e) = OccWin(e)[r] /\ OccAt(n, e) # OccSlots
    BY <2>5, <2>6, OccAtIs
  <2> QED BY <2>1, <2>2, <2>4, <2>7 DEF occ_find
\* ... one that holds nothing holds nothing ...
<1>8. ASSUME NEW e \in Entity, e # f, ~ occ_find(o, e) PROVE ~ occ_find(n, e)
  <2> SUFFICES ASSUME occ_find(n, e) PROVE FALSE
    OBVIOUS
  <2>1. OccAt(n, e) \in OccPos /\ n[OccAt(n, e)].ent = e
    BY OccAtOK DEF occ_find
  <2>2. OccAt(n, e) # x
    BY <2>1, <1>3, <1>4, <1>8
  <2>3. o[OccAt(n, e)].ent = e
    BY <2>1, <2>2, <1>3
  <2>4. OccAt(o, e) = OccAt(n, e)
    BY <2>1, <2>3 DEF Chain
  <2>5. OccAt(o, e) # OccSlots
    BY <2>1, <2>4, SlotFacts DEF OccPos
  <2> QED BY <2>3, <2>4, <2>5, <1>8 DEF occ_find
<1>9. ASSUME NEW e \in Entity, e # f PROVE Listed(n, e) = Listed(o, e)
  <2>1. CASE occ_find(o, e)
    <3>1. OccAt(n, e) = OccAt(o, e) /\ occ_find(n, e) /\ n[OccAt(o, e)] = o[OccAt(o, e)]
      BY <2>1, <1>7, <1>9
    <3>2. Listed(n, e) = n[OccAt(n, e)].list
      BY <3>1 DEF Listed
    <3>3. Listed(o, e) = o[OccAt(o, e)].list
      BY <2>1 DEF Listed
    <3> QED BY <3>1, <3>2, <3>3
  <2>2. CASE ~ occ_find(o, e)
    BY <2>2, <1>8, <1>9 DEF Listed
  <2> QED BY <2>1, <2>2
\* ... and nobody finds room where there was none.
<1>10. ASSUME NEW e \in Entity, e # f, OccAt(n, e) # OccSlots PROVE OccAt(o, e) # OccSlots
  <2>1. PICK r \in 0 .. OCC_PROBE_MAX - 1 : n[OccWin(e)[r]].ent \in {e, NoEntity}
    BY <1>10, OccAtOK
  <2>2. OccWin(e)[r] \in OccPos
    BY <1>6
  <2>3. o[OccWin(e)[r]].ent \in {e, NoEntity}
    <3>1. CASE OccWin(e)[r] = x
      <4>1. f = NoEntity
        BY <2>1, <3>1, <1>3, <1>4, <1>10
      <4> QED BY <4>1, <3>1, <1>2
    <3>2. CASE OccWin(e)[r] # x
      BY <2>1, <2>2, <3>2, <1>3
    <3> QED BY <3>1, <3>2
  <2> QED BY <2>3, OccAtOK
<1>11. OccAt(n, f) = x /\ OccAt(n, f) # OccSlots
  <2>1. n[OccWin(f)[p]].ent \in {f, NoEntity}
    BY <1>2, <1>3, <1>4
  <2>2. \A q \in 0 .. p - 1 : n[OccWin(f)[q]].ent \notin {f, NoEntity}
    <3> SUFFICES ASSUME NEW q \in 0 .. p - 1 PROVE n[OccWin(f)[q]].ent \notin {f, NoEntity}
      OBVIOUS
    <3>1. q \in 0 .. OCC_PROBE_MAX - 1
      BY <1>5
    <3>2. OccWin(f)[q] \in OccPos
      BY <3>1, OccWinOK
    <3>3. o[OccWin(f)[q]].ent \notin {f, NoEntity}
      BY <1>2
    <3>4. OccWin(f)[q] # x
      BY <3>3, <1>2
    <3> QED BY <3>2, <3>3, <3>4, <1>3
  <2> QED BY <2>1, <2>2, <1>2, OccAtIs
<1>12. Listed(n, f) = Append(Listed(o, f), i)
  <2>1. occ_find(n, f)
    BY <1>3, <1>4, <1>11 DEF occ_find
  <2>2. Listed(n, f) = n[OccAt(n, f)].list
    BY <2>1 DEF Listed
  <2> QED BY <2>2, <1>3, <1>4, <1>11
<1>13. Chain(n)
  <2> SUFFICES ASSUME NEW y \in OccPos, n[y].ent \in Entity PROVE OccAt(n, n[y].ent) = y
    BY DEF Chain
  <2>1. CASE y = x
    BY <2>1, <1>3, <1>4, <1>11
  <2>2. CASE y # x
    <3> DEFINE e == n[y].ent
    <3>1. o[y].ent = e
      BY <2>2, <1>3
    <3>2. OccAt(o, e) = y
      BY <3>1 DEF Chain
    <3>3. e # f
      BY <3>2, <2>2 DEF x
    <3>4. occ_find(o, e)
      BY <3>1, <3>2, SlotFacts DEF occ_find, OccPos
    <3> HIDE DEF e
    <3>5. OccAt(n, e) = OccAt(o, e)
      <4>1. e \in Entity
        BY DEF e
      <4> QED BY <4>1, <3>3, <3>4, <1>7
    <3> QED BY <3>2, <3>5 DEF e
  <2> QED BY <2>1, <2>2
<1>14. OccAt(o, f) # OccSlots
  BY <1>2 DEF x
<1> QED BY <1>9, <1>10, <1>12, <1>13, <1>14 DEF n

-----------------------------------------------------------------------------
(* The cap and the index, as inductive invariants                          *)

Resting == {"idle", "next", "weigh", "reassess"}

Target == writer.job.edge[1]

\* What c crashes may cost.
Quota(c) == PerEntityCap * c

LEMMA QuotaFacts ==
    ASSUME NEW c \in Nat
    PROVE  /\ Quota(c) \in Nat /\ Quota(c + 1) = Quota(c) + PerEntityCap
           /\ PerEntityCap * (1 + c) = Quota(c) + PerEntityCap
           /\ PerEntityCap \in Nat /\ PerEntityCap >= 1
           /\ PER_ENTITY_CAP_MAX \in Nat /\ PerEntityCap <= PER_ENTITY_CAP_MAX
<1>1. /\ PerEntityCap \in Nat /\ PerEntityCap >= 1
      /\ PER_ENTITY_CAP_MAX \in Nat /\ PerEntityCap <= PER_ENTITY_CAP_MAX
  BY TacAssumption
<1>2. PerEntityCap * c \in Nat
  BY <1>1
<1>3. PerEntityCap * (c + 1) = PerEntityCap * c + PerEntityCap
  BY <1>1
<1>4. PerEntityCap * (1 + c) = PerEntityCap * c + PerEntityCap
  BY <1>1
<1> QED BY <1>1, <1>2, <1>3, <1>4 DEF Quota

\* n live edges of e are within the cap and what crashes cost; as long as e can
\* be listed, what its list does not count is within what crashes cost.
RoomFor(n, o, e, c) ==
  /\ n <= Quota(c) + PerEntityCap
  /\ OccAt(o, e) # OccSlots => n <= Quota(c) + occ_count(o, e)

CapInv ==
  \A e \in Entity :
    LET live == Cardinality(LiveIn(entries, e))
        n == Cardinality(Others(entries, e, writer.slot))
    IN  /\ writer.pc \in Resting => RoomFor(live, occ, e, crashes)
        /\ writer.pc = "decay" => live <= Quota(crashes) + PerEntityCap
        /\ writer.pc \in Inserting =>
             /\ RoomFor(n, occ, e, crashes)
             /\ e = Target /\ writer.pc \in {"unlist", "shrink", "publish"} =>
                  RoomFor(n + 1, occ, e, crashes)
             /\ e = Target /\ writer.pc # "retire" /\ OccAt(occ, e) # OccSlots =>
                  n + 1 <= Quota(crashes) + PerEntityCap

Inj(l) == \A p, q \in 1 .. Len(l) : l[p] = l[q] => p = q

Within(l, S) == \A p \in 1 .. Len(l) : l[p] \in S

\* l lists elements of S, each once, and as many as it has room for.
Exact(l, S) ==
  Inj(l) /\ Within(l, S) /\ Len(l) = Lower(Cardinality(S), PER_ENTITY_CAP_MAX)

\* The live edges of e a decay pass that has come to slot i has listed.
Done(t, e, i) == {x \in LiveIn(t, e) : x < i}

\* The list of the entity an edge is inserted for, step by step.
TargetIdx(l, O, pc, victim, slot) ==
  LET n == Lower(Cardinality(O) + 1, PER_ENTITY_CAP_MAX)
  IN  /\ pc \in {"retire", "unlist"} => \E p \in 1 .. Len(l) : l[p] = victim
      /\ pc = "unlist" => Inj(l) /\ Within(l, O \cup {victim}) /\ Len(l) = n
      /\ pc = "shrink" => Inj(Shrunk(l)) /\ Within(Shrunk(l), O) /\ Len(l) = n
      /\ pc \in {"hide", "describe", "name", "list"} =>
           Inj(l) /\ Within(l, O) /\ Len(l) + 1 = n
      /\ pc = "publish" => Inj(l) /\ Within(l, O \cup {slot}) /\ Len(l) = n

IdxInv ==
  \A e \in Entity : OccAt(occ, e) # OccSlots =>
    LET l == Listed(occ, e)
        O == Others(entries, e, writer.slot)
    IN  /\ writer.pc = "decay" => Exact(l, Done(entries, e, writer.slot))
        /\ ~ drift /\ writer.pc \in Resting => Exact(l, LiveIn(entries, e))
        /\ ~ drift /\ writer.pc \in Inserting =>
             /\ e # Target \/ writer.pc = "retire" => Exact(l, O)
             /\ e = Target => TargetIdx(l, O, writer.pc, writer.victim, writer.slot)

CInv == TInv /\ ShortInv /\ Chain(occ) /\ CapInv /\ IdxInv

\* Between jobs nothing but budgets, weights and quarantine changes.
LEMMA RestStep ==
    ASSUME CInv, writer.pc \in Resting, writer'.pc \in Resting,
           UNCHANGED <<occ, crashes, drift>>,
           \A e \in Entity : LiveIn(entries', e) = LiveIn(entries, e)
    PROVE  CapInv' /\ IdxInv' /\ Chain(occ)'
<1>1. occ' = occ /\ crashes' = crashes /\ drift' = drift
  OBVIOUS
<1>2. writer'.pc \notin Inserting /\ writer'.pc # "decay"
  BY DEF Resting, Inserting
<1>3. CapInv'
  BY <1>1, <1>2 DEF CInv, CapInv, LiveOf
<1>4. IdxInv'
  BY <1>1, <1>2 DEF CInv, IdxInv, LiveOf
<1> QED BY <1>1, <1>3, <1>4 DEF CInv, Chain

\* A store that keeps the key and the entity of a slot.
LEMMA SetLive ==
    ASSUME entries \in [Slots -> Entry], NEW i \in Slots, NEW n, Set(i, n),
           n.ent = entries[i].ent, IsLive(n) <=> IsLive(entries[i]), NEW e
    PROVE  LiveIn(entries', e) = LiveIn(entries, e)
<1>1. /\ entries'[i] = n
      /\ \A j \in Slots : j # i => entries'[j] = entries[j]
  BY SetOthers
<1> QED BY <1>1 DEF LiveIn

LEMMA RestSteps ==
    ASSUME CInv,
           \/ \E r \in Reinforcements : wake_tac_reinforce(r)
           \/ \E b \in Batches : wake_tac_reinforce_batch(b)
           \/ ChargeExisting \/ Weigh \/ Reassess
    PROVE  CapInv' /\ IdxInv' /\ Chain(occ)'
<1>0. TInv /\ entries \in [Slots -> Entry] /\ writer \in WriterT
  BY DEF CInv, TInv, WriterOK
<1>1. CASE \/ \E r \in Reinforcements : wake_tac_reinforce(r)
           \/ \E b \in Batches : wake_tac_reinforce_batch(b)
  <2>1. /\ UNCHANGED <<entries, occ>> /\ Bookkeeping /\ At("idle")
        /\ writer'.pc \in {"idle", "next"}
    BY <1>0, <1>1, CallTyped
  <2>2. writer.pc \in Resting /\ writer'.pc \in Resting
    BY <2>1 DEF At, Resting
  <2> QED BY <2>1, <2>2, RestStep DEF Bookkeeping
<1>2. CASE ChargeExisting
  <2> DEFINE i == find_slot(Job.edge)
             b == Charged(entries[i].budget, Job)
  <2>1. Take /\ i # NoSlot /\ UNCHANGED <<occ, crashes, drift>> /\ writer.pc \in Resting
    BY <1>2 DEF ChargeExisting, Take, At, Resting
  <2>2. Job \in JobT /\ Tail(writer.todo) \in Seq(JobT) /\ Job.edge \in Edges
    BY <1>0, <2>1, TakeOK
  <2>3. i \in Slots
    BY <2>1, <2>2, FindSlotOK
  <2>4. CASE Continue(Tail(writer.todo)) /\ UNCHANGED entries
    <3>1. writer'.pc \in Resting
      BY <2>2, <2>4, ContinueOK DEF Resting
    <3> QED BY <2>1, <2>4, <3>1, RestStep
  <2>5. CASE /\ Set(i, [entries[i] EXCEPT !.budget = b])
             /\ writer' = [writer EXCEPT !.pc = "weigh", !.job = Job, !.slot = i,
                             !.todo = Tail(@), !.fresh = NewSources(entries[i].budget, Job)]
    <3>1. writer'.pc \in Resting
      BY <1>0, <2>5 DEF Resting, WriterT
    <3> DEFINE n == [entries[i] EXCEPT !.budget = b]
    <3> HIDE DEF i, b
    <3>2. entries[i] \in Entry
      BY <1>0, <2>3
    <3>3. n.ent = entries[i].ent /\ n.key = entries[i].key
      BY <3>2 DEF Entry
    <3>4. Set(i, n)
      BY <2>5
    <3> HIDE DEF n
    <3>5. \A e \in Entity : LiveIn(entries', e) = LiveIn(entries, e)
      BY <1>0, <2>3, <3>3, <3>4, SetLive DEF IsLive
    <3> QED BY <2>1, <3>1, <3>5, RestStep
  <2> QED BY <1>2, <2>4, <2>5 DEF ChargeExisting
<1>3. CASE Weigh
  <2> DEFINE i == writer.slot
             n == [entries[i] EXCEPT !.weight = @ + Delta(writer.job),
                     !.eta = Higher(@, EtaHi(writer.job)),
                     !.src = Lower(@ + Cardinality(writer.fresh), BUDGET_NAMED + 1)]
  <2>1. Set(i, n) /\ Goto("reassess") /\ UNCHANGED occ /\ Bookkeeping /\ writer.pc = "weigh"
    BY <1>3 DEF Weigh, At
  <2>2. i \in Slots /\ entries[i] \in Entry
    BY <1>0, <2>1, WorkOK
  <2>3. n.ent = entries[i].ent /\ n.key = entries[i].key
    BY <2>2 DEF Entry
  <2> HIDE DEF n
  <2>4. \A e \in Entity : LiveIn(entries', e) = LiveIn(entries, e)
    BY <1>0, <2>1, <2>2, <2>3, SetLive DEF IsLive
  <2>5. writer.pc \in Resting /\ writer'.pc \in Resting
    BY <1>0, <2>1, GotoOK DEF Resting
  <2> QED BY <2>1, <2>4, <2>5, RestStep DEF Bookkeeping
<1>4. CASE Reassess
  <2> DEFINE i == writer.slot
             n == [entries[i] EXCEPT !.quarantine = quarantine_reassess(entries[i])]
  <2>1. /\ Set(i, n) /\ Continue(writer.todo) /\ UNCHANGED occ /\ Bookkeeping
        /\ writer.pc = "reassess"
    BY <1>4 DEF Reassess, At
  <2>2. i \in Slots /\ entries[i] \in Entry /\ writer.todo \in Seq(JobT)
    BY <1>0, <2>1, WorkOK DEF WriterT
  <2>3. n.ent = entries[i].ent /\ n.key = entries[i].key
    BY <2>2 DEF Entry
  <2> HIDE DEF n
  <2>4. \A e \in Entity : LiveIn(entries', e) = LiveIn(entries, e)
    BY <1>0, <2>1, <2>2, <2>3, SetLive DEF IsLive
  <2>5. writer.pc \in Resting /\ writer'.pc \in Resting
    BY <2>1, <2>2, ContinueOK DEF Resting
  <2> QED BY <2>1, <2>4, <2>5, RestStep DEF Bookkeeping
<1> QED BY <1>1, <1>2, <1>3, <1>4

LEMMA CapNats ==
    ASSUME CInv, NEW e \in Entity, NEW t, NEW i
    PROVE  /\ Quota(crashes) \in Nat /\ crashes \in Nat
           /\ PerEntityCap \in Nat /\ PerEntityCap >= 1
           /\ PER_ENTITY_CAP_MAX \in Nat /\ PerEntityCap <= PER_ENTITY_CAP_MAX
           /\ occ_count(occ, e) \in Nat /\ Listed(occ, e) \in Seq(Slots)
           /\ occ_count(occ, e) = Len(Listed(occ, e))
           /\ Cardinality(LiveIn(t, e)) \in Nat
           /\ Cardinality(Others(t, e, i)) \in Nat
<1>1. crashes \in Nat
  BY TacAssumption DEF CInv, TInv
<1>2. occ_count(occ, e) \in Nat /\ Listed(occ, e) \in Seq(Slots)
  BY ListedOK DEF CInv, TInv
<1> QED BY <1>1, <1>2, QuotaFacts, LiveFinite, OthersCount DEF occ_count

LEMMA CapClaim == CInv /\ Claim => CapInv' /\ IdxInv' /\ Chain(occ)'
<1> SUFFICES ASSUME CInv, Claim PROVE CapInv' /\ IdxInv' /\ Chain(occ)'
  OBVIOUS
<1> DEFINE J == Job.edge[1]
           full == occ_count(occ, J) >= PerEntityCap
           i == FreeSlot(Job.edge)
<1>0. TInv /\ entries \in [Slots -> Entry]
  BY DEF CInv, TInv
<1>1. /\ occ' = occ /\ crashes' = crashes /\ drift' = drift
      /\ J \in Entity /\ writer.pc = "next"
  BY <1>0, ClaimCases DEF Bookkeeping, Take, At
<1>2. CASE Continue(Tail(writer.todo)) /\ UNCHANGED entries /\ Tail(writer.todo) \in Seq(JobT)
  <2>1. writer.pc \in Resting /\ writer'.pc \in Resting
    BY <1>1, <1>2, ContinueOK DEF Resting
  <2> QED BY <1>1, <1>2, <2>1, RestStep
<1>3. CASE /\ i \in Slots /\ ~ IsLive(entries[i])
           /\ Set(i, [entries[i] EXCEPT !.key = Job.edge])
           /\ writer'.pc = IF full THEN "retire" ELSE "hide"
           /\ writer'.job = Job /\ writer'.slot = i
           /\ writer'.victim = IF full THEN Weakest(J) ELSE NoSlot
           /\ full => Weakest(J) # NoSlot
  <2>1. \A e \in Entity : Others(entries', e, i) = LiveIn(entries, e)
    <3> SUFFICES ASSUME NEW e \in Entity PROVE Others(entries', e, i) = LiveIn(entries, e)
      OBVIOUS
    <3>1. Others(entries', e, i) = Others(entries, e, i)
      BY <1>0, <1>3, SetOthers
    <3> QED BY <3>1, <1>3 DEF Others, LiveIn
  <2>2. writer'.job.edge[1] = J /\ writer'.slot = i
    BY <1>3
  <2>3. writer'.pc \in {"retire", "hide"} /\ (writer'.pc = "hide" <=> ~ full)
    BY <1>3
  <2>4. writer'.pc \notin Resting /\ writer'.pc # "decay"
    BY <2>3 DEF Resting
  <2>5. full => \E p \in 1 .. Len(Listed(occ, J)) : Listed(occ, J)[p] = writer'.victim
    BY <1>0, <1>1, <1>3, WeakestOK DEF occ_count
  <2> HIDE DEF i, J
  <2>6. ASSUME NEW e \in Entity
        PROVE  LET n == Cardinality(Others(entries', e, i))
               IN /\ RoomFor(n, occ, e, crashes)
                  /\ e = J /\ ~ full /\ OccAt(occ, e) # OccSlots =>
                       n + 1 <= Quota(crashes) + PerEntityCap
    <3> DEFINE n == Cardinality(Others(entries', e, i))
    <3>1. n = Cardinality(LiveIn(entries, e))
      BY <2>1
    <3>2. RoomFor(n, occ, e, crashes)
      BY <3>1, <1>1 DEF CInv, CapInv, Resting
    <3>3. /\ Quota(crashes) \in Nat /\ PerEntityCap \in Nat /\ occ_count(occ, e) \in Nat /\ n \in Nat
      BY CapNats
    <3> HIDE DEF n
    <3>4. e = J /\ ~ full /\ OccAt(occ, e) # OccSlots => n + 1 <= Quota(crashes) + PerEntityCap
      BY <3>2, <3>3 DEF RoomFor
    <3> QED BY <3>2, <3>4 DEF n
  <2>7. CapInv'
    <3> HIDE DEF full
    <3> SUFFICES ASSUME NEW e \in Entity
                 PROVE  LET n == Cardinality(Others(entries', e, i))
                        IN /\ RoomFor(n, occ', e, crashes')
                           /\ ~ (writer'.pc \in {"unlist", "shrink", "publish"})
                           /\ e = J /\ writer'.pc # "retire" /\ OccAt(occ', e) # OccSlots =>
                                n + 1 <= Quota(crashes') + PerEntityCap
      BY <2>2, <2>4 DEF CapInv, Target
    <3> QED BY <1>1, <2>3, <2>6
  <2>8. IdxInv'
    <3> SUFFICES ASSUME NEW e \in Entity, OccAt(occ, e) # OccSlots, ~ drift
                 PROVE  LET l == Listed(occ, e)
                            O == Others(entries', e, i)
                        IN /\ e # J \/ writer'.pc = "retire" => Exact(l, O)
                           /\ e = J => TargetIdx(l, O, writer'.pc, writer'.victim, i)
      BY <1>1, <2>2, <2>4 DEF IdxInv, Target
    <3> DEFINE l == Listed(occ, e)
               O == Others(entries', e, i)
    <3>1. Exact(l, O)
      <4>1. Exact(l, LiveIn(entries, e))
        BY <1>1 DEF CInv, IdxInv, Resting
      <4> QED BY <4>1, <2>1
    <3>2. ASSUME e = J, ~ full PROVE Len(l) + 1 = Lower(Cardinality(O) + 1, PER_ENTITY_CAP_MAX)
      <4>1. /\ Len(l) \in Nat /\ Cardinality(O) \in Nat /\ PER_ENTITY_CAP_MAX \in Nat
            /\ PerEntityCap \in Nat /\ PerEntityCap <= PER_ENTITY_CAP_MAX
            /\ Len(l) = occ_count(occ, e)
        BY CapNats
      <4>2. Len(l) = Lower(Cardinality(O), PER_ENTITY_CAP_MAX)
        BY <3>1 DEF Exact
      <4>3. Len(l) < PerEntityCap
        BY <3>2, <4>1
      <4> HIDE DEF l, O
      <4> QED BY <4>1, <4>2, <4>3 DEF Lower
    <3> HIDE DEF l, O, full
    <3>3. ASSUME e = J PROVE TargetIdx(l, O, writer'.pc, writer'.victim, i)
      <4>1. CASE full
        <5>1. writer'.pc = "retire"
          BY <2>3, <4>1
        <5>2. \E p \in 1 .. Len(l) : l[p] = writer'.victim
          BY <2>5, <3>3, <4>1 DEF l
        <5> QED BY <5>1, <5>2 DEF TargetIdx
      <4>2. CASE ~ full
        <5>1. writer'.pc = "hide"
          BY <2>3, <4>2
        <5> QED BY <5>1, <3>1, <3>2, <3>3, <4>2 DEF TargetIdx, Exact
      <4> QED BY <4>1, <4>2
    <3> QED BY <3>1, <3>3 DEF l, O
  <2> QED BY <1>1, <2>7, <2>8 DEF CInv, Chain
<1> QED BY <1>0, <1>2, <1>3, ClaimCases

LEMMA CapRetire == CInv /\ Retire => CapInv' /\ IdxInv' /\ Chain(occ)'
<1> SUFFICES ASSUME CInv, Retire PROVE CapInv' /\ IdxInv' /\ Chain(occ)'
  OBVIOUS
<1> DEFINE v == writer.victim
           i == writer.slot
           new == [entries[v] EXCEPT !.weight = 0, !.key = TOMBSTONE]
<1>0. TInv /\ ShortInv /\ entries \in [Slots -> Entry] /\ writer \in WriterT
  BY DEF CInv, TInv, WriterOK
<1>1. /\ writer.pc = "retire" /\ Goto("unlist") /\ Set(v, new)
      /\ occ' = occ /\ crashes' = crashes /\ drift' = drift
  BY DEF Retire, At, Bookkeeping
<1>2. v \in Slots /\ Target \in Entity
  BY <1>0, <1>1, WorkOK DEF TInv, WriterOK, Inserting, Target
<1>3. /\ v \in Others(entries, Target, i) /\ occ_find(occ, Target)
  BY <1>0, <1>1 DEF ShortInv, Target
<1>4. /\ writer'.pc = "unlist" /\ writer'.slot = i /\ writer'.victim = v /\ Target' = Target
  BY <1>0, <1>1, GotoOK DEF Target
<1>5. entries'[v] = new /\ \A j \in Slots : j # v => entries'[j] = entries[j]
  BY <1>0, <1>1, <1>2, SetOthers
<1>6. ~ IsLive(new)
  <2>1. entries[v] \in Entry
    BY <1>0, <1>2
  <2>2. new.key = TOMBSTONE
    BY <2>1 DEF Entry
  <2> QED BY <2>2 DEF IsLive
<1> HIDE DEF new
<1>7. \A e \in Entity : Others(entries', e, i) = Others(entries, e, i) \ {v}
  BY <1>5, <1>6 DEF Others, LiveIn
<1>8. \A e \in Entity : e # Target => v \notin Others(entries, e, i)
  BY <1>3 DEF Others, LiveIn
<1>9. \A e \in Entity : e # Target => Others(entries', e, i) = Others(entries, e, i)
  BY <1>7, <1>8
<1>10. Cardinality(Others(entries, Target, i)) = Cardinality(Others(entries', Target, i)) + 1
  <2> DEFINE O == Others(entries, Target, i)
  <2>1. IsFiniteSet(O) /\ Cardinality(O) \in Nat /\ v \in O
    BY <1>3, OthersCount
  <2>2. Others(entries', Target, i) = O \ {v}
    BY <1>2, <1>7
  <2> HIDE DEF O
  <2>3. Cardinality(O \ {v}) = Cardinality(O) - 1
    BY <2>1, FS_RemoveElement
  <2> QED BY <2>1, <2>2, <2>3 DEF O
<1>11. writer.pc \in Inserting /\ writer'.pc \in Inserting /\ writer'.pc \notin Resting
       /\ writer'.pc # "decay"
  BY <1>1, <1>4 DEF Inserting, Resting
<1>12. CapInv'
  <2> SUFFICES ASSUME NEW e \in Entity
               PROVE  LET n == Cardinality(Others(entries', e, i))
                      IN /\ RoomFor(n, occ, e, crashes)
                         /\ e = Target => RoomFor(n + 1, occ, e, crashes)
                         /\ e = Target => n + 1 <= Quota(crashes) + PerEntityCap
    BY <1>1, <1>4, <1>11 DEF CapInv
  <2> DEFINE n == Cardinality(Others(entries', e, i))
             m == Cardinality(Others(entries, e, i))
  <2>1. RoomFor(m, occ, e, crashes)
    BY <1>11 DEF CInv, CapInv
  <2>2. /\ Quota(crashes) \in Nat /\ PerEntityCap \in Nat /\ occ_count(occ, e) \in Nat
        /\ n \in Nat /\ m \in Nat
    BY CapNats
  <2>3. CASE e = Target
    <3>1. m = n + 1
      BY <2>3, <1>10
    <3> HIDE DEF m, n
    <3> QED BY <2>1, <2>2, <3>1 DEF RoomFor, n
  <2>4. CASE e # Target
    BY <2>1, <2>4, <1>9
  <2> QED BY <2>3, <2>4
<1>13. IdxInv'
  <2> SUFFICES ASSUME NEW e \in Entity, OccAt(occ, e) # OccSlots, ~ drift
               PROVE  LET l == Listed(occ, e)
                          O == Others(entries', e, i)
                      IN /\ e # Target => Exact(l, O)
                         /\ e = Target => TargetIdx(l, O, "unlist", v, i)
    BY <1>1, <1>4, <1>11 DEF IdxInv
  <2> DEFINE l == Listed(occ, e)
             O == Others(entries', e, i)
             P == Others(entries, e, i)
  <2>1. Exact(l, P) /\ (e = Target => TargetIdx(l, P, "retire", v, i))
    BY <1>1, <1>11 DEF CInv, IdxInv
  <2>2. CASE e = Target
    <3>1. Cardinality(P) = Cardinality(O) + 1 /\ P \subseteq O \cup {v}
      BY <2>2, <1>7, <1>10
    <3> HIDE DEF l, O, P
    <3>2. \E p \in 1 .. Len(l) : l[p] = v
      BY <2>1, <2>2 DEF TargetIdx
    <3>3. Inj(l) /\ Within(l, O \cup {v}) /\ Len(l) = Lower(Cardinality(O) + 1, PER_ENTITY_CAP_MAX)
      BY <2>1, <3>1 DEF Exact, Within
    <3>4. TargetIdx(l, O, "unlist", v, i)
      BY <3>2, <3>3 DEF TargetIdx
    <3> QED BY <2>2, <3>4 DEF l, O
  <2>3. CASE e # Target
    BY <2>1, <2>3, <1>9
  <2> QED BY <2>2, <2>3
<1> QED BY <1>1, <1>12, <1>13 DEF CInv, Chain

\* Overwriting the victim by the last entry and dropping that one removes the
\* victim from a list without repetitions, and nothing else.
LEMMA Removed ==
    ASSUME NEW l \in Seq(Slots), NEW v, NEW O, Inj(l), Within(l, O \cup {v}),
           \E p \in 1 .. Len(l) : l[p] = v
    PROVE  /\ Inj(Shrunk(Overwritten(l, v))) /\ Within(Shrunk(Overwritten(l, v)), O)
           /\ Len(Overwritten(l, v)) = Len(l) /\ Overwritten(l, v) \in Seq(Slots)
<1> DEFINE P == {p \in 1 .. Len(l) : l[p] = v}
           m == CHOOSE p \in P : \A q \in P : p <= q
           z == Overwritten(l, v)
           n == Len(l)
<1>1. n \in Nat /\ P \in SUBSET Nat /\ P # {}
  OBVIOUS
<1>2. \E p \in P : \A q \in P : p <= q
  BY <1>1, LeastNat
<1>3. m \in P
  BY <1>2
<1>4. z = [l EXCEPT ![m] = l[n]]
  BY <1>1 DEF Overwritten
<1>5. m \in 1 .. n /\ l[m] = v
  BY <1>3
<1>6. z \in Seq(Slots) /\ Len(z) = n
  BY OverwrittenOK
<1> HIDE DEF m, P
<1>7. \A p \in 1 .. n : z[p] = IF p = m THEN l[n] ELSE l[p]
  BY <1>4, <1>5
<1> DEFINE s == Shrunk(z)
<1>8. Len(s) = n - 1 /\ \A p \in 1 .. n - 1 : s[p] = z[p]
  <2>1. n >= 1
    BY <1>1, <1>5
  <2> HIDE DEF z
  <2> QED BY <1>6, <2>1, ShrunkOK
<1> HIDE DEF s, z
<1>9. \A p, q \in 1 .. n : l[p] = l[q] => p = q
  BY DEF Inj
<1>10. \A p \in 1 .. n : l[p] \in O \cup {v}
  BY DEF Within
<1> HIDE DEF n
<1>11. Within(s, O)
  <2> SUFFICES ASSUME NEW p \in 1 .. n - 1 PROVE s[p] \in O
    BY <1>8 DEF Within
  <2>1. p \in 1 .. n /\ n \in 1 .. n /\ p # n
    BY <1>1
  <2>2. CASE p = m
    <3>1. s[p] = l[n]
      BY <1>7, <1>8, <2>1, <2>2
    <3>2. l[n] # v
      BY <1>5, <1>9, <2>1, <2>2
    <3> QED BY <3>1, <3>2, <2>1, <1>10
  <2>3. CASE p # m
    <3>1. s[p] = l[p]
      BY <1>7, <1>8, <2>1, <2>3
    <3>2. l[p] # v
      BY <1>5, <1>9, <2>1, <2>3
    <3> QED BY <3>1, <3>2, <2>1, <1>10
  <2> QED BY <2>2, <2>3
<1>12. Inj(s)
  <2> SUFFICES ASSUME NEW p \in 1 .. n - 1, NEW q \in 1 .. n - 1, s[p] = s[q] PROVE p = q
    BY <1>8 DEF Inj
  <2>1. p \in 1 .. n /\ q \in 1 .. n /\ n \in 1 .. n /\ p # n /\ q # n
    BY <1>1
  <2>2. /\ s[p] = IF p = m THEN l[n] ELSE l[p]
        /\ s[q] = IF q = m THEN l[n] ELSE l[q]
    BY <1>7, <1>8, <2>1
  <2> QED BY <2>1, <2>2, <1>9
<1> QED BY <1>6, <1>11, <1>12 DEF s, z, n

LEMMA ChainKept ==
    ASSUME CInv, NEW e \in Entity, occ_find(occ, e), NEW l
    PROVE  Chain(WithList(e, l))
<1> DEFINE o == WithList(e, l)
<1>1. OccOK(occ) /\ Chain(occ)
  BY DEF CInv, TInv
<1>2. \A f \in Entity \cup {NoEntity} : OccAt(o, f) = OccAt(occ, f)
  BY <1>1, EditListAt
<1>3. \A y \in OccPos : o[y].ent = occ[y].ent
  <2> DEFINE x == OccAt(occ, e)
  <2>1. x \in OccPos
    BY <1>1, ListedOK
  <2>2. \A y \in OccPos : o[y] = IF y = x THEN [occ[x] EXCEPT !.list = l] ELSE occ[y]
    BY <1>1 DEF OccOK, WithList
  <2>3. occ[x] \in OccEntry
    BY <1>1, <2>1 DEF OccOK
  <2>4. [occ[x] EXCEPT !.list = l].ent = occ[x].ent
    BY <2>3 DEF OccEntry
  <2> HIDE DEF x, o
  <2> QED BY <2>2, <2>4
<1> HIDE DEF o
<1>4. Chain(o)
  BY <1>1, <1>2, <1>3 DEF Chain
<1> QED BY <1>4 DEF o

LEMMA CapUnlist == CInv /\ Unlist => CapInv' /\ IdxInv' /\ Chain(occ)'
<1> SUFFICES ASSUME CInv, Unlist PROVE CapInv' /\ IdxInv' /\ Chain(occ)'
  OBVIOUS
<1> DEFINE v == writer.victim
           i == writer.slot
           l0 == Listed(occ, Target)
           l1 == Overwritten(l0, v)
<1>0. TInv /\ ShortInv /\ OccOK(occ) /\ writer \in WriterT
  BY DEF CInv, TInv, WriterOK
<1>1. /\ writer.pc = "unlist" /\ Goto("shrink") /\ entries' = entries
      /\ crashes' = crashes /\ drift' = drift
      /\ occ' = WithList(Target, Overwritten(occ[OccAt(occ, Target)].list, v))
  BY DEF Unlist, At, Bookkeeping, WithList, Target
<1>2. Target \in Entity
  BY <1>0, <1>1, WorkOK DEF Inserting, Target
<1>3. occ_find(occ, Target)
  BY <1>0, <1>1 DEF ShortInv, Target
<1>4. l0 \in Seq(Slots) /\ occ[OccAt(occ, Target)].list = l0
  BY <1>0, <1>2, <1>3, ListedOK
<1>5. occ' = WithList(Target, l1)
  BY <1>1, <1>4
<1>6. /\ writer'.pc = "shrink" /\ writer'.slot = i /\ writer'.victim = v /\ Target' = Target
  BY <1>0, <1>1, GotoOK DEF Target
<1>7. writer.pc \in Inserting /\ writer'.pc \in Inserting /\ writer'.pc \notin Resting
      /\ writer'.pc # "decay"
  BY <1>1, <1>6 DEF Inserting, Resting
<1>8. Len(l1) = Len(l0)
  BY <1>4, OverwrittenOK
<1> HIDE DEF l1
<1>9. /\ \A e \in Entity : OccAt(occ', e) = OccAt(occ, e)
      /\ Listed(occ', Target) = l1
      /\ \A e \in Entity : e # Target => Listed(occ', e) = Listed(occ, e)
  BY <1>0, <1>2, <1>3, <1>5, EditListAt
<1>10. \A e \in Entity : occ_count(occ', e) = occ_count(occ, e)
  BY <1>8, <1>9 DEF occ_count
<1>11. \A e \in Entity : \A n : RoomFor(n, occ', e, crashes) <=> RoomFor(n, occ, e, crashes)
  BY <1>9, <1>10 DEF RoomFor
<1>12. CapInv'
  <2> SUFFICES ASSUME NEW e \in Entity
               PROVE  LET n == Cardinality(Others(entries, e, i))
                      IN /\ RoomFor(n, occ', e, crashes)
                         /\ e = Target => RoomFor(n + 1, occ', e, crashes)
                         /\ e = Target /\ OccAt(occ', e) # OccSlots =>
                              n + 1 <= Quota(crashes) + PerEntityCap
    BY <1>1, <1>6, <1>7 DEF CapInv
  <2> DEFINE n == Cardinality(Others(entries, e, i))
  <2>1. /\ RoomFor(n, occ, e, crashes)
        /\ e = Target => RoomFor(n + 1, occ, e, crashes)
        /\ e = Target /\ OccAt(occ, e) # OccSlots => n + 1 <= Quota(crashes) + PerEntityCap
    BY <1>1, <1>7 DEF CInv, CapInv
  <2> HIDE DEF n
  <2>2. /\ RoomFor(n, occ', e, crashes)
        /\ e = Target => RoomFor(n + 1, occ', e, crashes)
        /\ e = Target /\ OccAt(occ', e) # OccSlots => n + 1 <= Quota(crashes) + PerEntityCap
    BY <2>1, <1>9, <1>11
  <2> QED BY <2>2 DEF n
<1>13. IdxInv'
  <2> SUFFICES ASSUME NEW e \in Entity, OccAt(occ, e) # OccSlots, ~ drift
               PROVE  LET l == Listed(occ', e)
                          O == Others(entries, e, i)
                      IN /\ e # Target => Exact(l, O)
                         /\ e = Target => TargetIdx(l, O, "shrink", v, i)
    BY <1>1, <1>6, <1>7, <1>9 DEF IdxInv
  <2> DEFINE l == Listed(occ, e)
             O == Others(entries, e, i)
  <2>1. CASE e = Target
    <3>1. TargetIdx(l, O, "unlist", v, i)
      BY <1>1, <1>7, <2>1 DEF CInv, IdxInv
    <3> HIDE DEF O
    <3>2. /\ \E p \in 1 .. Len(l) : l[p] = v
          /\ Inj(l) /\ Within(l, O \cup {v}) /\ Len(l) = Lower(Cardinality(O) + 1, PER_ENTITY_CAP_MAX)
      BY <3>1 DEF TargetIdx
    <3>3. l \in Seq(Slots) /\ l = l0
      BY <1>4, <2>1
    <3>4. /\ Inj(Shrunk(l1)) /\ Within(Shrunk(l1), O) /\ Len(l1) = Len(l)
      BY <3>2, <3>3, Removed DEF l1
    <3>5. TargetIdx(l1, O, "shrink", v, i)
      BY <3>2, <3>4 DEF TargetIdx
    <3> QED BY <2>1, <3>5, <1>9 DEF O
  <2>2. CASE e # Target
    BY <2>2, <1>1, <1>7, <1>9 DEF CInv, IdxInv
  <2> QED BY <2>1, <2>2
<1>14. Chain(occ')
  BY <1>2, <1>3, <1>5, ChainKept
<1> QED BY <1>12, <1>13, <1>14

LEMMA CapShrink == CInv /\ Shrink => CapInv' /\ IdxInv' /\ Chain(occ)'
<1> SUFFICES ASSUME CInv, Shrink PROVE CapInv' /\ IdxInv' /\ Chain(occ)'
  OBVIOUS
<1> DEFINE v == writer.victim
           i == writer.slot
           l0 == Listed(occ, Target)
           l1 == Shrunk(l0)
<1>0. TInv /\ ShortInv /\ OccOK(occ) /\ writer \in WriterT
  BY DEF CInv, TInv, WriterOK
<1>1. /\ writer.pc = "shrink" /\ Goto("hide") /\ entries' = entries
      /\ crashes' = crashes /\ drift' = drift
      /\ occ' = WithList(Target, Shrunk(occ[OccAt(occ, Target)].list))
  BY DEF Shrink, At, Bookkeeping, WithList, Target
<1>2. Target \in Entity
  BY <1>0, <1>1, WorkOK DEF Inserting, Target
<1>3. occ_find(occ, Target) /\ occ_count(occ, Target) >= 1
  BY <1>0, <1>1 DEF ShortInv, Target
<1>4. l0 \in Seq(Slots) /\ occ[OccAt(occ, Target)].list = l0
  BY <1>0, <1>2, <1>3, ListedOK
<1>5. occ' = WithList(Target, l1)
  BY <1>1, <1>4
<1>6. /\ writer'.pc = "hide" /\ writer'.slot = i /\ writer'.victim = v /\ Target' = Target
  BY <1>0, <1>1, GotoOK DEF Target
<1>7. writer.pc \in Inserting /\ writer'.pc \in Inserting /\ writer'.pc \notin Resting
      /\ writer'.pc # "decay"
  BY <1>1, <1>6 DEF Inserting, Resting
<1>8. Len(l1) = Len(l0) - 1 /\ Len(l0) \in Nat /\ l1 \in Seq(Slots)
  BY <1>3, <1>4, ShrunkOK DEF occ_count
<1> HIDE DEF l1
<1>9. /\ \A e \in Entity : OccAt(occ', e) = OccAt(occ, e)
      /\ Listed(occ', Target) = l1
      /\ \A e \in Entity : e # Target => Listed(occ', e) = Listed(occ, e)
  BY <1>0, <1>2, <1>3, <1>5, EditListAt
<1>10. /\ \A e \in Entity : e # Target => occ_count(occ', e) = occ_count(occ, e)
       /\ occ_count(occ', Target) = occ_count(occ, Target) - 1
  BY <1>8, <1>9 DEF occ_count
<1>12. CapInv'
  <2> SUFFICES ASSUME NEW e \in Entity
               PROVE  LET n == Cardinality(Others(entries, e, i))
                      IN /\ RoomFor(n, occ', e, crashes)
                         /\ e = Target /\ OccAt(occ', e) # OccSlots =>
                              n + 1 <= Quota(crashes) + PerEntityCap
    BY <1>1, <1>6, <1>7 DEF CapInv
  <2> DEFINE n == Cardinality(Others(entries, e, i))
  <2>1. /\ RoomFor(n, occ, e, crashes)
        /\ e = Target => RoomFor(n + 1, occ, e, crashes)
    BY <1>1, <1>7 DEF CInv, CapInv
  <2>2. n \in Nat /\ Quota(crashes) \in Nat /\ PerEntityCap \in Nat /\ occ_count(occ, e) \in Nat
    BY CapNats
  <2> HIDE DEF n
  <2>3. /\ RoomFor(n, occ', e, crashes)
        /\ e = Target /\ OccAt(occ', e) # OccSlots => n + 1 <= Quota(crashes) + PerEntityCap
    BY <2>1, <2>2, <1>9, <1>10 DEF RoomFor
  <2> QED BY <2>3 DEF n
<1>13. IdxInv'
  <2> SUFFICES ASSUME NEW e \in Entity, OccAt(occ, e) # OccSlots, ~ drift
               PROVE  LET l == Listed(occ', e)
                          O == Others(entries, e, i)
                      IN /\ e # Target => Exact(l, O)
                         /\ e = Target => TargetIdx(l, O, "hide", v, i)
    BY <1>1, <1>6, <1>7, <1>9 DEF IdxInv
  <2> DEFINE l == Listed(occ, e)
             O == Others(entries, e, i)
  <2>1. CASE e = Target
    <3>1. TargetIdx(l, O, "shrink", v, i)
      BY <1>1, <1>7, <2>1 DEF CInv, IdxInv
    <3> HIDE DEF O
    <3>2. /\ Inj(Shrunk(l)) /\ Within(Shrunk(l), O)
          /\ Len(l) = Lower(Cardinality(O) + 1, PER_ENTITY_CAP_MAX)
      BY <3>1 DEF TargetIdx
    <3>3. Len(l1) + 1 = Len(l) /\ l = l0
      BY <1>8, <2>1
    <3>4. TargetIdx(l1, O, "hide", v, i)
      BY <3>2, <3>3 DEF TargetIdx, l1
    <3> QED BY <2>1, <3>4, <1>9 DEF O
  <2>2. CASE e # Target
    BY <2>2, <1>1, <1>7, <1>9 DEF CInv, IdxInv
  <2> QED BY <2>1, <2>2
<1>14. Chain(occ')
  BY <1>2, <1>3, <1>5, ChainKept
<1> QED BY <1>12, <1>13, <1>14

LEMMA CapBuild == CInv /\ (Hide \/ Describe \/ Name) => CapInv' /\ IdxInv' /\ Chain(occ)'
<1> SUFFICES ASSUME CInv, Hide \/ Describe \/ Name PROVE CapInv' /\ IdxInv' /\ Chain(occ)'
  OBVIOUS
<1> DEFINE i == writer.slot
           v == writer.victim
<1>0. TInv /\ entries \in [Slots -> Entry] /\ writer \in WriterT
  BY DEF CInv, TInv, WriterOK
<1>1. /\ writer.pc \in {"hide", "describe", "name"}
      /\ occ' = occ /\ crashes' = crashes /\ drift' = drift
      /\ \E n : Set(i, n)
      /\ \E l \in {"describe", "name", "list"} : Goto(l)
  BY DEF Hide, Describe, Name, At, Bookkeeping
<1>2. i \in Slots
  BY <1>0, <1>1, WorkOK DEF Inserting
<1>3. \A e \in Entity : Others(entries', e, i) = Others(entries, e, i)
  BY <1>0, <1>1, <1>2, SetOthers
<1>4. /\ writer'.pc \in {"describe", "name", "list"} /\ writer'.slot = i
      /\ writer'.victim = v /\ Target' = Target
  BY <1>0, <1>1, GotoOK DEF Target
<1>5. writer.pc \in Inserting /\ writer'.pc \in Inserting /\ writer'.pc \notin Resting
      /\ writer'.pc # "decay" /\ writer'.pc \notin {"retire", "unlist", "shrink", "publish"}
      /\ writer.pc # "retire"
  BY <1>1, <1>4 DEF Inserting, Resting
<1>6. CapInv'
  <2> SUFFICES ASSUME NEW e \in Entity
               PROVE  LET n == Cardinality(Others(entries, e, i))
                      IN /\ RoomFor(n, occ, e, crashes)
                         /\ e = Target /\ OccAt(occ, e) # OccSlots =>
                              n + 1 <= Quota(crashes) + PerEntityCap
    BY <1>1, <1>3, <1>4, <1>5 DEF CapInv
  <2> QED BY <1>5 DEF CInv, CapInv
<1>7. IdxInv'
  <2> SUFFICES ASSUME NEW e \in Entity, OccAt(occ, e) # OccSlots, ~ drift
               PROVE  LET l == Listed(occ, e)
                          O == Others(entries, e, i)
                      IN /\ e # Target => Exact(l, O)
                         /\ e = Target => TargetIdx(l, O, writer'.pc, v, i)
    BY <1>1, <1>3, <1>4, <1>5 DEF IdxInv
  <2> DEFINE l == Listed(occ, e)
             O == Others(entries, e, i)
  <2>1. /\ e # Target => Exact(l, O)
        /\ e = Target => TargetIdx(l, O, writer.pc, v, i)
    BY <1>5 DEF CInv, IdxInv
  <2> HIDE DEF l, O
  <2>2. TargetIdx(l, O, writer.pc, v, i) => TargetIdx(l, O, writer'.pc, v, i)
    BY <1>1, <1>4 DEF TargetIdx
  <2> QED BY <2>1, <2>2 DEF l, O
<1> QED BY <1>1, <1>6, <1>7 DEF CInv, Chain

LEMMA CapList == CInv /\ List => CapInv' /\ IdxInv' /\ Chain(occ)'
<1> SUFFICES ASSUME CInv, List PROVE CapInv' /\ IdxInv' /\ Chain(occ)'
  OBVIOUS
<1> DEFINE i == writer.slot
           v == writer.victim
           l0 == Listed(occ, Target)
<1>0. /\ TInv /\ ShortInv /\ entries \in [Slots -> Entry] /\ writer \in WriterT
      /\ OccOK(occ) /\ Chain(occ) /\ writer.todo \in Seq(JobT)
  BY DEF CInv, TInv, WriterOK, WriterT
<1>1. /\ writer.pc = "list" /\ occ' = occ_add_slot(occ, Target, i)
      /\ crashes' = crashes /\ drift' = drift
      /\ CanList(occ, Target) => Goto("publish") /\ entries' = entries
      /\ ~ CanList(occ, Target) => /\ Set(i, [entries[i] EXCEPT !.key = TOMBSTONE])
                                   /\ Continue(writer.todo)
  BY DEF List, At, Bookkeeping, Target
<1>2. i \in Slots /\ entries[i] \in Entry /\ Target \in Entity /\ writer.pc \in Inserting
  BY <1>0, <1>1, WorkOK DEF Inserting, Target
<1>3. CASE CanList(occ, Target)
  <2>1. /\ Chain(occ')
        /\ \A e \in Entity : e # Target =>
             /\ OccAt(occ', e) # OccSlots => OccAt(occ, e) # OccSlots
             /\ Listed(occ', e) = Listed(occ, e)
        /\ OccAt(occ, Target) # OccSlots
        /\ Listed(occ', Target) = Append(l0, i)
    BY <1>0, <1>1, <1>2, <1>3, AddSlotAt
  <2>2. /\ writer'.pc = "publish" /\ writer'.slot = i /\ writer'.victim = v /\ Target' = Target
    BY <1>0, <1>1, <1>3, GotoOK DEF Target
  <2>3. entries' = entries
    BY <1>1, <1>3
  <2>4. writer'.pc \in Inserting /\ writer'.pc \notin Resting /\ writer'.pc # "decay"
        /\ writer'.pc # "retire"
    BY <2>2 DEF Inserting, Resting
  <2>5. l0 \in Seq(Slots) /\ Len(l0) \in Nat
    BY <1>0, <1>2, ListedOK
  <2>6. /\ \A e \in Entity : e # Target => occ_count(occ', e) = occ_count(occ, e)
        /\ occ_count(occ', Target) = occ_count(occ, Target) + 1
    BY <2>1, <2>5 DEF occ_count
  <2>7. CapInv'
    <3> SUFFICES ASSUME NEW e \in Entity
                 PROVE  LET n == Cardinality(Others(entries, e, i))
                        IN /\ RoomFor(n, occ', e, crashes)
                           /\ e = Target => RoomFor(n + 1, occ', e, crashes)
                           /\ e = Target => n + 1 <= Quota(crashes) + PerEntityCap
      BY <1>1, <2>2, <2>3, <2>4 DEF CapInv
    <3> DEFINE n == Cardinality(Others(entries, e, i))
    <3>1. /\ RoomFor(n, occ, e, crashes)
          /\ e = Target => n + 1 <= Quota(crashes) + PerEntityCap
      BY <1>1, <1>2, <2>1 DEF CInv, CapInv
    <3>2. n \in Nat /\ Quota(crashes) \in Nat /\ PerEntityCap \in Nat /\ occ_count(occ, e) \in Nat
      BY CapNats
    <3> HIDE DEF n
    <3>3. /\ RoomFor(n, occ', e, crashes)
          /\ e = Target => RoomFor(n + 1, occ', e, crashes)
      BY <3>1, <3>2, <2>1, <2>6 DEF RoomFor
    <3> QED BY <3>1, <3>3 DEF n
  <2>8. IdxInv'
    <3> SUFFICES ASSUME NEW e \in Entity, OccAt(occ', e) # OccSlots, ~ drift
                 PROVE  LET l == Listed(occ', e)
                            O == Others(entries, e, i)
                        IN /\ e # Target => Exact(l, O)
                           /\ e = Target => TargetIdx(l, O, "publish", v, i)
      BY <1>1, <2>2, <2>3, <2>4 DEF IdxInv
    <3> DEFINE O == Others(entries, e, i)
               l == Listed(occ', e)
    <3>1. CASE e = Target
      <4>1. TargetIdx(l0, O, "list", v, i)
        BY <1>1, <1>2, <2>1, <3>1 DEF CInv, IdxInv
      <4>2. i \notin O
        BY DEF Others
      <4> HIDE DEF O
      <4>3. Inj(l0) /\ Within(l0, O) /\ Len(l0) + 1 = Lower(Cardinality(O) + 1, PER_ENTITY_CAP_MAX)
        BY <4>1 DEF TargetIdx
      <4>4. l = Append(l0, i)
        BY <2>1, <3>1
      <4> HIDE DEF l, l0
      <4>5. /\ Len(l) = Len(l0) + 1 /\ l[Len(l0) + 1] = i
            /\ \A p \in 1 .. Len(l0) : l[p] = l0[p]
        BY <2>5, <4>4, <1>2
      <4>6. \A p \in 1 .. Len(l) : p \in 1 .. Len(l0) \/ p = Len(l0) + 1
        BY <2>5, <4>5
      <4>7. Within(l, O \cup {i})
        BY <4>3, <4>5, <4>6 DEF Within
      <4>8. \A p \in 1 .. Len(l0) : l0[p] # i
        BY <4>2, <4>3 DEF Within
      <4>9. Inj(l)
        BY <4>3, <4>5, <4>6, <4>8 DEF Inj
      <4>10. TargetIdx(l, O, "publish", v, i)
        BY <4>3, <4>5, <4>7, <4>9 DEF TargetIdx
      <4> QED BY <3>1, <4>10 DEF l, O
    <3>2. CASE e # Target
      BY <3>2, <1>1, <1>2, <2>1 DEF CInv, IdxInv
    <3> QED BY <3>1, <3>2
  <2> QED BY <2>1, <2>7, <2>8
<1>4. CASE ~ CanList(occ, Target)
  <2>1. occ' = occ
    BY <1>1, <1>4 DEF occ_add_slot
  <2>2. writer'.pc \in Resting /\ writer'.pc \notin Inserting /\ writer'.pc # "decay"
    <3>1. writer'.pc \in {"idle", "next"}
      BY <1>0, <1>1, <1>4, ContinueOK
    <3> QED BY <3>1 DEF Resting, Inserting
  <2>3. \A e \in Entity : LiveIn(entries', e) = Others(entries, e, i)
    <3> SUFFICES ASSUME NEW e \in Entity PROVE LiveIn(entries', e) = Others(entries, e, i)
      OBVIOUS
    <3>1. /\ entries'[i] = [entries[i] EXCEPT !.key = TOMBSTONE]
          /\ Others(entries', e, i) = Others(entries, e, i)
      BY <1>0, <1>1, <1>2, <1>4, SetOthers
    <3>2. i \notin LiveIn(entries', e)
      <4>1. entries'[i].key = TOMBSTONE
        BY <1>2, <3>1 DEF Entry
      <4> QED BY <4>1 DEF LiveIn, IsLive
    <3> QED BY <3>1, <3>2 DEF Others
  <2>4. CapInv'
    <3> SUFFICES ASSUME NEW e \in Entity
                 PROVE  RoomFor(Cardinality(LiveIn(entries', e)), occ, e, crashes)
      BY <1>1, <2>1, <2>2 DEF CapInv
    <3> QED BY <1>2, <2>3 DEF CInv, CapInv
  <2>5. IdxInv'
    <3> SUFFICES ASSUME NEW e \in Entity, OccAt(occ, e) # OccSlots, ~ drift
                 PROVE  Exact(Listed(occ, e), LiveIn(entries', e))
      BY <1>1, <2>1, <2>2 DEF IdxInv
    <3>1. e # Target
      <4> SUFFICES ASSUME e = Target PROVE FALSE
        OBVIOUS
      <4> DEFINE O == Others(entries, e, i)
      <4>1. TargetIdx(l0, O, "list", v, i)
        BY <1>1, <1>2 DEF CInv, IdxInv
      <4>2. Len(l0) + 1 = Lower(Cardinality(O) + 1, PER_ENTITY_CAP_MAX)
        BY <4>1 DEF TargetIdx
      <4>3. Cardinality(O) \in Nat /\ PER_ENTITY_CAP_MAX \in Nat /\ Len(l0) \in Nat
        BY <1>2, CapNats
      <4> HIDE DEF O
      <4>4. Len(l0) < PER_ENTITY_CAP_MAX
        BY <4>2, <4>3 DEF Lower
      <4> QED BY <1>4, <4>4 DEF CanList, occ_count
    <3>2. Exact(Listed(occ, e), Others(entries, e, i))
      BY <3>1, <1>2 DEF CInv, IdxInv
    <3> QED BY <3>2, <2>3
  <2> QED BY <2>1, <2>4, <2>5, <1>0
<1> QED BY <1>3, <1>4

LEMMA CapPublish == CInv /\ Publish => CapInv' /\ IdxInv' /\ Chain(occ)'
<1> SUFFICES ASSUME CInv, Publish PROVE CapInv' /\ IdxInv' /\ Chain(occ)'
  OBVIOUS
<1> DEFINE i == writer.slot
           new == [entries[i] EXCEPT !.weight = Delta(writer.job)]
<1>0. /\ TInv /\ ShortInv /\ entries \in [Slots -> Entry]
      /\ Chain(occ) /\ writer.todo \in Seq(JobT)
  BY DEF CInv, TInv, WriterOK, WriterT
<1>1. /\ writer.pc = "publish" /\ Set(i, new) /\ Continue(writer.todo)
      /\ occ' = occ /\ crashes' = crashes /\ drift' = drift
  BY DEF Publish, At, Bookkeeping
<1>2. i \in Slots /\ entries[i] \in Entry /\ Target \in Entity /\ writer.pc \in Inserting
  BY <1>0, <1>1, WorkOK DEF Inserting, Target
<1>3. IsLive(entries[i]) /\ entries[i].ent = Target
  BY <1>0, <1>1, <1>2 DEF ShortInv, Target
<1>4. IsLive(new) /\ new.ent = Target
  BY <1>2, <1>3 DEF IsLive, Entry
<1> HIDE DEF new
<1>5. entries'[i] = new /\ \A j \in Slots : j # i => entries'[j] = entries[j]
  BY <1>0, <1>1, <1>2, SetOthers
<1>6. /\ LiveIn(entries', Target) = Others(entries, Target, i) \cup {i}
      /\ \A e \in Entity : e # Target => LiveIn(entries', e) = Others(entries, e, i)
  BY <1>2, <1>4, <1>5 DEF Others, LiveIn
<1>7. Cardinality(LiveIn(entries', Target)) = Cardinality(Others(entries, Target, i)) + 1
  <2> DEFINE O == Others(entries, Target, i)
  <2>1. IsFiniteSet(O) /\ i \notin O
    BY OthersCount DEF Others
  <2> HIDE DEF O
  <2>2. Cardinality(O \cup {i}) = Cardinality(O) + 1
    BY <2>1, FS_AddElement
  <2> QED BY <2>2, <1>6 DEF O
<1>8. writer'.pc \in Resting /\ writer'.pc \notin Inserting /\ writer'.pc # "decay"
  <2>1. writer'.pc \in {"idle", "next"}
    BY <1>0, <1>1, ContinueOK
  <2> QED BY <2>1 DEF Resting, Inserting
<1>9. CapInv'
  <2> SUFFICES ASSUME NEW e \in Entity
               PROVE  RoomFor(Cardinality(LiveIn(entries', e)), occ, e, crashes)
    BY <1>1, <1>8 DEF CapInv
  <2> DEFINE n == Cardinality(Others(entries, e, i))
  <2>1. RoomFor(n, occ, e, crashes) /\ (e = Target => RoomFor(n + 1, occ, e, crashes))
    BY <1>1, <1>2 DEF CInv, CapInv
  <2> QED BY <2>1, <1>6, <1>7
<1>10. IdxInv'
  <2> SUFFICES ASSUME NEW e \in Entity, OccAt(occ, e) # OccSlots, ~ drift
               PROVE  Exact(Listed(occ, e), LiveIn(entries', e))
    BY <1>1, <1>8 DEF IdxInv
  <2> DEFINE O == Others(entries, e, i)
             l == Listed(occ, e)
  <2>1. CASE e = Target
    <3>1. TargetIdx(l, O, "publish", writer.victim, i)
      BY <1>1, <1>2, <2>1 DEF CInv, IdxInv
    <3> HIDE DEF O, l
    <3>2. Inj(l) /\ Within(l, O \cup {i}) /\ Len(l) = Lower(Cardinality(O) + 1, PER_ENTITY_CAP_MAX)
      BY <3>1 DEF TargetIdx
    <3>3. O \cup {i} = LiveIn(entries', e) /\ Cardinality(LiveIn(entries', e)) = Cardinality(O) + 1
      BY <2>1, <1>6, <1>7 DEF O
    <3> QED BY <3>2, <3>3 DEF Exact, l
  <2>2. CASE e # Target
    BY <2>2, <1>1, <1>2, <1>6 DEF CInv, IdxInv
  <2> QED BY <2>1, <2>2
<1> QED BY <1>0, <1>1, <1>9, <1>10

LEMMA NoIndexFacts ==
    /\ Chain(NoIndex)
    /\ \A e \in Entity : Listed(NoIndex, e) = <<>> /\ occ_count(NoIndex, e) = 0
<1>1. \A x \in OccPos : NoIndex[x].ent = NoEntity
  BY DEF NoIndex, OccPos
<1>2. Chain(NoIndex)
  BY <1>1, SlotFacts DEF Chain
<1>3. ASSUME NEW e \in Entity PROVE ~ occ_find(NoIndex, e)
  BY <1>1, OccAtOK, SlotFacts DEF occ_find
<1>4. \A e \in Entity : Listed(NoIndex, e) = <<>>
  BY <1>3 DEF Listed
<1> QED BY <1>2, <1>4 DEF occ_count

LEMMA ExactNothing == Exact(<<>>, {})
<1>1. Cardinality({}) = 0 /\ PER_ENTITY_CAP_MAX \in Nat
  BY FS_EmptySet, TacAssumption
<1>2. Lower(Cardinality({}), PER_ENTITY_CAP_MAX) = 0
  BY <1>1 DEF Lower
<1> QED BY <1>2 DEF Exact, Inj, Within

LEMMA CapBeginDecay == CInv /\ wake_tac_decay => CapInv' /\ IdxInv' /\ Chain(occ)'
<1> SUFFICES ASSUME CInv, wake_tac_decay PROVE CapInv' /\ IdxInv' /\ Chain(occ)'
  OBVIOUS
<1>1. /\ writer.pc = "idle" /\ occ' = NoIndex /\ entries' = entries /\ crashes' = crashes
      /\ writer' = [Idle EXCEPT !.pc = "decay", !.slot = 0]
  BY DEF wake_tac_decay, At, Bookkeeping
<1>2. writer'.pc = "decay" /\ writer'.slot = 0
  BY <1>1 DEF Idle
<1>3. writer.pc \in Resting /\ writer'.pc \notin Resting /\ writer'.pc \notin Inserting
  BY <1>1, <1>2 DEF Resting, Inserting
<1>4. CapInv'
  <2> SUFFICES ASSUME NEW e \in Entity
               PROVE  Cardinality(LiveIn(entries, e)) <= Quota(crashes) + PerEntityCap
    BY <1>1, <1>3 DEF CapInv
  <2>1. RoomFor(Cardinality(LiveIn(entries, e)), occ, e, crashes)
    BY <1>3 DEF CInv, CapInv
  <2> QED BY <2>1 DEF RoomFor
<1>5. IdxInv'
  <2> SUFFICES ASSUME NEW e \in Entity
               PROVE  Exact(Listed(NoIndex, e), Done(entries, e, 0))
    BY <1>1, <1>2, <1>3 DEF IdxInv
  <2>1. Done(entries, e, 0) = {}
    BY SlotFacts DEF Done, LiveIn, Slots
  <2> QED BY <2>1, NoIndexFacts, ExactNothing
<1> QED BY <1>1, <1>4, <1>5, NoIndexFacts

LEMMA CapDecaySlot == CInv /\ DecaySlot => CapInv' /\ IdxInv' /\ Chain(occ)'
<1> SUFFICES ASSUME CInv, DecaySlot PROVE CapInv' /\ IdxInv' /\ Chain(occ)'
  OBVIOUS
<1> DEFINE i == writer.slot
           e == entries[i]
           dead == [e EXCEPT !.key = TOMBSTONE]
           lives == [e EXCEPT !.weight = Decayed(e)]
<1>0. /\ TInv /\ entries \in [Slots -> Entry] /\ writer \in WriterT
      /\ OccOK(occ) /\ Chain(occ)
  BY DEF CInv, TInv, WriterOK
<1>1. /\ writer.pc = "decay" /\ i # NoSlot /\ crashes' = crashes
      /\ writer' = [writer EXCEPT !.slot = @ + 1]
  BY DEF DecaySlot, At, Bookkeeping
<1>2. i \in Slots /\ i \in Nat
  BY <1>0, <1>1, SlotFacts DEF WriterT, Slots
<1>3. writer'.pc = "decay" /\ writer'.slot = i + 1
  BY <1>0, <1>1 DEF WriterT
<1>4. writer'.pc \notin Resting /\ writer'.pc \notin Inserting
  BY <1>3 DEF Resting, Inserting
<1>5. e \in Entry /\ e.ent \in Entity \cup {NoEntity}
  BY <1>0, <1>2 DEF Entry
<1>6. /\ ~ IsLive(e) => UNCHANGED <<entries, occ>>
      /\ IsLive(e) => \/ Set(i, dead) /\ UNCHANGED occ
                      \/ Set(i, lives) /\ occ' = occ_add_slot(occ, e.ent, i)
  BY DEF DecaySlot
<1>7. ~ IsLive(dead) /\ lives.ent = e.ent /\ lives.key = e.key
  <2> HIDE DEF e
  <2>1. dead.key = TOMBSTONE /\ lives.ent = e.ent /\ lives.key = e.key
    BY <1>5 DEF Entry
  <2> QED BY <2>1 DEF IsLive
<1> HIDE DEF dead, lives
<1>8. \A t, f : Done(t, f, i + 1) = {x \in LiveIn(t, f) : x < i \/ x = i}
  <2>1. \A x \in Slots : x < i + 1 <=> x < i \/ x = i
    BY <1>2, SlotFacts DEF Slots
  <2> QED BY <2>1 DEF Done, LiveIn
\* It is enough to look at what is live and what is listed.
<1>9. SUFFICES /\ \A f \in Entity : LiveIn(entries', f) \subseteq LiveIn(entries, f)
               /\ \A f \in Entity : OccAt(occ', f) # OccSlots =>
                    Exact(Listed(occ', f), Done(entries', f, i + 1))
               /\ Chain(occ')
  <2>1. CapInv'
    <3> SUFFICES ASSUME NEW f \in Entity
                 PROVE  Cardinality(LiveIn(entries', f)) <= Quota(crashes) + PerEntityCap
      BY <1>1, <1>4 DEF CapInv
    <3>1. Cardinality(LiveIn(entries, f)) <= Quota(crashes) + PerEntityCap
      BY <1>1 DEF CInv, CapInv
    <3>2. Cardinality(LiveIn(entries', f)) <= Cardinality(LiveIn(entries, f))
      BY <1>9, LiveFinite, FS_Subset
    <3>3. /\ Cardinality(LiveIn(entries', f)) \in Nat /\ Cardinality(LiveIn(entries, f)) \in Nat
          /\ Quota(crashes) \in Nat /\ PerEntityCap \in Nat
      BY CapNats
    <3> QED BY <3>1, <3>2, <3>3
  <2>2. IdxInv'
    BY <1>3, <1>4, <1>9 DEF IdxInv
  <2> QED BY <2>1, <2>2, <1>9
<1>10. \A f \in Entity : OccAt(occ, f) # OccSlots =>
         Exact(Listed(occ, f), Done(entries, f, i))
  BY <1>1 DEF CInv, IdxInv
<1>11. CASE ~ IsLive(e)
  <2>1. entries' = entries /\ occ' = occ
    BY <1>6, <1>11
  <2>2. \A f \in Entity : Done(entries, f, i + 1) = Done(entries, f, i)
    BY <1>8, <1>11 DEF Done, LiveIn
  <2> QED BY <2>1, <2>2, <1>0, <1>10
<1>12. CASE IsLive(e) /\ Set(i, dead) /\ UNCHANGED occ
  <2>1. entries'[i] = dead /\ \A j \in Slots : j # i => entries'[j] = entries[j]
    BY <1>0, <1>2, <1>12, SetOthers
  <2>2. \A f \in Entity : LiveIn(entries', f) = LiveIn(entries, f) \ {i}
    BY <2>1, <1>7 DEF LiveIn
  <2>3. \A f \in Entity : Done(entries', f, i + 1) = Done(entries, f, i)
    <3> SUFFICES ASSUME NEW f \in Entity
                 PROVE  {x \in LiveIn(entries, f) \ {i} : x < i \/ x = i} =
                        {x \in LiveIn(entries, f) : x < i}
      BY <2>2, <1>8 DEF Done
    <3> QED BY <1>2
  <2> QED BY <2>2, <2>3, <1>0, <1>10, <1>12
<1>13. CASE IsLive(e) /\ Set(i, lives) /\ occ' = occ_add_slot(occ, e.ent, i)
  <2> DEFINE g == e.ent
  <2>1. \A f \in Entity : LiveIn(entries', f) = LiveIn(entries, f)
    <3>1. IsLive(lives) <=> IsLive(e)
      BY <1>7 DEF IsLive
    <3> QED BY <3>1, <1>0, <1>2, <1>7, <1>13, SetLive
  <2>2. \A f \in Entity : f # g => Done(entries', f, i + 1) = Done(entries, f, i)
    <3> SUFFICES ASSUME NEW f \in Entity, f # g PROVE i \notin LiveIn(entries, f)
      BY <2>1, <1>8 DEF Done
    <3> QED BY DEF LiveIn
  <2>3. g \in Entity => Done(entries', g, i + 1) = Done(entries, g, i) \cup {i}
                        /\ i \notin Done(entries, g, i)
    <3> SUFFICES ASSUME g \in Entity PROVE i \in LiveIn(entries, g) /\ ~ (i < i)
      BY <2>1, <1>8 DEF Done
    <3> QED BY <1>2, <1>13 DEF LiveIn
  <2> HIDE DEF e
  <2>4. g \in Entity \cup {NoEntity}
    BY <1>5
  <2> HIDE DEF g
  <2>5. occ' = occ_add_slot(occ, g, i)
    BY <1>13 DEF g
  \* The entity of this slot: its list grows with what is done, or is full.
  <2>6. ASSUME g \in Entity, OccAt(occ, g) # OccSlots
        PROVE  LET l == Listed(occ, g)
                   D == Done(entries, g, i)
               IN IF CanList(occ, g) THEN Exact(Append(l, i), D \cup {i})
                                     ELSE Exact(l, D \cup {i})
    <3> DEFINE l == Listed(occ, g)
               D == Done(entries, g, i)
               m == Append(l, i)
    <3>1. Exact(l, D) /\ i \notin D
      BY <2>3, <2>6, <1>10
    <3>2. /\ l \in Seq(Slots) /\ Len(l) \in Nat /\ PER_ENTITY_CAP_MAX \in Nat
          /\ occ_count(occ, g) = Len(l) /\ Len(l) <= PER_ENTITY_CAP_MAX
      BY <2>6, <1>0, CapNats, ListedOK
    <3>3. IsFiniteSet(D) /\ Cardinality(D) \in Nat
      <4>1. IsFiniteSet(D)
        BY LiveFinite, FS_Subset DEF Done
      <4> QED BY <4>1, FS_CardinalityType
    <3>4. CanList(occ, g) <=> Len(l) < PER_ENTITY_CAP_MAX
      BY <2>6, <3>2 DEF CanList
    <3> HIDE DEF D, l
    <3>5. Cardinality(D \cup {i}) = Cardinality(D) + 1
      BY <3>1, <3>3, FS_AddElement
    <3>6. Inj(l) /\ Within(l, D) /\ Len(l) = Lower(Cardinality(D), PER_ENTITY_CAP_MAX)
      BY <3>1 DEF Exact
    <3>7. CASE Len(l) < PER_ENTITY_CAP_MAX
      <4>1. /\ Len(m) = Len(l) + 1 /\ m[Len(l) + 1] = i
            /\ \A p \in 1 .. Len(l) : m[p] = l[p]
        BY <3>2, <1>2
      <4> HIDE DEF m
      <4>2. \A p \in 1 .. Len(m) : p \in 1 .. Len(l) \/ p = Len(l) + 1
        BY <3>2, <4>1
      <4>3. Within(m, D \cup {i})
        BY <3>6, <4>1, <4>2 DEF Within
      <4>4. \A p \in 1 .. Len(l) : l[p] # i
        BY <3>1, <3>6 DEF Within
      <4>5. Inj(m)
        BY <3>6, <4>1, <4>2, <4>4 DEF Inj
      <4>6. Len(m) = Lower(Cardinality(D) + 1, PER_ENTITY_CAP_MAX)
        BY <3>2, <3>3, <3>6, <3>7, <4>1 DEF Lower
      <4>7. Exact(m, D \cup {i})
        BY <3>5, <4>3, <4>5, <4>6 DEF Exact
      <4> QED BY <3>4, <3>7, <4>7 DEF m, l, D
    <3>8. CASE ~ (Len(l) < PER_ENTITY_CAP_MAX)
      <4>1. Len(l) = Lower(Cardinality(D) + 1, PER_ENTITY_CAP_MAX)
        BY <3>2, <3>3, <3>6, <3>8 DEF Lower
      <4>2. Exact(l, D \cup {i})
        BY <3>5, <3>6, <4>1 DEF Exact, Within
      <4> QED BY <3>4, <3>8, <4>2 DEF l, D
    <3> QED BY <3>7, <3>8
  <2>7. CASE CanList(occ, g)
    <3>1. /\ Chain(occ')
          /\ \A f \in Entity : f # g =>
               /\ OccAt(occ', f) # OccSlots => OccAt(occ, f) # OccSlots
               /\ Listed(occ', f) = Listed(occ, f)
          /\ g \in Entity => /\ OccAt(occ, g) # OccSlots
                             /\ Listed(occ', g) = Append(Listed(occ, g), i)
      BY <1>0, <2>4, <2>5, <2>7, AddSlotAt
    <3>2. ASSUME NEW f \in Entity, OccAt(occ', f) # OccSlots
          PROVE  Exact(Listed(occ', f), Done(entries', f, i + 1))
      <4>1. CASE f = g
        BY <4>1, <3>1, <2>3, <2>6, <2>7
      <4>2. CASE f # g
        BY <4>2, <3>1, <3>2, <2>2, <1>10
      <4> QED BY <4>1, <4>2
    <3> QED BY <2>1, <3>1, <3>2
  <2>8. CASE ~ CanList(occ, g)
    <3>1. occ' = occ
      BY <2>5, <2>8 DEF occ_add_slot
    <3>2. ASSUME NEW f \in Entity, OccAt(occ, f) # OccSlots
          PROVE  Exact(Listed(occ, f), Done(entries', f, i + 1))
      <4>1. CASE f = g
        BY <4>1, <3>2, <2>3, <2>6, <2>8
      <4>2. CASE f # g
        BY <4>2, <3>2, <2>2, <1>10
      <4> QED BY <4>1, <4>2
    <3> QED BY <2>1, <3>1, <3>2, <1>0
  <2> QED BY <2>7, <2>8
<1> QED BY <1>6, <1>11, <1>12, <1>13

\* The pass is over: every live edge has been met, so the lists are exact.
LEMMA CapEndDecay == CInv /\ EndDecay => CapInv' /\ IdxInv' /\ Chain(occ)'
<1> SUFFICES ASSUME CInv, EndDecay PROVE CapInv' /\ IdxInv' /\ Chain(occ)'
  OBVIOUS
<1>1. /\ writer.pc = "decay" /\ writer.slot = Capacity /\ writer' = Idle
      /\ entries' = entries /\ occ' = occ /\ crashes' = crashes
  BY DEF EndDecay, At, NoSlot
<1>2. writer'.pc \in Resting /\ writer'.pc \notin Inserting /\ writer'.pc # "decay"
  BY <1>1 DEF Idle, Resting, Inserting
<1>3. \A e \in Entity : Done(entries, e, Capacity) = LiveIn(entries, e)
  <2>1. \A x \in Slots : x < Capacity
    BY SlotFacts DEF Slots
  <2> QED BY <2>1 DEF Done, LiveIn
<1>4. ASSUME NEW e \in Entity, OccAt(occ, e) # OccSlots
      PROVE  Exact(Listed(occ, e), LiveIn(entries, e))
  BY <1>1, <1>3, <1>4 DEF CInv, IdxInv
<1>5. CapInv'
  <2> SUFFICES ASSUME NEW e \in Entity
               PROVE  RoomFor(Cardinality(LiveIn(entries, e)), occ, e, crashes)
    BY <1>1, <1>2 DEF CapInv
  <2> DEFINE n == Cardinality(LiveIn(entries, e))
  <2>1. n <= Quota(crashes) + PerEntityCap
    BY <1>1 DEF CInv, CapInv
  <2>2. OccAt(occ, e) # OccSlots => occ_count(occ, e) = Lower(n, PER_ENTITY_CAP_MAX)
    BY <1>4 DEF Exact, occ_count
  <2>3. /\ n \in Nat /\ Quota(crashes) \in Nat /\ PerEntityCap \in Nat
        /\ PER_ENTITY_CAP_MAX \in Nat /\ PerEntityCap <= PER_ENTITY_CAP_MAX
    BY CapNats
  <2> HIDE DEF n
  <2>4. n <= Quota(crashes) + Lower(n, PER_ENTITY_CAP_MAX)
    BY <2>1, <2>3 DEF Lower
  <2> QED BY <2>1, <2>2, <2>4 DEF RoomFor, n
<1>6. IdxInv'
  BY <1>1, <1>2, <1>4 DEF IdxInv
<1> QED BY <1>1, <1>5, <1>6 DEF CInv

\* An empty table: nothing is live and nothing is listed.
LEMMA EmptyTable ==
    ASSUME NEW e PROVE LiveIn([i \in Slots |-> Fresh], e) = {}
<1> DEFINE t == [i \in Slots |-> Fresh]
<1>1. \A i \in Slots : ~ IsLive(t[i])
  BY DEF IsLive, Fresh
<1> HIDE DEF t
<1>2. LiveIn(t, e) = {}
  BY <1>1 DEF LiveIn
<1> QED BY <1>2 DEF t

LEMMA RoomForNothing ==
    ASSUME NEW c \in Nat, NEW e \in Entity PROVE RoomFor(0, NoIndex, e, c)
<1>1. Quota(c) \in Nat /\ PerEntityCap \in Nat /\ occ_count(NoIndex, e) = 0
  BY QuotaFacts, NoIndexFacts
<1> QED BY <1>1 DEF RoomFor

LEMMA CapReset == CInv /\ wake_tac_reset => CapInv' /\ IdxInv' /\ Chain(occ)'
<1> SUFFICES ASSUME CInv, wake_tac_reset PROVE CapInv' /\ IdxInv' /\ Chain(occ)'
  OBVIOUS
<1>1. /\ writer.pc = "idle" /\ writer' = writer /\ occ' = NoIndex /\ crashes' = crashes
      /\ entries' = [i \in Slots |-> Fresh]
  BY DEF wake_tac_reset, At
<1>2. writer'.pc \in Resting /\ writer'.pc \notin Inserting /\ writer'.pc # "decay"
  BY <1>1 DEF Resting, Inserting
<1>3. \A e \in Entity : LiveIn(entries', e) = {}
  BY <1>1, EmptyTable
<1>4. Cardinality({}) = 0 /\ crashes \in Nat
  BY FS_EmptySet, TacAssumption DEF CInv, TInv
<1>5. CapInv'
  <2> SUFFICES ASSUME NEW e \in Entity
               PROVE  RoomFor(Cardinality(LiveIn(entries', e)), NoIndex, e, crashes)
    BY <1>1, <1>2 DEF CapInv
  <2> QED BY <1>3, <1>4, RoomForNothing
<1>6. IdxInv'
  <2> SUFFICES ASSUME NEW e \in Entity PROVE Exact(Listed(NoIndex, e), LiveIn(entries', e))
    BY <1>1, <1>2 DEF IdxInv
  <2> QED BY <1>3, NoIndexFacts, ExactNothing
<1> QED BY <1>1, <1>5, <1>6, NoIndexFacts

\* A crash costs at most the edges its call had not listed yet.
LEMMA CapCrash == CInv /\ Crash => CapInv' /\ IdxInv' /\ Chain(occ)'
<1> SUFFICES ASSUME CInv, Crash PROVE CapInv' /\ IdxInv' /\ Chain(occ)'
  OBVIOUS
<1>1. /\ writer' = Idle /\ crashes' = crashes + 1 /\ drift' = TRUE
      /\ entries' = entries /\ occ' = occ
  BY DEF Crash
<1>2. writer'.pc \in Resting /\ writer'.pc \notin Inserting /\ writer'.pc # "decay"
  BY <1>1 DEF Idle, Resting, Inserting
<1>3. CapInv'
  <2> SUFFICES ASSUME NEW e \in Entity
               PROVE  RoomFor(Cardinality(LiveIn(entries, e)), occ, e, crashes + 1)
    BY <1>1, <1>2 DEF CapInv
  <2> DEFINE live == Cardinality(LiveIn(entries, e))
             n == Cardinality(Others(entries, e, writer.slot))
             k == occ_count(occ, e)
  <2>1. /\ live \in Nat /\ n \in Nat /\ k \in Nat /\ Quota(crashes) \in Nat
        /\ PerEntityCap \in Nat /\ PerEntityCap >= 1
        /\ Quota(crashes + 1) = Quota(crashes) + PerEntityCap
    BY CapNats, QuotaFacts
  <2>2. live <= n + 1
    <3> DEFINE S == LiveIn(entries, e)
    <3>1. IsFiniteSet(S)
      BY LiveFinite
    <3>2. CASE writer.slot \in S
      <4> HIDE DEF S
      <4>1. Cardinality(S \ {writer.slot}) = Cardinality(S) - 1
        BY <3>1, <3>2, FS_RemoveElement
      <4> QED BY <4>1, <2>1 DEF S, Others
    <3>3. CASE writer.slot \notin S
      <4>1. Others(entries, e, writer.slot) = S
        BY <3>3 DEF Others
      <4> QED BY <4>1, <2>1
    <3> QED BY <3>2, <3>3
  <2>3. writer.pc \in Resting \/ writer.pc = "decay" \/ writer.pc \in Inserting
    BY DEF CInv, TInv, WriterOK, WriterT, Resting, Inserting
  <2>4. /\ writer.pc \in Resting => RoomFor(live, occ, e, crashes)
        /\ writer.pc = "decay" => live <= Quota(crashes) + PerEntityCap
        /\ writer.pc \in Inserting => RoomFor(n, occ, e, crashes)
    BY DEF CInv, CapInv
  <2> HIDE DEF live, n, k
  <2>5. /\ live <= Quota(crashes + 1) + PerEntityCap
        /\ OccAt(occ, e) # OccSlots => live <= Quota(crashes + 1) + k
    <3>1. CASE writer.pc \in Resting
      BY <3>1, <2>1, <2>4 DEF RoomFor, k
    <3>2. CASE writer.pc = "decay"
      BY <3>2, <2>1, <2>4
    <3>3. CASE writer.pc \in Inserting
      BY <3>3, <2>1, <2>2, <2>4 DEF RoomFor, k
    <3> QED BY <2>3, <3>1, <3>2, <3>3
  <2> QED BY <2>5 DEF RoomFor, live, k
<1>4. IdxInv'
  BY <1>1, <1>2 DEF IdxInv
<1> QED BY <1>1, <1>3, <1>4 DEF CInv

LEMMA CInit == Init => CInv
<1> SUFFICES ASSUME Init PROVE CInv
  OBVIOUS
<1>1. /\ writer = Idle /\ occ = NoIndex /\ crashes = 0 /\ entries = [i \in Slots |-> Fresh]
  BY DEF Init
<1>2. writer.pc \in Resting /\ writer.pc \notin Inserting /\ writer.pc # "decay"
  BY <1>1 DEF Idle, Resting, Inserting
<1>3. \A e \in Entity : LiveIn(entries, e) = {}
  BY <1>1, EmptyTable
<1>4. Cardinality({}) = 0
  BY FS_EmptySet
<1>5. CapInv
  <2> SUFFICES ASSUME NEW e \in Entity
               PROVE  RoomFor(Cardinality(LiveIn(entries, e)), NoIndex, e, 0)
    BY <1>1, <1>2 DEF CapInv
  <2> QED BY <1>3, <1>4, RoomForNothing
<1>6. IdxInv
  <2> SUFFICES ASSUME NEW e \in Entity PROVE Exact(Listed(NoIndex, e), LiveIn(entries, e))
    BY <1>1, <1>2 DEF IdxInv
  <2> QED BY <1>3, NoIndexFacts, ExactNothing
<1> QED BY <1>1, <1>5, <1>6, NoIndexFacts, InitTyped, ShortInit DEF CInv

LEMMA CStep == CInv /\ [Next]_vars => CInv'
<1> SUFFICES ASSUME CInv, [Next]_vars PROVE CInv'
  OBVIOUS
<1>1. TInv' /\ ShortInv'
  BY StepTyped, ShortStep DEF CInv
<1>2. CapInv' /\ IdxInv' /\ Chain(occ)'
  <2>1. CASE UNCHANGED vars
    <3>1. /\ entries' = entries /\ occ' = occ /\ writer' = writer
          /\ crashes' = crashes /\ drift' = drift
      BY <2>1 DEF vars
    <3>2. CapInv'
      BY <3>1 DEF CInv, CapInv, Target
    <3>3. IdxInv'
      BY <3>1 DEF CInv, IdxInv, Target
    <3> QED BY <3>1, <3>2, <3>3 DEF CInv
  <2>2. CASE Next
    <3>1. CASE Crash \/ wake_tac_reset \/ wake_tac_decay \/ EndDecay \/ DecaySlot
      BY <3>1, CapCrash, CapReset, CapBeginDecay, CapEndDecay, CapDecaySlot
    <3>2. CASE Insert
      BY <3>2, CapClaim, CapRetire, CapUnlist, CapShrink, CapBuild, CapList, CapPublish
         DEF Insert
    <3>3. CASE \/ \E r \in Reinforcements : wake_tac_reinforce(r)
               \/ \E b \in Batches : wake_tac_reinforce_batch(b)
               \/ ChargeExisting \/ Weigh \/ Reassess
      BY <3>3, RestSteps
    <3> QED BY <2>2, <3>1, <3>2, <3>3 DEF Next, Write, Step
  <2> QED BY <2>1, <2>2
<1> QED BY <1>1, <1>2 DEF CInv

LEMMA Counted == Spec => []CInv
BY CInit, CStep, PTL DEF Spec

\* As many different slots as the list has entries.
LEMMA ListCardinality ==
    ASSUME NEW l \in Seq(Slots), Inj(l)
    PROVE  Cardinality({l[p] : p \in 1 .. Len(l)}) = Len(l)
<1> DEFINE S == 1 .. Len(l)
           T == {l[p] : p \in 1 .. Len(l)}
<1>1. Len(l) \in Nat /\ DOMAIN l = S
  OBVIOUS
<1>2. IsFiniteSet(S) /\ Cardinality(S) = Len(l)
  BY <1>1, FS_Interval
<1>3. ExistsBijection(S, T)
  <2> DEFINE f == [p \in S |-> l[p]]
  <2>1. f \in [S -> T]
    OBVIOUS
  <2>2. \A p, q \in S : f[p] = f[q] => p = q
    BY DEF Inj
  <2>3. \A t \in T : \E p \in S : f[p] = t
    OBVIOUS
  <2> HIDE DEF f, S, T
  <2>4. f \in Bijection(S, T)
    BY <2>1, <2>2, <2>3 DEF Bijection, Injection, IsInjective, Surjection
  <2> QED BY <2>4 DEF ExistsBijection
<1> HIDE DEF S, T
<1> QED BY <1>2, <1>3, FS_Bijection DEF T

\* Between calls the sidecar is an exact index of the live edges, unless a
\* crash has happened since the last complete decay pass: what occ_add_slot and
\* occ_del_slot keep up, and what the rebuild in wake_tac_decay restores.
THEOREM IndexedCorrect == Spec => []Indexed
<1>1. CInv => Indexed
  <2> SUFFICES ASSUME CInv, writer.pc = "idle", ~ drift, NEW e \in Entity
               PROVE  IF occ_find(occ, e)
                      THEN /\ Cardinality(Candidates(e)) = occ_count(occ, e)
                           /\ occ_count(occ, e) =
                                Lower(Cardinality(LiveOf(e)), PER_ENTITY_CAP_MAX)
                      ELSE LiveOf(e) # {} => OccAt(occ, e) = OccSlots
    BY DEF Indexed, At
  <2> DEFINE l == Listed(occ, e)
  <2>1. OccAt(occ, e) # OccSlots => Exact(l, LiveIn(entries, e))
    BY DEF CInv, IdxInv, Resting
  <2>2. l \in Seq(Slots) /\ occ_count(occ, e) = Len(l) /\ PER_ENTITY_CAP_MAX \in Nat
    BY CapNats
  <2>3. CASE occ_find(occ, e)
    <3>1. Exact(l, LiveIn(entries, e))
      BY <2>1, <2>3 DEF occ_find
    <3>2. {l[p] : p \in 1 .. Len(l)} \subseteq LiveIn(entries, e)
      BY <3>1 DEF Exact, Within
    <3>3. Candidates(e) = {l[p] : p \in 1 .. Len(l)}
      BY <2>2, <3>2 DEF Candidates, LiveIn
    <3>4. Cardinality(Candidates(e)) = Len(l)
      BY <2>2, <3>1, <3>3, ListCardinality DEF Exact
    <3> QED BY <2>2, <2>3, <3>1, <3>4 DEF Exact, LiveOf
  <2>4. CASE ~ occ_find(occ, e)
    <3> SUFFICES ASSUME OccAt(occ, e) # OccSlots PROVE LiveOf(e) = {}
      BY <2>4
    <3>1. Len(l) = 0
      BY <2>4 DEF Listed
    <3>2. Lower(Cardinality(LiveIn(entries, e)), PER_ENTITY_CAP_MAX) = 0
      BY <2>1, <3>1 DEF Exact
    <3>3. PER_ENTITY_CAP_MAX >= 1 /\ Cardinality(LiveIn(entries, e)) \in Nat
      BY CapNats
    <3>4. Cardinality(LiveIn(entries, e)) = 0
      BY <2>2, <3>2, <3>3 DEF Lower
    <3> QED BY <3>4, LiveFinite, FS_EmptySet DEF LiveOf
  <2> QED BY <2>3, <2>4
<1> QED BY <1>1, Counted, PTL

\* Between calls no entity has more live edges than its cap allows, and each
\* crash costs at most one cap more (apply_edge evicts at per_entity_cap and
\* counts by the sidecar, which a crash inside a decay pass leaves short).
THEOREM CapHeldCorrect == Spec => []CapHeld
<1>1. CInv => CapHeld
  <2> SUFFICES ASSUME CInv, writer.pc = "idle", NEW e \in Entity
               PROVE  Cardinality(LiveOf(e)) <= PerEntityCap * (1 + crashes)
    BY DEF CapHeld, At
  <2>1. RoomFor(Cardinality(LiveIn(entries, e)), occ, e, crashes)
    BY DEF CInv, CapInv, Resting
  <2>2. crashes \in Nat /\ PerEntityCap * (1 + crashes) = Quota(crashes) + PerEntityCap
    BY CapNats, QuotaFacts
  <2> QED BY <2>1, <2>2 DEF RoomFor, LiveOf
<1> QED BY <1>1, Counted, PTL

-----------------------------------------------------------------------------
(* Witnesses                                                               *)

\* What has been spent on an edge up to each budget.
Sums(f, b) ==
  /\ f \in [0 .. BUDGET_NAMED + 1 -> Nat] /\ f[0] = 0
  /\ \A n \in 1 .. BUDGET_NAMED + 1 : f[n] = f[n - 1] + b[n].spent

LEMMA SpentOK ==
    ASSUME NEW b \in [Budgets -> Budget]
    PROVE  \E f : Sums(f, b) /\ TotalSpent(b) = f[BUDGET_NAMED + 1]
<1> DEFINE N == BUDGET_NAMED + 1
           spent[n \in 0 .. N] == IF n = 0 THEN 0 ELSE spent[n - 1] + b[n].spent
<1>1. N \in Nat /\ Budgets = 1 .. N
  BY TacAssumption DEF Budgets
<1>2. TotalSpent(b) = spent[N]
  BY DEF TotalSpent
<1>3. \A n \in 1 .. N : b[n].spent \in Nat
  <2>1. \A n \in 1 .. N : b[n] \in Budget
    BY <1>1
  <2> QED BY <2>1, TacAssumption DEF Budget
<1> DEFINE g == [i \in 1 .. N |-> [s \in Nat |-> s + b[i].spent]]
<1>4. g \in [1 .. N -> [Nat -> Nat]] /\ \A i \in 1 .. N : \A s \in Nat : g[i][s] = s + b[i].spent
  BY <1>3
<1> HIDE DEF g
<1>5. PICK f \in [0 .. N -> Nat] : Follows(f, N, 0, g)
  BY <1>1, <1>4, NatRecursion
<1>6. ASSUME NEW m \in 0 .. N PROVE f[m] = IF m = 0 THEN 0 ELSE f[m - 1] + b[m].spent
  <2>1. f[m] = IF m = 0 THEN 0 ELSE g[m][f[m - 1]]
    BY <1>5 DEF Follows
  <2>2. CASE m # 0
    <3>1. m \in 1 .. N /\ m - 1 \in 0 .. N
      BY <2>2, <1>1
    <3>2. f[m - 1] \in Nat
      BY <3>1
    <3> QED BY <2>1, <2>2, <3>1, <3>2, <1>4
  <2> QED BY <2>1, <2>2
<1>7. f = [n \in 0 .. N |-> IF n = 0 THEN 0 ELSE f[n - 1] + b[n].spent]
  BY <1>6
<1>8. spent = [n \in 0 .. N |-> IF n = 0 THEN 0 ELSE spent[n - 1] + b[n].spent]
  BY <1>7
<1> HIDE DEF spent
<1>9. spent \in [0 .. N -> Nat]
  <2> DEFINE S == {k \in Nat : k <= N => spent[k] \in Nat}
  <2>1. 0 \in S
    BY <1>1, <1>8
  <2>2. ASSUME NEW k \in Nat, k \in S PROVE k + 1 \in S
    <3> SUFFICES ASSUME k + 1 <= N PROVE spent[k + 1] \in Nat
      OBVIOUS
    <3>1. spent[k] \in Nat
      BY <2>2, <1>1
    <3>2. k + 1 \in 0 .. N /\ k + 1 # 0 /\ (k + 1) - 1 = k /\ k + 1 \in 1 .. N
      BY <1>1
    <3>3. spent[k + 1] = spent[k] + b[k + 1].spent
      BY <1>8, <3>2
    <3> QED BY <3>1, <3>2, <3>3, <1>3
  <2>3. Nat \subseteq S
    <3> HIDE DEF S
    <3> QED BY <2>1, <2>2, NatSetInduction
  <2>4. \A k \in 0 .. N : spent[k] \in Nat
    BY <2>3, <1>1
  <2>5. DOMAIN spent = 0 .. N /\ spent = [k \in 0 .. N |-> spent[k]]
    BY <1>8
  <2> QED BY <2>4, <2>5
<1>10. Sums(spent, b)
  <2>1. spent[0] = 0
    BY <1>1, <1>8
  <2>2. ASSUME NEW n \in 1 .. N PROVE spent[n] = spent[n - 1] + b[n].spent
    <3>1. n \in 0 .. N /\ n # 0
      BY <1>1
    <3> QED BY <1>8, <3>1
  <2> QED BY <2>1, <2>2, <1>9 DEF Sums
<1> QED BY <1>2, <1>10

LEMMA SpentNat ==
    ASSUME NEW b \in [Budgets -> Budget]
    PROVE  TotalSpent(b) \in Nat
<1>1. PICK f : Sums(f, b) /\ TotalSpent(b) = f[BUDGET_NAMED + 1]
  BY SpentOK
<1>2. BUDGET_NAMED \in Nat
  BY TacAssumption
<1>3. BUDGET_NAMED + 1 \in 0 .. BUDGET_NAMED + 1
  BY <1>2
<1> QED BY <1>1, <1>3 DEF Sums

\* A payment from one budget adds to what has been spent.
LEMMA SpentMore ==
    ASSUME NEW b \in [Budgets -> Budget], NEW c \in Budgets, NEW d \in Nat,
           NEW b2 \in [Budgets -> Budget], b2[c].spent = b[c].spent + d,
           \A i \in Budgets \ {c} : b2[i] = b[i]
    PROVE  TotalSpent(b) \in Nat /\ TotalSpent(b2) = TotalSpent(b) + d
<1> DEFINE N == BUDGET_NAMED + 1
<1>1. N \in Nat /\ Budgets = 1 .. N /\ c \in 1 .. N
  BY TacAssumption DEF Budgets
<1>2. PICK f : Sums(f, b) /\ TotalSpent(b) = f[N]
  BY SpentOK
<1>3. PICK h : Sums(h, b2) /\ TotalSpent(b2) = h[N]
  BY SpentOK
<1>4. /\ f \in [0 .. N -> Nat] /\ f[0] = 0 /\ \A n \in 1 .. N : f[n] = f[n - 1] + b[n].spent
      /\ h \in [0 .. N -> Nat] /\ h[0] = 0 /\ \A n \in 1 .. N : h[n] = h[n - 1] + b2[n].spent
  BY <1>2, <1>3 DEF Sums
<1>5. \A n \in 1 .. N : b[n].spent \in Nat
  <2>1. \A n \in 1 .. N : b[n] \in Budget
    BY <1>1
  <2> QED BY <2>1, TacAssumption DEF Budget
<1> HIDE DEF N
<1> DEFINE S == {k \in Nat : k <= N => h[k] = IF k < c THEN f[k] ELSE f[k] + d}
<1>6. 0 \in S
  BY <1>1, <1>4
<1>7. ASSUME NEW k \in Nat, k \in S PROVE k + 1 \in S
  <2> SUFFICES ASSUME k + 1 <= N PROVE h[k + 1] = IF k + 1 < c THEN f[k + 1] ELSE f[k + 1] + d
    OBVIOUS
  <2>1. /\ k + 1 \in 1 .. N /\ (k + 1) - 1 = k /\ k <= N /\ k \in 0 .. N
    BY <1>1
  <2>2. h[k] = IF k < c THEN f[k] ELSE f[k] + d
    BY <1>7, <2>1
  <2>3. f[k + 1] = f[k] + b[k + 1].spent /\ h[k + 1] = h[k] + b2[k + 1].spent
    BY <1>4, <2>1
  <2>4. f[k] \in Nat /\ b[k + 1].spent \in Nat /\ c \in Nat
    BY <1>1, <1>4, <1>5, <2>1
  <2>5. CASE k + 1 = c
    <3>1. b2[k + 1].spent = b[k + 1].spent + d
      BY <2>5
    <3>2. h[k] = f[k]
      BY <2>2, <2>4, <2>5
    <3> DEFINE u == b[k + 1].spent
               v == f[k]
    <3>3. h[k + 1] = v + (u + d) /\ f[k + 1] = v + u /\ u \in Nat /\ v \in Nat
      BY <2>3, <2>4, <3>1, <3>2
    <3> HIDE DEF u, v
    <3>4. h[k + 1] = f[k + 1] + d
      BY <3>3
    <3> QED BY <2>4, <2>5, <3>4
  <2>6. CASE k + 1 # c
    <3>1. b2[k + 1].spent = b[k + 1].spent
      BY <2>6, <2>1, <1>1
    <3> DEFINE u == b[k + 1].spent
               v == f[k]
    <3>2. /\ h[k + 1] = h[k] + u /\ f[k + 1] = v + u /\ u \in Nat /\ v \in Nat
          /\ h[k] = IF k < c THEN v ELSE v + d
      BY <2>2, <2>3, <2>4, <3>1
    <3> HIDE DEF u, v
    <3> QED BY <3>2, <2>4, <2>6
  <2> QED BY <2>5, <2>6
<1>8. N \in S
  <2>1. Nat \subseteq S
    <3> HIDE DEF S
    <3> QED BY <1>6, <1>7, NatSetInduction
  <2> QED BY <2>1, <1>1
<1>9. h[N] = f[N] + d /\ f[N] \in Nat
  <2>1. ~ (N < c) /\ N <= N /\ N \in 0 .. N
    BY <1>1
  <2> QED BY <1>4, <1>8, <2>1
<1> QED BY <1>2, <1>3, <1>9 DEF N

\* The budgets of an edge that somebody uses.
Used(b) == {i \in Budgets : b[i].src # SRC_NONE}

\* Budgets b tell what sources w have paid: a named one belongs to one source,
\* and the shared one is used once there are more sources than names.
Witnessed(b, w) ==
  /\ \A i, j \in Named : b[i].src # SRC_NONE /\ b[i].src = b[j].src => i = j
  /\ \A i \in Named : b[i].src # SRC_NONE => b[i].src \in w
  /\ b[BUDGET_NAMED + 1].src = SRC_NONE => \A s \in w : \E i \in Named : b[i].src = s
  /\ b[BUDGET_NAMED + 1].src # SRC_NONE =>
       /\ \A i \in Named : b[i].src # SRC_NONE
       /\ \E s \in w : \A i \in Named : b[i].src # s

LEMMA ChargeFacts ==
    ASSUME NEW b \in [Budgets -> Budget], NEW s \in 1 .. SRC_OTHER - 1, NEW d \in Nat,
           Affords(b, s, d)
    PROVE  LET c == ChargedTo(b, s)
               b2 == budget_charge(b, s, d)
           IN  /\ c \in Budgets /\ b2[c].spent = b[c].spent + d
               /\ \A i \in Budgets \ {c} : b2[i] = b[i]
               /\ b[c].src # SRC_NONE => b2[c].src = b[c].src
               /\ b[c].src = SRC_NONE => b2[c].src = IF c \in Named THEN s ELSE SRC_OTHER
<1> DEFINE c == ChargedTo(b, s)
           src == CASE b[c].src # SRC_NONE -> b[c].src
                    [] c \in Named -> s
                    [] OTHER -> SRC_OTHER
<1>0. s \in Nat
  BY TacAssumption
<1>1. c \in Budgets
  BY <1>0, ChargedToOK
<1>2. budget_charge(b, s, d) = [b EXCEPT ![c] = [src |-> src, spent |-> b[c].spent + d]]
  <2>1. budget_charge(b, s, d) =
          [b EXCEPT ![c] = [src |-> CASE b[c].src # SRC_NONE -> b[c].src
                                      [] c \in Named -> s
                                      [] OTHER -> SRC_OTHER,
                            spent |-> b[c].spent + d]]
    BY <1>1 DEF budget_charge
  <2> QED BY <2>1
<1>3. b[c].src = SRC_NONE => src = IF c \in Named THEN s ELSE SRC_OTHER
  OBVIOUS
<1>4. c \in Named /\ b[c].src # SRC_NONE => b[c].src = s
  <2>1. BUDGET_NAMED + 1 \notin Named
    BY TacAssumption DEF Named
  <2> QED BY <1>0, <2>1, ChargedToOK
<1>5. b[c].src # SRC_NONE => src = b[c].src
  <2>1. CASE c \in Named
    BY <1>4, <2>1
  <2>2. CASE c \notin Named
    BY <2>2
  <2> QED BY <2>1, <2>2
<1> HIDE DEF src
<1> DEFINE b2 == budget_charge(b, s, d)
<1>6. b2[c] = [src |-> src, spent |-> b[c].spent + d] /\ \A i \in Budgets \ {c} : b2[i] = b[i]
  BY <1>1, <1>2
<1>7. b2[c].src = src /\ b2[c].spent = b[c].spent + d
  BY <1>6
<1> QED BY <1>1, <1>3, <1>5, <1>6, <1>7

\* A source that can pay is told from then on.
LEMMA ChargeWitnessed ==
    ASSUME NEW b \in [Budgets -> Budget], NEW s \in 1 .. SRC_OTHER - 1, NEW d \in Nat,
           NEW w \in SUBSET (1 .. SRC_OTHER - 1), Witnessed(b, w), Affords(b, s, d)
    PROVE  /\ Witnessed(budget_charge(b, s, d), w \cup {s})
           /\ Used(b) \subseteq Used(budget_charge(b, s, d))
           /\ TotalSpent(budget_charge(b, s, d)) = TotalSpent(b) + d
           /\ TotalSpent(b) \in Nat
<1> DEFINE c == ChargedTo(b, s)
           b2 == budget_charge(b, s, d)
           last == BUDGET_NAMED + 1
<1>0. s \in Nat /\ s # SRC_NONE /\ SRC_OTHER # SRC_NONE
  BY TacAssumption DEF SRC_NONE
<1>1. /\ c \in Budgets /\ b2[c].spent = b[c].spent + d
      /\ \A i \in Budgets \ {c} : b2[i] = b[i]
      /\ b[c].src # SRC_NONE => b2[c].src = b[c].src
      /\ b[c].src = SRC_NONE => b2[c].src = IF c \in Named THEN s ELSE SRC_OTHER
  BY ChargeFacts
<1>2. last \notin Named /\ last \in Budgets /\ Named \subseteq Budgets
  <2>1. BUDGET_NAMED \in Nat
    BY TacAssumption
  <2> QED BY <2>1 DEF Named, Budgets
<1>3. b2 \in [Budgets -> Budget]
  BY ChargeOK
<1>4. TotalSpent(b2) = TotalSpent(b) + d /\ TotalSpent(b) \in Nat
  <2> HIDE DEF c, b2
  <2> QED BY <1>1, <1>3, SpentMore
<1>5. Used(b) \subseteq Used(b2)
  <2> HIDE DEF c, b2
  <2> QED BY <1>1 DEF Used
<1>6. Witnessed(b2, w \cup {s})
  <2>1. CASE \E i \in Named : b[i].src = s
    <3>1. c \in Named /\ b[c].src = s
      BY <2>1, <1>0, ChargedToOK
    <3> HIDE DEF c, b2
    <3>2. \A i \in Budgets : b2[i].src = b[i].src
      BY <3>1, <1>0, <1>1
    <3> HIDE DEF last
    <3> QED BY <2>1, <3>2, <1>2 DEF Witnessed, last
  <2>2. CASE /\ \A i \in Named : b[i].src # s
             /\ \E i \in Named : b[i].src = SRC_NONE
    <3>1. c \in Named /\ b[c].src = SRC_NONE
      BY <2>2, <1>0, ChargedToOK
    <3> HIDE DEF c, b2
    <3>2. b2[c].src = s /\ \A i \in Budgets \ {c} : b2[i].src = b[i].src
      BY <3>1, <1>1
    <3>3. b[last].src = SRC_NONE /\ b2[last].src = SRC_NONE
      BY <2>2, <3>1, <3>2, <1>2 DEF Witnessed
    <3>4. \A t \in w : \E i \in Named : b[i].src = t /\ i # c
      <4>1. \A t \in w : \E i \in Named : b[i].src = t
        BY <3>3 DEF Witnessed
      <4>2. \A t \in w : t # SRC_NONE
        BY DEF SRC_NONE
      <4> QED BY <4>1, <4>2, <3>1
    <3>5. ASSUME NEW i \in Named, NEW j \in Named, b2[i].src # SRC_NONE, b2[i].src = b2[j].src
          PROVE  i = j
      BY <2>2, <3>1, <3>2, <3>5, <1>2 DEF Witnessed
    <3>6. ASSUME NEW i \in Named, b2[i].src # SRC_NONE PROVE b2[i].src \in w \cup {s}
      BY <3>1, <3>2, <3>6, <1>2 DEF Witnessed
    <3>7. \A t \in w \cup {s} : \E i \in Named : b2[i].src = t
      BY <3>1, <3>2, <3>4, <1>2
    <3> HIDE DEF last
    <3> QED BY <3>3, <3>5, <3>6, <3>7 DEF Witnessed, last
  <2>3. CASE \A i \in Named : b[i].src # s /\ b[i].src # SRC_NONE
    <3>1. c = last
      BY <2>3, <1>0, ChargedToOK
    <3> HIDE DEF c, b2
    <3>2. b2[last].src # SRC_NONE /\ \A i \in Named : b2[i].src = b[i].src
      BY <3>1, <1>0, <1>1, <1>2
    <3> HIDE DEF last
    <3> QED BY <2>3, <3>2 DEF Witnessed, last
  <2> QED BY <2>1, <2>2, <2>3
<1> QED BY <1>4, <1>5, <1>6

\* A charge, paid or refused.
LEMMA ChargeEither ==
    ASSUME NEW b \in [Budgets -> Budget], NEW s \in 1 .. SRC_OTHER - 1, NEW d \in Nat,
           NEW w \in SUBSET (1 .. SRC_OTHER - 1), Witnessed(b, w),
           NEW P, P = IF Affords(b, s, d) THEN {s} ELSE {}
    PROVE  /\ Witnessed(budget_charge(b, s, d), w \cup P)
           /\ Used(b) \subseteq Used(budget_charge(b, s, d))
           /\ TotalSpent(b) \in Nat /\ TotalSpent(budget_charge(b, s, d)) \in Nat
           /\ TotalSpent(budget_charge(b, s, d)) >= TotalSpent(b)
           /\ P # {} => TotalSpent(budget_charge(b, s, d)) >= TotalSpent(b) + d
<1>1. CASE Affords(b, s, d)
  <2>1. P = {s}
    BY <1>1
  <2>2. /\ Witnessed(budget_charge(b, s, d), w \cup {s})
        /\ Used(b) \subseteq Used(budget_charge(b, s, d))
        /\ TotalSpent(budget_charge(b, s, d)) = TotalSpent(b) + d
        /\ TotalSpent(b) \in Nat
    BY <1>1, ChargeWitnessed
  <2> QED BY <2>1, <2>2
<1>2. CASE ~ Affords(b, s, d)
  <2>1. P = {} /\ w \cup P = w /\ budget_charge(b, s, d) = b
    BY <1>2 DEF budget_charge
  <2>2. TotalSpent(b) \in Nat
    BY SpentNat
  <2>3. TotalSpent(b) >= TotalSpent(b)
    BY <2>2
  <2>4. Witnessed(budget_charge(b, s, d), w \cup P)
    BY <2>1
  <2>5. P = {} /\ budget_charge(b, s, d) = b
    BY <2>1
  <2> QED BY <2>2, <2>3, <2>4, <2>5
<1> QED BY <1>1, <1>2

\* The same for a reinforcement: whoever pays is told from then on, and what is
\* paid is at least the weight the edge gains.
LEMMA ChargedWitnessed ==
    ASSUME NEW b \in [Budgets -> Budget], NEW j \in JobT,
           NEW w \in SUBSET (1 .. SRC_OTHER - 1), Witnessed(b, w)
    PROVE  /\ Witnessed(Charged(b, j), w \cup Payers(b, j))
           /\ Used(b) \subseteq Used(Charged(b, j))
           /\ NewSources(b, j) = Used(Charged(b, j)) \ Used(b)
           /\ TotalSpent(b) \in Nat /\ TotalSpent(Charged(b, j)) \in Nat
           /\ Payers(b, j) # {} => TotalSpent(Charged(b, j)) >= TotalSpent(b) + Delta(j)
<1> DEFINE d == Delta(j)
           b0 == budget_charge(b, j.src0, d)
           P0 == IF Affords(b, j.src0, d) THEN {j.src0} ELSE {}
           P1 == IF Affords(b0, j.src1, d) THEN {j.src1} ELSE {}
<1>0. /\ j.src0 \in 1 .. SRC_OTHER - 1 /\ j.src1 \in 0 .. SRC_OTHER - 1 /\ SRC_OTHER \in Nat
  BY TacAssumption DEF JobT
<1>1. d \in Nat
  BY DeltaNat
<1>2. /\ Charged(b, j) = IF Second(j) = {} THEN b0 ELSE budget_charge(b0, j.src1, d)
      /\ Payers(b, j) = P0 \cup {s \in Second(j) : Affords(b0, s, d)}
  BY DEF Charged, Payers
<1>3. b0 \in [Budgets -> Budget] /\ w \cup P0 \in SUBSET (1 .. SRC_OTHER - 1)
  BY <1>0, <1>1, ChargeOK
<1>4. /\ Witnessed(b0, w \cup P0) /\ Used(b) \subseteq Used(b0)
      /\ TotalSpent(b) \in Nat /\ TotalSpent(b0) \in Nat
      /\ TotalSpent(b0) >= TotalSpent(b)
      /\ P0 # {} => TotalSpent(b0) >= TotalSpent(b) + d
  <2> HIDE DEF d
  <2>1. \A P : P = P0 => /\ Witnessed(b0, w \cup P) /\ Used(b) \subseteq Used(b0)
                         /\ TotalSpent(b) \in Nat /\ TotalSpent(b0) \in Nat
                         /\ TotalSpent(b0) >= TotalSpent(b)
                         /\ P # {} => TotalSpent(b0) >= TotalSpent(b) + d
    BY <1>0, <1>1, ChargeEither
  <2> HIDE DEF P0, b0
  <2> QED BY <2>1
<1>5. NewSources(b, j) = Used(Charged(b, j)) \ Used(b)
  BY DEF NewSources, Used
<1>6. CASE Second(j) = {}
  <2>1. Charged(b, j) = b0 /\ Payers(b, j) = P0
    BY <1>2, <1>6
  <2> HIDE DEF b0, P0, d
  <2> QED BY <2>1, <1>4, <1>5 DEF d
<1>7. CASE Second(j) # {}
  <2>1. j.src1 \in 1 .. SRC_OTHER - 1 /\ Second(j) = {j.src1}
    BY <1>0, <1>7 DEF Second, SRC_NONE
  <2>2. Charged(b, j) = budget_charge(b0, j.src1, d) /\ Payers(b, j) = P0 \cup P1
    BY <1>2, <2>1
  <2> DEFINE b1 == budget_charge(b0, j.src1, d)
             w0 == w \cup P0
  <2> HIDE DEF b0, P0, d, w0
  <2>3. b0 \in [Budgets -> Budget] /\ w0 \in SUBSET (1 .. SRC_OTHER - 1) /\ Witnessed(b0, w0)
    BY <1>3, <1>4 DEF w0
  <2>4. \A P : P = P1 => /\ Witnessed(b1, w0 \cup P) /\ Used(b0) \subseteq Used(b1)
                         /\ TotalSpent(b1) \in Nat /\ TotalSpent(b1) >= TotalSpent(b0)
                         /\ P # {} => TotalSpent(b1) >= TotalSpent(b0) + d
    BY <2>1, <2>3, <1>1, ChargeEither
  <2> HIDE DEF P1, b1
  <2>5. /\ Witnessed(b1, w0 \cup P1) /\ Used(b0) \subseteq Used(b1)
        /\ TotalSpent(b1) \in Nat /\ TotalSpent(b1) >= TotalSpent(b0)
        /\ P1 # {} => TotalSpent(b1) >= TotalSpent(b0) + d
    BY <2>4
  <2>6. w0 \cup P1 = w \cup Payers(b, j) /\ Charged(b, j) = b1
    BY <2>2 DEF w0, b1
  <2>7. Witnessed(Charged(b, j), w \cup Payers(b, j)) /\ Used(b) \subseteq Used(b1)
    BY <2>5, <2>6, <1>4
  <2>8. Payers(b, j) # {} => TotalSpent(b1) >= TotalSpent(b) + d
    <3> DEFINE t == TotalSpent(b)
               t0 == TotalSpent(b0)
               t1 == TotalSpent(b1)
    <3>1. /\ t \in Nat /\ t0 \in Nat /\ t1 \in Nat /\ t0 >= t /\ t1 >= t0
          /\ P0 # {} => t0 >= t + d
          /\ P1 # {} => t1 >= t0 + d
      BY <1>4, <2>5
    <3> HIDE DEF t, t0, t1
    <3>2. Payers(b, j) # {} => P0 # {} \/ P1 # {}
      BY <2>2
    <3>3. P0 # {} \/ P1 # {} => t1 >= t + d
      BY <3>1, <1>1
    <3> QED BY <3>2, <3>3 DEF t, t1
  <2> QED BY <2>5, <2>6, <2>7, <2>8, <1>4, <1>5 DEF d
<1> QED BY <1>6, <1>7

\* Budgets of a new edge: its first witness can always pay.
LEMMA NoBudgetWitnessed ==
    /\ Witnessed(NoBudget, {}) /\ Used(NoBudget) = {}
    /\ \A j \in JobT : Payers(NoBudget, j) # {}
<1>1. BUDGET_NAMED \in Nat
  BY TacAssumption
<1>2. Named \subseteq Budgets /\ BUDGET_NAMED + 1 \in Budgets
  BY <1>1 DEF Named, Budgets
<1>3. \A i \in Budgets : NoBudget[i].src = SRC_NONE /\ NoBudget[i].spent = 0
  BY DEF NoBudget
<1>4. Witnessed(NoBudget, {}) /\ Used(NoBudget) = {}
  BY <1>2, <1>3 DEF Witnessed, Used
<1>5. ASSUME NEW j \in JobT PROVE Payers(NoBudget, j) # {}
  <2>1. j.src0 \in 1 .. SRC_OTHER - 1 /\ SRC_OTHER \in Nat
    BY TacAssumption DEF JobT
  <2>2. ChargedTo(NoBudget, j.src0) \in Budgets
    BY <2>1, NoBudgetOK, ChargedToOK
  <2>3. Delta(j) \in Nat /\ Delta(j) <= BudgetPerSource
    BY DeltaNat
  <2>4. Affords(NoBudget, j.src0, Delta(j))
    BY <2>2, <2>3, <1>3 DEF Affords
  <2> QED BY <2>4 DEF Payers
<1> QED BY <1>4, <1>5

\* As many budgets are used as sources have paid, up to the number there are.
LEMMA UsedCount ==
    ASSUME NEW b \in [Budgets -> Budget], NEW w \in SUBSET (1 .. SRC_OTHER - 1),
           Witnessed(b, w)
    PROVE  /\ IsFiniteSet(Used(b)) /\ Cardinality(w) \in Nat
           /\ Cardinality(Used(b)) = Lower(Cardinality(w), BUDGET_NAMED + 1)
<1> DEFINE last == BUDGET_NAMED + 1
           U == {i \in Named : b[i].src # SRC_NONE}
           D == {b[i].src : i \in U}
<1>0. BUDGET_NAMED \in Nat /\ SRC_OTHER \in Nat /\ last \in Nat
  BY TacAssumption
<1>1. Named \subseteq Budgets /\ last \in Budgets /\ Budgets = Named \cup {last}
      /\ last \notin Named
  BY <1>0 DEF Named, Budgets
<1>2. IsFiniteSet(w) /\ Cardinality(w) \in Nat
  <2>1. IsFiniteSet(1 .. SRC_OTHER - 1)
    BY <1>0, FS_Interval
  <2>2. IsFiniteSet(w)
    BY <2>1, FS_Subset
  <2> QED BY <2>2, FS_CardinalityType
<1>3. IsFiniteSet(Named) /\ Cardinality(Named) = BUDGET_NAMED
  <2>1. IsFiniteSet(1 .. BUDGET_NAMED)
    BY <1>0, FS_Interval
  <2>2. Cardinality(1 .. BUDGET_NAMED) = IF 1 > BUDGET_NAMED THEN 0 ELSE BUDGET_NAMED - 1 + 1
    BY <1>0, FS_Interval
  <2> QED BY <2>1, <2>2, <1>0 DEF Named
<1>4. IsFiniteSet(U) /\ Cardinality(U) <= BUDGET_NAMED /\ Cardinality(U) \in Nat
  <2>1. U \in SUBSET Named
    OBVIOUS
  <2>2. IsFiniteSet(U) /\ Cardinality(U) <= Cardinality(Named)
    <3> HIDE DEF U
    <3> QED BY <2>1, <1>3, FS_Subset
  <2>3. Cardinality(U) \in Nat
    BY <2>2, FS_CardinalityType
  <2> QED BY <2>2, <2>3, <1>3
<1>5. IsFiniteSet(D) /\ Cardinality(D) = Cardinality(U)
  <2> DEFINE f == [i \in U |-> b[i].src]
  <2>1. f \in [U -> D]
    OBVIOUS
  <2>2. \A p, q \in U : f[p] = f[q] => p = q
    BY DEF Witnessed
  <2>3. \A t \in D : \E p \in U : f[p] = t
    OBVIOUS
  <2> HIDE DEF f, U, D
  <2>4. f \in Bijection(U, D)
    BY <2>1, <2>2, <2>3 DEF Bijection, Injection, IsInjective, Surjection
  <2>5. ExistsBijection(U, D)
    BY <2>4 DEF ExistsBijection
  <2> QED BY <2>5, <1>4, FS_Bijection
<1>6. D \subseteq w
  BY DEF Witnessed
<1>7. IsFiniteSet(Used(b))
  BY BudgetCount DEF Used
<1>8. CASE b[last].src = SRC_NONE
  <2>1. Used(b) = U
    BY <1>1, <1>8 DEF Used
  <2>2. ASSUME NEW s \in w PROVE s \in D
    <3>1. PICK i \in Named : b[i].src = s
      BY <1>8 DEF Witnessed
    <3>2. s # SRC_NONE
      BY <1>0 DEF SRC_NONE
    <3> QED BY <3>1, <3>2
  <2>3. D = w
    BY <2>2, <1>6
  <2> HIDE DEF U, D
  <2>4. Cardinality(w) = Cardinality(Used(b)) /\ Cardinality(w) <= BUDGET_NAMED
    BY <2>1, <2>3, <1>4, <1>5
  <2>5. Cardinality(w) < last
    BY <2>4, <1>0, <1>2
  <2> QED BY <2>4, <2>5, <1>2, <1>7 DEF Lower
<1>9. CASE b[last].src # SRC_NONE
  <2>1. U = Named /\ Used(b) = Budgets
    BY <1>1, <1>9 DEF Witnessed, Used
  <2>2. PICK s \in w : \A i \in Named : b[i].src # s
    BY <1>9 DEF Witnessed
  <2>3. s \notin D
    BY <2>2
  <2> HIDE DEF U, D
  <2>4. Cardinality(D \cup {s}) = BUDGET_NAMED + 1
    <3>1. Cardinality(D) = BUDGET_NAMED
      BY <2>1, <1>3, <1>5
    <3> QED BY <2>3, <3>1, <1>5, FS_AddElement
  <2>5. D \cup {s} \in SUBSET w
    BY <1>6
  <2>6. Cardinality(D \cup {s}) <= Cardinality(w)
    BY <2>5, <1>2, FS_Subset
  <2>7. Cardinality(Budgets) = BUDGET_NAMED + 1
    <3>1. Budgets = Named \cup {last}
      BY <1>1
    <3> HIDE DEF last
    <3>2. Cardinality(Named \cup {last}) = BUDGET_NAMED + 1
      BY <1>1, <1>3, FS_AddElement
    <3> QED BY <3>1, <3>2
  <2>8. ~ (Cardinality(w) < last)
    BY <2>4, <2>6, <1>0, <1>2
  <2> QED BY <2>1, <2>7, <2>8, <1>2, <1>7 DEF Lower
<1> QED BY <1>8, <1>9

\* An edge with budgets and witnesses that tell, and n more paid than it weighs.
Paid(e, w, n) ==
  Witnessed(e.budget, w) /\ w # {} /\ e.weight + n <= TotalSpent(e.budget)

\* An edge nobody is working on.
Rest(e, w) ==
  /\ Paid(e, w, 0)
  /\ e.src = Cardinality(Used(e.budget))
  /\ e.quarantine => Cardinality(w) = 1

\* How far the work on an edge has come.
Progress(pc, e, w, j, fresh) ==
  /\ pc = "weigh" => /\ Paid(e, w, Delta(j)) /\ fresh \subseteq Used(e.budget)
                     /\ e.src = Cardinality(Used(e.budget) \ fresh)
  /\ pc = "reassess" => Paid(e, w, 0) /\ e.src = Cardinality(Used(e.budget))
  /\ pc = "name" => e.budget = Charged(NoBudget, j)
  /\ pc \in {"list", "publish"} => e.src = Cardinality(Used(e.budget))
  /\ pc \in {"name", "list", "publish"} =>
       /\ Witnessed(e.budget, w) /\ w # {} /\ Delta(j) <= TotalSpent(e.budget)
       /\ ~ e.quarantine

Working == writer.pc \in {"weigh", "reassess"} \cup Inserting

Busy == IF Working THEN {writer.slot} ELSE {}

Calm == QuarantineMinW = 0 => \A i \in Slots : ~ entries[i].quarantine

AtRest == \A i \in Slots \ broken : i \notin Busy /\ IsLive(entries[i]) => Rest(entries[i], who[i])

InWork == Working /\ writer.slot \notin broken =>
            Progress(writer.pc, entries[writer.slot], who[writer.slot], writer.job, writer.fresh)

\* Every edge no crash has cut short is at rest, or the writer is at work on it.
WitnessInv == AtRest /\ Calm /\ InWork

\* A step that touches no slot but i, and mends none but i.
SameBut(i) ==
  \A k \in Slots \ {i} : /\ entries'[k] = entries[k] /\ who'[k] = who[k]
                         /\ k \in broken => k \in broken'

\* A step after which the writer is at work.
LEMMA StepIn ==
    ASSUME WitnessInv, Working', Busy \subseteq {writer'.slot}, SameBut(writer'.slot),
           Calm', InWork'
    PROVE  WitnessInv'
<1>1. Busy' = {writer'.slot}
  BY DEF Busy
<1> SUFFICES ASSUME NEW k \in Slots, k \notin broken', k \notin Busy', IsLive(entries'[k])
             PROVE  Rest(entries'[k], who'[k])
  BY DEF WitnessInv, AtRest
<1>2. k # writer'.slot /\ k \notin Busy
  BY <1>1
<1>3. entries'[k] = entries[k] /\ who'[k] = who[k] /\ k \notin broken
  BY <1>2 DEF SameBut
<1> QED BY <1>2, <1>3 DEF WitnessInv, AtRest

\* A step that leaves the edge of slot i to itself.
LEMMA StepOut ==
    ASSUME WitnessInv, NEW i, ~ Working', Busy \subseteq {i}, SameBut(i), Calm',
           i \in Slots /\ i \notin broken' /\ IsLive(entries'[i]) => Rest(entries'[i], who'[i])
    PROVE  WitnessInv'
<1>1. InWork'
  BY DEF InWork
<1> SUFFICES ASSUME NEW k \in Slots, k \notin broken', IsLive(entries'[k])
             PROVE  Rest(entries'[k], who'[k])
  BY <1>1 DEF WitnessInv, AtRest
<1>2. CASE k = i
  BY <1>2
<1>3. CASE k # i
  <2>1. k \notin Busy
    BY <1>3
  <2>2. entries'[k] = entries[k] /\ who'[k] = who[k] /\ k \notin broken
    BY <1>3 DEF SameBut
  <2> QED BY <2>1, <2>2 DEF WitnessInv, AtRest
<1> QED BY <1>2, <1>3

\* A store that puts no edge in quarantine, unless quarantine is enabled.
LEMMA CalmStore ==
    ASSUME TInv, Calm, NEW i \in Slots, NEW n, Set(i, n),
           QuarantineMinW = 0 /\ n.quarantine => entries[i].quarantine
    PROVE  Calm'
<1>1. entries'[i] = n /\ \A k \in Slots : k # i => entries'[k] = entries[k]
  BY DEF Set, TInv
<1> SUFFICES ASSUME QuarantineMinW = 0, NEW k \in Slots PROVE ~ entries'[k].quarantine
  BY DEF Calm
<1>2. CASE k = i
  BY <1>1, <1>2 DEF Calm
<1>3. CASE k # i
  BY <1>1, <1>3 DEF Calm
<1> QED BY <1>2, <1>3

LEMMA StoreSame ==
    ASSUME TInv, NEW i \in Slots, NEW n, Set(i, n), Bookkeeping
    PROVE  /\ SameBut(i) /\ entries'[i] = n
           /\ who' = who /\ broken' = broken
<1>1. entries'[i] = n /\ \A k \in Slots : k # i => entries'[k] = entries[k]
  BY DEF Set, TInv
<1>2. who' = who /\ broken' = broken
  BY DEF Bookkeeping
<1> QED BY <1>1, <1>2 DEF SameBut

LEMMA WitnessInit == Init => WitnessInv
<1> SUFFICES ASSUME Init PROVE WitnessInv
  OBVIOUS
<1>1. \A i \in Slots : entries[i] = Fresh
  BY DEF Init
<1>2. \A i \in Slots : ~ IsLive(entries[i]) /\ ~ entries[i].quarantine
  BY <1>1 DEF IsLive, Fresh
<1>3. writer.pc = "idle"
  BY DEF Init, Idle
<1>4. ~ Working
  BY <1>3 DEF Working, Inserting
<1> QED BY <1>2, <1>4 DEF WitnessInv, AtRest, Calm, InWork

\* The writer is done with a job, or never began one.
LEMMA NotWorking == \A l \in {"idle", "next", "decay"} : writer.pc = l => ~ Working
BY DEF Working, Inserting

LEMMA NotWorkingNext == \A l \in {"idle", "next", "decay"} : writer'.pc = l => ~ Working'
BY DEF Working, Inserting

LEMMA WitnessSame ==
    ASSUME WitnessInv, ~ Working, ~ Working', UNCHANGED <<entries, broken, who>>
    PROVE  WitnessInv'
BY DEF WitnessInv, AtRest, Calm, InWork, Busy

LEMMA WitnessCharge == TInv /\ TInv' /\ WitnessInv /\ ChargeExisting => WitnessInv'
<1> SUFFICES ASSUME TInv, TInv', WitnessInv, ChargeExisting PROVE WitnessInv'
  OBVIOUS
<1> DEFINE i == find_slot(Job.edge)
           e == entries[i]
           w == who[i]
           paid == ~ Refuses(e, Job) /\ Payers(e.budget, Job) # {}
<1>1. Take /\ i # NoSlot /\ UNCHANGED <<occ, crashes, drift, broken>>
  BY DEF ChargeExisting
<1>2. /\ Job \in JobT /\ Tail(writer.todo) \in Seq(JobT) /\ Job.edge \in Edges
  BY <1>1, TakeOK
<1>3. i \in Slots
  BY <1>1, <1>2, FindSlotOK
<1>4. /\ e \in Entry /\ e.budget \in [Budgets -> Budget]
      /\ w \in SUBSET (1 .. SRC_OTHER - 1)
  BY <1>3 DEF TInv, Entry
<1>5. ~ Working
  BY <1>1, NotWorking DEF Take, At
<1>6. CASE ~ paid
  <2>1. Continue(Tail(writer.todo)) /\ UNCHANGED <<entries, who>>
    BY <1>6 DEF ChargeExisting
  <2>2. writer'.pc \in {"idle", "next"}
    BY <2>1, <1>2, ContinueOK
  <2>3. ~ Working'
    BY <2>2, NotWorkingNext
  <2> QED BY <2>1, <2>3, <1>1, <1>5, WitnessSame
<1>7. CASE paid
  <2> DEFINE b == e.budget
             b2 == Charged(b, Job)
             P == Payers(b, Job)
  <2>1. /\ Set(i, [e EXCEPT !.budget = b2])
        /\ who' = [who EXCEPT ![i] = @ \cup P]
        /\ writer' = [writer EXCEPT !.pc = "weigh", !.job = Job, !.slot = i,
                        !.todo = Tail(@), !.fresh = NewSources(b, Job)]
        /\ P # {}
    BY <1>7 DEF ChargeExisting
  <2>2. writer \in WriterT /\ entries \in [Slots -> Entry]
        /\ who \in [Slots -> SUBSET (1 .. SRC_OTHER - 1)]
    BY DEF TInv, WriterOK
  <2> DEFINE n == [e EXCEPT !.budget = b2]
  <2>3. IsLive(e)
    <3>1. e.key = Job.edge
      BY <1>1, <1>2, FindSlotOK
    <3> QED BY <3>1, <1>2, TacAssumption DEF IsLive
  <2> HIDE DEF i
  <2>4. /\ writer'.pc = "weigh" /\ writer'.job = Job /\ writer'.slot = i
        /\ writer'.fresh = NewSources(b, Job)
    BY <2>1, <2>2 DEF WriterT
  <2>5. Working' /\ Busy = {} /\ Busy \subseteq {writer'.slot}
    BY <2>4, <1>5 DEF Working, Busy
  <2>6. n.budget = b2 /\ n.weight = e.weight /\ n.src = e.src /\ n.quarantine = e.quarantine
    BY <1>4 DEF Entry
  <2>7. /\ entries'[i] = n /\ \A k \in Slots \ {i} : entries'[k] = entries[k]
        /\ who'[i] = w \cup P /\ \A k \in Slots \ {i} : who'[k] = who[k]
    BY <2>1, <2>2, <1>3 DEF Set
  <2>8. SameBut(writer'.slot)
    BY <2>4, <2>7, <1>1 DEF SameBut
  <2>9. Calm'
    BY <2>1, <2>6, <1>3, CalmStore DEF WitnessInv
  <2>10. ASSUME i \notin broken PROVE Progress("weigh", n, w \cup P, Job, NewSources(b, Job))
    <3>1. Rest(e, w)
      BY <2>3, <2>5, <2>10, <1>3 DEF WitnessInv, AtRest
    <3>2. Witnessed(b, w) /\ e.weight + 0 <= TotalSpent(b) /\ e.src = Cardinality(Used(b))
      BY <3>1 DEF Rest, Paid
    <3> HIDE DEF e, w, n
    <3>3. /\ Witnessed(b2, w \cup P) /\ Used(b) \subseteq Used(b2)
          /\ NewSources(b, Job) = Used(b2) \ Used(b)
          /\ TotalSpent(b) \in Nat /\ TotalSpent(b2) \in Nat
          /\ TotalSpent(b2) >= TotalSpent(b) + Delta(Job)
      BY <2>1, <3>2, <1>2, <1>4, ChargedWitnessed
    <3> HIDE DEF b, b2, P
    <3>4. NewSources(b, Job) \subseteq Used(b2) /\ Used(b2) \ NewSources(b, Job) = Used(b)
      BY <3>3
    <3>5. n.weight + Delta(Job) <= TotalSpent(n.budget)
      <4>1. Delta(Job) \in Nat /\ e.weight \in Nat
        BY <1>2, <1>4, DeltaNat DEF Entry
      <4> QED BY <4>1, <2>6, <3>2, <3>3
    <3>6. w \cup P # {}
      BY <2>1
    <3>7. Paid(n, w \cup P, Delta(Job))
      BY <3>3, <3>5, <3>6, <2>6 DEF Paid
    <3>8. n.src = Cardinality(Used(n.budget) \ NewSources(b, Job))
      BY <3>2, <3>4, <2>6
    <3> QED BY <3>4, <3>7, <3>8, <2>6 DEF Progress
  <2>11. InWork'
    <3> HIDE DEF e, w, n, b, b2, P
    <3> QED BY <2>4, <2>7, <2>10, <1>1 DEF InWork
  <2> QED BY <2>5, <2>8, <2>9, <2>11, StepIn
<1> QED BY <1>6, <1>7

LEMMA WitnessWeigh == TInv /\ TInv' /\ WitnessInv /\ Weigh => WitnessInv'
<1> SUFFICES ASSUME TInv, TInv', WitnessInv, Weigh PROVE WitnessInv'
  OBVIOUS
<1> DEFINE i == writer.slot
           e == entries[i]
           w == who[i]
           d == Delta(writer.job)
           f == Cardinality(writer.fresh)
           n == [e EXCEPT !.weight = @ + d,
                          !.eta = Higher(@, EtaHi(writer.job)),
                          !.src = Lower(@ + f, BUDGET_NAMED + 1)]
<1>1. /\ writer.pc = "weigh" /\ Set(i, n) /\ Goto("reassess") /\ Bookkeeping
  BY DEF Weigh, At
<1>2. i \in Slots /\ e \in Entry /\ writer.job \in JobT
  BY <1>1, WorkOK
<1>3. writer'.pc = "reassess" /\ writer'.slot = i
  BY <1>1, GotoOK DEF TInv, WriterOK
<1>4. Working' /\ Working /\ Busy \subseteq {writer'.slot}
  BY <1>1, <1>3 DEF Working, Busy
<1>5. n.weight = e.weight + d /\ n.src = Lower(e.src + f, BUDGET_NAMED + 1)
      /\ n.budget = e.budget /\ n.quarantine = e.quarantine
  <2> HIDE DEF e, d, f
  <2> QED BY <1>2 DEF Entry
<1> HIDE DEF n
<1>6. SameBut(i) /\ entries'[i] = n /\ who' = who /\ broken' = broken
  BY <1>1, <1>2, StoreSame
<1>7. Calm'
  BY <1>1, <1>2, <1>5, CalmStore DEF WitnessInv
<1>8. ASSUME i \notin broken PROVE Paid(n, w, 0) /\ n.src = Cardinality(Used(n.budget))
  <2>1. Progress("weigh", e, w, writer.job, writer.fresh)
    BY <1>1, <1>4, <1>8 DEF WitnessInv, InWork
  <2>2. /\ Paid(e, w, d) /\ writer.fresh \subseteq Used(e.budget)
        /\ e.src = Cardinality(Used(e.budget) \ writer.fresh)
    BY <2>1 DEF Progress
  <2> DEFINE U == Used(e.budget)
  <2>3. IsFiniteSet(U) /\ IsFiniteSet(U \ writer.fresh) /\ IsFiniteSet(writer.fresh)
        /\ Cardinality(U) \in 0 .. BUDGET_NAMED + 1
    <3>1. U \in SUBSET Budgets /\ U \ writer.fresh \in SUBSET Budgets
          /\ writer.fresh \in SUBSET Budgets
      BY <2>2 DEF Used
    <3> QED BY <3>1, BudgetCount
  <2>4. e.src + f = Cardinality(U)
    <3> HIDE DEF U, e
    <3> DEFINE F == writer.fresh
               G == U \ F
    <3>1. F \cup G = U /\ F \cap G = {} /\ e.src = Cardinality(G)
          /\ f = Cardinality(F) /\ IsFiniteSet(F) /\ IsFiniteSet(G)
      BY <2>2, <2>3 DEF U
    <3> HIDE DEF F, G, f
    <3>2. Cardinality(F \cup G) = Cardinality(F) + Cardinality(G) - Cardinality(F \cap G)
      BY <3>1, FS_Union
    <3>3. Cardinality(F \cap G) = 0
      BY <3>1, FS_EmptySet
    <3>4. Cardinality(F) \in Nat /\ Cardinality(G) \in Nat
      BY <3>1, FS_CardinalityType
    <3>5. Cardinality(U) = Cardinality(F) + Cardinality(G) - 0
      BY <3>1, <3>2, <3>3
    <3>6. Cardinality(U) = Cardinality(G) + Cardinality(F)
      BY <3>4, <3>5
    <3> QED BY <3>1, <3>6
  <2>5. BUDGET_NAMED \in Nat
    BY TacAssumption
  <2>6. n.src = Cardinality(U)
    <3> HIDE DEF U, e, f
    <3> DEFINE c == Cardinality(U)
    <3>1. n.src = Lower(c, BUDGET_NAMED + 1) /\ c \in 0 .. BUDGET_NAMED + 1
      BY <1>5, <2>3, <2>4
    <3> HIDE DEF c
    <3>2. n.src = c
      BY <3>1, <2>5 DEF Lower
    <3> QED BY <3>2 DEF c
  <2>7. d \in Nat /\ e.weight \in Nat
    BY <1>2, DeltaNat DEF Entry
  <2>8. n.weight + 0 = e.weight + d
    BY <1>5, <2>7
  <2>9. Paid(n, w, 0)
    BY <2>2, <2>8, <1>5 DEF Paid
  <2> QED BY <2>6, <2>9, <1>5
<1>9. InWork'
  <2>1. i \notin broken => Progress("reassess", n, w, writer.job', writer.fresh')
    BY <1>8 DEF Progress
  <2> HIDE DEF e
  <2> QED BY <2>1, <1>3, <1>6 DEF InWork
<1> QED BY <1>3, <1>4, <1>6, <1>7, <1>9, StepIn

LEMMA WitnessReassess == TInv /\ TInv' /\ WitnessInv /\ Reassess => WitnessInv'
<1> SUFFICES ASSUME TInv, TInv', WitnessInv, Reassess PROVE WitnessInv'
  OBVIOUS
<1> DEFINE i == writer.slot
           e == entries[i]
           w == who[i]
           q == quarantine_reassess(e)
           n == [e EXCEPT !.quarantine = q]
<1>1. writer.pc = "reassess" /\ Set(i, n) /\ Continue(writer.todo) /\ Bookkeeping
  BY DEF Reassess, At
<1>2. i \in Slots /\ e \in Entry /\ writer.todo \in Seq(JobT)
      /\ w \in SUBSET (1 .. SRC_OTHER - 1) /\ e.budget \in [Budgets -> Budget]
  BY <1>1, WorkOK DEF TInv, WriterOK, WriterT, Entry
<1>3. ~ Working'
  <2>1. writer'.pc \in {"idle", "next"}
    BY <1>1, <1>2, ContinueOK
  <2> QED BY <2>1, NotWorkingNext
<1>4. Working /\ Busy \subseteq {i}
  BY <1>1 DEF Working, Busy
<1>5. n.weight = e.weight /\ n.src = e.src /\ n.budget = e.budget /\ n.quarantine = q
  <2> HIDE DEF e, q
  <2> QED BY <1>2 DEF Entry
<1>6. QuarantineMinW = 0 => q = e.quarantine
  BY DEF quarantine_reassess
<1> HIDE DEF n
<1>7. SameBut(i) /\ entries'[i] = n /\ who' = who /\ broken' = broken
  BY <1>1, <1>2, StoreSame
<1>8. Calm'
  <2> HIDE DEF q
  <2> QED BY <1>1, <1>2, <1>5, <1>6, CalmStore DEF WitnessInv
<1>9. ASSUME i \notin broken PROVE Rest(n, w)
  <2>1. Progress("reassess", e, w, writer.job, writer.fresh)
    BY <1>1, <1>4, <1>9 DEF WitnessInv, InWork
  <2>2. Paid(e, w, 0) /\ e.src = Cardinality(Used(e.budget))
    BY <2>1 DEF Progress
  <2>3. Paid(n, w, 0)
    BY <2>2, <1>5 DEF Paid
  <2>4. ASSUME q PROVE Cardinality(w) = 1
    <3>1. QuarantineMinW # 0
      BY <2>4, <1>2, <1>6 DEF WitnessInv, Calm
    <3>2. ~ (e.src >= 2)
      BY <2>4, <3>1 DEF quarantine_reassess
    <3>3. /\ Cardinality(w) \in Nat
          /\ Cardinality(Used(e.budget)) = Lower(Cardinality(w), BUDGET_NAMED + 1)
      BY <2>2, <1>2, UsedCount DEF Paid
    <3>4. BUDGET_NAMED \in Nat /\ BUDGET_NAMED # 0
      BY TacAssumption
    <3>5. w # {} /\ IsFiniteSet(w)
      <4>1. SRC_OTHER \in Nat
        BY TacAssumption
      <4>2. IsFiniteSet(1 .. SRC_OTHER - 1)
        BY <4>1, FS_Interval
      <4> QED BY <4>2, <2>2, <1>2, FS_Subset DEF Paid
    <3>6. Cardinality(w) # 0
      BY <3>5, FS_EmptySet
    <3> DEFINE c == Cardinality(w)
    <3>7. ~ (Lower(c, BUDGET_NAMED + 1) >= 2) /\ c \in Nat /\ c # 0
      BY <3>2, <3>3, <3>6, <2>2
    <3> HIDE DEF c
    <3>8. c = 1
      BY <3>4, <3>7 DEF Lower
    <3> QED BY <3>8 DEF c
  <2> QED BY <2>2, <2>3, <2>4, <1>5 DEF Rest
<1> HIDE DEF q
<1> QED BY <1>3, <1>4, <1>7, <1>8, <1>9, StepOut

LEMMA WitnessClaim == TInv /\ TInv' /\ WitnessInv /\ Claim => WitnessInv'
<1> SUFFICES ASSUME TInv, TInv', WitnessInv, Claim PROVE WitnessInv'
  OBVIOUS
<1> DEFINE i == FreeSlot(Job.edge)
           n == [entries[i] EXCEPT !.key = Job.edge]
<1>1. Take /\ Bookkeeping
  BY ClaimCases
<1>2. ~ Working /\ Busy = {}
  BY <1>1, NotWorking DEF Take, At, Busy
<1>3. \/ /\ Continue(Tail(writer.todo)) /\ UNCHANGED entries
         /\ Tail(writer.todo) \in Seq(JobT)
      \/ /\ i \in Slots /\ Set(i, n)
         /\ writer'.pc \in {"retire", "hide"} /\ writer'.slot = i
  BY ClaimCases
<1>4. CASE /\ Continue(Tail(writer.todo)) /\ UNCHANGED entries
           /\ Tail(writer.todo) \in Seq(JobT)
  <2>1. writer'.pc \in {"idle", "next"}
    BY <1>4, ContinueOK
  <2>2. ~ Working'
    BY <2>1, NotWorkingNext
  <2> QED BY <2>2, <1>1, <1>2, <1>4, WitnessSame DEF Bookkeeping
<1>5. CASE /\ i \in Slots /\ Set(i, n)
           /\ writer'.pc \in {"retire", "hide"} /\ writer'.slot = i
  <2>1. entries[i] \in Entry
    BY <1>5 DEF TInv
  <2> HIDE DEF i
  <2>2. n.quarantine = entries[i].quarantine
    BY <2>1 DEF Entry
  <2>3. SameBut(i)
    BY <1>1, <1>5, StoreSame
  <2>4. Calm'
    BY <1>5, <2>2, CalmStore DEF WitnessInv
  <2>5. Working'
    BY <1>5 DEF Working, Inserting
  <2>6. InWork'
    BY <1>5 DEF InWork, Progress
  <2> QED BY <1>2, <1>5, <2>3, <2>4, <2>5, <2>6, StepIn
<1> QED BY <1>3, <1>4, <1>5

\* A retired edge is no longer live, and owes nothing.
LEMMA WitnessRetire == TInv /\ TInv' /\ WitnessInv /\ Retire => WitnessInv'
<1> SUFFICES ASSUME TInv, TInv', WitnessInv, Retire PROVE WitnessInv'
  OBVIOUS
<1> DEFINE v == writer.victim
           n == [entries[v] EXCEPT !.weight = 0, !.key = TOMBSTONE]
<1>1. writer.pc = "retire" /\ Set(v, n) /\ Goto("unlist") /\ Bookkeeping
  BY DEF Retire, At
<1>2. v \in Slots /\ entries[v] \in Entry
  BY <1>1 DEF TInv, WriterOK
<1>3. writer'.pc = "unlist" /\ writer'.slot = writer.slot
  BY <1>1, GotoOK DEF TInv, WriterOK
<1>4. n.quarantine = entries[v].quarantine /\ n.key = TOMBSTONE
  BY <1>2 DEF Entry
<1> HIDE DEF v, n
<1>5. SameBut(v) /\ entries'[v] = n /\ who' = who /\ broken' = broken
  BY <1>1, <1>2, StoreSame
<1>6. Calm'
  BY <1>1, <1>2, <1>4, CalmStore DEF WitnessInv
<1>7. InWork'
  BY <1>3 DEF InWork, Progress
<1>8. Busy' = {writer.slot} /\ Busy = {writer.slot}
  BY <1>1, <1>3 DEF Busy, Working, Inserting
<1>9. ~ IsLive(entries'[v])
  BY <1>4, <1>5 DEF IsLive
<1>10. AtRest'
  <2> SUFFICES ASSUME NEW k \in Slots, k \notin broken', k \notin Busy', IsLive(entries'[k])
               PROVE  Rest(entries'[k], who'[k])
    BY DEF AtRest
  <2>1. k # v
    BY <1>9
  <2>2. entries'[k] = entries[k] /\ who'[k] = who[k] /\ k \notin broken /\ k \notin Busy
    BY <2>1, <1>5, <1>8 DEF SameBut
  <2> QED BY <2>2 DEF WitnessInv, AtRest
<1> QED BY <1>6, <1>7, <1>10 DEF WitnessInv

LEMMA WitnessUnlist == TInv /\ TInv' /\ WitnessInv /\ (Unlist \/ Shrink) => WitnessInv'
<1> SUFFICES ASSUME TInv, TInv', WitnessInv, Unlist \/ Shrink PROVE WitnessInv'
  OBVIOUS
<1>1. /\ Goto("shrink") \/ Goto("hide")
      /\ UNCHANGED entries /\ Bookkeeping
  BY DEF Unlist, Shrink, At
<1>2. writer'.pc \in {"shrink", "hide"} /\ writer'.slot = writer.slot
  BY <1>1, GotoOK DEF TInv, WriterOK
<1>3. Working' /\ Busy \subseteq {writer'.slot}
  BY <1>2 DEF Working, Busy, Inserting
<1>4. SameBut(writer'.slot) /\ Calm'
  BY <1>1 DEF Bookkeeping, SameBut, WitnessInv, Calm
<1>5. InWork'
  BY <1>2 DEF InWork, Progress
<1> QED BY <1>3, <1>4, <1>5, StepIn

LEMMA WitnessHide == TInv /\ TInv' /\ WitnessInv /\ Hide => WitnessInv'
<1> SUFFICES ASSUME TInv, TInv', WitnessInv, Hide PROVE WitnessInv'
  OBVIOUS
<1> DEFINE i == writer.slot
           e == entries[i]
           n == [e EXCEPT !.weight = 0]
<1>1. writer.pc = "hide" /\ Set(i, n) /\ Goto("describe") /\ Bookkeeping
  BY DEF Hide, At
<1>2. i \in Slots /\ e \in Entry
  BY <1>1, WorkOK DEF Inserting
<1>3. writer'.pc = "describe" /\ writer'.slot = i
  BY <1>1, GotoOK DEF TInv, WriterOK
<1>4. n.quarantine = e.quarantine
  BY <1>2 DEF Entry
<1> HIDE DEF n
<1>5. SameBut(i)
  BY <1>1, <1>2, StoreSame
<1>6. Calm'
  BY <1>1, <1>2, <1>4, CalmStore DEF WitnessInv
<1>7. Working' /\ Busy \subseteq {writer'.slot}
  BY <1>3 DEF Working, Busy, Inserting
<1>8. InWork'
  BY <1>3 DEF InWork, Progress
<1> QED BY <1>3, <1>5, <1>6, <1>7, <1>8, StepIn

LEMMA WitnessDescribe == TInv /\ TInv' /\ WitnessInv /\ Describe => WitnessInv'
<1> SUFFICES ASSUME TInv, TInv', WitnessInv, Describe PROVE WitnessInv'
  OBVIOUS
<1> DEFINE i == writer.slot
           e == entries[i]
           j == writer.job
           b2 == Charged(NoBudget, j)
           P == Payers(NoBudget, j)
           n == [e EXCEPT !.pair = <<j.edge[2], j.edge[3]>>, !.eta = EtaHi(j),
                          !.quarantine = FALSE, !.budget = b2]
<1>1. /\ writer.pc = "describe" /\ Set(i, n) /\ Goto("name")
      /\ who' = [who EXCEPT ![i] = P] /\ broken' = broken \ {i}
  BY DEF Describe, At
<1>2. i \in Slots /\ e \in Entry /\ j \in JobT
  BY <1>1, WorkOK DEF Inserting
<1>3. writer'.pc = "name" /\ writer'.slot = i /\ writer'.job = j
  BY <1>1, GotoOK DEF TInv, WriterOK
<1>4. n.quarantine = FALSE /\ n.budget = b2
  <2> HIDE DEF e, j, b2
  <2> QED BY <1>2 DEF Entry
<1> HIDE DEF n
<1>5. /\ entries'[i] = n /\ \A k \in Slots \ {i} : entries'[k] = entries[k]
      /\ who'[i] = P /\ \A k \in Slots \ {i} : who'[k] = who[k]
  <2> HIDE DEF P, i
  <2> QED BY <1>1, <1>2 DEF Set, TInv
<1>6. SameBut(i)
  <2> HIDE DEF P, i
  <2> QED BY <1>1, <1>5 DEF SameBut
<1>7. Calm'
  BY <1>1, <1>2, <1>4, CalmStore DEF WitnessInv
<1>8. Working' /\ Busy \subseteq {writer'.slot}
  BY <1>3 DEF Working, Busy, Inserting
<1>9. /\ Witnessed(b2, P) /\ P # {} /\ Delta(j) <= TotalSpent(b2)
  <2>1. /\ Witnessed(b2, {} \cup P)
        /\ TotalSpent(NoBudget) \in Nat /\ TotalSpent(b2) \in Nat
        /\ P # {} => TotalSpent(b2) >= TotalSpent(NoBudget) + Delta(j)
    BY <1>2, NoBudgetOK, NoBudgetWitnessed, ChargedWitnessed
  <2>2. P # {} /\ Delta(j) \in Nat
    BY <1>2, NoBudgetWitnessed, DeltaNat
  <2> HIDE DEF P, b2
  <2>3. {} \cup P = P
    OBVIOUS
  <2>4. Witnessed(b2, P)
    BY <2>1, <2>3
  <2>5. Delta(j) <= TotalSpent(b2)
    BY <2>1, <2>2
  <2> QED BY <2>2, <2>4, <2>5
<1>10. InWork'
  <2> HIDE DEF P, b2, i, j
  <2>1. \A fresh : Progress("name", n, P, j, fresh)
    BY <1>4, <1>9 DEF Progress, b2
  <2> QED BY <2>1, <1>3, <1>5 DEF InWork
<1> QED BY <1>3, <1>6, <1>7, <1>8, <1>10, StepIn

LEMMA WitnessName == TInv /\ TInv' /\ WitnessInv /\ Name => WitnessInv'
<1> SUFFICES ASSUME TInv, TInv', WitnessInv, Name PROVE WitnessInv'
  OBVIOUS
<1> DEFINE i == writer.slot
           e == entries[i]
           w == who[i]
           j == writer.job
           c == Cardinality(NewSources(NoBudget, j))
           n == [e EXCEPT !.src = c, !.ent = j.edge[1]]
<1>1. writer.pc = "name" /\ Set(i, n) /\ Goto("list") /\ Bookkeeping
  BY DEF Name, At
<1>2. i \in Slots /\ e \in Entry /\ j \in JobT
  BY <1>1, WorkOK DEF Inserting
<1>3. writer'.pc = "list" /\ writer'.slot = i /\ writer'.job = j
  BY <1>1, GotoOK DEF TInv, WriterOK
<1>4. n.quarantine = e.quarantine /\ n.budget = e.budget /\ n.src = c
  <2> HIDE DEF e, j, c
  <2> QED BY <1>2 DEF Entry
<1> HIDE DEF n
<1>5. SameBut(i) /\ entries'[i] = n /\ who' = who /\ broken' = broken
  BY <1>1, <1>2, StoreSame
<1>6. Calm'
  BY <1>1, <1>2, <1>4, CalmStore DEF WitnessInv
<1>7. Working' /\ Working /\ Busy \subseteq {writer'.slot}
  BY <1>1, <1>3 DEF Working, Busy, Inserting
<1>8. ASSUME i \notin broken, NEW fresh PROVE Progress("list", n, w, j, fresh)
  <2>1. Progress("name", e, w, j, writer.fresh)
    BY <1>1, <1>7, <1>8 DEF WitnessInv, InWork
  <2>2. /\ e.budget = Charged(NoBudget, j) /\ ~ e.quarantine
        /\ Witnessed(e.budget, w) /\ w # {} /\ Delta(j) <= TotalSpent(e.budget)
    BY <2>1 DEF Progress
  <2>3. NewSources(NoBudget, j) = Used(Charged(NoBudget, j))
    <3>1. NewSources(NoBudget, j) = Used(Charged(NoBudget, j)) \ Used(NoBudget)
      BY <1>2, NoBudgetOK, NoBudgetWitnessed, ChargedWitnessed
    <3>2. Used(NoBudget) = {}
      BY NoBudgetWitnessed
    <3> QED BY <3>1, <3>2
  <2>4. n.src = Cardinality(Used(n.budget))
    BY <2>2, <2>3, <1>4
  <2> HIDE DEF e, w, j
  <2> QED BY <2>2, <2>4, <1>4 DEF Progress
<1>9. InWork'
  <2> HIDE DEF i, w, j
  <2> QED BY <1>3, <1>5, <1>8 DEF InWork, w
<1> QED BY <1>3, <1>5, <1>6, <1>7, <1>9, StepIn

\* A factor below one never adds weight.
LEMMA DecayedLess ==
    ASSUME NEW e \in Entry
    PROVE  Decayed(e) \in Nat /\ Decayed(e) <= e.weight
<1> DEFINE d == IF edge_corroborated(e) THEN DecayCorr ELSE DecayNovel
           x == e.weight
           p == x * d
           q == p \div FP_ONE
<1>1. x \in Nat /\ FP_ONE \in Nat \ {0} /\ d \in Nat /\ d <= FP_ONE
  BY TacAssumption DEF Entry
<1>2. Decayed(e) = q
  BY DEF Decayed
<1> HIDE DEF d, x
<1>3. p \in Nat /\ p <= x * FP_ONE /\ x * FP_ONE \in Nat
  BY <1>1
<1>4. q \in Nat /\ q * FP_ONE <= p
  <2> HIDE DEF p
  <2> QED BY <1>1, <1>3
<1> HIDE DEF p, q
<1>5. q * FP_ONE <= x * FP_ONE
  BY <1>1, <1>3, <1>4
<1>6. q <= x
  BY <1>1, <1>4, <1>5
<1> QED BY <1>2, <1>4, <1>6 DEF x

LEMMA WitnessList == TInv /\ TInv' /\ WitnessInv /\ List => WitnessInv'
<1> SUFFICES ASSUME TInv, TInv', WitnessInv, List PROVE WitnessInv'
  OBVIOUS
<1> DEFINE i == writer.slot
           n == [entries[i] EXCEPT !.key = TOMBSTONE]
<1>1. /\ writer.pc = "list" /\ Bookkeeping
      /\ \/ Goto("publish") /\ UNCHANGED entries
         \/ Set(i, n) /\ Continue(writer.todo)
  BY DEF List, At
<1>2. i \in Slots /\ entries[i] \in Entry /\ writer.todo \in Seq(JobT)
  BY <1>1, WorkOK DEF Inserting, TInv, WriterOK, WriterT
<1>3. Working /\ Busy = {i}
  BY <1>1 DEF Working, Busy, Inserting
<1>4. CASE Goto("publish") /\ UNCHANGED entries
  <2>1. writer'.pc = "publish" /\ writer'.slot = i /\ writer'.job = writer.job
        /\ writer'.fresh = writer.fresh
    BY <1>4, GotoOK DEF TInv, WriterOK
  <2>2. Working' /\ Busy \subseteq {writer'.slot}
    BY <2>1, <1>3 DEF Working, Inserting
  <2>3. SameBut(writer'.slot) /\ Calm'
    BY <1>1, <1>4 DEF Bookkeeping, SameBut, WitnessInv, Calm
  <2>4. InWork'
    <3>1. InWork
      BY DEF WitnessInv
    <3> QED BY <2>1, <3>1, <1>1, <1>3, <1>4 DEF InWork, Progress, Bookkeeping
  <2> QED BY <2>2, <2>3, <2>4, StepIn
<1>5. CASE Set(i, n) /\ Continue(writer.todo)
  <2>1. writer'.pc \in {"idle", "next"}
    BY <1>2, <1>5, ContinueOK
  <2>2. ~ Working'
    BY <2>1, NotWorkingNext
  <2>3. n.quarantine = entries[i].quarantine /\ n.key = TOMBSTONE
    BY <1>2 DEF Entry
  <2> HIDE DEF n
  <2>4. SameBut(i) /\ entries'[i] = n
    BY <1>1, <1>2, <1>5, StoreSame
  <2>5. Calm'
    BY <1>2, <1>5, <2>3, CalmStore DEF WitnessInv
  <2>6. ~ IsLive(entries'[i])
    BY <2>3, <2>4 DEF IsLive
  <2> QED BY <1>3, <2>2, <2>4, <2>5, <2>6, StepOut
<1> QED BY <1>1, <1>4, <1>5

LEMMA WitnessPublish == TInv /\ TInv' /\ WitnessInv /\ Publish => WitnessInv'
<1> SUFFICES ASSUME TInv, TInv', WitnessInv, Publish PROVE WitnessInv'
  OBVIOUS
<1> DEFINE i == writer.slot
           e == entries[i]
           w == who[i]
           d == Delta(writer.job)
           n == [e EXCEPT !.weight = d]
<1>1. writer.pc = "publish" /\ Set(i, n) /\ Continue(writer.todo) /\ Bookkeeping
  BY DEF Publish, At
<1>2. i \in Slots /\ e \in Entry /\ writer.todo \in Seq(JobT) /\ writer.job \in JobT
  BY <1>1, WorkOK DEF Inserting, TInv, WriterOK, WriterT
<1>3. Working /\ Busy \subseteq {i}
  BY <1>1 DEF Working, Busy, Inserting
<1>4. ~ Working'
  <2>1. writer'.pc \in {"idle", "next"}
    BY <1>1, <1>2, ContinueOK
  <2> QED BY <2>1, NotWorkingNext
<1>5. n.quarantine = e.quarantine /\ n.weight = d /\ n.budget = e.budget /\ n.src = e.src
  <2> HIDE DEF e, d
  <2> QED BY <1>2 DEF Entry
<1> HIDE DEF n
<1>6. SameBut(i) /\ entries'[i] = n /\ who' = who /\ broken' = broken
  BY <1>1, <1>2, StoreSame
<1>7. Calm'
  BY <1>1, <1>2, <1>5, CalmStore DEF WitnessInv
<1>8. ASSUME i \notin broken PROVE Rest(n, w)
  <2>1. Progress("publish", e, w, writer.job, writer.fresh)
    BY <1>1, <1>3, <1>8 DEF WitnessInv, InWork
  <2>2. /\ e.src = Cardinality(Used(e.budget)) /\ ~ e.quarantine
        /\ Witnessed(e.budget, w) /\ w # {} /\ d <= TotalSpent(e.budget)
    BY <2>1 DEF Progress
  <2>3. d + 0 = d
    BY <1>2, DeltaNat
  <2>4. Paid(n, w, 0)
    BY <2>2, <2>3, <1>5 DEF Paid
  <2> QED BY <2>2, <2>4, <1>5 DEF Rest
<1> QED BY <1>3, <1>4, <1>6, <1>7, <1>8, StepOut

\* Decay takes weight and refunds nothing.
LEMMA WitnessDecaySlot == TInv /\ TInv' /\ WitnessInv /\ DecaySlot => WitnessInv'
<1> SUFFICES ASSUME TInv, TInv', WitnessInv, DecaySlot PROVE WitnessInv'
  OBVIOUS
<1> DEFINE i == writer.slot
           e == entries[i]
           w == who[i]
           x == Decayed(e)
<1>1. /\ writer.pc = "decay" /\ i # NoSlot /\ Bookkeeping
      /\ writer' = [writer EXCEPT !.slot = @ + 1]
  BY DEF DecaySlot, At
<1>2. i \in Slots
  BY <1>1, SlotFacts DEF TInv, WriterOK, WriterT, Slots, NoSlot
<1>3. e \in Entry
  BY <1>2 DEF TInv
<1>4. ~ Working /\ ~ Working' /\ Busy = {}
  <2>1. writer'.pc = "decay"
    BY <1>1 DEF TInv, WriterOK, WriterT
  <2> QED BY <2>1, <1>1, NotWorking, NotWorkingNext DEF Busy
<1>5. \/ UNCHANGED entries
      \/ Set(i, [e EXCEPT !.key = TOMBSTONE])
      \/ IsLive(e) /\ Set(i, [e EXCEPT !.weight = x])
  BY DEF DecaySlot
<1>6. CASE UNCHANGED entries
  BY <1>1, <1>4, <1>6, WitnessSame DEF Bookkeeping
<1>7. CASE Set(i, [e EXCEPT !.key = TOMBSTONE])
  <2> DEFINE n == [e EXCEPT !.key = TOMBSTONE]
  <2>1. n.quarantine = e.quarantine /\ n.key = TOMBSTONE /\ Set(i, n)
    BY <1>3, <1>7 DEF Entry
  <2> HIDE DEF n, i
  <2>2. SameBut(i) /\ entries'[i] = n
    BY <2>1, <1>1, <1>2, StoreSame
  <2>3. Calm'
    BY <2>1, <1>2, CalmStore DEF WitnessInv
  <2>4. ~ IsLive(entries'[i])
    BY <2>1, <2>2 DEF IsLive
  <2> QED BY <1>4, <2>2, <2>3, <2>4, StepOut
<1>8. CASE IsLive(e) /\ Set(i, [e EXCEPT !.weight = x])
  <2> DEFINE n == [e EXCEPT !.weight = x]
  <2>1. n.quarantine = e.quarantine /\ n.weight = x /\ n.budget = e.budget /\ n.src = e.src
        /\ Set(i, n)
    <3> HIDE DEF x
    <3> QED BY <1>3, <1>8 DEF Entry
  <2> HIDE DEF n
  <2>2. SameBut(i) /\ entries'[i] = n /\ who' = who /\ broken' = broken
    BY <2>1, <1>1, <1>2, StoreSame
  <2>3. Calm'
    BY <2>1, <1>2, CalmStore DEF WitnessInv
  <2>4. ASSUME i \notin broken PROVE Rest(n, w)
    <3>1. Rest(e, w)
      BY <2>4, <1>2, <1>4, <1>8 DEF WitnessInv, AtRest
    <3>2. Witnessed(e.budget, w) /\ w # {} /\ e.weight + 0 <= TotalSpent(e.budget)
      BY <3>1 DEF Rest, Paid
    <3>3. x \in Nat /\ x <= e.weight /\ e.weight \in Nat
      BY <1>3, DecayedLess DEF Entry
    <3>4. TotalSpent(e.budget) \in Nat
      BY <1>3, SpentNat DEF Entry
    <3> DEFINE t == TotalSpent(e.budget)
               y == e.weight
    <3>5. y + 0 <= t /\ x <= y /\ x \in Nat /\ y \in Nat /\ t \in Nat
      BY <3>2, <3>3, <3>4
    <3> HIDE DEF t, y, x
    <3>6. x + 0 <= t
      BY <3>5
    <3>7. Paid(n, w, 0)
      BY <3>2, <3>6, <2>1 DEF Paid, t
    <3> QED BY <3>1, <3>7, <2>1 DEF Rest
  <2> QED BY <1>4, <2>2, <2>3, <2>4, StepOut
<1> QED BY <1>5, <1>6, <1>7, <1>8

LEMMA WitnessOther ==
    TInv /\ TInv' /\ WitnessInv /\ (wake_tac_decay \/ EndDecay \/ wake_tac_reset \/ Crash)
      => WitnessInv'
<1> SUFFICES ASSUME TInv, TInv', WitnessInv,
                    wake_tac_decay \/ EndDecay \/ wake_tac_reset \/ Crash
             PROVE  WitnessInv'
  OBVIOUS
<1>0. Idle.pc = "idle" /\ [Idle EXCEPT !.pc = "decay", !.slot = 0].pc = "decay"
  BY DEF Idle
<1>1. CASE wake_tac_decay \/ EndDecay
  <2>1. writer.pc \in {"idle", "decay"} /\ writer'.pc \in {"idle", "decay"}
        /\ UNCHANGED <<entries, broken, who>>
    BY <1>0, <1>1 DEF wake_tac_decay, EndDecay, At, Bookkeeping
  <2> QED BY <2>1, NotWorking, NotWorkingNext, WitnessSame
<1>2. CASE wake_tac_reset
  <2>1. \A k \in Slots : entries'[k] = Fresh
    BY <1>2 DEF wake_tac_reset
  <2>2. \A k \in Slots : ~ IsLive(entries'[k]) /\ ~ entries'[k].quarantine
    BY <2>1 DEF IsLive, Fresh
  <2>3. writer'.pc = "idle"
    BY <1>2 DEF wake_tac_reset, At
  <2>4. ~ Working'
    BY <2>3, NotWorkingNext
  <2> QED BY <2>2, <2>4 DEF WitnessInv, AtRest, Calm, InWork
<1>3. CASE Crash
  <2>1. /\ writer'.pc = "idle" /\ UNCHANGED <<entries, who>>
        /\ broken' = IF At("decay") THEN broken ELSE broken \cup ({writer.slot} \cap Slots)
    BY <1>0, <1>3 DEF Crash
  <2>2. ~ Working'
    BY <2>1, NotWorkingNext
  <2>3. \A k \in Slots : k \notin broken' => k \notin broken /\ k \notin Busy
    <3>1. CASE Working
      <4>1. ~ At("decay")
        BY <3>1, NotWorking DEF At
      <4> QED BY <2>1, <4>1 DEF Busy
    <3>2. CASE ~ Working
      BY <2>1, <3>2 DEF Busy
    <3> QED BY <3>1, <3>2
  <2> QED BY <2>1, <2>2, <2>3 DEF WitnessInv, AtRest, Calm, InWork
<1> QED BY <1>1, <1>2, <1>3

LEMMA WitnessStep == TInv /\ WitnessInv /\ [Next]_vars => WitnessInv'
<1> SUFFICES ASSUME TInv, WitnessInv, [Next]_vars PROVE WitnessInv'
  OBVIOUS
<1>0. TInv'
  BY StepTyped
<1>1. CASE UNCHANGED vars
  BY <1>1 DEF vars, WitnessInv, AtRest, Busy, Working, Calm, InWork
<1>2. CASE \/ \E r \in Reinforcements : wake_tac_reinforce(r)
           \/ \E b \in Batches : wake_tac_reinforce_batch(b)
  <2>1. UNCHANGED entries /\ Bookkeeping /\ At("idle") /\ writer'.pc \in {"idle", "next"}
    BY <1>2, CallTyped
  <2> QED BY <2>1, NotWorking, NotWorkingNext, WitnessSame DEF At, Bookkeeping
<1>3. CASE Step \/ wake_tac_decay \/ wake_tac_reset \/ Crash
  BY <1>0, <1>3, WitnessCharge, WitnessWeigh, WitnessReassess, WitnessClaim, WitnessRetire,
     WitnessUnlist, WitnessHide, WitnessDescribe, WitnessName, WitnessList, WitnessPublish,
     WitnessDecaySlot, WitnessOther
     DEF Step, Insert
<1> QED BY <1>1, <1>2, <1>3 DEF Next, Write

LEMMA Witnesses == Spec => [](TInv /\ WitnessInv)
<1>1. Init => TInv /\ WitnessInv
  BY InitTyped, WitnessInit
<1>2. TInv /\ WitnessInv /\ [Next]_vars => (TInv /\ WitnessInv)'
  BY StepTyped, WitnessStep
<1> QED BY <1>1, <1>2, PTL DEF Spec

\* Between calls every live edge no crash has touched counts as many sources as
\* really reinforced it, up to the number of budgets, weighs no more than they
\* have spent on it, and is in quarantine only while it has one witness:
\* budget_charge, src_count and quarantine_reassess, through insertion, batches
\* with two witnesses, decay, eviction and slots used again after a crash.
THEOREM WitnessesCorrect == Spec => []WitnessesCounted
<1>1. TInv /\ WitnessInv => WitnessesCounted
  <2> SUFFICES ASSUME TInv, WitnessInv, At("idle"), NEW i \in Slots, i \notin broken,
                      IsLive(entries[i])
               PROVE  /\ entries[i].src = Lower(Cardinality(who[i]), BUDGET_NAMED + 1)
                      /\ entries[i].weight <= TotalSpent(entries[i].budget)
                      /\ entries[i].quarantine => Cardinality(who[i]) = 1
    BY DEF WitnessesCounted
  <2> DEFINE e == entries[i]
             w == who[i]
  <2>1. /\ e.budget \in [Budgets -> Budget] /\ w \in SUBSET (1 .. SRC_OTHER - 1)
        /\ e.weight \in Nat
    BY DEF TInv, Entry
  <2>2. i \notin Busy
    BY NotWorking DEF At, Busy
  <2>3. Rest(e, w)
    BY <2>2 DEF WitnessInv, AtRest
  <2>4. /\ Witnessed(e.budget, w) /\ e.weight + 0 <= TotalSpent(e.budget)
        /\ e.src = Cardinality(Used(e.budget)) /\ (e.quarantine => Cardinality(w) = 1)
    BY <2>3 DEF Rest, Paid
  <2> HIDE DEF e, w
  <2>5. Cardinality(Used(e.budget)) = Lower(Cardinality(w), BUDGET_NAMED + 1)
    BY <2>1, <2>4, UsedCount
  <2>6. e.weight + 0 = e.weight
    BY <2>1
  <2> QED BY <2>4, <2>5, <2>6 DEF e, w
<1> QED BY <1>1, Witnesses, PTL

=============================================================================
