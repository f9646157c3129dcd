--------------------------------- MODULE Tac ---------------------------------
(***************************************************************************)
(* The technique co-activation graph (wake_tac.c): a shared-memory table   *)
(* of weighted edges, each of one entity and one pair of techniques, with  *)
(* a budget per source on every edge, a cap on the edges of an entity kept *)
(* in an occupancy sidecar, and decay.                                     *)
(*                                                                         *)
(* One writer owns the table (wake_tac.h: single-writer).  Its stores are  *)
(* single steps where another process, or the process that opens the file  *)
(* after a crash, can see what lies between them.  Times, reinf_count, the *)
(* identity blob with its version, and statistics decide nothing and are   *)
(* left out.                                                               *)
(***************************************************************************)
EXTENDS Integers, Sequences, FiniteSets

CONSTANTS
  Entity,             \* the entities (their hashes)
  NoEntity,           \* entity_hash 0
  EMPTY, TOMBSTONE,   \* the two key_hash values that are no edge
  Edges,              \* the edges that occur: <<entity, t_lo, t_hi>>
  Home,               \* Home[k]: slot_hash_of(k) & mask
  OccHome,            \* OccHome[e]: e & (occ_slots - 1)
  Capacity, PROBE_MAX,
  OccSlots, OCC_PROBE_MAX,
  PerEntityCap, PER_ENTITY_CAP_MAX,
  BUDGET_NAMED, BudgetPerSource,
  SRC_OTHER,          \* 0xFFFF; the usable sources are 1 .. SRC_OTHER - 1
  ETA_UNIT,           \* WAKE_TAC_DELTA divides eta by this
  ETA_STRONG, CorroborationMin,
  QuarantineMinW,     \* 0 = disabled
  FP_ONE, DecayNovel, DecayCorr, NoiseFloor,
  Reinforcements,     \* arguments of wake_tac_reinforce
  Batches,            \* arguments of wake_tac_reinforce_batch
  MaxCrashes          \* bound on the writer's crashes

SRC_NONE  == 0
NoSlot    == Capacity                     \* UINT32_MAX
Slots     == 0 .. Capacity - 1
Named     == 1 .. BUDGET_NAMED
Budgets   == 1 .. BUDGET_NAMED + 1        \* the last one is the shared bucket
SHARE_PCT == 80

ASSUME TacAssumption ==
  /\ NoEntity \notin Entity
  /\ EMPTY \notin Edges /\ TOMBSTONE \notin Edges /\ EMPTY # TOMBSTONE
  /\ Capacity \in Nat \ {0} /\ OccSlots \in Nat /\ OccSlots >= Capacity
  /\ PROBE_MAX \in 1 .. Capacity /\ OCC_PROBE_MAX \in 1 .. OccSlots
  /\ PER_ENTITY_CAP_MAX \in Nat /\ PerEntityCap \in 1 .. PER_ENTITY_CAP_MAX
  /\ BUDGET_NAMED \in Nat \ {0} /\ BudgetPerSource \in Nat \ {0}
  /\ SRC_OTHER \in Nat /\ SRC_OTHER > 1
  /\ ETA_UNIT \in Nat \ {0} /\ ETA_STRONG \in Nat /\ FP_ONE \in Nat
  /\ Edges \subseteq Entity \X Nat \X Nat
  /\ \A k \in Edges : k[2] < k[3]
  /\ Home \in [Edges -> Slots]
  /\ OccHome \in [Entity \cup {NoEntity} -> 0 .. OccSlots - 1]
  /\ DecayNovel \in 1 .. FP_ONE - 1 /\ DecayCorr \in 1 .. FP_ONE - 1
  /\ NoiseFloor \in Nat \ {0} /\ CorroborationMin \in Nat \ {0}
  /\ QuarantineMinW \in Nat /\ MaxCrashes \in Nat

VARIABLES
  entries,   \* the edge table
  occ,       \* the occupancy sidecar
  writer,    \* where the writer is and what it has still to apply
  crashes,   \* number of crashes so far
  drift,     \* history: a crash since the last complete decay pass
  broken,    \* history: slots whose update a crash cut short
  who        \* history: the sources that reinforced the edge of a slot

vars == <<entries, occ, writer, crashes, drift, broken, who>>

NoBudget == [i \in Budgets |-> [src |-> SRC_NONE, spent |-> 0]]

Fresh == [key |-> EMPTY, weight |-> 0, pair |-> <<0, 0>>, ent |-> NoEntity,
          eta |-> 0, src |-> 0, quarantine |-> FALSE, budget |-> NoBudget]

NoIndex == [i \in 0 .. OccSlots - 1 |-> [ent |-> NoEntity, list |-> <<>>]]

NoJob == [edge |-> EMPTY, eta0 |-> 0, src0 |-> SRC_NONE,
          eta1 |-> 0, src1 |-> SRC_NONE]

Idle == [pc |-> "idle", todo |-> <<>>, job |-> NoJob, slot |-> NoSlot,
         victim |-> NoSlot, fresh |-> {}, had |-> 0]

IsLive(e) == e.key \notin {EMPTY, TOMBSTONE}

-----------------------------------------------------------------------------
(* Occupancy sidecar: per entity, the slots of its live edges              *)

\* The first slot of e's probe window that e holds or could claim.
OccAt(o, e) ==
  LET at(p) == (OccHome[e] + p) % OccSlots
      P == {p \in 0 .. OCC_PROBE_MAX - 1 : o[at(p)].ent \in {e, NoEntity}}
  IN  IF P = {} THEN OccSlots ELSE at(CHOOSE p \in P : \A q \in P : p <= q)

occ_find(o, e) == OccAt(o, e) # OccSlots /\ o[OccAt(o, e)].ent = e

Listed(o, e) == IF occ_find(o, e) THEN o[OccAt(o, e)].list ELSE <<>>

occ_count(o, e) == Len(Listed(o, e))

CanList(o, e) == OccAt(o, e) # OccSlots /\ occ_count(o, e) < PER_ENTITY_CAP_MAX

occ_add_slot(o, e, i) ==
  IF CanList(o, e)
  THEN [o EXCEPT ![OccAt(o, e)] = [ent |-> e, list |-> Append(Listed(o, e), i)]]
  ELSE o

\* occ_del_slot overwrites the first pointer to i by the last one ...
Overwritten(l, i) ==
  LET P == {p \in 1 .. Len(l) : l[p] = i}
  IN  IF P = {} THEN l
      ELSE [l EXCEPT ![CHOOSE p \in P : \A q \in P : p <= q] = l[Len(l)]]

\* Mutant: leaves live_count as it is.
Shrunk_keeps(l) == l

\* ... and then drops the last one.
Shrunk(l) == SubSeq(l, 1, Len(l) - 1)

-----------------------------------------------------------------------------
(* Slot lookup                                                             *)

Probe(k) == [p \in 0 .. PROBE_MAX - 1 |-> (Home[k] + p) % Capacity]

\* The slot of the first position of k's probe sequence that is in P.
First(k, P) == IF P = {} THEN NoSlot ELSE Probe(k)[CHOOSE p \in P : \A q \in P : p <= q]

find_slot(k) ==
  First(k, {p \in DOMAIN Probe(k) :
              /\ entries[Probe(k)[p]].key = k
              /\ \A q \in 0 .. p - 1 : entries[Probe(k)[q]].key # EMPTY})

FreeSlot(k) == First(k, {p \in DOMAIN Probe(k) : ~ IsLive(entries[Probe(k)[p]])})

\* The live edges of e the sidecar leads to; stale pointers are skipped.
Candidates(e) ==
  {i \in {Listed(occ, e)[p] : p \in 1 .. occ_count(occ, e)} :
     IsLive(entries[i]) /\ entries[i].ent = e}

\* The weakest of them, the first in the list among equals.
Weakest(e) ==
  LET l == Listed(occ, e)
      P == {p \in 1 .. Len(l) : l[p] \in Candidates(e)}
  IN  IF P = {} THEN NoSlot
      ELSE l[CHOOSE p \in P : \A q \in P :
               \/ entries[l[p]].weight < entries[l[q]].weight
               \/ entries[l[p]].weight = entries[l[q]].weight /\ p <= q]

-----------------------------------------------------------------------------
(* Sources, budgets and quarantine                                         *)

\* The reserved id of the shared bucket is folded onto its neighbour.
normalize_source(s) == IF s = SRC_OTHER THEN SRC_OTHER - 1 ELSE s

budget_knows_source(b, s) ==
  \/ \E i \in Named : b[i].src = s
  \/ \A i \in Budgets : b[i].src # SRC_NONE

\* The budget s is charged to: its own, a free named one, or the shared one.
ChargedTo(b, s) ==
  LET own  == {i \in Named : b[i].src = s}
      free == {i \in Named : b[i].src = SRC_NONE}
      low(S) == CHOOSE i \in S : \A j \in S : i <= j
  IN  IF own # {} THEN low(own) ELSE IF free # {} THEN low(free) ELSE BUDGET_NAMED + 1

\* Mutant: looks at what is spent, not at what would be.
Affords_overdraws(b, s, delta) == b[ChargedTo(b, s)].spent < BudgetPerSource

Affords(b, s, delta) == b[ChargedTo(b, s)].spent + delta <= BudgetPerSource

budget_charge(b, s, delta) ==
  IF Affords(b, s, delta)
  THEN [b EXCEPT ![ChargedTo(b, s)] =
          [src   |-> CASE @.src # SRC_NONE -> @.src
                       [] ChargedTo(b, s) \in Named -> s
                       [] OTHER -> SRC_OTHER,
           spent |-> @.spent + delta]]
  ELSE b

\* One source holds most of the weight: quarantine; a second source clears it.
quarantine_reassess(e) ==
  IF QuarantineMinW = 0 THEN e.quarantine
  ELSE IF e.src >= 2 THEN FALSE
  ELSE \/ e.quarantine
       \/ /\ e.weight >= QuarantineMinW
          /\ \E i \in Budgets : e.budget[i].spent * 100 >= e.weight * SHARE_PCT

edge_corroborated(e) == e.src >= CorroborationMin /\ e.eta >= ETA_STRONG

-----------------------------------------------------------------------------
(* One reinforcement, by one witness or (in a batch) by two                *)

Lower(a, b)  == IF a < b THEN a ELSE b
Higher(a, b) == IF a < b THEN b ELSE a

EtaLo(j) == IF j.src1 = SRC_NONE THEN j.eta0 ELSE Lower(j.eta0, j.eta1)
EtaHi(j) == IF j.src1 = SRC_NONE THEN j.eta0 ELSE Higher(j.eta0, j.eta1)

\* The joint strength is that of the weaker leg, and never nothing.
Delta(j) == Higher(EtaLo(j) \div ETA_UNIT, 1)

\* The second witness, when it is another source.
Second(j) == {j.src1} \ {SRC_NONE, j.src0}

\* Who pays on budgets b: the second witness too, or alone when the first
\* one is over its budget.
Payers(b, j) ==
  LET b0 == budget_charge(b, j.src0, Delta(j))
  IN  {s \in {j.src0} : Affords(b, s, Delta(j))}
        \cup {s \in Second(j) : Affords(b0, s, Delta(j))}

Charged(b, j) ==
  LET b0 == budget_charge(b, j.src0, Delta(j))
  IN  IF Second(j) = {} THEN b0 ELSE budget_charge(b0, j.src1, Delta(j))

\* Mutant: counts every budget that is charged.
NewSources_repeats(b, j) == {i \in Budgets : Charged(b, j)[i] # b[i]}

\* The sources this charge counts for the first time.
NewSources(b, j) ==
  {i \in Budgets : b[i].src = SRC_NONE /\ Charged(b, j)[i].src # SRC_NONE}

Refuses(e, j) ==
  /\ e.quarantine
  /\ budget_knows_source(e.budget, j.src0)
  /\ j.src1 = SRC_NONE \/ budget_knows_source(e.budget, j.src1)

At(pc) == writer.pc = pc
Goto(pc) == writer' = [writer EXCEPT !.pc = pc]

LiveIn(t, e) == {i \in Slots : IsLive(t[i]) /\ t[i].ent = e}
LiveOf(e) == LiveIn(entries, e)

Set(i, e) == entries' = [entries EXCEPT ![i] = e]

\* The job is over, applied or refused: on to the rest of the batch, or return.
Continue(rest) == writer' = [Idle EXCEPT !.pc = IF rest = <<>> THEN "idle" ELSE "next",
                                         !.todo = rest]

Bookkeeping == UNCHANGED <<crashes, drift, broken, who>>

Init ==
  /\ entries = [i \in Slots |-> Fresh]
  /\ occ = NoIndex
  /\ writer = Idle
  /\ crashes = 0
  /\ drift = FALSE
  /\ broken = {}
  /\ who = [i \in Slots |-> {}]

-----------------------------------------------------------------------------
(* Calls                                                                   *)

Canonical(e, a, b) == <<e, Lower(a, b), Higher(a, b)>>

\* wake_tac_create and wake_tac_open refuse a budget below WAKE_TAC_DELTA_MAX: a
\* source can pay for at least one reinforcement of any strength.
Strengths == {n \in Nat : n \div ETA_UNIT <= BudgetPerSource}

\* What hosts pass in: the two techniques of an edge that occurs, and a source.
ASSUME CallAssumption ==
  /\ \A r \in Reinforcements :
       /\ r.eta \in Strengths /\ r.source \in 0 .. SRC_OTHER
       /\ r.a # r.b => Canonical(r.entity, r.a, r.b) \in Edges
  /\ \A b \in Batches :
       /\ b.acts \in Seq([technique : Nat, eta : Strengths, source : 0 .. SRC_OTHER])
       /\ \A i, j \in 1 .. Len(b.acts) :
            b.acts[i].technique # b.acts[j].technique =>
              Canonical(b.entity, b.acts[i].technique, b.acts[j].technique) \in Edges

Call(jobs) ==
  /\ At("idle")
  /\ Continue(jobs)
  /\ UNCHANGED <<entries, occ>>
  /\ Bookkeeping

wake_tac_reinforce(r) ==
  /\ r.source # SRC_NONE
  /\ r.a # r.b
  /\ Call(<<[edge |-> Canonical(r.entity, r.a, r.b),
             eta0 |-> r.eta, src0 |-> normalize_source(r.source),
             eta1 |-> 0, src1 |-> SRC_NONE]>>)

\* The pairs of activations with two sources and two techniques ...
UsablePair(b, i, j) ==
  /\ i < j
  /\ b.acts[i].source # SRC_NONE /\ b.acts[j].source # SRC_NONE
  /\ b.acts[i].technique # b.acts[j].technique

PairJob(b, i, j) ==
  [edge |-> Canonical(b.entity, b.acts[i].technique, b.acts[j].technique),
   eta0 |-> b.acts[i].eta, src0 |-> normalize_source(b.acts[i].source),
   eta1 |-> b.acts[j].eta, src1 |-> normalize_source(b.acts[j].source)]

\* ... in order, one step of the two loops after the other.
PairsOf(b) ==
  LET n == Len(b.acts)
      i(m) == ((m - 1) \div n) + 1
      j(m) == ((m - 1) % n) + 1
      upto[m \in 0 .. n * n] ==
        IF m = 0 THEN <<>>
        ELSE IF UsablePair(b, i(m), j(m)) THEN Append(upto[m - 1], PairJob(b, i(m), j(m)))
        ELSE upto[m - 1]
  IN  upto[n * n]

wake_tac_reinforce_batch(b) == Len(b.acts) >= 2 /\ Call(PairsOf(b))

-----------------------------------------------------------------------------
(* apply_edge                                                              *)

Job == Head(writer.todo)

Take == writer.todo # <<>> /\ At("next")

\* The edge exists: a quarantined edge refuses the sources it carries, and a
\* reinforcement nobody can pay for is refused; else the budgets are charged ...
ChargeExisting ==
  LET i == find_slot(Job.edge)
      e == entries[i]
      paid == ~ Refuses(e, Job) /\ Payers(e.budget, Job) # {}
  IN  /\ Take /\ i # NoSlot
      /\ IF paid
         THEN /\ Set(i, [e EXCEPT !.budget = Charged(e.budget, Job)])
              /\ who' = [who EXCEPT ![i] = @ \cup Payers(e.budget, Job)]
              /\ writer' = [writer EXCEPT !.pc = "weigh", !.job = Job, !.slot = i,
                              !.todo = Tail(@), !.fresh = NewSources(e.budget, Job)]
         ELSE /\ Continue(Tail(writer.todo))
              /\ UNCHANGED <<entries, who>>
      /\ UNCHANGED <<occ, crashes, drift, broken>>

\* ... the weight grows once, and new sources are counted ...
Weigh ==
  LET e == entries[writer.slot]
  IN  /\ At("weigh")
      /\ Set(writer.slot,
             [e EXCEPT !.weight = @ + Delta(writer.job),
                       !.eta = Higher(@, EtaHi(writer.job)),
                       !.src = Lower(@ + Cardinality(writer.fresh), BUDGET_NAMED + 1)])
      /\ Goto("reassess")
      /\ UNCHANGED occ /\ Bookkeeping

\* ... and the quarantine is decided anew.
Reassess ==
  /\ At("reassess")
  /\ Set(writer.slot, [entries[writer.slot] EXCEPT
                         !.quarantine = quarantine_reassess(entries[writer.slot])])
  /\ Continue(writer.todo)
  /\ UNCHANGED occ /\ Bookkeeping

\* Mutant: gives up the weakest edge before it has a slot for the new one.
Claim_evicts_first ==
  LET k == Job.edge
      e == k[1]
      full == occ_count(occ, e) >= PerEntityCap
      victim == IF full THEN Weakest(e) ELSE NoSlot
      refused == full /\ (victim = NoSlot \/ Delta(Job) <= entries[victim].weight)
      i == FreeSlot(k)
  IN  /\ Take /\ find_slot(k) = NoSlot
      /\ IF refused \/ i = NoSlot
         THEN /\ Continue(Tail(writer.todo))
              /\ IF refused \/ victim = NoSlot THEN UNCHANGED entries
                 ELSE Set(victim, [entries[victim] EXCEPT !.weight = 0, !.key = TOMBSTONE])
         ELSE /\ Set(i, [entries[i] EXCEPT !.key = k])
              /\ writer' = [writer EXCEPT !.pc = IF full THEN "retire" ELSE "hide",
                              !.job = Job, !.slot = i, !.victim = victim,
                              !.todo = Tail(@), !.had = Cardinality(LiveOf(e))]
      /\ UNCHANGED occ /\ Bookkeeping

\* A new edge: at its cap the entity gives up its weakest edge, and only for a
\* stronger one.  A slot is claimed before anything is evicted.
Claim ==
  LET k == Job.edge
      e == k[1]
      full == occ_count(occ, e) >= PerEntityCap
      victim == IF full THEN Weakest(e) ELSE NoSlot
      refused == full /\ (victim = NoSlot \/ Delta(Job) <= entries[victim].weight)
      i == FreeSlot(k)
  IN  /\ Take /\ find_slot(k) = NoSlot
      /\ IF refused \/ i = NoSlot
         THEN /\ Continue(Tail(writer.todo))
              /\ UNCHANGED entries
         ELSE /\ Set(i, [entries[i] EXCEPT !.key = k])
              /\ writer' = [writer EXCEPT !.pc = IF full THEN "retire" ELSE "hide",
                              !.job = Job, !.slot = i, !.victim = victim,
                              !.todo = Tail(@), !.had = Cardinality(LiveOf(e))]
      /\ UNCHANGED occ /\ Bookkeeping

\* The weight becomes 0, then the key a tombstone: readers skip both.
Retire ==
  /\ At("retire")
  /\ Set(writer.victim, [entries[writer.victim] EXCEPT !.weight = 0, !.key = TOMBSTONE])
  /\ Goto("unlist")
  /\ UNCHANGED occ /\ Bookkeeping

\* occ_del_slot; the victim was found through the list, so it is on it.
Unlist ==
  LET e == writer.job.edge[1]
  IN  /\ At("unlist")
      /\ occ' = [occ EXCEPT ![OccAt(occ, e)].list = Overwritten(@, writer.victim)]
      /\ Goto("shrink")
      /\ UNCHANGED entries /\ Bookkeeping

Shrink ==
  LET e == writer.job.edge[1]
  IN  /\ At("shrink")
      /\ occ' = [occ EXCEPT ![OccAt(occ, e)].list = Shrunk(@)]
      /\ Goto("hide")
      /\ UNCHANGED entries /\ Bookkeeping

\* Readers skip an edge of weight 0 ...
Hide ==
  /\ At("hide")
  /\ Set(writer.slot, [entries[writer.slot] EXCEPT !.weight = 0])
  /\ Goto("describe")
  /\ UNCHANGED occ /\ Bookkeeping

\* ... while the edge is built.
Describe ==
  /\ At("describe")
  /\ Set(writer.slot, [entries[writer.slot] EXCEPT
                         !.pair = <<writer.job.edge[2], writer.job.edge[3]>>,
                         !.eta = EtaHi(writer.job), !.quarantine = FALSE,
                         !.budget = Charged(NoBudget, writer.job)])
  /\ who' = [who EXCEPT ![writer.slot] = Payers(NoBudget, writer.job)]
  /\ broken' = broken \ {writer.slot}
  /\ Goto("name")
  /\ UNCHANGED <<occ, crashes, drift>>

Name ==
  /\ At("name")
  /\ Set(writer.slot, [entries[writer.slot] EXCEPT
                         !.src = Cardinality(NewSources(NoBudget, writer.job)),
                         !.ent = writer.job.edge[1]])
  /\ Goto("list")
  /\ UNCHANGED occ /\ Bookkeeping

\* An edge the sidecar cannot track is taken back.
List ==
  LET e == writer.job.edge[1]
  IN  /\ At("list")
      /\ occ' = occ_add_slot(occ, e, writer.slot)
      /\ IF CanList(occ, e)
         THEN Goto("publish") /\ UNCHANGED entries
         ELSE /\ Set(writer.slot, [entries[writer.slot] EXCEPT !.key = TOMBSTONE])
              /\ Continue(writer.todo)
      /\ Bookkeeping

Publish ==
  /\ At("publish")
  /\ Set(writer.slot, [entries[writer.slot] EXCEPT !.weight = Delta(writer.job)])
  /\ Continue(writer.todo)
  /\ UNCHANGED occ /\ Bookkeeping

-----------------------------------------------------------------------------
(* Decay, reset, crash                                                     *)

\* The sidecar is emptied and rebuilt from the edges that survive.
wake_tac_decay ==
  /\ At("idle")
  /\ occ' = NoIndex
  /\ writer' = [Idle EXCEPT !.pc = "decay", !.slot = 0]
  /\ UNCHANGED entries /\ Bookkeeping

\* Mutant: rounds the product up.
Decayed_up(e) ==
  (e.weight * (IF edge_corroborated(e) THEN DecayCorr ELSE DecayNovel) + FP_ONE - 1)
    \div FP_ONE

Decayed(e) ==
  (e.weight * (IF edge_corroborated(e) THEN DecayCorr ELSE DecayNovel)) \div FP_ONE

\* Mutant: does not list the edges that survive.
DecaySlot_unlisted ==
  LET e == entries[writer.slot]
  IN  /\ At("decay") /\ writer.slot # NoSlot
      /\ IF ~ IsLive(e) THEN UNCHANGED entries
         ELSE Set(writer.slot, IF Decayed(e) < NoiseFloor THEN [e EXCEPT !.key = TOMBSTONE]
                               ELSE [e EXCEPT !.weight = Decayed(e)])
      /\ writer' = [writer EXCEPT !.slot = @ + 1]
      /\ UNCHANGED occ /\ Bookkeeping

DecaySlot ==
  LET i == writer.slot
      e == entries[i]
  IN  /\ At("decay") /\ i # NoSlot
      /\ IF ~ IsLive(e) THEN UNCHANGED <<entries, occ>>
         ELSE IF Decayed(e) < NoiseFloor
         THEN Set(i, [e EXCEPT !.key = TOMBSTONE]) /\ UNCHANGED occ
         ELSE /\ Set(i, [e EXCEPT !.weight = Decayed(e)])
              /\ occ' = occ_add_slot(occ, e.ent, i)
      /\ writer' = [writer EXCEPT !.slot = @ + 1]
      /\ Bookkeeping

EndDecay ==
  /\ At("decay") /\ writer.slot = NoSlot
  /\ writer' = Idle
  /\ drift' = FALSE
  /\ UNCHANGED <<entries, occ, crashes, broken, who>>

wake_tac_reset ==
  /\ At("idle")
  /\ entries' = [i \in Slots |-> Fresh]
  /\ occ' = NoIndex
  /\ drift' = FALSE
  /\ broken' = {}
  /\ who' = [i \in Slots |-> {}]
  /\ UNCHANGED <<writer, crashes>>

\* The writer dies; its successor maps the file as it is (wake_tac_open).
Crash ==
  /\ ~ At("idle") /\ crashes < MaxCrashes
  /\ crashes' = crashes + 1
  /\ writer' = Idle
  /\ drift' = TRUE
  /\ broken' = IF At("decay") THEN broken ELSE broken \cup ({writer.slot} \cap Slots)
  /\ UNCHANGED <<entries, occ, who>>

Insert == Claim \/ Retire \/ Unlist \/ Shrink \/ Hide \/ Describe \/ Name \/ List \/ Publish

Step == ChargeExisting \/ Weigh \/ Reassess \/ Insert \/ DecaySlot \/ EndDecay

\* What the writer does while others read; wake_tac_reset asks for quiescence.
Write ==
  \/ \E r \in Reinforcements : wake_tac_reinforce(r)
  \/ \E b \in Batches : wake_tac_reinforce_batch(b)
  \/ wake_tac_decay
  \/ Step
  \/ Crash

Next == Write \/ wake_tac_reset

Spec == Init /\ [][Next]_vars

\* The host calls decay every tick_seconds, and a call returns.
Fairness == WF_vars(Step) /\ SF_vars(wake_tac_decay)

FairSpec == Spec /\ Fairness

-----------------------------------------------------------------------------
(* Properties                                                              *)

\* Every word of the table, the sidecar and the writer's state is in range;
\* no source ever spends more than its budget on an edge.
TypeOK ==
  /\ entries \in [Slots ->
       [key : Edges \cup {EMPTY, TOMBSTONE}, weight : Nat, pair : Nat \X Nat,
        ent : Entity \cup {NoEntity}, eta : Nat, src : 0 .. BUDGET_NAMED + 1,
        quarantine : BOOLEAN,
        budget : [Budgets -> [src : 0 .. SRC_OTHER, spent : 0 .. BudgetPerSource]]]]
  /\ \A o \in 0 .. OccSlots - 1 :
       /\ occ[o].ent \in Entity \cup {NoEntity}
       /\ occ[o].list \in Seq(Slots) /\ Len(occ[o].list) <= PER_ENTITY_CAP_MAX
  /\ writer.slot \in 0 .. Capacity /\ writer.victim \in 0 .. Capacity
  /\ crashes \in 0 .. MaxCrashes /\ drift \in BOOLEAN
  /\ broken \subseteq Slots
  /\ who \in [Slots -> SUBSET (1 .. SRC_OTHER - 1)]

\* Between calls, unless a crash has happened since the last full decay pass,
\* the sidecar entry of an entity lists its live edges, each once and as many
\* as it has room for; an entity with live edges and no entry has a probe
\* window held by others (occ_add_slot, occ_del_slot; "self-heals on the next
\* decay pass").
Indexed ==
  At("idle") /\ ~ drift =>
    \A e \in Entity :
      IF occ_find(occ, e)
      THEN /\ Cardinality(Candidates(e)) = occ_count(occ, e)
           /\ occ_count(occ, e) = Lower(Cardinality(LiveOf(e)), PER_ENTITY_CAP_MAX)
      ELSE LiveOf(e) # {} => OccAt(occ, e) = OccSlots

\* Between calls no entity has more live edges than its cap, and a crash lets
\* it gain at most one more cap of them (per_entity_cap; a crash inside a decay
\* pass leaves edges the sidecar does not list).
CapHeld ==
  At("idle") =>
    \A e \in Entity : Cardinality(LiveOf(e)) <= PerEntityCap * (1 + crashes)

TotalSpent(b) ==
  LET spent[n \in 0 .. BUDGET_NAMED + 1] == IF n = 0 THEN 0 ELSE spent[n - 1] + b[n].spent
  IN  spent[BUDGET_NAMED + 1]

\* A live edge no crash has touched has as many sources counted as witnesses
\* really reinforced it, up to the number the table can tell apart, and never
\* more weight than they have spent on it (budget_charge, src_count).
WitnessesCounted ==
  At("idle") =>
    \A i \in {j \in Slots \ broken : IsLive(entries[j])} :
      /\ entries[i].src = Lower(Cardinality(who[i]), BUDGET_NAMED + 1)
      /\ entries[i].weight <= TotalSpent(entries[i].budget)
      /\ entries[i].quarantine => Cardinality(who[i]) = 1

\* A reinforcement, applied or refused, leaves the entity with no fewer live
\* edges than it had ("leaving the entity a live edge short for nothing").
NeverShort ==
  [][~ At("idle") /\ ~ At("decay") /\ writer'.pc \in {"next", "idle"} /\ crashes' = crashes =>
       LET e == (IF At("next") THEN Job ELSE writer.job).edge[1]
           had == IF At("next") THEN Cardinality(LiveOf(e)) ELSE writer.had
       IN  Cardinality(LiveIn(entries', e)) >= had]_vars

\* Every edge dies, however often it is reinforced: weight decays and decay
\* never refunds a budget (wake_tac_decay, "Decay never refunds spent").
EdgesDie ==
  \A k \in Edges :
    (\E i \in Slots : entries[i].key = k) ~> (\A i \in Slots : entries[i].key # k)
=============================================================================
