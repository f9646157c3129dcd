----------------------------- MODULE QuorumSweep -----------------------------
(***************************************************************************)
(* The quorum evaluator (wake_quorum.c) sweeping a pheromone table that    *)
(* other processes deposit into, decay and remove from.  The evaluator     *)
(* remembers per slot which entity it reported and at which tier; the host *)
(* is told through a callback, which may stop the sweep, or through a hits *)
(* array it reads when the sweep returns.                                  *)
(*                                                                         *)
(* The table is the one of module Pheromone, with what a sweep sees of it: *)
(* a slot's key and its counters, a claim that is visible before the       *)
(* counters are set, and a removal that leaves the counters in place.      *)
(***************************************************************************)
EXTENDS Integers, Sequences, FiniteSets

CONSTANTS
  Keys,               \* entity hashes
  EMPTY, TOMBSTONE,   \* the two key values that are no entity
  Capacity,           \* slots the evaluator tracks
  TableCapacity,      \* slots of the table
  ObserveConfidence, ObserveMinHits,
  AlertConfidence, AlertMinSources, AlertMinHits,
  RetractConfidence,
  HitsCapacity,       \* size of the hits array of sweep_collect
  Chain,              \* Chain[k]: the slots of k's probe chain
  Delta,              \* the confidence one deposit adds
  DecayFactor,        \* decay_factor_fp16
  NoiseFloor,
  MaxConfidence, MaxSources, MaxHits,  \* bounds of the counters
  Modes               \* the ways the host sweeps: "emit", "dry", "collect"

ASSUME QuorumAssumption ==
  /\ EMPTY \notin Keys /\ TOMBSTONE \notin Keys /\ EMPTY # TOMBSTONE
  /\ Capacity \in Nat /\ TableCapacity \in Nat /\ HitsCapacity \in Nat
  /\ Chain \in [Keys -> SUBSET (0 .. TableCapacity - 1)]
  /\ {ObserveConfidence, ObserveMinHits, AlertConfidence, AlertMinSources,
      AlertMinHits, RetractConfidence, Delta, DecayFactor, NoiseFloor,
      MaxConfidence, MaxSources, MaxHits} \subseteq Nat
  /\ DecayFactor <= 65536                   \* 65536 is 1.0
  /\ Delta <= MaxConfidence /\ MaxSources >= 1 /\ MaxHits >= 1
  /\ Modes \subseteq {"emit", "dry", "collect"}

NONE    == 0
OBSERVE == 1
ALERT   == 2

\* Nothing reported: the zeroed wake_quorum_slot_t.
Quiet == [key |-> EMPTY, tier |-> NONE]

Cap   == IF Capacity < TableCapacity THEN Capacity ELSE TableCapacity
Slots == 0 .. TableCapacity - 1
Swept == 0 .. Cap - 1

VARIABLES
  table,   \* table[i]: key and counters of slot i; fresh: claimed, not yet set
  slots,   \* the evaluator's slots
  sweep,   \* the sweep under way: its mode, the next slot, the key it saw there
  hits,    \* the hits array of the sweep under way
  told,    \* history: the report on slot i if it reached the host
  silent   \* history: slots whose present report never reached the host

vars == <<table, slots, sweep, hits, told, silent>>

Idle == [mode |-> "idle", next |-> 0, seen |-> FALSE]

-----------------------------------------------------------------------------
(* One slot of a sweep                                                     *)

classify(e) ==
  IF e.conf >= AlertConfidence /\ e.src >= AlertMinSources /\ e.hits >= AlertMinHits
  THEN ALERT
  ELSE IF e.conf >= ObserveConfidence /\ e.hits >= ObserveMinHits THEN OBSERVE ELSE NONE

\* Mutant: does not look whose tier it remembers.
Emitted_anyone(s, e) == s.tier

\* The tier remembered for the entity the snapshot names.
Emitted(s, e) == IF s.key = e.key THEN s.tier ELSE NONE

Rising(s, e) == classify(e) > Emitted(s, e)

Retracting(s, e) == /\ Emitted(s, e) = ALERT
                    /\ classify(e) < ALERT
                    /\ e.conf < RetractConfidence

\* Mutant: the remembered tier follows the entry down, without a retraction.
After_follows(s, e) == IF Retracting(s, e) THEN Quiet ELSE [key |-> e.key, tier |-> classify(e)]

\* The evaluator's slot after it has looked at snapshot e.
After(s, e) == CASE Rising(s, e)     -> [key |-> e.key, tier |-> classify(e)]
                 [] Retracting(s, e) -> Quiet
                 [] OTHER            -> [key |-> e.key, tier |-> Emitted(s, e)]

\* What the host knows once it has read the hits.
Applied(t, h) == [i \in Swept |->
  LET of == {n \in 1 .. Len(h) : h[n].slot = i}
  IN  IF of = {} THEN t[i]
      ELSE h[CHOOSE n \in of : \A m \in of : m <= n].report]

-----------------------------------------------------------------------------
(* The host                                                                *)

Init ==
  /\ table = [i \in Slots |-> [key |-> EMPTY, conf |-> 0, src |-> 0, hits |-> 0,
                               fresh |-> FALSE]]
  /\ slots = [i \in Swept |-> Quiet]
  /\ sweep = Idle
  /\ hits = << >>
  /\ told = [i \in Swept |-> Quiet]
  /\ silent = {}

\* sweep with a callback, sweep without one (also how preseed fills the slots),
\* or sweep_collect.
BeginSweep(mode) ==
  /\ sweep = Idle
  /\ sweep' = [mode |-> mode, next |-> 0, seen |-> FALSE]
  /\ UNCHANGED <<table, slots, hits, told, silent>>

\* reset, by the thread that sweeps: every slot is forgotten.
Reset ==
  /\ sweep = Idle
  /\ slots' = [i \in Swept |-> Quiet]
  /\ told' = [i \in Swept |-> Quiet]
  /\ silent' = {}
  /\ UNCHANGED <<table, sweep, hits>>

\* The host process ends and a new one creates its evaluator over the
\* persistent table; hits it had not read are lost.
Restart ==
  /\ slots' = [i \in Swept |-> Quiet]
  /\ sweep' = Idle
  /\ hits' = << >>
  /\ told' = [i \in Swept |-> Quiet]
  /\ silent' = {}
  /\ UNCHANGED table

-----------------------------------------------------------------------------
(* The sweep                                                               *)

Sweeping == sweep.mode # "idle" /\ sweep.next < Cap
Here     == sweep.next
Snapshot == table[Here]

\* The rest of the loop body leaves the sweep at the next slot.
MoveOn == sweep' = [sweep EXCEPT !.next = @ + 1, !.seen = FALSE]

\* What was reported about the slot no longer counts.
Forgotten == /\ told' = [told EXCEPT ![Here] = Quiet]
             /\ silent' = silent \ {Here}

\* Mutant: skips a dead slot without forgetting it.
SkipDead_keeps ==
  /\ Sweeping /\ ~sweep.seen
  /\ Snapshot.key \in {EMPTY, TOMBSTONE}
  /\ MoveOn
  /\ UNCHANGED <<table, slots, hits, told, silent>>

\* read_entry finds no entity in the slot: the slot is forgotten.
SkipDead ==
  /\ Sweeping /\ ~sweep.seen
  /\ Snapshot.key \in {EMPTY, TOMBSTONE}
  /\ slots' = [slots EXCEPT ![Here] = Quiet]
  /\ Forgotten
  /\ MoveOn
  /\ UNCHANGED <<table, hits>>

\* read_entry finds a live key; it copies the entry in a later step.
SeeLive ==
  /\ Sweeping /\ ~sweep.seen
  /\ Snapshot.key \notin {EMPTY, TOMBSTONE}
  /\ sweep' = [sweep EXCEPT !.seen = TRUE]
  /\ UNCHANGED <<table, slots, hits, told, silent>>

\* The copied entry calls for no action.
Suppress ==
  /\ Sweeping /\ sweep.seen
  /\ ~Rising(slots[Here], Snapshot) /\ ~Retracting(slots[Here], Snapshot)
  /\ slots' = [slots EXCEPT ![Here] = After(@, Snapshot)]
  /\ IF slots[Here].key = Snapshot.key THEN UNCHANGED <<told, silent>> ELSE Forgotten
  /\ MoveOn
  /\ UNCHANGED <<table, hits>>

\* The copied entry calls for an action in mode m.
Acting(m) ==
  /\ Sweeping /\ sweep.seen /\ sweep.mode = m
  /\ Rising(slots[Here], Snapshot) \/ Retracting(slots[Here], Snapshot)
  /\ slots' = [slots EXCEPT ![Here] = After(@, Snapshot)]
  /\ UNCHANGED table

\* The callback is told; it lets the sweep go on or stops it.
Emit(goOn) ==
  /\ Acting("emit")
  /\ told' = [told EXCEPT ![Here] = After(slots[Here], Snapshot)]
  /\ silent' = silent \ {Here}
  /\ IF goOn THEN MoveOn ELSE sweep' = Idle
  /\ UNCHANGED hits

\* The host does not hear of what is recorded.
Unheard == /\ told' = [told EXCEPT ![Here] = Quiet]
           /\ silent' = IF Rising(slots[Here], Snapshot) THEN silent \cup {Here}
                        ELSE silent \ {Here}

\* Nobody is told of what a dry sweep records.
Record ==
  /\ Acting("dry")
  /\ Unheard
  /\ MoveOn
  /\ UNCHANGED hits

\* Mutant: writes past the end of the hits array.
Collect_overruns ==
  /\ Acting("collect")
  /\ hits' = Append(hits, [slot |-> Here, report |-> After(slots[Here], Snapshot)])
  /\ silent' = silent \ {Here}
  /\ UNCHANGED told
  /\ MoveOn

\* sweep_collect writes a hit while there is room.
Collect ==
  /\ Acting("collect")
  /\ IF Len(hits) < HitsCapacity
     THEN /\ hits' = Append(hits, [slot |-> Here, report |-> After(slots[Here], Snapshot)])
          /\ silent' = silent \ {Here}
          /\ UNCHANGED told
     ELSE Unheard /\ UNCHANGED hits
  /\ MoveOn

\* The sweep returns; the host reads the hits.
EndSweep ==
  /\ sweep.mode # "idle" /\ sweep.next = Cap
  /\ sweep' = Idle
  /\ told' = Applied(told, hits)
  /\ hits' = << >>
  /\ UNCHANGED <<table, slots, silent>>

-----------------------------------------------------------------------------
(* The table, as module Pheromone has it                                   *)

Holds(k) == \E i \in Slots : table[i].key = k

\* One process deposits; it is between calls when no slot waits for counters.
Depositing == \E i \in Slots : table[i].fresh

\* A deposit claims a free slot for k: the key is visible at once.
Claim(i, k) ==
  /\ ~Depositing /\ ~Holds(k) /\ i \in Chain[k]
  /\ table[i].key \in {EMPTY, TOMBSTONE}
  /\ table' = [table EXCEPT ![i].key = k, ![i].fresh = TRUE]
  /\ UNCHANGED <<slots, sweep, hits, told, silent>>

\* ... and then stores its counters, whatever became of the slot since.
Fill(i) ==
  /\ table[i].fresh
  /\ table' = [table EXCEPT ![i] = [table[i] EXCEPT !.conf = Delta, !.src = 1, !.hits = 1,
                                                    !.fresh = FALSE]]
  /\ UNCHANGED <<slots, sweep, hits, told, silent>>

\* A deposit, or a reinforcement by another source, on the slot's entity.
Add(i, source) ==
  /\ table[i].key \in Keys /\ ~Depositing
  /\ table[i].conf + Delta <= MaxConfidence
  /\ table' = [table EXCEPT ![i] =
       [table[i] EXCEPT !.conf = @ + Delta,
                        !.hits = IF @ < MaxHits THEN @ + 1 ELSE @,
                        !.src  = IF source /\ @ < MaxSources THEN @ + 1 ELSE @]]
  /\ UNCHANGED <<slots, sweep, hits, told, silent>>

Decayed(c) == (c * DecayFactor) \div 65536

\* The decay pass at slot i lowers the confidence or evicts the entity.
Decay(i) ==
  /\ table[i].key \in Keys
  /\ table' = [table EXCEPT ![i] =
       IF Decayed(table[i].conf) < NoiseFloor
       THEN [table[i] EXCEPT !.key = TOMBSTONE]
       ELSE [table[i] EXCEPT !.conf = Decayed(@)]]
  /\ UNCHANGED <<slots, sweep, hits, told, silent>>

Remove(i) ==
  /\ table[i].key \in Keys
  /\ table' = [table EXCEPT ![i].key = TOMBSTONE]
  /\ UNCHANGED <<slots, sweep, hits, told, silent>>

-----------------------------------------------------------------------------
Evaluator == \/ \E mode \in Modes : BeginSweep(mode)
             \/ SkipDead \/ SeeLive \/ Suppress \/ Record \/ Collect \/ EndSweep
             \/ \E goOn \in BOOLEAN : Emit(goOn)

Next == \/ Evaluator \/ Reset \/ Restart
        \/ \E i \in Slots : \/ Fill(i) \/ Decay(i) \/ Remove(i)
                            \/ \E k \in Keys : Claim(i, k)
                            \/ \E source \in BOOLEAN : Add(i, source)

Spec == Init /\ [][Next]_vars

\* The host's timer keeps sweeping, restarts do not cut its sweeps short for
\* ever, and the callback does not stop every sweep at the same slot.
Fairness == /\ WF_vars(Evaluator)
            /\ <>[][~(sweep # Idle /\ Restart)]_vars
            /\ \A i \in Swept : SF_vars(Here = i /\ Emit(TRUE))

FairSpec == Spec /\ Fairness

-----------------------------------------------------------------------------
Names  == Keys \cup {EMPTY, TOMBSTONE}
Tiers  == NONE .. ALERT
Report == [key : Names, tier : Tiers]

\* The table's counters, the evaluator's slots and the sweep are in range, and
\* a sweep never writes more hits than the array holds (sweep_collect).
TypeOK ==
  /\ table \in [Slots -> [key : Names, conf : 0 .. MaxConfidence, src : 0 .. MaxSources,
                          hits : 0 .. MaxHits, fresh : BOOLEAN]]
  /\ slots \in [Swept -> Report]
  /\ sweep \in [mode : Modes \cup {"idle"}, next : 0 .. Cap, seen : BOOLEAN]
  /\ hits \in Seq([slot : Swept, report : Report]) /\ Len(hits) <= HitsCapacity
  /\ told \in [Swept -> Report]
  /\ silent \subseteq Swept

\* Whatever tier the evaluator remembers for a slot, the host has been told (or
\* finds in the hits of the sweep under way) exactly that about exactly that
\* entity, unless a dry sweep or a full hits array recorded it: a report is
\* marked as emitted only if it is emitted.
Accounted ==
  \A i \in Swept : slots[i].tier # NONE /\ i \notin silent => Applied(told, hits)[i] = slots[i]

\* Slot by slot the evaluator behaves as module Alarm says: reported tiers only
\* rise while the slot keeps its entity, retractions follow alerts, and the
\* host hears of each change when the sweep records it or never.
Alarms == INSTANCE Alarm WITH
  Slots <- Swept, alarm <- slots, told <- Applied(told, hits),
  Rises <- LAMBDA old, new : new > old

AlarmSpec == Alarms!Spec

\* The report on slot i is not what its entry calls for.
Stale(i) ==
  LET e == table[i] IN
  \/ e.key \notin Keys /\ slots[i] # Quiet
  \/ e.key \in Keys /\ classify(e) = ALERT /\ slots[i] # [key |-> e.key, tier |-> ALERT]
  \/ e.key \in Keys /\ classify(e) < ALERT /\ e.conf < RetractConfidence
     /\ slots[i].tier = ALERT

\* A slot that stops changing is reported for what it holds: an ALERT that lasts
\* is raised, one that has decayed is retracted, a dead slot is forgotten,
\* whatever goes on in the other slots and although callbacks stop sweeps and
\* restarts cut them short.
Converges ==
  \A i \in Swept : <>[][UNCHANGED table[i]]_vars => []<>~Stale(i)
=============================================================================
