------------------------------ MODULE TacReader ------------------------------
(***************************************************************************)
(* A process that reads the edge table (wake_tac_read_entry, and through   *)
(* it wake_tac_iterate) while the writer of module Tac works on it: field  *)
(* by field, with a last look at the key instead of a lock.                *)
(***************************************************************************)
EXTENDS Tac

VARIABLE reader   \* where the reader is, and what it has copied so far

rvars == <<entries, occ, writer, crashes, drift, broken, who, reader>>

NoRead == [pc |-> "idle", slot |-> NoSlot, key |-> EMPTY, weight |-> 0,
           pair |-> <<0, 0>>, ent |-> NoEntity]

Reading(pc) == reader.pc = pc /\ UNCHANGED vars

LoadKey(i) ==
  /\ reader.pc \in {"idle", "got"}
  /\ reader' = IF IsLive(entries[i])
               THEN [NoRead EXCEPT !.pc = "weight", !.slot = i, !.key = entries[i].key]
               ELSE NoRead
  /\ UNCHANGED vars

LoadWeight ==
  /\ Reading("weight")
  /\ reader' = IF entries[reader.slot].weight = 0 THEN NoRead
               ELSE [reader EXCEPT !.pc = "pair", !.weight = entries[reader.slot].weight]

LoadPair ==
  /\ Reading("pair")
  /\ reader' = [reader EXCEPT !.pc = "entity", !.pair = entries[reader.slot].pair]

LoadEntity ==
  /\ Reading("entity")
  /\ reader' = [reader EXCEPT !.pc = "check", !.ent = entries[reader.slot].ent]

CheckKey ==
  /\ Reading("check")
  /\ reader' = IF entries[reader.slot].key = reader.key
               THEN [reader EXCEPT !.pc = "got"] ELSE NoRead

Read == (\E i \in Slots : LoadKey(i)) \/ LoadWeight \/ LoadPair \/ LoadEntity \/ CheckKey

ReadInit == Init /\ reader = NoRead

ReadSpec == ReadInit /\ [][(Write /\ UNCHANGED reader) \/ Read]_rvars

\* What the reader is given is never spliced from two edges: "a reader that
\* observes a live key_hash (acquire) observes the pair" (wake_tac.h, the entry
\* layout), and read_entry looks at the key again at the end.
NeverSpliced ==
  reader.pc = "got" => reader.key = <<reader.ent, reader.pair[1], reader.pair[2]>>
=============================================================================
