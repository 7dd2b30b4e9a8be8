---------------------------- MODULE StoredSlots -----------------------------
(***************************************************************************)
(* The commitment levels of src/storage/slots.rs.  Every reader thread     *)
(* applies the same broadcast log at its own pace; a slot is published as  *)
(* processed, confirmed or finalized, for RPC requests to compare with,    *)
(* only when the last reader has come to it.                               *)
(*                                                                         *)
(* Each map is behind a mutex of its own and the levels are atomics, so a  *)
(* handler is several steps with the other readers in between.             *)
(***************************************************************************)
EXTENDS Integers, Sequences, FiniteSets

CONSTANTS
    Readers,    \* reader threads
    Slots,      \* slots of the chain
    SlotMax,    \* u64::MAX, "no slot"
    MaxLog      \* bound on the number of messages sent

ASSUME StoredSlotsAssumption ==
    /\ Readers # {}
    /\ IsFiniteSet(Readers)
    /\ SlotMax \in Nat
    /\ Slots \subseteq 1 .. SlotMax - 1
    /\ MaxLog \in Nat

Maps == {"processed", "confirmed", "finalized"}

VARIABLES
    log,                    \* messages sent so far
    pos,                    \* pos[r]: how many of them reader r has received
    todo,                   \* todo[r]: the handler r is in: its slot, next step
    maps,                   \* maps[m][s]: readers that have come to slot s
    processed, confirmed, finalized, first_available,   \* the atomics
    ready,                  \* max_recent_blockhashes_ready of each reader
    ready_count,            \* the shared counter max_recent_blockhashes
    recent,                 \* StoredSlotsInner.max_recent_blockhashes
    seed                    \* the confirmed slot found on disk, 0 if none

levels == <<processed, confirmed, finalized>>

readiness == <<ready, ready_count, recent>>

vars == <<log, pos, todo, maps, levels, first_available, readiness, seed>>

(***************************************************************************)
(* Where a handler goes on after `set`, which told whether the reader was  *)
(* the last one (all), and after each of its later steps.  A step named    *)
(* after a map clears that map.  Both set_processed and set_confirmed      *)
(* raise processed; BlockConfirmed alone ends with set_ready.              *)
(***************************************************************************)
Steps ==
    {"idle", "processed_store_max", "confirmed_raise", "confirmed_store",
     "set_ready", "finalized_store"} \union Maps

AfterSet(map, all) ==
    CASE map = "processed" /\ all   -> "processed_store_max"
      [] map = "confirmed" /\ all   -> "confirmed_raise"
      [] map = "confirmed" /\ ~ all -> "set_ready"
      [] map = "finalized" /\ all   -> "finalized_store"
      [] OTHER                      -> "idle"

After(step) ==
    CASE step = "confirmed_raise" -> "confirmed_store"
      [] step = "confirmed_store" -> "set_ready"
      [] step = "finalized_store" -> "processed"
      [] step = "processed"       -> "confirmed"
      [] step = "confirmed"       -> "finalized"
      [] OTHER                    -> "idle"

(***************************************************************************)
(* BlockNew, BlockConfirmed and SlotFinalized as the writer sends them;    *)
(* the other messages do not reach this component.  Confirmed slots are    *)
(* sent in ascending order, as next_confirmed_slot only moves up; new and  *)
(* finalized slots come from the stream and from RPC in any order.         *)
(***************************************************************************)
Messages == [map : Maps, slot : Slots]

send(m) ==
    /\ Len(log) < MaxLog
    /\ m.map = "confirmed" =>
          \A i \in 1 .. Len(log) : log[i].map = "confirmed" => log[i].slot < m.slot
    /\ log' = Append(log, m)
    /\ UNCHANGED <<pos, todo, maps, levels, first_available, readiness, seed>>

(***************************************************************************)
(* A reader takes the next message and enters itself under the lock; the   *)
(* entry goes when the last reader is in.  No entry is the empty set.      *)
(***************************************************************************)
\* Mutant: one reader short.
CompleteEarly(entry) == Cardinality(entry) >= Cardinality(Readers) - 1

Complete(entry) == entry = Readers

set(r) ==
    /\ todo[r].step = "idle"
    /\ pos[r] < Len(log)
    /\ LET m == log[pos[r] + 1]
           entry == maps[m.map][m.slot] \union {r}
       IN  /\ maps' = [maps EXCEPT ![m.map][m.slot] =
                          IF Complete(entry) THEN {} ELSE entry]
           /\ todo' = [todo EXCEPT ![r] =
                          [slot |-> m.slot, step |-> AfterSet(m.map, Complete(entry))]]
    /\ pos' = [pos EXCEPT ![r] = @ + 1]
    /\ UNCHANGED <<log, levels, first_available, readiness, seed>>

Doing(r, step) ==
    /\ todo[r].step = step
    /\ todo' = [todo EXCEPT ![r].step = After(step)]

processed_store_max(r) ==
    /\ Doing(r, "processed_store_max") \/ Doing(r, "confirmed_raise")
    /\ processed' = IF processed < todo[r].slot THEN todo[r].slot ELSE processed
    /\ UNCHANGED <<log, pos, maps, confirmed, finalized, first_available, readiness, seed>>

confirmed_store(r) ==
    /\ Doing(r, "confirmed_store")
    /\ confirmed' = todo[r].slot
    /\ UNCHANGED <<log, pos, maps, processed, finalized, first_available, readiness, seed>>

(***************************************************************************)
(* A finalized slot below the stored ones is not published.                *)
(***************************************************************************)
finalized_store(r) ==
    /\ Doing(r, "finalized_store")
    /\ finalized' = IF todo[r].slot >= first_available THEN todo[r].slot ELSE finalized
    /\ UNCHANGED <<log, pos, maps, processed, confirmed, first_available, readiness, seed>>

(***************************************************************************)
(* set_finalized clears the three maps up to the finalized slot, one lock  *)
(* at a time.                                                              *)
(***************************************************************************)
\* Mutant: everything is cleared.
PruneAll(r, map) ==
    /\ Doing(r, map)
    /\ maps' = [maps EXCEPT ![map] = [s \in Slots |-> {}]]
    /\ UNCHANGED <<log, pos, levels, first_available, readiness, seed>>

prune(r, map) ==
    /\ Doing(r, map)
    /\ maps' = [maps EXCEPT ![map] =
                   [s \in Slots |-> IF s <= todo[r].slot THEN {} ELSE @[s]]]
    /\ UNCHANGED <<log, pos, levels, first_available, readiness, seed>>

(***************************************************************************)
(* set_ready counts each reader once, the first time it holds              *)
(* MAX_RECENT_BLOCKHASHES recent blocks.                                   *)
(***************************************************************************)
set_ready(r, is_ready) ==
    /\ Doing(r, "set_ready")
    /\ IF is_ready /\ ~ ready[r]
       THEN /\ ready' = [ready EXCEPT ![r] = TRUE]
            /\ ready_count' = ready_count + 1
            /\ recent' = (recent \/ ready_count' = Cardinality(Readers))
       ELSE UNCHANGED readiness
    /\ UNCHANGED <<log, pos, maps, levels, first_available, seed>>

(***************************************************************************)
(* The writer moves first_available meanwhile (StoredBlocks).              *)
(***************************************************************************)
first_available_store(slot) ==
    /\ first_available' = slot
    /\ UNCHANGED <<log, pos, todo, maps, levels, readiness, seed>>

(***************************************************************************)
(* The writer seeds confirmed from the database before the readers start;  *)
(* a reader first checks whether the blocks it was given make it ready.    *)
(* pop_slots_front may then leave the database below the seed, so the      *)
(* first confirmed slot sent can be any.                                   *)
(***************************************************************************)
Init ==
    /\ log = <<>>
    /\ pos = [r \in Readers |-> 0]
    /\ todo = [r \in Readers |-> [slot |-> 0, step |-> "set_ready"]]
    /\ maps = [m \in Maps |-> [s \in Slots |-> {}]]
    /\ seed \in Slots \union {0}
    /\ confirmed = seed
    /\ processed = 0
    /\ finalized = 0
    /\ first_available \in Slots \union {SlotMax}
    /\ ready = [r \in Readers |-> FALSE]
    /\ ready_count = 0
    /\ recent = FALSE

Next ==
    \/ \E m \in Messages : send(m)
    \/ \E s \in Slots \union {SlotMax} : first_available_store(s)
    \/ \E r \in Readers :
          \/ set(r)
          \/ processed_store_max(r)
          \/ confirmed_store(r)
          \/ finalized_store(r)
          \/ \E m \in Maps : prune(r, m)
          \/ \E b \in BOOLEAN : set_ready(r, b)

Spec == Init /\ [][Next]_vars

-----------------------------------------------------------------------------
(***************************************************************************)
(* Every variable has its type.                                            *)
(***************************************************************************)
TypeOK ==
    /\ log \in Seq(Messages)
    /\ pos \in [Readers -> Nat]
    /\ \A r \in Readers : pos[r] <= Len(log)
    /\ todo \in [Readers -> [slot : Slots \union {0}, step : Steps]]
    /\ maps \in [Maps -> [Slots -> SUBSET Readers]]
    /\ processed \in Slots \union {0}
    /\ confirmed \in Slots \union {0}
    /\ finalized \in Slots \union {0}
    /\ first_available \in Slots \union {SlotMax}
    /\ ready \in [Readers -> BOOLEAN]
    /\ ready_count \in Nat
    /\ recent \in BOOLEAN
    /\ seed \in Slots \union {0}

(***************************************************************************)
(* A published level is known to every reader, so whichever of them takes  *)
(* a request for that slot has already heard of it: confirmed and          *)
(* finalized from the message of that level, processed from a BlockNew or  *)
(* a BlockConfirmed.  The confirmed slot found on disk is known from the   *)
(* blocks a reader starts with.                                            *)
(***************************************************************************)
Has(r, map, slot) == \E i \in 1 .. pos[r] : log[i] = [map |-> map, slot |-> slot]

PublishedKnown ==
    \A r \in Readers :
       /\ confirmed # seed => Has(r, "confirmed", confirmed)
       /\ finalized # 0 => Has(r, "finalized", finalized)
       /\ processed # 0 =>
             Has(r, "processed", processed) \/ Has(r, "confirmed", processed)

(***************************************************************************)
(* The published confirmed slot never goes back, although it is a plain    *)
(* store made after the lock is released: only the value found on disk may *)
(* be above what follows, after pop_slots_front.                           *)
(***************************************************************************)
ConfirmedMonotone == [][confirmed' >= confirmed \/ confirmed = seed]_vars

(***************************************************************************)
(* What is published as confirmed is published as processed before.        *)
(***************************************************************************)
ProcessedLeads == confirmed # seed => processed >= confirmed

(***************************************************************************)
(* Pruning loses nothing that matters: when every reader is up to date and *)
(* idle, the published levels have reached every slot sent, but for those  *)
(* that were already finalized when they were sent.                        *)
(***************************************************************************)
Quiet == \A r \in Readers : pos[r] = Len(log) /\ todo[r].step = "idle"

Outdated(i) ==
    \E j \in 1 .. i - 1 : log[j].map = "finalized" /\ log[j].slot >= log[i].slot

NothingLost ==
    Quiet => \A i \in 1 .. Len(log) :
                ~ Outdated(i) =>
                   /\ log[i].map = "confirmed" => confirmed >= log[i].slot
                   /\ log[i].map \in {"processed", "confirmed"} =>
                         processed >= log[i].slot
=============================================================================
