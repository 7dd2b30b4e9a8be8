-------------------------- MODULE StoredSlotsProofs -------------------------
(***************************************************************************)
(* Proofs about the commitment levels: for any number of readers and any   *)
(* log, what is published is known to every reader, the confirmed slot     *)
(* does not go back, processed is never behind it, and no slot is lost.    *)
(***************************************************************************)
EXTENDS StoredSlots, TLAPS

(***************************************************************************)
(* The order of the log.                                                   *)
(***************************************************************************)
Ascending ==
    \A i, j \in 1 .. Len(log) :
       i < j /\ log[i].map = "confirmed" /\ log[j].map = "confirmed" =>
          log[i].slot < log[j].slot

(***************************************************************************)
(* A reader entered in a map has received that message.                    *)
(***************************************************************************)
EntriesKnown ==
    \A m \in Maps, s \in Slots, r \in Readers : r \in maps[m][s] => Has(r, m, s)

(***************************************************************************)
(* A reader about to publish a slot does so for all of them; one that      *)
(* publishes a confirmed slot has nothing newer in hand.                   *)
(***************************************************************************)
Current(r) == pos[r] > 0 /\ log[pos[r]] = [map |-> "confirmed", slot |-> todo[r].slot]

PendingKnown ==
    \A r \in Readers :
       /\ todo[r].step = "processed_store_max" =>
             \A q \in Readers : Has(q, "processed", todo[r].slot)
       /\ todo[r].step \in {"confirmed_raise", "confirmed_store"} =>
             /\ \A q \in Readers : Has(q, "confirmed", todo[r].slot)
             /\ Current(r)
       /\ todo[r].step = "confirmed_store" => processed >= todo[r].slot
       /\ todo[r].step = "finalized_store" =>
             \A q \in Readers : Has(q, "finalized", todo[r].slot)

Inv ==
    /\ TypeOK
    /\ Ascending
    /\ EntriesKnown
    /\ PendingKnown
    /\ PublishedKnown
    /\ ProcessedLeads

LEMMA StepFacts ==
    /\ \A map \in Maps, all \in BOOLEAN :
          /\ AfterSet(map, all) \in Steps
          /\ AfterSet(map, all) # "confirmed_store"
          /\ AfterSet(map, all) = "processed_store_max" => map = "processed" /\ all
          /\ AfterSet(map, all) = "confirmed_raise" => map = "confirmed" /\ all
          /\ AfterSet(map, all) = "finalized_store" => map = "finalized" /\ all
    /\ \A step \in Steps :
          /\ After(step) \in Steps
          /\ After(step) \notin {"processed_store_max", "confirmed_raise", "finalized_store"}
          /\ After(step) = "confirmed_store" => step = "confirmed_raise"
BY DEF AfterSet, After, Steps, Maps

LEMMA InitInv == Init => Inv
<1> SUFFICES ASSUME Init PROVE Inv OBVIOUS
<1>1. TypeOK
  <2>1. log \in Seq(Messages) /\ Len(log) = 0 BY DEF Init
  <2>2. pos \in [Readers -> Nat] /\ \A r \in Readers : pos[r] <= Len(log)
    BY <2>1 DEF Init
  <2>3. todo \in [Readers -> [slot : Slots \union {0}, step : Steps]]
    BY DEF Init, Steps
  <2>4. maps \in [Maps -> [Slots -> SUBSET Readers]] BY DEF Init
  <2>5. ready \in [Readers -> BOOLEAN] BY DEF Init
  <2> QED BY <2>1, <2>2, <2>3, <2>4, <2>5 DEF Init, TypeOK
<1>2. Ascending /\ EntriesKnown /\ PendingKnown
  BY DEF Init, Ascending, EntriesKnown, PendingKnown
<1>3. PublishedKnown /\ ProcessedLeads BY DEF Init, PublishedKnown, ProcessedLeads
<1> QED BY <1>1, <1>2, <1>3 DEF Inv

(***************************************************************************)
(* What a reader has received it keeps, while the log only grows and       *)
(* positions only move on.                                                 *)
(***************************************************************************)
Grows ==
    /\ \A i \in 1 .. Len(log) : log'[i] = log[i]
    /\ \A r \in Readers : pos'[r] >= pos[r]

LEMMA HasGrows ==
    ASSUME TypeOK, TypeOK', Grows, NEW r \in Readers, NEW m, NEW s, Has(r, m, s)
    PROVE  Has(r, m, s)'
<1>1. PICK i \in 1 .. pos[r] : log[i] = [map |-> m, slot |-> s] BY DEF Has
<1>2. pos[r] \in Nat /\ pos[r] <= Len(log) /\ Len(log) \in Nat /\ pos'[r] \in Nat
  BY DEF TypeOK
<1>3. i \in 1 .. pos'[r] /\ log'[i] = [map |-> m, slot |-> s]
  BY <1>1, <1>2 DEF Grows
<1> QED BY <1>3 DEF Has

LEMMA HasSlot ==
    ASSUME TypeOK, NEW r \in Readers, NEW m, NEW s, Has(r, m, s)
    PROVE  m \in Maps /\ s \in Slots
<1>1. PICK i \in 1 .. pos[r] : log[i] = [map |-> m, slot |-> s] BY DEF Has
<1>2. i \in 1 .. Len(log) BY DEF TypeOK
<1>3. log[i] \in Messages BY <1>2 DEF TypeOK
<1>4. log[i].map \in Maps /\ log[i].slot \in Slots BY <1>3 DEF Messages
<1> QED BY <1>1, <1>4

-----------------------------------------------------------------------------
LEMMA SendInv ==
    ASSUME Inv, NEW msg \in Messages, send(msg)
    PROVE  Inv'
<1>1. TypeOK /\ Ascending /\ EntriesKnown /\ PendingKnown /\ PublishedKnown /\ ProcessedLeads
  BY DEF Inv
<1>2. /\ log' = Append(log, msg) /\ log \in Seq(Messages) /\ Len(log) \in Nat
      /\ pos' = pos /\ todo' = todo /\ maps' = maps
      /\ processed' = processed /\ confirmed' = confirmed /\ finalized' = finalized
      /\ seed' = seed
  BY <1>1 DEF send, TypeOK, levels
<1>3. /\ Len(log') = Len(log) + 1 /\ log' \in Seq(Messages)
      /\ \A i \in 1 .. Len(log) : log'[i] = log[i]
      /\ log'[Len(log) + 1] = msg
  BY <1>2
<1>4. TypeOK'
  BY <1>1, <1>2, <1>3 DEF TypeOK, send, readiness
<1>5. Grows BY <1>1, <1>2, <1>3 DEF Grows, TypeOK
<1>6. Ascending'
  <2> SUFFICES ASSUME NEW i \in 1 .. Len(log'), NEW j \in 1 .. Len(log'), i < j,
                      log'[i].map = "confirmed", log'[j].map = "confirmed"
               PROVE  log'[i].slot < log'[j].slot
    BY DEF Ascending
  <2>1. i \in 1 .. Len(log) BY <1>2, <1>3
  <2>2. CASE j \in 1 .. Len(log) BY <2>1, <2>2, <1>1, <1>3 DEF Ascending
  <2>3. CASE j = Len(log) + 1 BY <2>1, <2>3, <1>3 DEF send
  <2> QED BY <2>2, <2>3, <1>2, <1>3
<1>7. EntriesKnown' BY <1>1, <1>2, <1>4, <1>5, HasGrows DEF EntriesKnown
<1>8. PendingKnown'
  <2> SUFFICES ASSUME NEW r \in Readers
               PROVE  /\ todo[r].step = "processed_store_max" =>
                            \A q \in Readers : Has(q, "processed", todo[r].slot)'
                      /\ todo[r].step \in {"confirmed_raise", "confirmed_store"} =>
                            /\ \A q \in Readers : Has(q, "confirmed", todo[r].slot)'
                            /\ Current(r)'
                      /\ todo[r].step = "confirmed_store" => processed' >= todo[r].slot
                      /\ todo[r].step = "finalized_store" =>
                            \A q \in Readers : Has(q, "finalized", todo[r].slot)'
    BY <1>2 DEF PendingKnown, Has
  <2>1. Current(r) => Current(r)'
    <3>1. pos[r] \in Nat /\ pos[r] <= Len(log) BY <1>1 DEF TypeOK
    <3> QED BY <3>1, <1>2, <1>3 DEF Current
  <2>2. \A q \in Readers, m \in Maps : Has(q, m, todo[r].slot) => Has(q, m, todo[r].slot)'
    BY <1>1, <1>2, <1>4, <1>5, HasGrows
  <2> QED BY <2>1, <2>2, <1>1, <1>2 DEF PendingKnown, Maps
<1>9. PublishedKnown'
  BY <1>1, <1>2, <1>4, <1>5, HasGrows DEF PublishedKnown
<1>10. ProcessedLeads' BY <1>1, <1>2 DEF ProcessedLeads
<1> QED BY <1>4, <1>6, <1>7, <1>8, <1>9, <1>10 DEF Inv

LEMMA SetInv ==
    ASSUME Inv, NEW r \in Readers, set(r)
    PROVE  Inv'
<1>1. TypeOK /\ Ascending /\ EntriesKnown /\ PendingKnown /\ PublishedKnown /\ ProcessedLeads
  BY DEF Inv
<1>2. PICK m \in Messages : m = log[pos[r] + 1]
  BY <1>1 DEF TypeOK, set
<1>3. /\ pos[r] \in Nat /\ pos[r] + 1 \in 1 .. Len(log)
      /\ m.map \in Maps /\ m.slot \in Slots
      /\ m = [map |-> m.map, slot |-> m.slot]
  BY <1>1 DEF TypeOK, set, Messages
<1> PICK entry : entry = maps[m.map][m.slot] \union {r}
  OBVIOUS
<1> PICK all \in BOOLEAN : all = Complete(entry)
  BY DEF Complete
<1>4. all => entry = Readers BY DEF Complete
<1>5. /\ maps' = [maps EXCEPT ![m.map][m.slot] = IF all THEN {} ELSE entry]
      /\ todo' = [todo EXCEPT ![r] = [slot |-> m.slot, step |-> AfterSet(m.map, all)]]
      /\ pos' = [pos EXCEPT ![r] = pos[r] + 1]
      /\ log' = log /\ processed' = processed /\ confirmed' = confirmed
      /\ finalized' = finalized /\ seed' = seed
  BY <1>2 DEF set, levels
<1>6. /\ maps' \in [Maps -> [Slots -> SUBSET Readers]]
      /\ \A k \in Maps, s \in Slots, q \in Readers :
            q \in maps'[k][s] => \/ q \in maps[k][s]
                                 \/ q = r /\ k = m.map /\ s = m.slot
  BY <1>1, <1>3, <1>5 DEF TypeOK
<1>7. /\ todo' \in [Readers -> [slot : Slots \union {0}, step : Steps]]
      /\ todo'[r].slot = m.slot /\ todo'[r].step = AfterSet(m.map, all)
      /\ \A q \in Readers \ {r} : todo'[q] = todo[q]
  BY <1>1, <1>3, <1>5, StepFacts DEF TypeOK
<1>8. /\ pos' \in [Readers -> Nat] /\ pos'[r] = pos[r] + 1
      /\ \A q \in Readers \ {r} : pos'[q] = pos[q]
  BY <1>1, <1>3, <1>5 DEF TypeOK
<1>9. TypeOK'
  <2>1. \A q \in Readers : pos'[q] <= Len(log') BY <1>1, <1>3, <1>5, <1>8 DEF TypeOK
  <2> QED BY <2>1, <1>1, <1>5, <1>6, <1>7, <1>8 DEF TypeOK, set, readiness
<1>10. Grows
  BY <1>1, <1>3, <1>5, <1>8 DEF Grows, TypeOK
<1>11. Has(r, m.map, m.slot)'
  <2>1. pos[r] + 1 \in 1 .. pos'[r] BY <1>3, <1>8
  <2>2. log'[pos[r] + 1] = [map |-> m.map, slot |-> m.slot] BY <1>2, <1>3, <1>5
  <2> QED BY <2>1, <2>2 DEF Has
<1>12. \A q \in Readers, k \in Maps, s \in Slots : Has(q, k, s) => Has(q, k, s)'
  BY <1>1, <1>9, <1>10, HasGrows
<1>13. Ascending' BY <1>1, <1>5 DEF Ascending
<1>14. EntriesKnown' BY <1>1, <1>6, <1>11, <1>12 DEF EntriesKnown
<1>15. all => \A q \in Readers : Has(q, m.map, m.slot)'
  BY <1>1, <1>3, <1>4, <1>11, <1>12 DEF EntriesKnown
<1>16. PendingKnown'
  <2> DEFINE Told(q, k, s) == \E i \in 1 .. pos'[q] : log'[i] = [map |-> k, slot |-> s]
  <2>1. \A q, k, s : Has(q, k, s)' <=> Told(q, k, s) BY DEF Has
  <2>2. SUFFICES ASSUME NEW q \in Readers
        PROVE  /\ todo'[q].step = "processed_store_max" =>
                     \A p \in Readers : Told(p, "processed", todo'[q].slot)
               /\ todo'[q].step \in {"confirmed_raise", "confirmed_store"} =>
                     /\ \A p \in Readers : Told(p, "confirmed", todo'[q].slot)
                     /\ pos'[q] > 0
                     /\ log'[pos'[q]] = [map |-> "confirmed", slot |-> todo'[q].slot]
               /\ todo'[q].step = "confirmed_store" => processed' >= todo'[q].slot
               /\ todo'[q].step = "finalized_store" =>
                     \A p \in Readers : Told(p, "finalized", todo'[q].slot)
    BY DEF PendingKnown, Has, Current
  <2> HIDE DEF Told
  <2>3. CASE q = r
    <3>1. todo'[q].slot = m.slot /\ todo'[q].step = AfterSet(m.map, all)
      BY <2>3, <1>7
    <3>2. all => \A p \in Readers : Told(p, m.map, m.slot) BY <1>15, <2>1
    <3>3. pos'[q] > 0 /\ log'[pos'[q]] = m BY <2>3, <1>2, <1>3, <1>5, <1>8
    <3> QED BY <3>1, <3>2, <3>3, <1>3, StepFacts
  <2>4. CASE q # r
    <3>1. todo'[q] = todo[q] /\ pos'[q] = pos[q] BY <2>4, <1>7, <1>8
    <3>2. \A p \in Readers, k \in Maps, s \in Slots : Has(p, k, s) => Told(p, k, s)
      BY <1>12, <2>1
    <3>3. \A p \in Readers, k \in Maps : \A s :
             Has(p, k, s) => Told(p, k, s)
      BY <3>2, <1>1, HasSlot
    <3> QED BY <3>1, <3>3, <1>1, <1>5 DEF PendingKnown, Current, Maps
  <2> QED BY <2>3, <2>4
<1>17. PublishedKnown'
  <2> DEFINE Told(q, k, s) == \E i \in 1 .. pos'[q] : log'[i] = [map |-> k, slot |-> s]
  <2>1. \A q \in Readers : \A k, s : Has(q, k, s) => Told(q, k, s)
    BY <1>1, <1>9, <1>10, HasGrows DEF Has
  <2>2. SUFFICES ASSUME NEW q \in Readers
        PROVE  /\ confirmed # seed => Told(q, "confirmed", confirmed)
               /\ finalized # 0 => Told(q, "finalized", finalized)
               /\ processed # 0 =>
                     Told(q, "processed", processed) \/ Told(q, "confirmed", processed)
    BY <1>5 DEF PublishedKnown, Has
  <2> HIDE DEF Told
  <2> QED BY <2>1, <1>1 DEF PublishedKnown
<1>18. ProcessedLeads' BY <1>1, <1>5 DEF ProcessedLeads
<1> QED BY <1>9, <1>13, <1>14, <1>16, <1>17, <1>18 DEF Inv

-----------------------------------------------------------------------------
(***************************************************************************)
(* The later steps of a handler leave the log and the positions alone.     *)
(***************************************************************************)
LEMMA DoingFacts ==
    ASSUME Inv, NEW r \in Readers, NEW step \in Steps, Doing(r, step),
           UNCHANGED <<log, pos>>,
           processed' \in Slots \union {0}, processed' >= processed,
           step = "confirmed_raise" => processed' >= todo[r].slot
    PROVE  /\ todo' \in [Readers -> [slot : Slots \union {0}, step : Steps]]
           /\ PendingKnown' /\ Ascending'
<1>1. TypeOK /\ PendingKnown /\ Ascending BY DEF Inv
<1>2. /\ todo' \in [Readers -> [slot : Slots \union {0}, step : Steps]]
      /\ todo'[r].slot = todo[r].slot /\ todo'[r].step = After(step)
      /\ todo[r].step = step
      /\ \A q \in Readers \ {r} : todo'[q] = todo[q]
  BY <1>1, StepFacts DEF Doing, TypeOK
<1>3. /\ \A q \in Readers : todo'[q].slot = todo[q].slot
      /\ \A q \in Readers : todo[q].slot \in Nat
      /\ processed \in Nat /\ processed' \in Nat
  <2>1. Slots \union {0} \subseteq Nat BY StoredSlotsAssumption
  <2>2. \A q \in Readers : todo'[q].slot = todo[q].slot BY <1>2
  <2>3. \A q \in Readers : todo[q].slot \in Slots \union {0} BY <1>1 DEF TypeOK
  <2>4. processed \in Slots \union {0} BY <1>1 DEF TypeOK
  <2> QED BY <2>1, <2>2, <2>3, <2>4
<1>4. PendingKnown'
  <2> SUFFICES ASSUME NEW q \in Readers
      PROVE  /\ todo'[q].step = "processed_store_max" =>
                   \A p \in Readers : Has(p, "processed", todo[q].slot)
             /\ todo'[q].step \in {"confirmed_raise", "confirmed_store"} =>
                   /\ \A p \in Readers : Has(p, "confirmed", todo[q].slot)
                   /\ Current(q)
             /\ todo'[q].step = "confirmed_store" => processed' >= todo[q].slot
             /\ todo'[q].step = "finalized_store" =>
                   \A p \in Readers : Has(p, "finalized", todo[q].slot)
    BY <1>3 DEF PendingKnown, Has, Current
  <2>1. CASE q = r
    BY <2>1, <1>1, <1>2, StepFacts DEF PendingKnown
  <2>2. CASE q # r
    <3>1. todo'[q] = todo[q] BY <2>2, <1>2
    <3>2. todo[q].step = "confirmed_store" => processed >= todo[q].slot
      BY <1>1 DEF PendingKnown
    <3>3. todo[q].step = "confirmed_store" => processed' >= todo[q].slot
      BY <3>2, <1>3
    <3> QED BY <3>1, <3>3, <1>1 DEF PendingKnown
  <2> QED BY <2>1, <2>2
<1>5. Ascending' BY <1>1 DEF Ascending
<1> QED BY <1>2, <1>4, <1>5

LEMMA StepNames ==
    /\ {"idle", "processed_store_max", "confirmed_raise", "confirmed_store",
        "set_ready", "finalized_store"} \subseteq Steps
    /\ Maps \subseteq Steps
BY DEF Steps

LEMMA ProcessedStoreInv ==
    ASSUME Inv, NEW r \in Readers, processed_store_max(r)
    PROVE  Inv'
<1>1. TypeOK /\ EntriesKnown /\ PendingKnown /\ PublishedKnown /\ ProcessedLeads BY DEF Inv
<1>2. PICK step \in {"processed_store_max", "confirmed_raise"} : Doing(r, step)
  BY DEF processed_store_max
<1>3. /\ log' = log /\ pos' = pos /\ maps' = maps /\ confirmed' = confirmed
      /\ finalized' = finalized /\ seed' = seed
      /\ processed' = IF processed < todo[r].slot THEN todo[r].slot ELSE processed
  BY DEF processed_store_max
<1>4. /\ todo[r].slot \in Slots \union {0} /\ todo[r].slot \in Nat
      /\ processed \in Nat /\ confirmed \in Nat /\ todo[r].step = step
  BY <1>1, <1>2, StoredSlotsAssumption DEF TypeOK, Doing
<1>5. /\ processed' \in Slots \union {0} /\ processed' >= processed
      /\ processed' >= todo[r].slot /\ processed' \in Nat
  BY <1>1, <1>3, <1>4 DEF TypeOK
<1>6. /\ todo' \in [Readers -> [slot : Slots \union {0}, step : Steps]]
      /\ PendingKnown' /\ Ascending'
  BY <1>2, <1>3, <1>5, StepNames, DoingFacts
<1>7. TypeOK' BY <1>1, <1>3, <1>5, <1>6 DEF TypeOK, processed_store_max, readiness
<1>8. EntriesKnown' BY <1>1, <1>3 DEF EntriesKnown, Has
<1>9. PublishedKnown'
  <2>1. \A q \in Readers : \/ Has(q, "processed", todo[r].slot)
                           \/ Has(q, "confirmed", todo[r].slot)
    BY <1>1, <1>2, <1>4 DEF PendingKnown
  <2> SUFFICES ASSUME NEW q \in Readers
      PROVE  /\ confirmed # seed => Has(q, "confirmed", confirmed)
             /\ finalized # 0 => Has(q, "finalized", finalized)
             /\ processed' # 0 =>
                   \/ \E i \in 1 .. pos[q] : log[i] = [map |-> "processed", slot |-> processed']
                   \/ \E i \in 1 .. pos[q] : log[i] = [map |-> "confirmed", slot |-> processed']
    BY <1>3 DEF PublishedKnown, Has
  <2>2. CASE processed' = processed BY <2>2, <1>1 DEF PublishedKnown, Has
  <2>3. CASE processed' = todo[r].slot BY <2>1, <2>3, <1>1 DEF PublishedKnown, Has
  <2> QED BY <2>2, <2>3, <1>3
<1>10. ProcessedLeads' BY <1>1, <1>3, <1>4, <1>5 DEF ProcessedLeads
<1> QED BY <1>6, <1>7, <1>8, <1>9, <1>10 DEF Inv

LEMMA ConfirmedStoreInv ==
    ASSUME Inv, NEW r \in Readers, confirmed_store(r)
    PROVE  Inv' /\ (confirmed' >= confirmed \/ confirmed = seed)
<1>1. TypeOK /\ Ascending /\ EntriesKnown /\ PendingKnown /\ PublishedKnown
  BY DEF Inv
<1>2. /\ log' = log /\ pos' = pos /\ maps' = maps /\ processed' = processed
      /\ finalized' = finalized /\ seed' = seed /\ confirmed' = todo[r].slot
      /\ Doing(r, "confirmed_store")
  BY DEF confirmed_store
<1>3. /\ todo[r].slot \in Slots \union {0} /\ todo[r].slot \in Nat
      /\ processed \in Nat /\ confirmed \in Nat /\ todo[r].step = "confirmed_store"
  BY <1>1, <1>2, StoredSlotsAssumption DEF TypeOK, Doing
<1>4. /\ todo' \in [Readers -> [slot : Slots \union {0}, step : Steps]]
      /\ PendingKnown' /\ Ascending'
  <2>1. processed' \in Slots \union {0} /\ processed' >= processed
    BY <1>1, <1>2, <1>3 DEF TypeOK
  <2> QED BY <2>1, <1>2, StepNames, DoingFacts
<1>5. TypeOK' BY <1>1, <1>2, <1>3, <1>4 DEF TypeOK, confirmed_store, readiness
<1>6. EntriesKnown' BY <1>1, <1>2 DEF EntriesKnown, Has
<1>7. /\ \A q \in Readers : Has(q, "confirmed", todo[r].slot)
      /\ Current(r) /\ processed >= todo[r].slot
  BY <1>1, <1>3 DEF PendingKnown
<1>8. PublishedKnown'
  BY <1>1, <1>2, <1>7 DEF PublishedKnown, Has
<1>9. ProcessedLeads' BY <1>2, <1>7 DEF ProcessedLeads
<1>10. ASSUME confirmed # seed PROVE confirmed' >= confirmed
  <2>1. PICK i \in 1 .. pos[r] : log[i] = [map |-> "confirmed", slot |-> confirmed]
    BY <1>1, <1>10 DEF PublishedKnown, Has
  <2>2. pos[r] \in 1 .. Len(log) /\ i \in 1 .. Len(log) /\ i <= pos[r] /\ Len(log) \in Nat
    BY <1>1, <1>7, <2>1 DEF TypeOK, Current
  <2>3. log[pos[r]] = [map |-> "confirmed", slot |-> todo[r].slot]
    BY <1>7 DEF Current
  <2>4. CASE i = pos[r]
    <3>1. confirmed = todo[r].slot BY <2>1, <2>3, <2>4
    <3> QED BY <3>1, <1>2, <1>3
  <2>5. CASE i < pos[r]
    <3>1. log[i].slot < log[pos[r]].slot BY <2>1, <2>2, <2>3, <2>5, <1>1 DEF Ascending
    <3> QED BY <3>1, <2>1, <2>3, <1>2, <1>3
  <2> QED BY <2>2, <2>4, <2>5
<1> QED BY <1>4, <1>5, <1>6, <1>8, <1>9, <1>10 DEF Inv

LEMMA FinalizedStoreInv ==
    ASSUME Inv, NEW r \in Readers, finalized_store(r)
    PROVE  Inv'
<1>1. TypeOK /\ EntriesKnown /\ PendingKnown /\ PublishedKnown /\ ProcessedLeads BY DEF Inv
<1>2. /\ log' = log /\ pos' = pos /\ maps' = maps /\ processed' = processed
      /\ confirmed' = confirmed /\ seed' = seed /\ Doing(r, "finalized_store")
      /\ finalized' \in {todo[r].slot, finalized}
  BY DEF finalized_store
<1>3. /\ todo[r].slot \in Slots \union {0} /\ processed \in Nat
      /\ todo[r].step = "finalized_store"
  BY <1>1, <1>2, StoredSlotsAssumption DEF TypeOK, Doing
<1>4. /\ todo' \in [Readers -> [slot : Slots \union {0}, step : Steps]]
      /\ PendingKnown' /\ Ascending'
  <2>1. processed' \in Slots \union {0} /\ processed' >= processed
    BY <1>1, <1>2, <1>3 DEF TypeOK
  <2> QED BY <2>1, <1>2, StepNames, DoingFacts
<1>5. TypeOK' BY <1>1, <1>2, <1>3, <1>4 DEF TypeOK, finalized_store, readiness
<1>6. EntriesKnown' BY <1>1, <1>2 DEF EntriesKnown, Has
<1>7. \A q \in Readers : Has(q, "finalized", todo[r].slot)
  BY <1>1, <1>3 DEF PendingKnown
<1>8. PublishedKnown'
  <2>1. CASE finalized' = finalized BY <2>1, <1>1, <1>2 DEF PublishedKnown, Has
  <2>2. CASE finalized' = todo[r].slot BY <2>2, <1>1, <1>2, <1>7 DEF PublishedKnown, Has
  <2> QED BY <2>1, <2>2, <1>2
<1>9. ProcessedLeads' BY <1>1, <1>2 DEF ProcessedLeads
<1> QED BY <1>4, <1>5, <1>6, <1>8, <1>9 DEF Inv

LEMMA PruneInv ==
    ASSUME Inv, NEW r \in Readers, NEW m \in Maps, prune(r, m)
    PROVE  Inv'
<1>1. TypeOK /\ EntriesKnown /\ PendingKnown /\ PublishedKnown /\ ProcessedLeads BY DEF Inv
<1>2. /\ log' = log /\ pos' = pos /\ processed' = processed /\ finalized' = finalized
      /\ confirmed' = confirmed /\ seed' = seed /\ Doing(r, m)
  BY DEF prune, levels
<1>3. /\ maps' \in [Maps -> [Slots -> SUBSET Readers]]
      /\ \A k \in Maps, s \in Slots : maps'[k][s] \subseteq maps[k][s]
  BY <1>1 DEF prune, TypeOK
<1>4. /\ todo' \in [Readers -> [slot : Slots \union {0}, step : Steps]]
      /\ PendingKnown' /\ Ascending'
  <2>1. processed' \in Slots \union {0} /\ processed' >= processed
    BY <1>1, <1>2, StoredSlotsAssumption DEF TypeOK
  <2>2. m # "confirmed_raise" BY DEF Maps
  <2> QED BY <2>1, <2>2, <1>2, StepNames, DoingFacts
<1>5. TypeOK' BY <1>1, <1>2, <1>3, <1>4 DEF TypeOK, prune, readiness
<1>6. EntriesKnown' BY <1>1, <1>2, <1>3 DEF EntriesKnown, Has
<1>7. PublishedKnown' BY <1>1, <1>2 DEF PublishedKnown, Has
<1>8. ProcessedLeads' BY <1>1, <1>2 DEF ProcessedLeads
<1> QED BY <1>4, <1>5, <1>6, <1>7, <1>8 DEF Inv

LEMMA SetReadyInv ==
    ASSUME Inv, NEW r \in Readers, NEW b \in BOOLEAN, set_ready(r, b)
    PROVE  Inv'
<1>1. TypeOK /\ EntriesKnown /\ PendingKnown /\ PublishedKnown /\ ProcessedLeads BY DEF Inv
<1>2. /\ log' = log /\ pos' = pos /\ processed' = processed /\ finalized' = finalized
      /\ confirmed' = confirmed /\ seed' = seed /\ maps' = maps
      /\ first_available' = first_available /\ Doing(r, "set_ready")
  BY DEF set_ready, levels
<1>3. ready' \in [Readers -> BOOLEAN] /\ ready_count' \in Nat /\ recent' \in BOOLEAN
  <2>1. ready \in [Readers -> BOOLEAN] /\ ready_count \in Nat /\ recent \in BOOLEAN
    BY <1>1 DEF TypeOK
  <2>2. CASE UNCHANGED readiness BY <2>1, <2>2 DEF readiness
  <2>3. CASE b /\ ~ ready[r]
    <3>1. ready' = [ready EXCEPT ![r] = TRUE] /\ ready_count' = ready_count + 1
      BY <2>3 DEF set_ready
    <3>2. recent' = (recent \/ ready_count' = Cardinality(Readers))
      BY <2>3 DEF set_ready
    <3>3. recent' \in BOOLEAN BY <3>2, Zenon
    <3>4. ready' \in [Readers -> BOOLEAN] BY <3>1, <2>1, Zenon
    <3> QED BY <3>1, <3>3, <3>4, <2>1
  <2> QED BY <2>2, <2>3 DEF set_ready
<1>4. /\ todo' \in [Readers -> [slot : Slots \union {0}, step : Steps]]
      /\ PendingKnown' /\ Ascending'
  <2>1. processed' \in Slots \union {0} /\ processed' >= processed
    BY <1>1, <1>2, StoredSlotsAssumption DEF TypeOK
  <2> QED BY <2>1, <1>2, StepNames, DoingFacts
<1>5. TypeOK' BY <1>1, <1>2, <1>3, <1>4 DEF TypeOK
<1>6. EntriesKnown' BY <1>1, <1>2 DEF EntriesKnown, Has
<1>7. PublishedKnown' BY <1>1, <1>2 DEF PublishedKnown, Has
<1>8. ProcessedLeads' BY <1>1, <1>2 DEF ProcessedLeads
<1> QED BY <1>4, <1>5, <1>6, <1>7, <1>8 DEF Inv

LEMMA QuietInv ==
    ASSUME Inv,
           UNCHANGED <<log, pos, todo, maps, levels, readiness, seed>>,
           first_available' \in Slots \union {SlotMax}
    PROVE  Inv'
<1>1. TypeOK' BY DEF Inv, TypeOK, levels, readiness
<1>2. Ascending' /\ EntriesKnown' BY DEF Inv, Ascending, EntriesKnown, Has
<1>3. PendingKnown' BY DEF Inv, PendingKnown, Has, Current, levels
<1>4. PublishedKnown' /\ ProcessedLeads'
  BY DEF Inv, PublishedKnown, ProcessedLeads, Has, levels
<1> QED BY <1>1, <1>2, <1>3, <1>4 DEF Inv

-----------------------------------------------------------------------------
LEMMA NextInv == Inv /\ [Next]_vars => Inv' /\ [confirmed' >= confirmed \/ confirmed = seed]_vars
<1> SUFFICES ASSUME Inv, [Next]_vars
             PROVE  Inv' /\ [confirmed' >= confirmed \/ confirmed = seed]_vars
  OBVIOUS
<1>1. ASSUME NEW m \in Messages, send(m) PROVE Inv' /\ confirmed' = confirmed
  BY <1>1, SendInv DEF send, levels
<1>2. ASSUME NEW s \in Slots \union {SlotMax}, first_available_store(s)
      PROVE  Inv' /\ confirmed' = confirmed
  BY <1>2, QuietInv DEF first_available_store, levels
<1>3. ASSUME NEW r \in Readers, set(r) PROVE Inv' /\ confirmed' = confirmed
  BY <1>3, SetInv DEF set, levels
<1>4. ASSUME NEW r \in Readers, processed_store_max(r) PROVE Inv' /\ confirmed' = confirmed
  BY <1>4, ProcessedStoreInv DEF processed_store_max
<1>5. ASSUME NEW r \in Readers, confirmed_store(r)
      PROVE  Inv' /\ (confirmed' >= confirmed \/ confirmed = seed)
  BY <1>5, ConfirmedStoreInv
<1>6. ASSUME NEW r \in Readers, finalized_store(r) PROVE Inv' /\ confirmed' = confirmed
  BY <1>6, FinalizedStoreInv DEF finalized_store
<1>7. ASSUME NEW r \in Readers, NEW m \in Maps, prune(r, m) PROVE Inv' /\ confirmed' = confirmed
  BY <1>7, PruneInv DEF prune, levels
<1>8. ASSUME NEW r \in Readers, NEW b \in BOOLEAN, set_ready(r, b)
      PROVE  Inv' /\ confirmed' = confirmed
  BY <1>8, SetReadyInv DEF set_ready, levels
<1>9. ASSUME UNCHANGED vars PROVE Inv' /\ confirmed' = confirmed
  <2>1. first_available \in Slots \union {SlotMax} BY DEF Inv, TypeOK
  <2> QED BY <2>1, <1>9, QuietInv DEF vars, levels, readiness
<1>10. confirmed' = confirmed => confirmed' >= confirmed
  BY StoredSlotsAssumption DEF Inv, TypeOK
<1> QED BY <1>1, <1>2, <1>3, <1>4, <1>5, <1>6, <1>7, <1>8, <1>9, <1>10 DEF Next

LEMMA InvAlways == Spec => []Inv /\ [][confirmed' >= confirmed \/ confirmed = seed]_vars
BY InitInv, NextInv, PTL DEF Spec

(***************************************************************************)
(* Every variable keeps its type, for any readers, slots and log bound.    *)
(***************************************************************************)
THEOREM TypeCorrect == Spec => []TypeOK
<1>1. Inv => TypeOK BY DEF Inv
<1> QED BY <1>1, InvAlways, PTL

(***************************************************************************)
(* A slot that slots.rs publishes has been received by every reader,       *)
(* whatever their number and their pace.                                   *)
(***************************************************************************)
THEOREM KnownCorrect == Spec => []PublishedKnown
<1>1. Inv => PublishedKnown BY DEF Inv
<1> QED BY <1>1, InvAlways, PTL

(***************************************************************************)
(* The confirmed slot does not go back although it is stored after the     *)
(* lock is released: the reader that stores it has nothing newer in hand,  *)
(* and nothing newer can be published without that reader.                 *)
(***************************************************************************)
THEOREM MonotoneCorrect == Spec => ConfirmedMonotone
BY InvAlways DEF ConfirmedMonotone

(***************************************************************************)
(* processed is never behind a confirmed slot published by the readers.    *)
(***************************************************************************)
THEOREM LeadsCorrect == Spec => []ProcessedLeads
<1>1. Inv => ProcessedLeads BY DEF Inv
<1> QED BY <1>1, InvAlways, PTL

-----------------------------------------------------------------------------
(***************************************************************************)
(* Nothing is lost.  A finalized slot is pruned only by a reader that saw  *)
(* all of them receive it.                                                 *)
(***************************************************************************)
Finalizing == {"finalized_store"} \union Maps

FinalizingKnown ==
    \A r \in Readers : todo[r].step \in Finalizing =>
       \A q \in Readers : Has(q, "finalized", todo[r].slot)

(***************************************************************************)
(* What becomes of message i: while a reader has yet to receive it, those  *)
(* that did are entered in its map; when the last one has, its slot is     *)
(* published or a reader is about to publish it.  A new slot may be sent   *)
(* twice and so be published earlier; a confirmed one may not.             *)
(***************************************************************************)
Waiting(i) ==
    /\ \E r \in Readers : pos[r] < i
    /\ \A q \in Readers : pos[q] >= i => q \in maps[log[i].map][log[i].slot]

AllPassed(i) == \A r \in Readers : pos[r] >= i

Raised(s) ==
    \/ processed >= s
    \/ \E q \in Readers : /\ todo[q].step \in {"processed_store_max", "confirmed_raise"}
                          /\ todo[q].slot >= s

Stored(s) ==
    \/ confirmed >= s
    \/ \E q \in Readers : /\ todo[q].step \in {"confirmed_raise", "confirmed_store"}
                          /\ todo[q].slot >= s

Covered(i) ==
    /\ log[i].map = "processed" => Waiting(i) \/ Raised(log[i].slot)
    /\ log[i].map = "confirmed" =>
          \/ Waiting(i)
          \/ AllPassed(i) /\ Raised(log[i].slot) /\ Stored(log[i].slot)

LossInv ==
    /\ FinalizingKnown
    /\ \A i \in 1 .. Len(log) : ~ Outdated(i) => Covered(i)

LEMMA LossInit == Init => LossInv
BY DEF Init, LossInv, FinalizingKnown, Finalizing, Maps

LEMMA LossQuiet == TypeOK /\ LossInv => NothingLost
<1> SUFFICES ASSUME TypeOK, LossInv, Quiet, NEW i \in 1 .. Len(log), ~ Outdated(i)
             PROVE  /\ log[i].map = "confirmed" => confirmed >= log[i].slot
                    /\ log[i].map \in {"processed", "confirmed"} =>
                          processed >= log[i].slot
  BY DEF NothingLost
<1>1. Covered(i) BY DEF LossInv
<1>2. ~ Waiting(i) BY DEF Quiet, Waiting, TypeOK
<1>3. \A r \in Readers : todo[r].step = "idle" BY DEF Quiet
<1>4. /\ Raised(log[i].slot) => processed >= log[i].slot
      /\ Stored(log[i].slot) => confirmed >= log[i].slot
  BY <1>3 DEF Raised, Stored
<1> QED BY <1>1, <1>2, <1>4 DEF Covered

(***************************************************************************)
(* A message is outdated by what was sent before it, so it stays as it is. *)
(***************************************************************************)
LEMMA OutdatedKept ==
    ASSUME Len(log) \in Nat, NEW i \in 1 .. Len(log),
           \A j \in 1 .. Len(log) : log'[j] = log[j]
    PROVE  Outdated(i)' <=> Outdated(i)
<1>1. \A j \in 1 .. i - 1 : log'[j] = log[j] OBVIOUS
<1> QED BY <1>1 DEF Outdated

LEMMA LossSend ==
    ASSUME Inv, LossInv, NEW msg \in Messages, send(msg)
    PROVE  LossInv'
<1>1. TypeOK /\ TypeOK' BY SendInv DEF Inv
<1>2. /\ log' = Append(log, msg) /\ log \in Seq(Messages) /\ Len(log) \in Nat
      /\ pos' = pos /\ todo' = todo /\ maps' = maps
      /\ processed' = processed /\ confirmed' = confirmed
  BY <1>1 DEF send, TypeOK, levels
<1>3. /\ Len(log') = Len(log) + 1
      /\ \A i \in 1 .. Len(log) : log'[i] = log[i]
  BY <1>2
<1>4. \A r \in Readers : pos[r] \in Nat /\ pos[r] <= Len(log) BY <1>1 DEF TypeOK
<1>5. Grows BY <1>2, <1>3, <1>4 DEF Grows
<1>6. FinalizingKnown'
  BY <1>1, <1>2, <1>5, HasGrows DEF LossInv, FinalizingKnown
<1>7. ASSUME NEW i \in 1 .. Len(log'), ~ Outdated(i)' PROVE Covered(i)'
  <2>1. CASE i \in 1 .. Len(log)
    <3>1. ~ Outdated(i) BY <1>2, <1>3, <1>7, <2>1, OutdatedKept
    <3>2. Covered(i) BY <2>1, <3>1 DEF LossInv
    <3>3. log'[i] = log[i] BY <1>3, <2>1
    <3> QED BY <1>2, <3>2, <3>3 DEF Covered, Waiting, AllPassed, Raised, Stored
  <2>2. CASE i = Len(log) + 1
    <3>1. \A r \in Readers : pos[r] < i BY <1>2, <1>4, <2>2
    <3>2. Waiting(i)'
      <4>1. Readers # {} BY StoredSlotsAssumption
      <4>2. \A r \in Readers : pos'[r] < i /\ ~ (pos'[r] >= i) BY <1>2, <1>4, <2>2
      <4> QED BY <4>1, <4>2 DEF Waiting
    <3> QED BY <3>2 DEF Covered
  <2> QED BY <1>2, <1>3, <2>1, <2>2
<1> QED BY <1>6, <1>7 DEF LossInv

LEMMA MessageFields ==
    ASSUME NEW msg \in Messages
    PROVE  /\ msg.map \in Maps /\ msg.slot \in Slots /\ msg.slot \in Nat
           /\ msg = [map |-> msg.map, slot |-> msg.slot]
<1>1. Slots \subseteq Nat BY StoredSlotsAssumption
<1> QED BY <1>1 DEF Messages

(***************************************************************************)
(* A confirmed slot is sent once.                                          *)
(***************************************************************************)
LEMMA ConfirmedOnce ==
    ASSUME TypeOK, Ascending, NEW i \in 1 .. Len(log), NEW j \in 1 .. Len(log),
           log[i].map = "confirmed", log[j].map = "confirmed", log[i].slot = log[j].slot
    PROVE  i = j
<1>1. log[i].slot \in Nat
  <2>1. log[i] \in Messages BY DEF TypeOK
  <2> QED BY <2>1, MessageFields
<1>2. ~ (i < j) /\ ~ (j < i)
  <2>1. i < j => log[i].slot < log[j].slot BY DEF Ascending
  <2>2. j < i => log[j].slot < log[i].slot BY DEF Ascending
  <2> QED BY <1>1, <2>1, <2>2
<1>3. i \in Nat /\ j \in Nat BY DEF TypeOK
<1> QED BY <1>2, <1>3

LEMMA LossSet ==
    ASSUME Inv, LossInv, NEW r \in Readers, set(r)
    PROVE  LossInv'
<1>1. TypeOK /\ Ascending /\ EntriesKnown BY DEF Inv
<1>2. TypeOK' /\ PendingKnown' BY SetInv DEF Inv
<1> DEFINE k == pos[r] + 1
<1>3. PICK m \in Messages : m = log[k]
  BY <1>1 DEF TypeOK, set
<1>4. /\ pos[r] \in Nat /\ k \in 1 .. Len(log) /\ Len(log) \in Nat
      /\ m.map \in Maps /\ m.slot \in Slots /\ m.slot \in Nat
      /\ m = [map |-> m.map, slot |-> m.slot]
  BY <1>1, MessageFields DEF TypeOK, set
<1>5. PICK entry : entry = maps[m.map][m.slot] \union {r}
  OBVIOUS
<1> PICK all \in BOOLEAN : all = Complete(entry)
  BY DEF Complete
<1>6. all <=> entry = Readers BY DEF Complete
<1>7. /\ maps' = [maps EXCEPT ![m.map][m.slot] = IF all THEN {} ELSE entry]
      /\ todo' = [todo EXCEPT ![r] = [slot |-> m.slot, step |-> AfterSet(m.map, all)]]
      /\ pos' = [pos EXCEPT ![r] = k] /\ todo[r].step = "idle"
      /\ log' = log /\ processed' = processed /\ confirmed' = confirmed
  BY <1>3, <1>5 DEF set, levels
<1>8. /\ todo'[r].slot = m.slot /\ todo'[r].step = AfterSet(m.map, all)
      /\ \A q \in Readers \ {r} : todo'[q] = todo[q]
      /\ pos'[r] = k /\ \A q \in Readers \ {r} : pos'[q] = pos[q]
      /\ \A q \in Readers : pos[q] \in Nat /\ pos[q] <= Len(log)
  BY <1>1, <1>7 DEF TypeOK
<1> HIDE DEF k
<1>9. /\ maps'[m.map][m.slot] = IF all THEN {} ELSE entry
      /\ \A a \in Maps, s \in Slots :
            ~ (a = m.map /\ s = m.slot) => maps'[a][s] = maps[a][s]
      /\ maps[m.map][m.slot] \subseteq Readers
  BY <1>1, <1>4, <1>7 DEF TypeOK
<1>10. Grows
  <2>1. pos'[r] >= pos[r] BY <1>4, <1>8 DEF k
  <2>2. \A q \in Readers \ {r} : pos'[q] >= pos[q] BY <1>8
  <2> QED BY <1>7, <2>1, <2>2 DEF Grows
<1>11. FinalizingKnown'
  <2> SUFFICES ASSUME NEW q \in Readers, todo'[q].step \in Finalizing, NEW p \in Readers
               PROVE  Has(p, "finalized", todo[q].slot)'
    BY DEF FinalizingKnown, Has
  <2>1. CASE q = r
    <3>1. todo'[r].step = "finalized_store"
      BY <1>4, <1>8, <2>1 DEF Finalizing, Maps, AfterSet
    <3> QED BY <1>2, <2>1, <3>1 DEF PendingKnown
  <2>2. CASE q # r
    <3>1. todo'[q] = todo[q] BY <1>8, <2>2
    <3>2. Has(p, "finalized", todo[q].slot) BY <3>1 DEF LossInv, FinalizingKnown
    <3>3. \A s : Has(p, "finalized", s) => Has(p, "finalized", s)'
      BY <1>1, <1>2, <1>10, HasGrows
    <3>4. PICK s : s = todo[q].slot OBVIOUS
    <3> QED BY <3>1, <3>2, <3>3, <3>4 DEF Has
  <2> QED BY <2>1, <2>2
<1>12. ASSUME NEW s PROVE (Raised(s) => Raised(s)') /\ (Stored(s) => Stored(s)')
  BY <1>7, <1>8 DEF Raised, Stored
<1>13. ASSUME NEW i \in 1 .. Len(log), ~ Outdated(i),
              log[i].map \in {"processed", "confirmed"}, Waiting(i)
       PROVE  \/ Waiting(i)'
              \/ /\ Raised(log[i].slot)'
                 /\ log[i].map = "confirmed" => AllPassed(i)' /\ Stored(log[i].slot)'
  <2>1. log[i].map \in Maps /\ log[i].slot \in Slots /\ log[i].slot \in Nat
    <3>1. log[i] \in Messages BY <1>1 DEF TypeOK
    <3> QED BY <3>1, MessageFields
  <2>2. CASE log[i].map = m.map /\ log[i].slot = m.slot /\ all
    <3>1. m.map = "processed" => todo'[r].step = "processed_store_max"
      BY <1>8, <2>2 DEF AfterSet
    <3>2. m.map = "confirmed" => todo'[r].step = "confirmed_raise"
      BY <1>8, <2>2 DEF AfterSet
    <3>3. todo'[r].slot >= m.slot BY <1>4, <1>8
    <3>4. Raised(m.slot)' BY <1>13, <2>2, <3>1, <3>2, <3>3 DEF Raised
    <3>5. ASSUME m.map = "confirmed" PROVE AllPassed(i)' /\ Stored(m.slot)'
      <4>1. Stored(m.slot)' BY <3>2, <3>3, <3>5 DEF Stored
      <4>2. k = i BY <1>1, <1>3, <1>4, <2>2, <3>5, ConfirmedOnce
      <4>3. ASSUME NEW q \in Readers, q # r PROVE pos[q] >= i
        <5>1. q \in maps[m.map][m.slot] BY <1>5, <1>6, <2>2, <4>3
        <5>2. Has(q, m.map, m.slot) BY <1>1, <1>4, <5>1 DEF EntriesKnown
        <5>3. PICK j \in 1 .. pos[q] : log[j] = [map |-> m.map, slot |-> m.slot]
          BY <5>2 DEF Has
        <5>4. j \in 1 .. Len(log) BY <1>4, <1>8
        <5>5. j = i BY <1>1, <2>2, <3>5, <5>3, <5>4, ConfirmedOnce
        <5> QED BY <1>8, <5>3, <5>5
      <4>4. \A q \in Readers : pos'[q] >= i BY <1>4, <1>8, <4>2, <4>3
      <4> QED BY <4>1, <4>4 DEF AllPassed
    <3> QED BY <1>7, <2>2, <3>4, <3>5 DEF Raised, Stored
  <2>3. CASE log[i].map = m.map /\ log[i].slot = m.slot /\ ~ all
    <3>1. maps'[m.map][m.slot] = entry BY <1>9, <2>3
    <3>2. PICK p \in Readers : p \notin entry
      BY <1>5, <1>6, <1>9, <2>3
    <3>3. p # r /\ p \notin maps[m.map][m.slot] BY <1>5, <3>2
    <3>4. ~ (pos[p] >= i) BY <1>13, <2>3, <3>3 DEF Waiting
    <3>5. pos'[p] < i BY <1>8, <3>3, <3>4
    <3>6. ASSUME NEW q \in Readers, pos'[q] >= i PROVE q \in entry
      <4>1. CASE q = r BY <1>5, <4>1
      <4>2. CASE q # r BY <1>5, <1>8, <1>13, <2>3, <3>6, <4>2 DEF Waiting
      <4> QED BY <4>1, <4>2
    <3> QED BY <1>7, <2>3, <3>1, <3>5, <3>6 DEF Waiting
  <2>4. CASE ~ (log[i].map = m.map /\ log[i].slot = m.slot)
    <3>1. k # i BY <1>3, <2>4
    <3>2. maps'[log[i].map][log[i].slot] = maps[log[i].map][log[i].slot]
      BY <1>9, <2>1, <2>4
    <3>3. ASSUME NEW q \in Readers PROVE pos'[q] >= i <=> pos[q] >= i
      <4>1. CASE q = r BY <1>4, <1>8, <3>1, <4>1 DEF k
      <4>2. CASE q # r BY <1>8, <4>2
      <4> QED BY <4>1, <4>2
    <3>4. \A q \in Readers : pos'[q] \in Nat BY <1>2 DEF TypeOK
    <3>5. \A q \in Readers : pos'[q] < i <=> pos[q] < i
      BY <1>4, <1>8, <3>3, <3>4
    <3> QED BY <1>7, <1>13, <3>2, <3>3, <3>5 DEF Waiting
  <2> QED BY <2>2, <2>3, <2>4
<1>14. ASSUME NEW i \in 1 .. Len(log'), ~ Outdated(i)' PROVE Covered(i)'
  <2>1. i \in 1 .. Len(log) /\ ~ Outdated(i) BY <1>7, <1>14 DEF Outdated
  <2>2. Covered(i) BY <2>1 DEF LossInv
  <2>3. AllPassed(i) => AllPassed(i)'
    <3>1. \A q \in Readers : pos'[q] \in Nat BY <1>2 DEF TypeOK
    <3> QED BY <1>8, <1>10, <2>1, <3>1 DEF Grows, AllPassed
  <2>4. log'[i] = log[i] BY <1>7
  <2>5. PICK s : s = log[i].slot OBVIOUS
  <2>6. (Raised(s) => Raised(s)') /\ (Stored(s) => Stored(s)') BY <1>12
  <2>7. CASE log[i].map = "processed"
    BY <1>13, <2>1, <2>2, <2>4, <2>5, <2>6, <2>7 DEF Covered, Raised
  <2>8. CASE log[i].map = "confirmed"
    BY <1>13, <2>1, <2>2, <2>3, <2>4, <2>5, <2>6, <2>8 DEF Covered, Raised, Stored
  <2>9. CASE log[i].map \notin {"processed", "confirmed"}
    BY <2>4, <2>9 DEF Covered
  <2> QED BY <2>7, <2>8, <2>9
<1> QED BY <1>11, <1>14 DEF LossInv

(***************************************************************************)
(* The later steps of a handler.  Only the pruning of set_finalized takes  *)
(* entries away, of slots not above the finalized one; a message that some *)
(* reader still has to receive comes after that finalized one, so if its   *)
(* slot is pruned it was outdated when it was sent.                        *)
(***************************************************************************)
LEMMA AfterFinalizing ==
    ASSUME NEW step \in Steps
    PROVE  /\ After(step) \in Finalizing => step \in Finalizing
           /\ step = "confirmed_raise" => After(step) = "confirmed_store"
BY DEF After, Steps, Finalizing, Maps

LEMMA LossDoing ==
    ASSUME Inv, TypeOK', LossInv, NEW r \in Readers, NEW step \in Steps, Doing(r, step),
           log' = log, pos' = pos, processed' >= processed,
           step \in {"processed_store_max", "confirmed_raise"} =>
              processed' >= todo[r].slot,
           confirmed' = IF step = "confirmed_store" THEN todo[r].slot ELSE confirmed,
           \A a \in Maps, s \in Slots :
              maps'[a][s] = maps[a][s] \/ (step \in Maps /\ s <= todo[r].slot)
    PROVE  LossInv'
<1>1. TypeOK /\ Ascending /\ PendingKnown BY DEF Inv
<1>2. /\ todo[r].step = step
      /\ todo'[r].slot = todo[r].slot /\ todo'[r].step = After(step)
      /\ \A q \in Readers \ {r} : todo'[q] = todo[q]
      /\ \A q \in Readers : todo'[q].slot = todo[q].slot
      /\ \A q \in Readers : todo[q].slot \in Slots \union {0}
  BY <1>1 DEF Doing, TypeOK
<1>3. /\ \A q \in Readers : todo[q].slot \in Nat /\ pos[q] \in Nat /\ pos[q] <= Len(log)
      /\ processed \in Nat /\ processed' \in Nat /\ confirmed \in Nat
      /\ Len(log) \in Nat
  <2>1. Slots \union {0} \subseteq Nat BY StoredSlotsAssumption
  <2> QED BY <1>1, <1>2, <2>1 DEF TypeOK
<1>4. FinalizingKnown'
  <2> SUFFICES ASSUME NEW q \in Readers, todo'[q].step \in Finalizing, NEW p \in Readers
               PROVE  Has(p, "finalized", todo[q].slot)
    BY <1>2 DEF FinalizingKnown, Has
  <2>1. todo[q].step \in Finalizing
    <3>1. CASE q = r BY <1>2, <3>1, AfterFinalizing
    <3>2. CASE q # r BY <1>2, <3>2
    <3> QED BY <3>1, <3>2
  <2> QED BY <2>1 DEF LossInv, FinalizingKnown
<1>5. ASSUME NEW s \in Nat, Raised(s) PROVE Raised(s)'
  <2>1. CASE processed >= s BY <1>3, <1>5, <2>1 DEF Raised
  <2>2. CASE \E q \in Readers :
                /\ todo[q].step \in {"processed_store_max", "confirmed_raise"}
                /\ todo[q].slot >= s
    <3>1. PICK q \in Readers :
                /\ todo[q].step \in {"processed_store_max", "confirmed_raise"}
                /\ todo[q].slot >= s
      BY <2>2
    <3>2. CASE q = r
      <4>1. processed' >= todo[r].slot BY <1>2, <3>1, <3>2
      <4>2. processed' >= s BY <1>3, <1>5, <3>1, <3>2, <4>1
      <4> QED BY <4>2 DEF Raised
    <3>3. CASE q # r
      <4>1. todo'[q] = todo[q] BY <1>2, <3>3
      <4> QED BY <3>1, <4>1 DEF Raised
    <3> QED BY <3>2, <3>3
  <2> QED BY <1>5, <2>1, <2>2 DEF Raised
<1>6. ASSUME NEW i \in 1 .. Len(log), log[i].map = "confirmed", AllPassed(i),
             NEW s \in Nat, s = log[i].slot, Stored(s)
      PROVE  Stored(s)'
  <2>1. CASE step = "confirmed_store"
    <3>1. Current(r) BY <1>1, <1>2, <2>1 DEF PendingKnown
    <3>2. /\ pos[r] \in 1 .. Len(log) /\ i <= pos[r]
          /\ log[pos[r]].map = "confirmed" /\ log[pos[r]].slot = todo[r].slot
      BY <1>3, <1>6, <3>1 DEF Current, AllPassed
    <3>3. i < pos[r] => log[i].slot < log[pos[r]].slot
      BY <1>1, <1>6, <3>2 DEF Ascending
    <3>4. todo[r].slot >= s
      <4>1. CASE i = pos[r] BY <1>3, <1>6, <3>2, <4>1
      <4>2. CASE i < pos[r] BY <1>3, <1>6, <3>2, <3>3, <4>2
      <4> QED BY <1>3, <3>2, <4>1, <4>2
    <3> QED BY <2>1, <3>4 DEF Stored
  <2>2. CASE step # "confirmed_store" /\ confirmed >= s
    BY <2>2 DEF Stored
  <2>3. CASE step # "confirmed_store" /\ ~ (confirmed >= s)
    <3>1. PICK q \in Readers :
                /\ todo[q].step \in {"confirmed_raise", "confirmed_store"}
                /\ todo[q].slot >= s
      BY <1>6, <2>3 DEF Stored
    <3>2. CASE q = r
      <4>1. todo'[r].step = "confirmed_store" /\ todo'[r].slot >= s
        BY <1>2, <2>3, <3>1, <3>2, AfterFinalizing
      <4> QED BY <4>1 DEF Stored
    <3>3. CASE q # r
      <4>1. todo'[q] = todo[q] BY <1>2, <3>3
      <4> QED BY <3>1, <4>1 DEF Stored
    <3> QED BY <3>2, <3>3
  <2> QED BY <2>1, <2>2, <2>3
<1>7. ASSUME NEW i \in 1 .. Len(log), ~ Outdated(i), Waiting(i) PROVE Waiting(i)'
  <2>1. log[i].map \in Maps /\ log[i].slot \in Slots /\ log[i].slot \in Nat
    <3>1. log[i] \in Messages BY <1>1 DEF TypeOK
    <3> QED BY <3>1, MessageFields
  <2>2. CASE step \in Maps /\ log[i].slot <= todo[r].slot
    <3>1. PICK p \in Readers : pos[p] < i BY <1>7 DEF Waiting
    <3>2. Has(p, "finalized", todo[r].slot)
      BY <1>2, <2>2 DEF LossInv, FinalizingKnown, Finalizing
    <3>3. PICK j \in 1 .. pos[p] : log[j] = [map |-> "finalized", slot |-> todo[r].slot]
      BY <3>2 DEF Has
    <3>4. j \in 1 .. i - 1 BY <1>3, <3>1, <3>3
    <3>5. log[j].map = "finalized" /\ log[j].slot >= log[i].slot
      BY <1>3, <2>1, <2>2, <3>3
    <3> QED BY <1>7, <3>4, <3>5 DEF Outdated
  <2>3. CASE ~ (step \in Maps /\ log[i].slot <= todo[r].slot)
    <3>1. maps'[log[i].map][log[i].slot] = maps[log[i].map][log[i].slot]
      BY <2>1, <2>3
    <3> QED BY <1>7, <3>1 DEF Waiting
  <2> QED BY <2>2, <2>3
<1>8. ASSUME NEW i \in 1 .. Len(log'), ~ Outdated(i)' PROVE Covered(i)'
  <2>1. i \in 1 .. Len(log) /\ ~ Outdated(i) BY <1>8 DEF Outdated
  <2>2. Covered(i) BY <2>1 DEF LossInv
  <2>3. AllPassed(i) => AllPassed(i)' BY DEF AllPassed
  <2>4. Waiting(i) => Waiting(i)' BY <1>7, <2>1
  <2>5. log[i] \in Messages BY <1>1, <2>1 DEF TypeOK
  <2>6. PICK s \in Nat : s = log[i].slot BY <2>5, MessageFields
  <2>7. Raised(s) => Raised(s)' BY <1>5
  <2>8. log[i].map = "confirmed" /\ AllPassed(i) /\ Stored(s) => Stored(s)'
    BY <1>6, <2>1, <2>6
  <2>9. CASE log[i].map = "processed"
    BY <2>2, <2>4, <2>6, <2>7, <2>9 DEF Covered, Raised
  <2>10. CASE log[i].map = "confirmed"
    BY <2>2, <2>3, <2>4, <2>6, <2>7, <2>8, <2>10 DEF Covered, Raised, Stored
  <2>11. CASE log[i].map \notin {"processed", "confirmed"}
    BY <2>11 DEF Covered
  <2> QED BY <2>9, <2>10, <2>11
<1> QED BY <1>4, <1>8 DEF LossInv

LEMMA LossSteps ==
    ASSUME Inv, Inv', LossInv, NEW r \in Readers,
           \/ processed_store_max(r)
           \/ confirmed_store(r)
           \/ finalized_store(r)
           \/ \E m \in Maps : prune(r, m)
           \/ \E b \in BOOLEAN : set_ready(r, b)
    PROVE  LossInv'
<1>1. TypeOK /\ TypeOK' BY DEF Inv
<1>2. /\ todo[r].slot \in Nat /\ processed \in Nat
      /\ processed >= processed
  <2>1. Slots \union {0} \subseteq Nat BY StoredSlotsAssumption
  <2>2. processed \in Slots \union {0} /\ todo[r].slot \in Slots \union {0}
    BY <1>1 DEF TypeOK
  <2> QED BY <2>1, <2>2
<1>3. CASE processed_store_max(r)
  <2>1. PICK step \in {"processed_store_max", "confirmed_raise"} : Doing(r, step)
    BY <1>3 DEF processed_store_max
  <2>2. /\ log' = log /\ pos' = pos /\ maps' = maps /\ confirmed' = confirmed
        /\ processed' = IF processed < todo[r].slot THEN todo[r].slot ELSE processed
    BY <1>3 DEF processed_store_max
  <2>3. processed' >= processed /\ processed' >= todo[r].slot BY <1>2, <2>2
  <2>4. step \in Steps /\ step # "confirmed_store" BY <2>1, StepNames
  <2> QED BY <1>1, <2>1, <2>2, <2>3, <2>4, LossDoing
<1>4. CASE confirmed_store(r)
  <2>1. /\ Doing(r, "confirmed_store") /\ confirmed' = todo[r].slot
        /\ log' = log /\ pos' = pos /\ maps' = maps /\ processed' = processed
    BY <1>4 DEF confirmed_store
  <2> QED BY <1>1, <1>2, <2>1, StepNames, LossDoing
<1>5. CASE finalized_store(r)
  <2>1. /\ Doing(r, "finalized_store") /\ confirmed' = confirmed
        /\ log' = log /\ pos' = pos /\ maps' = maps /\ processed' = processed
    BY <1>5 DEF finalized_store
  <2> QED BY <1>1, <1>2, <2>1, StepNames, LossDoing
<1>6. CASE \E m \in Maps : prune(r, m)
  <2>1. PICK m \in Maps : prune(r, m) BY <1>6
  <2>2. /\ Doing(r, m) /\ confirmed' = confirmed
        /\ log' = log /\ pos' = pos /\ processed' = processed
    BY <2>1 DEF prune, levels
  <2>3. \A a \in Maps, s \in Slots : maps'[a][s] = maps[a][s] \/ s <= todo[r].slot
    BY <1>1, <2>1 DEF prune, TypeOK
  <2>4. m \in Steps /\ m \notin {"processed_store_max", "confirmed_raise", "confirmed_store"}
    BY StepNames DEF Maps
  <2> QED BY <1>1, <1>2, <2>2, <2>3, <2>4, LossDoing
<1>7. CASE \E b \in BOOLEAN : set_ready(r, b)
  <2>1. /\ Doing(r, "set_ready") /\ confirmed' = confirmed
        /\ log' = log /\ pos' = pos /\ maps' = maps /\ processed' = processed
    BY <1>7 DEF set_ready, levels
  <2> QED BY <1>1, <1>2, <2>1, StepNames, LossDoing
<1> QED BY <1>3, <1>4, <1>5, <1>6, <1>7

LEMMA LossNext == Inv /\ LossInv /\ [Next]_vars => LossInv'
<1> SUFFICES ASSUME Inv, LossInv, [Next]_vars PROVE LossInv'
  OBVIOUS
<1>1. Inv' BY NextInv
<1>2. ASSUME NEW m \in Messages, send(m) PROVE LossInv'
  BY <1>2, LossSend
<1>3. ASSUME NEW r \in Readers, set(r) PROVE LossInv'
  BY <1>3, LossSet
<1>4. ASSUME UNCHANGED <<log, pos, todo, maps, levels>> PROVE LossInv'
  <2>1. FinalizingKnown' BY <1>4 DEF LossInv, FinalizingKnown, Has
  <2>2. \A i \in 1 .. Len(log) : ~ Outdated(i) => Covered(i) BY DEF LossInv
  <2>3. (\A i \in 1 .. Len(log) : ~ Outdated(i) => Covered(i))'
    BY <1>4, <2>2 DEF Outdated, Covered, Waiting, AllPassed, Raised, Stored, levels
  <2> QED BY <2>1, <2>3 DEF LossInv
<1>5. ASSUME NEW s \in Slots \union {SlotMax}, first_available_store(s) PROVE LossInv'
  BY <1>4, <1>5 DEF first_available_store
<1>6. ASSUME UNCHANGED vars PROVE LossInv'
  BY <1>4, <1>6 DEF vars
<1> QED BY <1>1, <1>2, <1>3, <1>5, <1>6, LossSteps DEF Next

(***************************************************************************)
(* When every reader has handled every message, the published levels have  *)
(* reached every slot sent, but for those already finalized when they were *)
(* sent: no interleaving of the readers with each other and with the       *)
(* pruning of set_finalized loses a slot.                                  *)
(***************************************************************************)
THEOREM LostCorrect == Spec => []NothingLost
<1>1. Init => Inv /\ LossInv BY InitInv, LossInit
<1>2. Inv /\ LossInv /\ [Next]_vars => (Inv /\ LossInv)' BY NextInv, LossNext
<1>3. Inv /\ LossInv => NothingLost BY LossQuiet DEF Inv
<1> QED BY <1>1, <1>2, <1>3, PTL DEF Spec
=============================================================================
