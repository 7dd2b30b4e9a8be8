------------------------- MODULE StorageMemoryProofs -------------------------
(***************************************************************************)
(* Proofs about the stream memory, for every chain and every number of     *)
(* slots: no verdict contradicts the chain, no assertion fails, and every  *)
(* slot up to the newest confirmed one is reported.                        *)
(***************************************************************************)
EXTENDS StorageMemory, WellFoundedInduction, TLAPS

-----------------------------------------------------------------------------
(***************************************************************************)
(* The invariant.                                                          *)
(***************************************************************************)
Chain ==
    /\ parent \in [Slots -> 0 .. N] /\ \A s \in Slots : parent[s] < s
    /\ canon \subseteq Slots
    /\ IsBranch(parent, canon)

\* What is kept of a slot agrees with the chain, and a slot is not kept once
\* it is reported.
Told(s, info) ==
    /\ info.block \in {None, parent[s]}
    /\ info.dead => s \notin canon
    /\ info.confirmed => s \in canon

Deque ==
    /\ DOMAIN blocks \subseteq Slots
    /\ \A s, t \in DOMAIN blocks : s .. t \subseteq DOMAIN blocks
    /\ \A s \in DOMAIN blocks : blocks[s] \in BlockInfo /\ Told(s, blocks[s])
    /\ \A s \in DOMAIN blocks : blocks[s].confirmed => s <= confirmed
    /\ DOMAIN blocks # {} => gen_next_slot # 0
    /\ \A s \in DOMAIN blocks : gen_next_slot <= s

\* Where the numbering is: the newest confirmed slot that was taken is in the
\* deque until it is reported.
Numbering ==
    /\ newest \in 0 .. N /\ confirmed \in 0 .. N /\ gen_next_slot \in 0 .. N + 1
    /\ confirmed <= newest
    /\ confirmed # 0 => /\ gen_next_slot # 0 /\ gen_next_slot <= confirmed + 1
                        /\ gen_next_slot <= confirmed =>
                              confirmed \in DOMAIN blocks /\ blocks[confirmed].confirmed

\* The reports are those of the slots from some slot to gen_next_slot.
Reports ==
    /\ report \in [Slots -> {"none", "block", "dead", "missed", "panic"}]
    /\ \A s \in Slots : confirmed = 0 \/ gen_next_slot <= s => report[s] = "none"
    /\ \A s, t \in Slots : s < t /\ t < gen_next_slot /\ report[s] # "none" => report[t] # "none"

\* The loop has ended only when everything up to the newest one is reported.
Drained == ~ draining /\ confirmed # 0 => gen_next_slot = confirmed + 1

MemoryInv ==
    /\ Chain
    /\ Deque
    /\ Numbering
    /\ Reports
    /\ Drained
    /\ VerdictsSound
    /\ NoPanic

-----------------------------------------------------------------------------
(***************************************************************************)
(* The deque.                                                              *)
(***************************************************************************)

\* A nonempty set of naturals has a least element.
LEMMA NatMin ==
    ASSUME NEW T, T \subseteq Nat, T # {}
    PROVE  \E x \in T : \A y \in T : x <= y
<1> DEFINE R == OpToRel(<, Nat)
<1>1. IsWellFoundedOn(R, Nat)  BY NatLessThanWellFounded
<1>2. \A x, y \in Nat : y < x => <<y, x>> \in R  BY DEF OpToRel
<1> HIDE DEF R
<1>3. PICK x \in T : \A y \in T : ~ (<<y, x>> \in R)  BY <1>1, WFMin, Zenon
<1>4. \A y \in T : y \in Nat /\ x \in Nat /\ ~ (y < x)  BY <1>2, <1>3
<1>5. \A y \in T : x <= y  BY <1>4
<1> QED  BY <1>5

\* The front and the back of the deque are in it.
LEMMA Ends ==
    ASSUME DOMAIN blocks \subseteq Slots, DOMAIN blocks # {}
    PROVE  /\ first_slot \in DOMAIN blocks /\ \A t \in DOMAIN blocks : first_slot <= t
           /\ last_slot \in DOMAIN blocks /\ \A t \in DOMAIN blocks : t <= last_slot
           /\ first_slot \in Int /\ last_slot \in Int
<1>0. N \in Nat /\ DOMAIN blocks \subseteq Nat /\ \A s \in DOMAIN blocks : s <= N
  BY StorageMemoryAssumption DEF Slots
<1>1. \E s \in DOMAIN blocks : \A t \in DOMAIN blocks : s <= t  BY <1>0, NatMin, Zenon
<1>2. first_slot \in DOMAIN blocks /\ \A t \in DOMAIN blocks : first_slot <= t
  BY <1>1, Zenon DEF first_slot
<1> DEFINE T == {n \in Nat : N - n \in DOMAIN blocks}
<1>3. \A s \in DOMAIN blocks : N - s \in T  BY <1>0
<1>4. T \subseteq Nat /\ T # {}  BY <1>3
<1>5. PICK x \in T : \A y \in T : x <= y  BY <1>4, NatMin, Zenon
<1>6. \A t \in DOMAIN blocks : t <= N - x  BY <1>0, <1>3, <1>5
<1>7. \E s \in DOMAIN blocks : \A t \in DOMAIN blocks : t <= s  BY <1>5, <1>6
<1>8. last_slot \in DOMAIN blocks /\ \A t \in DOMAIN blocks : t <= last_slot
  BY <1>7, Zenon DEF last_slot
<1> QED  BY <1>0, <1>2, <1>8

\* add_slot extends the deque to the slot without a gap.
LEMMA ExtendedIs ==
    ASSUME Deque, NEW slot \in Slots
    PROVE  /\ slot \in Extended(slot) /\ DOMAIN blocks \subseteq Extended(slot)
           /\ Extended(slot) \subseteq Slots
           /\ \A s, t \in Extended(slot) : s .. t \subseteq Extended(slot)
           /\ \A s \in Extended(slot) : slot <= s \/ \E t \in DOMAIN blocks : t <= s
<1>1. slot \in Int /\ N \in Int  BY StorageMemoryAssumption DEF Slots
<1>2. CASE DOMAIN blocks = {}  BY <1>1, <1>2 DEF Extended
<1>3. CASE DOMAIN blocks # {}
  <2>1. /\ first_slot \in DOMAIN blocks /\ \A t \in DOMAIN blocks : first_slot <= t
        /\ last_slot \in DOMAIN blocks /\ \A t \in DOMAIN blocks : t <= last_slot
        /\ first_slot \in Int /\ last_slot \in Int
        /\ DOMAIN blocks \subseteq Slots /\ DOMAIN blocks \subseteq Int
    BY <1>3, Ends DEF Deque, Slots
  <2> HIDE DEF first_slot, last_slot
  <2>2. DOMAIN blocks = first_slot .. last_slot
    <3>1. first_slot .. last_slot \subseteq DOMAIN blocks  BY <2>1 DEF Deque
    <3>2. DOMAIN blocks \subseteq first_slot .. last_slot  BY <2>1
    <3> QED  BY <3>1, <3>2, Zenon
  <2>3. CASE slot < first_slot
    <3>1. Extended(slot) = slot .. last_slot  BY <1>3, <2>3 DEF Extended
    <3> QED  BY <1>1, <2>1, <2>2, <2>3, <3>1 DEF Slots
  <2>4. CASE ~ (slot < first_slot) /\ slot > last_slot
    <3>1. Extended(slot) = first_slot .. slot  BY <1>3, <2>4 DEF Extended
    <3> QED  BY <1>1, <2>1, <2>2, <2>4, <3>1 DEF Slots
  <2>5. CASE ~ (slot < first_slot) /\ ~ (slot > last_slot)
    <3>1. Extended(slot) = DOMAIN blocks  BY <1>3, <2>5 DEF Extended
    <3> QED  BY <1>1, <2>1, <2>2, <2>5, <3>1 DEF Slots
  <2> QED  BY <2>3, <2>4, <2>5
<1> QED  BY <1>2, <1>3

\* What add_slot returns: what was known, and nothing about new slots.
LEMMA AddSlotIs ==
    ASSUME Chain, Deque, NEW slot \in Slots
    PROVE  /\ DOMAIN add_slot(slot) = Extended(slot)
           /\ \A s \in DOMAIN blocks : add_slot(slot)[s] = blocks[s]
           /\ \A s \in Extended(slot) :
                 add_slot(slot)[s] \in BlockInfo /\ Told(s, add_slot(slot)[s])
           /\ \A s \in Extended(slot) \ DOMAIN blocks : ~ add_slot(slot)[s].confirmed
<1>1. DOMAIN blocks \subseteq Extended(slot)  BY ExtendedIs
<1>2. new_info \in BlockInfo /\ new_info.block = None /\ ~ new_info.dead /\ ~ new_info.confirmed
  BY DEF new_info, BlockInfo, None
<1>3. \A s : Told(s, new_info)  BY <1>2 DEF Told
<1>4. ASSUME NEW s \in Extended(slot)
      PROVE  add_slot(slot)[s] = IF s \in DOMAIN blocks THEN blocks[s] ELSE new_info
  BY DEF add_slot
<1> QED  BY <1>1, <1>2, <1>3, <1>4 DEF Deque, add_slot

\* A message about a slot that is not reported yet.
LEMMA AcceptedKeeps ==
    ASSUME Chain, Deque, Numbering, NEW slot \in Slots, Accepts(slot), NEW info \in BlockInfo,
           Told(slot, info), Accepted(slot, info), UNCHANGED chain,
           confirmed' \in 0 .. N, confirmed <= confirmed',
           info.confirmed => slot <= confirmed'
    PROVE  /\ Deque'
           /\ gen_next_slot' = FirstNext(slot) /\ gen_next_slot' \in 1 .. N + 1
           /\ slot \in DOMAIN blocks' /\ blocks'[slot] = info
           /\ \A s \in DOMAIN blocks \ {slot} : s \in DOMAIN blocks' /\ blocks'[s] = blocks[s]
<1>1. /\ slot \in Extended(slot) /\ DOMAIN blocks \subseteq Extended(slot)
      /\ Extended(slot) \subseteq Slots
      /\ \A s, t \in Extended(slot) : s .. t \subseteq Extended(slot)
      /\ \A s \in Extended(slot) : slot <= s \/ \E t \in DOMAIN blocks : t <= s
  BY ExtendedIs
<1>2. PICK A : A = add_slot(slot)  OBVIOUS
<1>3. /\ DOMAIN A = Extended(slot)
      /\ \A s \in DOMAIN blocks : A[s] = blocks[s]
      /\ \A s \in Extended(slot) : A[s] \in BlockInfo /\ Told(s, A[s])
      /\ \A s \in Extended(slot) \ DOMAIN blocks : ~ A[s].confirmed
  BY <1>2, AddSlotIs
<1>4. blocks' = [A EXCEPT ![slot] = info] /\ gen_next_slot' = FirstNext(slot)
  BY <1>2 DEF Accepted
<1>5. /\ DOMAIN blocks' = Extended(slot) /\ blocks'[slot] = info
      /\ \A s \in Extended(slot) \ {slot} : blocks'[s] = A[s]
  BY <1>1, <1>3, <1>4
<1>6. FirstNext(slot) \in 1 .. N + 1 /\ FirstNext(slot) <= slot
      /\ (DOMAIN blocks # {} => FirstNext(slot) = gen_next_slot)
  <2>1. slot \in 1 .. N /\ N \in Nat /\ gen_next_slot \in 0 .. N + 1
    BY StorageMemoryAssumption DEF Slots, Numbering
  <2> QED  BY <2>1 DEF FirstNext, Accepts, Deque
<1>7. parent' = parent /\ canon' = canon  BY DEF chain
<1>8. \A s \in DOMAIN blocks' : gen_next_slot' <= s
  <2> TAKE s \in DOMAIN blocks'
  <2>1. s \in Int /\ slot \in Int  BY <1>1, <1>5 DEF Slots
  <2>2. CASE slot <= s  BY <1>4, <1>6, <2>1, <2>2
  <2>3. CASE \E t \in DOMAIN blocks : t <= s
    <3>1. PICK t \in DOMAIN blocks : t <= s  BY <2>3
    <3>2. gen_next_slot <= t /\ t \in Int  BY DEF Deque, Slots
    <3> QED  BY <1>4, <1>6, <2>1, <3>1, <3>2
  <2> QED  BY <1>1, <1>5, <2>2, <2>3
<1>9. ASSUME NEW s \in DOMAIN blocks' PROVE blocks'[s] \in BlockInfo /\ Told(s, blocks[s])'
  <2>1. CASE s = slot  BY <1>5, <1>7, <2>1 DEF Told
  <2>2. CASE s # slot  BY <1>3, <1>5, <1>7, <2>2 DEF Told
  <2> QED  BY <2>1, <2>2
<1>10. \A s \in DOMAIN blocks' : blocks'[s].confirmed => s <= confirmed'
  <2> TAKE s \in DOMAIN blocks'
  <2>1. CASE s = slot  BY <1>5, <2>1
  <2>2. CASE s # slot
    <3>1. blocks'[s] = A[s]  BY <1>5, <2>2
    <3>2. SUFFICES ASSUME A[s].confirmed PROVE s <= confirmed'  BY <3>1
    <3>3. s \in DOMAIN blocks /\ blocks[s].confirmed  BY <1>3, <1>5, <3>2
    <3>4. s <= confirmed /\ s \in Int /\ confirmed \in Int  BY <3>3 DEF Deque, Numbering, Slots
    <3> QED  BY <3>4
  <2> QED  BY <2>1, <2>2
<1>11. Deque'  BY <1>1, <1>4, <1>5, <1>6, <1>8, <1>9, <1>10 DEF Deque
<1> QED  BY <1>1, <1>3, <1>4, <1>5, <1>6, <1>11

-----------------------------------------------------------------------------
(***************************************************************************)
(* The messages of the stream.                                             *)
(***************************************************************************)

\* What a message leaves alone: the reports, which end below the slot.
LEMMA MessageReports ==
    ASSUME Reports, Numbering, UNCHANGED <<chain, report>>, VerdictsSound,
           confirmed' \in 0 .. N, confirmed <= confirmed',
           gen_next_slot' \in 0 .. N + 1,
           gen_next_slot' = gen_next_slot \/ gen_next_slot = 0
    PROVE  Reports' /\ VerdictsSound'
<1>1. canon' = canon  BY DEF chain
<1>2. VerdictsSound'  BY <1>1 DEF VerdictsSound
<1>3. \A s \in Slots : confirmed = 0 \/ gen_next_slot <= s => report[s] = "none"  BY DEF Reports
<1>4. confirmed \in Nat /\ confirmed' \in Nat /\ gen_next_slot \in Nat /\ gen_next_slot' \in Nat
  BY StorageMemoryAssumption DEF Numbering
<1>5. CASE gen_next_slot = 0
  <2>1. \A s \in Slots : report[s] = "none"  BY <1>3, <1>5 DEF Slots
  <2> QED  BY <1>2, <2>1 DEF Reports
<1>6. CASE gen_next_slot' = gen_next_slot
  <2>1. confirmed' = 0 => confirmed = 0  BY <1>4
  <2> QED  BY <1>2, <1>6, <2>1 DEF Reports
<1> QED  BY <1>5, <1>6

\* A message that is refused.
LEMMA RefusedKeeps ==
    ASSUME MemoryInv, NEW slot \in Slots, ~ Accepts(slot), Refused(slot),
           UNCHANGED <<chain, confirmed, report>>, newest' \in 0 .. N, newest <= newest',
           draining' = TRUE, ~ panic'
    PROVE  MemoryInv'
<1>0. Chain /\ Deque /\ Numbering /\ Reports /\ VerdictsSound  BY DEF MemoryInv
<1>1. gen_next_slot' = gen_next_slot /\ blocks' = blocks /\ parent' = parent /\ canon' = canon
      /\ confirmed' = confirmed
  <2>1. gen_next_slot # 0
    <3>1. slot \in Int  BY DEF Slots
    <3> QED  BY <3>1 DEF Accepts, FirstNext
  <2> QED  BY <2>1 DEF Refused, FirstNext, chain
<1>2. Chain' /\ Deque'  BY <1>0, <1>1 DEF Chain, Deque, Told, IsBranch
<1>3. Numbering'  BY <1>0, <1>1, StorageMemoryAssumption DEF Numbering
<1>4. Reports' /\ VerdictsSound'  BY <1>0, <1>1 DEF Reports, VerdictsSound
<1>5. Drained' /\ NoPanic'  BY Zenon DEF Drained, NoPanic
<1> QED  BY <1>2, <1>3, <1>4, <1>5 DEF MemoryInv

\* A message that is taken.
LEMMA TakenKeeps ==
    ASSUME MemoryInv, NEW slot \in Slots, Accepts(slot), NEW info \in BlockInfo,
           Told(slot, info), Accepted(slot, info), UNCHANGED <<chain, report>>,
           newest' \in 0 .. N, newest <= newest', draining' = TRUE, ~ panic',
           \/ confirmed' = confirmed /\ (info.confirmed <=> add_slot(slot)[slot].confirmed)
           \/ confirmed' = slot /\ confirmed < slot /\ slot <= newest' /\ info.confirmed
    PROVE  MemoryInv'
<1>0. Chain /\ Deque /\ Numbering /\ Reports /\ VerdictsSound  BY DEF MemoryInv
<1>1. slot \in 1 .. N /\ N \in Nat /\ confirmed \in 0 .. N /\ gen_next_slot \in 0 .. N + 1
  BY <1>0, StorageMemoryAssumption DEF Slots, Numbering
<1>2. confirmed' \in 0 .. N /\ confirmed <= confirmed'  BY <1>1
<1>3. info.confirmed => slot <= confirmed'
  <2>1. CASE confirmed' = confirmed /\ (info.confirmed <=> add_slot(slot)[slot].confirmed)
    <3>1. SUFFICES ASSUME add_slot(slot)[slot].confirmed PROVE slot <= confirmed  BY <2>1
    <3>2. slot \in DOMAIN blocks /\ blocks[slot].confirmed  BY <1>0, <3>1, AddSlotIs, ExtendedIs
    <3> QED  BY <1>0, <3>2 DEF Deque
  <2>2. CASE confirmed' = slot  BY <1>1, <2>2
  <2> QED  BY <2>1, <2>2
<1>4. /\ Deque'
      /\ gen_next_slot' = FirstNext(slot) /\ gen_next_slot' \in 1 .. N + 1
      /\ slot \in DOMAIN blocks' /\ blocks'[slot] = info
      /\ \A s \in DOMAIN blocks \ {slot} : s \in DOMAIN blocks' /\ blocks'[s] = blocks[s]
  BY <1>0, <1>2, <1>3, AcceptedKeeps
<1>5. Chain'  BY <1>0 DEF Chain, chain, IsBranch
<1>6. gen_next_slot' = gen_next_slot \/ gen_next_slot = 0  BY <1>4 DEF FirstNext
<1>7. Reports' /\ VerdictsSound'  BY <1>0, <1>1, <1>2, <1>4, <1>6, MessageReports
<1>8. gen_next_slot' <= slot  BY <1>1, <1>4 DEF Accepts
<1>9. Numbering'
  <2>1. newest \in 0 .. N /\ confirmed <= newest  BY <1>0 DEF Numbering
  <2>2. confirmed' <= newest'  BY <1>1, <2>1
  <2>3. ASSUME confirmed' # 0
        PROVE  /\ gen_next_slot' # 0 /\ gen_next_slot' <= confirmed' + 1
               /\ gen_next_slot' <= confirmed' =>
                     confirmed' \in DOMAIN blocks' /\ blocks'[confirmed'].confirmed
    <3>1. CASE confirmed' = slot /\ info.confirmed  BY <1>1, <1>4, <1>8, <3>1
    <3>2. CASE confirmed' = confirmed /\ (info.confirmed <=> add_slot(slot)[slot].confirmed)
      <4>1. gen_next_slot # 0 /\ gen_next_slot <= confirmed + 1
            /\ (gen_next_slot <= confirmed =>
                  confirmed \in DOMAIN blocks /\ blocks[confirmed].confirmed)
        BY <1>0, <2>3, <3>2 DEF Numbering
      <4>2. gen_next_slot' = gen_next_slot  BY <1>6, <4>1
      <4>3. ASSUME gen_next_slot <= confirmed
            PROVE  confirmed \in DOMAIN blocks' /\ blocks'[confirmed].confirmed
        <5>1. confirmed \in DOMAIN blocks /\ blocks[confirmed].confirmed  BY <4>1, <4>3
        <5>2. CASE confirmed = slot
          <6>1. add_slot(slot)[slot] = blocks[slot]  BY <1>0, <5>1, <5>2, AddSlotIs
          <6> QED  BY <1>4, <3>2, <5>1, <5>2, <6>1
        <5>3. CASE confirmed # slot  BY <1>4, <5>1, <5>3
        <5> QED  BY <5>2, <5>3
      <4> QED  BY <3>2, <4>1, <4>2, <4>3
    <3> QED  BY <3>1, <3>2
  <2>4. gen_next_slot' \in 0 .. N + 1  BY <1>1, <1>4
  <2> QED  BY <1>2, <2>2, <2>3, <2>4 DEF Numbering
<1>10. Drained' /\ NoPanic'  BY Zenon DEF Drained, NoPanic
<1> QED  BY <1>4, <1>5, <1>7, <1>9, <1>10 DEF MemoryInv

\* What add_slot gives for the slot itself.
LEMMA SlotInfo ==
    ASSUME MemoryInv, NEW slot \in Slots, NEW old, old = add_slot(slot)[slot]
    PROVE  old \in BlockInfo /\ Told(slot, old)
BY AddSlotIs, ExtendedIs DEF MemoryInv

\* A block comes.
LEMMA ProcessedKeeps ==
    ASSUME MemoryInv, NEW slot \in Slots, add_processed(slot)
    PROVE  MemoryInv'
<1>1. PICK old : old = add_slot(slot)[slot]  OBVIOUS
<1>2. old \in BlockInfo /\ Told(slot, old)  BY <1>1, SlotInfo
<1>3. /\ UNCHANGED <<chain, confirmed, report>> /\ draining' = TRUE /\ newest' = newest
      /\ newest \in 0 .. N /\ newest <= newest'
  BY DEF add_processed, MemoryInv, Numbering
<1>4. ~ panic'  BY Zenon DEF add_processed, Stream
<1>5. PICK info : info = [old EXCEPT !.block = parent[slot]]  OBVIOUS
<1>6. parent[slot] \in Slots \union {0}  BY StorageMemoryAssumption DEF MemoryInv, Chain, Slots
<1>7. info \in BlockInfo /\ info.block = parent[slot] /\ (info.dead <=> old.dead)
      /\ (info.confirmed <=> old.confirmed)
  BY <1>2, <1>5, <1>6 DEF BlockInfo
<1>8. Told(slot, info)  BY <1>2, <1>7 DEF Told
<1>9. CASE Accepts(slot)
  <2>1. Accepted(slot, info)  BY <1>1, <1>5, <1>9 DEF add_processed
  <2> QED  BY <1>1, <1>3, <1>4, <1>7, <1>8, <1>9, <2>1, TakenKeeps
<1>10. CASE ~ Accepts(slot)
  <2>1. Refused(slot)  BY <1>10 DEF add_processed
  <2> QED  BY <1>3, <1>4, <1>10, <2>1, RefusedKeeps
<1> QED  BY <1>9, <1>10

\* A slot is dead: it was not confirmed.
LEMMA DeadKeeps ==
    ASSUME MemoryInv, NEW slot \in Slots, set_dead(slot)
    PROVE  MemoryInv'
<1>1. PICK old : old = add_slot(slot)[slot]  OBVIOUS
<1>2. old \in BlockInfo /\ Told(slot, old)  BY <1>1, SlotInfo
<1>3. /\ UNCHANGED <<chain, confirmed, report>> /\ draining' = TRUE /\ newest' = newest
      /\ newest \in 0 .. N /\ newest <= newest' /\ slot \notin canon
  BY DEF set_dead, MemoryInv, Numbering
<1>4. PICK info : info = [old EXCEPT !.dead = TRUE]  OBVIOUS
<1>5. info \in BlockInfo /\ info.block = old.block /\ (info.confirmed <=> old.confirmed)
  BY <1>2, <1>4 DEF BlockInfo
<1>6. Told(slot, info)  BY <1>2, <1>3, <1>5 DEF Told
<1>7. CASE Accepts(slot)
  <2>1. Accepted(slot, info) /\ panic' = old.confirmed  BY <1>1, <1>4, <1>7, Zenon DEF set_dead
  <2>2. ~ old.confirmed  BY <1>2, <1>3 DEF Told
  <2>3. ~ panic'  BY <2>1, <2>2, Zenon
  <2> QED  BY <1>1, <1>3, <1>5, <1>6, <1>7, <2>1, <2>3, TakenKeeps
<1>8. CASE ~ Accepts(slot)
  <2>1. Refused(slot)  BY <1>8 DEF set_dead
  <2>2. ~ panic'  BY <1>8, Zenon DEF set_dead, Stream
  <2> QED  BY <1>3, <1>8, <2>1, <2>2, RefusedKeeps
<1> QED  BY <1>7, <1>8

\* A slot is confirmed: it was neither dead nor confirmed before.
LEMMA ConfirmedKeeps ==
    ASSUME MemoryInv, NEW slot \in Slots, set_confirmed(slot)
    PROVE  MemoryInv'
<1>0. Numbering /\ Deque  BY DEF MemoryInv
<1>1. PICK old : old = add_slot(slot)[slot]  OBVIOUS
<1>2. old \in BlockInfo /\ Told(slot, old)  BY <1>1, SlotInfo
<1>3. /\ UNCHANGED <<chain, report>> /\ draining' = TRUE /\ newest' = slot
      /\ slot > newest /\ slot \in canon
  BY DEF set_confirmed
<1>4. /\ newest \in 0 .. N /\ confirmed \in 0 .. N /\ confirmed <= newest /\ slot \in 1 .. N /\ N \in Nat
  BY <1>0, StorageMemoryAssumption DEF Numbering, Slots
<1>5. newest' \in 0 .. N /\ newest <= newest' /\ confirmed < slot /\ slot <= newest'  BY <1>3, <1>4
<1>6. ~ (confirmed >= slot)  BY <1>4, <1>5
<1>7. PICK info : info = [old EXCEPT !.confirmed = TRUE]  OBVIOUS
<1>8. info \in BlockInfo /\ info.block = old.block /\ (info.dead <=> old.dead) /\ info.confirmed
  BY <1>2, <1>7 DEF BlockInfo
<1>9. Told(slot, info)  BY <1>2, <1>3, <1>8 DEF Told
<1>10. CASE Accepts(slot)
  <2>1. Accepted(slot, info) /\ confirmed' = slot  BY <1>1, <1>7, <1>10 DEF set_confirmed
  <2>2. panic' = (confirmed >= slot \/ old.dead)  BY <1>1, <1>10, Zenon DEF set_confirmed
  <2>3. ~ old.dead  BY <1>2, <1>3 DEF Told
  <2>4. ~ panic'  BY <1>6, <2>2, <2>3, Zenon
  <2> QED  BY <1>1, <1>3, <1>5, <1>8, <1>9, <1>10, <2>1, <2>4, TakenKeeps
<1>11. CASE ~ Accepts(slot)
  <2>1. Refused(slot) /\ confirmed' = confirmed  BY <1>11 DEF set_confirmed
  <2>2. panic' = (confirmed >= slot)  BY <1>11, Zenon DEF set_confirmed
  <2>3. ~ panic'  BY <1>6, <2>2, Zenon
  <2> QED  BY <1>3, <1>5, <1>11, <2>1, <2>3, RefusedKeeps
<1> QED  BY <1>10, <1>11

\* The stream starts over.
LEMMA StartKeeps == MemoryInv /\ Start => MemoryInv'
<1> SUFFICES ASSUME MemoryInv, Start PROVE MemoryInv'  OBVIOUS
<1>1. /\ newest' = 0 /\ DOMAIN blocks' = {} /\ confirmed' = 0 /\ gen_next_slot' = 0
      /\ report' = [s \in Slots |-> "none"] /\ UNCHANGED chain
  BY DEF Start
<1>2. ~ panic' /\ draining' = TRUE  BY Zenon DEF Start, Stream
<1>3. Chain'  BY <1>1 DEF MemoryInv, Chain, chain, IsBranch
<1>4. Deque' /\ Numbering'  BY <1>1, StorageMemoryAssumption DEF Deque, Numbering
<1>5. Reports' /\ VerdictsSound'  BY <1>1 DEF Reports, VerdictsSound
<1>6. Drained' /\ NoPanic'  BY <1>2, Zenon DEF Drained, NoPanic
<1> QED  BY <1>3, <1>4, <1>5, <1>6 DEF MemoryInv

-----------------------------------------------------------------------------
(***************************************************************************)
(* pop_confirmed.                                                          *)
(***************************************************************************)

\* The walk ends at a block of the branch, and if that one is known, its
\* parent is below the deque.
LEMMA OldestIs ==
    ASSUME MemoryInv, NEW c \in Confirmed
    PROVE  /\ Oldest(c) \in DOMAIN blocks /\ Oldest(c) \in canon
           /\ blocks[Oldest(c)].block # None =>
                 blocks[Oldest(c)].block = parent[Oldest(c)] /\ parent[Oldest(c)] < first_slot
<1>0. Chain /\ Deque  BY DEF MemoryInv
<1>1. c \in DOMAIN blocks /\ c \in canon  BY <1>0 DEF Confirmed, Deque, Told
<1>2. /\ first_slot \in DOMAIN blocks /\ \A t \in DOMAIN blocks : first_slot <= t
      /\ first_slot \in Int /\ DOMAIN blocks \subseteq Slots
  BY <1>0, <1>1, Ends DEF Deque
<1>3. ASSUME NEW s \in DOMAIN blocks, ParentHeld(s)
      PROVE  /\ blocks[s].block = parent[s] /\ parent[s] \in DOMAIN blocks /\ parent[s] < s
             /\ first_slot <= parent[s]
  <2>1. blocks[s].block = parent[s] /\ first_slot <= parent[s]
    BY <1>0, <1>3 DEF ParentHeld, Deque, Told
  <2>2. s \in Int /\ s \in Slots /\ parent[s] \in Int /\ parent[s] < s
    BY <1>0, <1>2 DEF Chain, Slots
  <2>3. parent[s] \in first_slot .. s  BY <1>2, <2>1, <2>2
  <2>4. first_slot .. s \subseteq DOMAIN blocks  BY <1>0, <1>2 DEF Deque
  <2> QED  BY <2>1, <2>2, <2>3, <2>4
<1>4. c \in Walk(c)  BY <1>1 DEF Walk
<1>5. ASSUME NEW s \in Walk(c), ParentHeld(s) PROVE blocks[s].block \in Walk(c)
  <2>1. s \in DOMAIN blocks  BY DEF Walk
  <2>2. blocks[s].block \in DOMAIN blocks  BY <1>3, <1>5, <2>1
  <2>3. ASSUME NEW W \in SUBSET DOMAIN blocks, c \in W,
               \A t \in W : ParentHeld(t) => blocks[t].block \in W
        PROVE  blocks[s].block \in W
    BY <1>5, <2>3 DEF Walk
  <2> QED  BY <2>2, <2>3 DEF Walk
<1>6. Walk(c) \subseteq canon
  <2> DEFINE W == DOMAIN blocks \intersect canon
  <2>1. W \in SUBSET DOMAIN blocks /\ c \in W  BY <1>1
  <2>2. ASSUME NEW s \in W, ParentHeld(s) PROVE blocks[s].block \in W
    <3>1. blocks[s].block = parent[s] /\ parent[s] \in DOMAIN blocks /\ parent[s] \in Slots
      BY <1>2, <1>3, <2>2
    <3>2. parent[s] \in canon \union {0}  BY <1>0 DEF Chain, IsBranch
    <3>3. parent[s] # 0  BY <3>1 DEF Slots
    <3> QED  BY <3>1, <3>2, <3>3
  <2>3. \A t \in Walk(c) : t \in W  BY <2>1, <2>2 DEF Walk
  <2> QED  BY <2>3
<1>7. Walk(c) \subseteq DOMAIN blocks /\ Walk(c) \subseteq Nat
  BY <1>2 DEF Walk, Slots
<1>8. \E s \in Walk(c) : \A t \in Walk(c) : s <= t  BY <1>4, <1>7, NatMin, Zenon
<1>9. Oldest(c) \in Walk(c) /\ \A t \in Walk(c) : Oldest(c) <= t  BY <1>8, Zenon DEF Oldest
<1>10. PICK old : old = Oldest(c)  OBVIOUS
<1>11. old \in DOMAIN blocks /\ old \in canon /\ old \in Slots /\ old \in Int
  BY <1>2, <1>6, <1>7, <1>9, <1>10
<1>12. ASSUME blocks[old].block # None
       PROVE  blocks[old].block = parent[old] /\ parent[old] < first_slot
  <2>1. blocks[old].block = parent[old]  BY <1>0, <1>11, <1>12 DEF Deque, Told
  <2>2. parent[old] \in Int /\ parent[old] < old  BY <1>0, <1>11 DEF Chain
  <2>3. ~ ParentHeld(old)
    <3>1. SUFFICES ASSUME ParentHeld(old) PROVE FALSE  OBVIOUS
    <3>2. parent[old] \in Walk(c)  BY <1>5, <1>9, <1>10, <2>1, <3>1
    <3> QED  BY <1>9, <1>10, <1>11, <2>2, <3>2
  <2>4. ~ (first_slot <= parent[old])  BY <1>12, <2>1, <2>3 DEF ParentHeld
  <2> QED  BY <1>2, <2>1, <2>2, <2>4
<1> QED  BY <1>10, <1>11, <1>12

\* The verdict on the next slot is right, and never a panic.
LEMMA VerdictRight ==
    ASSUME MemoryInv, PopReady, NEW old, old = Oldest(FirstConfirmed)
    PROVE  /\ gen_next_slot \in Slots /\ gen_next_slot <= first_slot /\ first_slot <= confirmed
           /\ old \in DOMAIN blocks /\ old \in canon
           /\ blocks[old].block # None => parent[old] < first_slot
           /\ Verdict(old) \in {"block", "dead", "missed"}
           /\ Verdict(old) = "block" => gen_next_slot \in canon
           /\ Verdict(old) = "dead" => gen_next_slot \notin canon
<1>0. Chain /\ Deque /\ Numbering  BY DEF MemoryInv
<1>1. Confirmed # {} /\ Confirmed \subseteq DOMAIN blocks /\ DOMAIN blocks \subseteq Slots
  BY <1>0 DEF PopReady, Confirmed, Deque
<1>2. Confirmed \subseteq Nat  BY <1>1 DEF Slots
<1>3. \E s \in Confirmed : \A t \in Confirmed : s <= t  BY <1>1, <1>2, NatMin, Zenon
<1>4. FirstConfirmed \in Confirmed  BY <1>3, Zenon DEF FirstConfirmed
<1>5. /\ old \in DOMAIN blocks /\ old \in canon
      /\ blocks[old].block # None => blocks[old].block = parent[old] /\ parent[old] < first_slot
  BY <1>4, OldestIs
<1>6. /\ first_slot \in DOMAIN blocks /\ \A t \in DOMAIN blocks : first_slot <= t
      /\ first_slot \in Int
  BY <1>1, <1>5, Ends
<1>7. first_slot <= confirmed
  <2>1. FirstConfirmed <= confirmed /\ FirstConfirmed \in DOMAIN blocks /\ FirstConfirmed \in Int
    BY <1>0, <1>1, <1>4 DEF Confirmed, Deque, Slots
  <2>2. confirmed \in Int  BY <1>0 DEF Numbering
  <2> QED  BY <1>6, <2>1, <2>2
<1>8. gen_next_slot \in Slots /\ gen_next_slot <= first_slot /\ gen_next_slot \in Int
  <2>1. gen_next_slot \in 0 .. N + 1 /\ gen_next_slot # 0 /\ gen_next_slot <= first_slot
    BY <1>0, <1>6 DEF Numbering, PopReady, Deque
  <2>2. first_slot \in 1 .. N /\ N \in Nat  BY <1>1, <1>6, StorageMemoryAssumption DEF Slots
  <2> QED  BY <2>1, <2>2 DEF Slots
<1>9. \A t \in canon : t < old => t <= parent[old]  BY <1>0, <1>5 DEF Chain, IsBranch
<1>10. old \in Int /\ first_slot <= old /\ parent[old] \in Int
  BY <1>0, <1>1, <1>5, <1>6 DEF Slots, Chain
<1> HIDE DEF first_slot
<1>11. ASSUME NEW t \in Slots, blocks[old].block # None, parent[old] < t, t < old PROVE t \notin canon
  BY <1>9, <1>10, <1>11 DEF Slots
<1>12. CASE gen_next_slot < first_slot
  <2>1. gen_next_slot # first_slot  BY <1>6, <1>8, <1>12
  <2>2. Verdict(old) = IF blocks[old].block # None /\ gen_next_slot > blocks[old].block
                       THEN "dead" ELSE "missed"
    BY <1>12, <2>1 DEF Verdict, missed_or_dead
  <2>3. ASSUME blocks[old].block # None, gen_next_slot > blocks[old].block
        PROVE  gen_next_slot \notin canon
    <3>1. parent[old] < gen_next_slot /\ gen_next_slot < old  BY <1>5, <1>6, <1>8, <1>10, <1>12, <2>3
    <3> QED  BY <1>8, <1>11, <2>3, <3>1
  <2> QED  BY <1>5, <1>7, <1>8, <2>2, <2>3
<1>13. CASE gen_next_slot = first_slot /\ blocks[old].block # None
  <2>1. ~ (gen_next_slot < first_slot)  BY <1>6, <1>8, <1>13
  <2>2. Verdict(old) = IF old = first_slot THEN "block" ELSE "dead"
    BY <1>13, <2>1 DEF Verdict
  <2>3. ASSUME old # first_slot PROVE gen_next_slot \notin canon
    <3>1. parent[old] < gen_next_slot /\ gen_next_slot < old  BY <1>5, <1>6, <1>8, <1>10, <1>13, <2>3
    <3> QED  BY <1>8, <1>11, <1>13, <3>1
  <2> QED  BY <1>5, <1>7, <1>8, <1>13, <2>2, <2>3
<1>14. CASE gen_next_slot = first_slot /\ ~ (blocks[old].block # None)
  <2>1. ~ (gen_next_slot < first_slot)  BY <1>6, <1>8, <1>14
  <2>2. Verdict(old) = IF blocks[first_slot].dead THEN "dead" ELSE "missed"
    BY <1>14, <2>1 DEF Verdict, missed_or_dead
  <2>3. blocks[first_slot].dead => first_slot \notin canon  BY <1>0, <1>6 DEF Deque, Told
  <2> QED  BY <1>5, <1>7, <1>8, <1>14, <2>2, <2>3
<1> QED  BY <1>6, <1>8, <1>12, <1>13, <1>14

\* The deque that is left.
LEMMA LeftKeeps ==
    ASSUME MemoryInv, PopReady, NEW old, old = Oldest(FirstConfirmed),
           blocks' = Left(old), gen_next_slot' = gen_next_slot + 1,
           UNCHANGED <<chain, newest, confirmed>>
    PROVE  Deque' /\ Numbering'
<1>0. Chain /\ Deque /\ Numbering  BY DEF MemoryInv
<1>1. /\ gen_next_slot \in Slots /\ gen_next_slot <= first_slot /\ first_slot <= confirmed
      /\ old \in DOMAIN blocks /\ old \in canon
      /\ blocks[old].block # None => parent[old] < first_slot
  BY VerdictRight
<1>2. /\ first_slot \in DOMAIN blocks /\ \A t \in DOMAIN blocks : first_slot <= t
      /\ first_slot \in Int /\ DOMAIN blocks \subseteq Slots
  BY <1>0, <1>1, Ends DEF Deque
<1>3. parent' = parent /\ canon' = canon /\ confirmed' = confirmed /\ newest' = newest  BY DEF chain
<1>4. gen_next_slot \in Int /\ confirmed \in Int /\ N \in Nat /\ confirmed \in 0 .. N /\ gen_next_slot \in 1 .. N
      /\ confirmed # 0
  BY <1>0, <1>1, StorageMemoryAssumption DEF Numbering, Slots, PopReady
<1> HIDE DEF first_slot
<1>5. CASE gen_next_slot # first_slot
  <2>1. blocks' = blocks  BY <1>5 DEF Left
  <2>2. \A s \in DOMAIN blocks : gen_next_slot + 1 <= s
    <3> TAKE s \in DOMAIN blocks
    <3>1. s \in Int /\ first_slot <= s  BY <1>2 DEF Slots
    <3> QED  BY <1>1, <1>2, <1>4, <1>5, <3>1
  <2>3. Deque'  BY <1>0, <1>3, <1>4, <2>1, <2>2 DEF Deque, Told
  <2>4. confirmed \in DOMAIN blocks /\ blocks[confirmed].confirmed
    BY <1>0, <1>1, <1>2, <1>4 DEF Numbering
  <2>5. gen_next_slot + 1 <= confirmed + 1  BY <1>1, <1>2, <1>4
  <2>6. Numbering'  BY <1>0, <1>3, <1>4, <2>1, <2>4, <2>5 DEF Numbering
  <2> QED  BY <2>3, <2>6
<1>6. CASE gen_next_slot = first_slot
  <2>1. /\ DOMAIN blocks' = DOMAIN blocks \ {first_slot}
        /\ \A s \in DOMAIN blocks' :
              blocks'[s] = IF blocks[old].block # None /\ s < old
                           THEN [blocks[s] EXCEPT !.block = None, !.dead = TRUE] ELSE blocks[s]
    BY <1>6 DEF Left
  <2>2. ASSUME NEW s \in DOMAIN blocks'
        PROVE  /\ s \in DOMAIN blocks /\ s \in Int /\ first_slot < s
               /\ blocks'[s] \in BlockInfo /\ Told(s, blocks[s])'
               /\ blocks'[s].confirmed <=> blocks[s].confirmed
    <3>1. s \in DOMAIN blocks /\ s \in Slots /\ s \in Int /\ first_slot < s
      <4>1. s \in DOMAIN blocks /\ s # first_slot /\ s \in Slots  BY <1>2, <2>1
      <4> QED  BY <1>2, <4>1 DEF Slots
    <3>2. blocks[s] \in BlockInfo /\ Told(s, blocks[s])  BY <1>0, <3>1 DEF Deque
    <3>3. CASE blocks[old].block # None /\ s < old
      <4>1. PICK info : info = [blocks[s] EXCEPT !.block = None, !.dead = TRUE]  OBVIOUS
      <4>2. blocks'[s] = info  BY <2>1, <3>3, <4>1
      <4>3. info \in BlockInfo /\ info.block = None /\ (info.confirmed <=> blocks[s].confirmed)
        BY <3>2, <4>1 DEF BlockInfo
      <4>4. s \notin canon
        <5>1. parent[old] < first_slot /\ parent[old] \in Int  BY <1>0, <1>1, <1>2, <3>3 DEF Chain
        <5>2. s \in canon => s <= parent[old]  BY <1>0, <1>1, <3>3 DEF Chain, IsBranch
        <5> QED  BY <1>2, <3>1, <5>1, <5>2
      <4>5. Told(s, blocks[s])'  BY <1>3, <3>2, <4>2, <4>3, <4>4 DEF Told
      <4> QED  BY <3>1, <4>2, <4>3, <4>5
    <3>4. CASE ~ (blocks[old].block # None /\ s < old)
      <4>1. blocks'[s] = blocks[s]  BY <2>1, <3>4
      <4> QED  BY <1>3, <3>1, <3>2, <4>1 DEF Told
    <3> QED  BY <3>3, <3>4
  <2>3. Deque'
    <3>1. DOMAIN blocks' \subseteq Slots  BY <1>2, <2>2
    <3>2. \A s, t \in DOMAIN blocks' : s .. t \subseteq DOMAIN blocks'
      <4> TAKE s, t \in DOMAIN blocks'
      <4>1. s .. t \subseteq DOMAIN blocks  BY <1>0, <2>2 DEF Deque
      <4>2. first_slot \notin s .. t  BY <1>2, <2>2
      <4> QED  BY <2>1, <4>1, <4>2
    <3>3. \A s \in DOMAIN blocks' : blocks'[s].confirmed => s <= confirmed'
      BY <1>0, <1>3, <2>2 DEF Deque
    <3>4. \A s \in DOMAIN blocks' : gen_next_slot' <= s  BY <1>2, <1>4, <1>6, <2>2
    <3>5. gen_next_slot' # 0  BY <1>4
    <3> QED  BY <2>2, <3>1, <3>2, <3>3, <3>4, <3>5 DEF Deque
  <2>4. ASSUME gen_next_slot + 1 <= confirmed
        PROVE  confirmed \in DOMAIN blocks' /\ blocks'[confirmed].confirmed
    <3>1. confirmed \in DOMAIN blocks /\ blocks[confirmed].confirmed
      BY <1>0, <1>4, <2>4 DEF Numbering
    <3>2. confirmed # first_slot  BY <1>2, <1>4, <1>6, <2>4
    <3>3. confirmed \in DOMAIN blocks'  BY <2>1, <3>1, <3>2
    <3> QED  BY <2>2, <3>1, <3>3
  <2>5. gen_next_slot + 1 <= confirmed + 1  BY <1>1, <1>2, <1>4
  <2>6. Numbering'  BY <1>0, <1>3, <1>4, <2>4, <2>5 DEF Numbering
  <2> QED  BY <2>3, <2>6
<1> QED  BY <1>5, <1>6

\* A slot is reported.
LEMMA PopKeeps == MemoryInv /\ pop_confirmed => MemoryInv'
<1> SUFFICES ASSUME MemoryInv, pop_confirmed PROVE MemoryInv'  OBVIOUS
<1>0. Chain /\ Deque /\ Numbering /\ Reports /\ VerdictsSound  BY DEF MemoryInv
<1>1. PICK old : old = Oldest(FirstConfirmed)  OBVIOUS
<1>2. /\ PopReady /\ report' = [report EXCEPT ![gen_next_slot] = Verdict(old)]
      /\ blocks' = Left(old) /\ gen_next_slot' = gen_next_slot + 1
      /\ UNCHANGED <<chain, newest, confirmed>>
  BY <1>1 DEF pop_confirmed
<1>3. panic' = (Verdict(old) = "panic") /\ draining /\ draining' = draining
  BY <1>1, Zenon DEF pop_confirmed
<1>4. /\ gen_next_slot \in Slots /\ Verdict(old) \in {"block", "dead", "missed"}
      /\ gen_next_slot <= first_slot /\ first_slot <= confirmed
      /\ Verdict(old) = "block" => gen_next_slot \in canon
      /\ Verdict(old) = "dead" => gen_next_slot \notin canon
  BY <1>1, <1>2, VerdictRight
<1>5. Deque' /\ Numbering'  BY <1>1, <1>2, LeftKeeps
<1>6. PICK v \in {"block", "dead", "missed"} : v = Verdict(old)  BY <1>4
<1>7. /\ report' \in [Slots -> {"none", "block", "dead", "missed", "panic"}]
      /\ report'[gen_next_slot] = v /\ \A s \in Slots \ {gen_next_slot} : report'[s] = report[s]
  BY <1>0, <1>2, <1>4, <1>6 DEF Reports
<1>8. confirmed # 0 /\ confirmed' = confirmed  BY <1>2 DEF PopReady
<1>9. Reports'
  <2>1. ASSUME NEW s \in Slots, gen_next_slot' <= s PROVE report'[s] = "none"
    <3>1. s \in Int /\ gen_next_slot \in Int  BY <1>4 DEF Slots
    <3>2. gen_next_slot <= s /\ s # gen_next_slot  BY <1>2, <2>1, <3>1
    <3> QED  BY <1>0, <1>7, <3>2 DEF Reports
  <2>2. ASSUME NEW s \in Slots, NEW t \in Slots, s < t, t < gen_next_slot', report'[s] # "none"
        PROVE  report'[t] # "none"
    <3>1. s \in Int /\ t \in Int /\ gen_next_slot \in Int  BY <1>4 DEF Slots
    <3>2. CASE t = gen_next_slot  BY <1>6, <1>7, <3>2
    <3>3. CASE t # gen_next_slot
      <4>1. t < gen_next_slot /\ s # gen_next_slot  BY <1>2, <2>2, <3>1, <3>3
      <4> QED  BY <1>0, <1>7, <2>2, <3>3, <4>1 DEF Reports
    <3> QED  BY <3>2, <3>3
  <2> QED  BY <1>7, <1>8, <2>1, <2>2 DEF Reports
<1>10. canon' = canon /\ Chain'  BY <1>0, <1>2 DEF chain, Chain, IsBranch
<1>11. VerdictsSound'  BY <1>0, <1>4, <1>6, <1>7, <1>10 DEF VerdictsSound
<1>12. ~ (Verdict(old) = "panic")  BY <1>4
<1>13. NoPanic' /\ Drained'  BY <1>3, <1>12, Zenon DEF NoPanic, Drained
<1> QED  BY <1>5, <1>9, <1>10, <1>11, <1>13 DEF MemoryInv

\* There is nothing more to report.
LEMMA NoneKeeps == MemoryInv /\ pop_none => MemoryInv'
<1> SUFFICES ASSUME MemoryInv, pop_none PROVE MemoryInv'  OBVIOUS
<1>0. Chain /\ Deque /\ Numbering /\ Reports /\ VerdictsSound  BY DEF MemoryInv
<1>1. ~ PopReady /\ UNCHANGED <<chain, newest, blocks, confirmed, gen_next_slot, report, panic>>
  BY DEF pop_none
<1>2. Chain' /\ Deque' /\ Numbering' /\ Reports' /\ VerdictsSound'
  BY <1>0, <1>1 DEF Chain, chain, IsBranch, Deque, Told, Numbering, Reports, VerdictsSound
<1>3. NoPanic'  BY <1>1, Zenon DEF NoPanic, MemoryInv
<1>4. ASSUME confirmed # 0 PROVE gen_next_slot = confirmed + 1
  <2>1. /\ gen_next_slot # 0 /\ gen_next_slot <= confirmed + 1
        /\ gen_next_slot <= confirmed => confirmed \in DOMAIN blocks /\ blocks[confirmed].confirmed
        /\ gen_next_slot \in Int /\ confirmed \in Int
    BY <1>0, <1>4 DEF Numbering
  <2>2. Confirmed = {}  BY <1>1, <1>4, <2>1 DEF PopReady
  <2>3. ~ (gen_next_slot <= confirmed)  BY <2>1, <2>2 DEF Confirmed
  <2> QED  BY <2>1, <2>3
<1>5. Drained'  BY <1>1, <1>4 DEF Drained
<1> QED  BY <1>2, <1>3, <1>5 DEF MemoryInv

-----------------------------------------------------------------------------
(***************************************************************************)
(* The theorems.                                                           *)
(***************************************************************************)

\* Before the first message.
LEMMA MemoryInit == Init => MemoryInv
<1> SUFFICES ASSUME Init PROVE MemoryInv  OBVIOUS
<1>1. /\ DOMAIN blocks = {} /\ newest = 0 /\ confirmed = 0 /\ gen_next_slot = 0
      /\ report = [s \in Slots |-> "none"]
  BY DEF Init
<1>2. Chain  BY DEF Init, Chain
<1>3. Deque /\ Numbering  BY <1>1, StorageMemoryAssumption DEF Deque, Numbering
<1>4. Reports /\ VerdictsSound  BY <1>1 DEF Reports, VerdictsSound
<1>5. Drained  BY <1>1 DEF Drained
<1>6. NoPanic  BY Zenon DEF Init, NoPanic
<1> QED  BY <1>2, <1>3, <1>4, <1>5, <1>6 DEF MemoryInv

\* Every step keeps the invariant.
LEMMA MemoryNext == MemoryInv /\ [Next]_vars => MemoryInv'
<1> SUFFICES ASSUME MemoryInv, [Next]_vars PROVE MemoryInv'  OBVIOUS
<1>1. CASE UNCHANGED vars
  <2>1. UNCHANGED <<chain, newest, blocks, confirmed, gen_next_slot, report>>  BY <1>1 DEF vars, chain
  <2>2. Chain' /\ Deque' /\ Numbering' /\ Reports' /\ VerdictsSound'
    BY <2>1 DEF MemoryInv, Chain, chain, IsBranch, Deque, Told, Numbering, Reports, VerdictsSound
  <2>3. NoPanic' /\ Drained'  BY <1>1, Zenon DEF MemoryInv, NoPanic, Drained, vars
  <2> QED  BY <2>2, <2>3 DEF MemoryInv
<1> QED
  BY <1>1, ProcessedKeeps, DeadKeeps, ConfirmedKeeps, StartKeeps, PopKeeps, NoneKeeps DEF Next

\* The invariant of the stream memory holds always.
THEOREM MemoryInvariant == Spec => []MemoryInv
BY MemoryInit, MemoryNext, PTL DEF Spec

\* Every verdict agrees with the chain, for every chain and every order and
\* loss of stream messages: a block that is reported is on the confirmed
\* branch, a slot that is reported dead is not.
THEOREM VerdictsSoundAlways == Spec => []VerdictsSound
<1>1. MemoryInv => VerdictsSound  BY DEF MemoryInv
<1> QED  BY <1>1, MemoryInvariant, PTL

\* No assertion of set_dead and set_confirmed fails, and pop_confirmed does not
\* reach its panic!.
THEOREM NoPanicAlways == Spec => []NoPanic
<1>1. MemoryInv => NoPanic  BY DEF MemoryInv
<1> QED  BY <1>1, MemoryInvariant, PTL

\* When the writer waits for the next message, every slot from the first one
\* heard of to the newest confirmed one has been reported, and none after it.
THEOREM ReportedUpToConfirmedAlways == Spec => []ReportedUpToConfirmed
<1>1. MemoryInv => ReportedUpToConfirmed
  <2> SUFFICES ASSUME MemoryInv, ~ draining, confirmed # 0
               PROVE  /\ gen_next_slot = confirmed + 1
                      /\ \A s \in Slots : s > confirmed => report[s] = "none"
                      /\ \A s, t \in Slots : s < t /\ t <= confirmed /\ report[s] # "none" =>
                            report[t] # "none"
    BY DEF ReportedUpToConfirmed
  <2>1. gen_next_slot = confirmed + 1 /\ confirmed \in Int  BY DEF MemoryInv, Drained, Numbering
  <2>2. \A s \in Slots : (s > confirmed => gen_next_slot <= s) /\ (s <= confirmed => s < gen_next_slot)
    BY <2>1 DEF Slots
  <2> QED  BY <2>1, <2>2 DEF MemoryInv, Reports
<1> QED  BY <1>1, MemoryInvariant, PTL

\* Between two starts of the stream no report is taken back or changed: what
\* the writer has stored of a slot is final.
THEOREM ReportsFinal ==
    Spec => [][Start \/ \A s \in Slots : report[s] # "none" => report'[s] = report[s]]_vars
<1>1. ASSUME MemoryInv, [Next]_vars
      PROVE  [Start \/ \A s \in Slots : report[s] # "none" => report'[s] = report[s]]_vars
  <2>1. CASE pop_confirmed
    <3>1. report' = [report EXCEPT ![gen_next_slot] = Verdict(Oldest(FirstConfirmed))]
      BY <2>1 DEF pop_confirmed
    <3>2. gen_next_slot \in Slots /\ report[gen_next_slot] = "none"
      <4>1. gen_next_slot \in Slots  BY <1>1, <2>1, VerdictRight DEF pop_confirmed
      <4>2. gen_next_slot <= gen_next_slot  BY <4>1 DEF Slots
      <4> QED  BY <1>1, <4>1, <4>2 DEF MemoryInv, Reports
    <3> QED  BY <1>1, <3>1, <3>2 DEF MemoryInv, Reports
  <2>2. CASE report' = report  BY <2>2
  <2>3. CASE Start  BY <2>3
  <2> QED
    BY <1>1, <2>1, <2>2, <2>3 DEF Next, add_processed, set_dead, set_confirmed, pop_none, vars
<1> QED  BY <1>1, MemoryInvariant, PTL DEF Spec

=============================================================================
