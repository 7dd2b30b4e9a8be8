------------------------ MODULE StoredBlocksQueries ------------------------
(***************************************************************************)
(* The questions the readers ask StoredBlocksRead (src/storage/blocks.rs)  *)
(* and what the answers should be.  The queries compute ring entries from  *)
(* slots; the references look at the set of stored entries only.           *)
(***************************************************************************)
EXTENDS StoredBlocks, FiniteSets

Removed == "removed"
NotAvailable == "not available"
SlotMismatch == "slot mismatch"
Dead == "dead"
OutOfLimit == "out of limit"
Ok == "ok"

\* The entry of a slot, if the window holds it.
Entry(R, slot) == (R.tail + (slot - R.blocks[R.tail].slot)) % Max

get_block_location(R, slot) ==
    LET tail  == R.blocks[R.tail]
        head  == R.blocks[R.head]
        block == R.blocks[Entry(R, slot)]
    IN  IF ~ tail.exists \/ tail.slot > slot THEN Removed
        ELSE IF ~ head.exists \/ head.slot < slot THEN NotAvailable
        ELSE IF ~ (block.exists /\ block.slot = slot) THEN SlotMismatch
        ELSE IF block.dead THEN Dead ELSE block.slot

(***************************************************************************)
(* get_blocks with end_slot, the last slot of the commitment asked for.    *)
(* until is an end slot or a limit on the number of slots.  The result is  *)
(* Ok with the slots, or one of its two errors with none.                  *)
(***************************************************************************)
Until == [end : Slots] \union [limit : 1 .. Max]

\* Mutant: the requested end slot is ignored.
ScanEndIgnored(end_slot, until) == end_slot

ScanEnd(end_slot, until) ==
    IF "end" \in DOMAIN until /\ until.end < end_slot THEN until.end ELSE end_slot

(***************************************************************************)
(* Turn d of its loop, from 0, looks at the entry d steps after that of    *)
(* start_slot.  The loop breaks there without a push, or after the entry   *)
(* at head; a slot pushed when n were pushed before is number n + 1.       *)
(***************************************************************************)
ScanIndex(R, start_slot, d) == (Entry(R, start_slot) + d) % Max

Pushed(R, start_slot, d) ==
    {e \in 0 .. d - 1 : ~ R.blocks[ScanIndex(R, start_slot, e)].dead}

Breaks(R, start_slot, last, until, d) ==
    LET block == R.blocks[ScanIndex(R, start_slot, d)]
    IN  \/ ~ block.exists \/ block.slot > last
        \/ /\ "limit" \in DOMAIN until
           /\ Cardinality(Pushed(R, start_slot, d)) = until.limit

Turns(R, start_slot, last, until) ==
    {d \in 0 .. Max - 1 :
        /\ \A e \in 0 .. d : ~ Breaks(R, start_slot, last, until, e)
        /\ \A e \in 0 .. d - 1 : ScanIndex(R, start_slot, e) # R.head}

Listing(R, start_slot, last, until) ==
    LET found == {d \in Turns(R, start_slot, last, until) :
                     ~ R.blocks[ScanIndex(R, start_slot, d)].dead}
        nth(n) == CHOOSE d \in found : Cardinality(Pushed(R, start_slot, d)) = n - 1
    IN  [n \in 1 .. Cardinality(found) |->
            R.blocks[ScanIndex(R, start_slot, nth(n))].slot]

get_blocks(R, start_slot, end_slot, until) ==
    LET tail == R.blocks[R.tail]
        head == R.blocks[R.head]
    IN  IF ~ (tail.exists /\ tail.slot <= start_slot)
        THEN [result |-> Removed, slots |-> <<>>]
        ELSE IF ~ (head.exists /\ head.slot >= end_slot)
        THEN [result |-> OutOfLimit, slots |-> <<>>]
        ELSE [result |-> Ok,
              slots |-> Listing(R, start_slot, ScanEnd(end_slot, until), until)]

(***************************************************************************)
(* block_time_to_slot_lower and _upper: the next and the previous entry of *)
(* the time index, in (time, slot) order.                                  *)
(***************************************************************************)
Before(a, b) == a[1] < b[1] \/ (a[1] = b[1] /\ a[2] <= b[2])

block_time_to_slot_lower(P, gte) ==
    LET range == {e \in P.index : e[1] >= gte}
    IN  IF range = {} THEN None
        ELSE (CHOOSE e \in range : \A f \in range : Before(e, f))[2]

block_time_to_slot_upper(P, lte) ==
    LET range == {e \in P.index : e[1] <= lte}
    IN  IF range = {} THEN None
        ELSE (CHOOSE e \in range : \A f \in range : Before(f, e))[2]

-----------------------------------------------------------------------------
StoredSlotsOf(R) == {b.slot : b \in Rows(R)}

LiveSlotsOf(R) == {b.slot : b \in {c \in Rows(R) : ~ c.dead}}

(***************************************************************************)
(* get_block_location finds every stored slot, in every state a replica    *)
(* goes through, and never answers SlotMismatch.                           *)
(***************************************************************************)
Located(R, s) ==
    LET answer == get_block_location(R, s)
    IN  CASE s \in LiveSlotsOf(R) -> answer = s
          [] s \in StoredSlotsOf(R) \ LiveSlotsOf(R) -> answer = Dead
          [] OTHER ->
                answer = IF \E t \in StoredSlotsOf(R) : t < s
                         THEN NotAvailable ELSE Removed

LocationExact == \A r \in Readers, s \in Slots : Located(replica[r].ring, s)

(***************************************************************************)
(* get_blocks lists, in slot order, the live slots from start_slot to the  *)
(* earlier of the two ends, or the first limit of them, for every start    *)
(* slot that is not past end_slot.                                         *)
(***************************************************************************)
Ascending(q) == \A i \in 1 .. Len(q) - 1 : q[i] < q[i + 1]

Listed(slots) == {slots[i] : i \in DOMAIN slots}

Lists(slots, wanted, until) ==
    /\ Ascending(slots)
    /\ Listed(slots) \subseteq wanted
    /\ IF "limit" \in DOMAIN until /\ until.limit < Cardinality(wanted)
       THEN /\ Len(slots) = until.limit
            /\ \A s \in wanted \ Listed(slots), t \in Listed(slots) : t < s
       ELSE Listed(slots) = wanted

ListExact(R, start, end, until) ==
    LET answer == get_blocks(R, start, end, until)
        bound == IF "end" \in DOMAIN until /\ until.end < end THEN until.end ELSE end
        wanted == {s \in LiveSlotsOf(R) : start <= s /\ s <= bound}
    IN  CASE answer.result = Removed -> \A s \in StoredSlotsOf(R) : start < s
          [] answer.result = OutOfLimit -> \A s \in StoredSlotsOf(R) : s < end
          [] OTHER -> Lists(answer.slots, wanted, until)

BlocksListExact ==
    \A r \in Readers, start, end \in Slots, until \in Until :
        start <= end => ListExact(replica[r].ring, start, end, until)

(***************************************************************************)
(* With block times in slot order, the slots found for a time bound cut    *)
(* off no block inside the bound and let none outside through.             *)
(***************************************************************************)
TimesInOrder(R) ==
    \A b, c \in {d \in Rows(R) : TimeEntry(d) # {}} : b.slot < c.slot => b.time <= c.time

BoundsExact(P, t) ==
    LET timed == {b \in Rows(P.ring) : TimeEntry(b) # {}}
        lower == block_time_to_slot_lower(P, t)
        upper == block_time_to_slot_upper(P, t)
    IN  TimesInOrder(P.ring) =>
          /\ \A b \in timed : b.time >= t <=> lower # None /\ b.slot >= lower
          /\ \A b \in timed : b.time <= t <=> upper # None /\ b.slot <= upper

TimeBoundsExact == \A r \in Readers, t \in Times : BoundsExact(replica[r], t)

(***************************************************************************)
(* Every query answered from a replica, whatever part of the writer's      *)
(* messages it has applied, tells exactly what the replica's ring holds.   *)
(***************************************************************************)
QueriesExact == LocationExact /\ BlocksListExact /\ TimeBoundsExact
=============================================================================
