----------------------------- MODULE StorageRead -----------------------------
(***************************************************************************)
(* A client's request against storage that moves on: the read threads of   *)
(* src/storage/read.rs, the calls of src/rpc/api_jsonrpc.rs and            *)
(* src/rpc/api_httpget.rs that use them, and the writer of BlockStore.     *)
(*                                                                         *)
(* The writer prunes old blocks, reuses their bytes and tells the readers  *)
(* by messages.  A reader follows with its own copy of the slot index.  A  *)
(* client compares slots with the published levels, asks whichever reader  *)
(* is first to take the request, and looks at the levels again.            *)
(*                                                                         *)
(* One request is under way at a time: requests share nothing but the      *)
(* permits for file reads.  A transaction is known by the slot of its      *)
(* block.  What unconfirmed blocks add is StorageProcessed's business.     *)
(***************************************************************************)
EXTENDS BlockStore

CONSTANTS
    Readers,    \* the read threads
    MaxPending, \* bound on the messages a reader is behind
    MaxRecent,  \* MAX_RECENT_BLOCKHASHES
    MaxAge,     \* MAX_PROCESSING_AGE, for how many blocks a blockhash is valid
    Loads,      \* starts: <<a, lo, hi, b>>, slots a to b on disk, lo to hi left by the pops
    Finalized,  \* the slots that are reported as finalized
    Forks,      \* block heights of forks at slots the chain skips
    Margin      \* slots above first_available for which getBlocks goes upstream, 32

ASSUME StorageReadAssumption ==
    /\ Readers # {}
    /\ MaxPending \in Nat \ {0}
    /\ MaxRecent \in Nat \ {0}
    /\ MaxAge \in Nat \ {0}
    /\ \A l \in Loads :
          /\ l[1] \in Slots /\ l[2] \in l[1] .. MaxSlot /\ l[3] \in l[2] .. MaxSlot
          /\ l[4] \in l[3] .. MaxSlot /\ l[4] - l[1] < MaxBlocks
          /\ Cardinality((l[2] .. l[4]) \ Skipped) <= Cardinality(Cells)
    /\ Finalized \subseteq Slots \ Skipped
    /\ Margin \in Nat
    /\ Forks \subseteq Nat
    /\ IsFiniteSet(Cells)

VARIABLES
    next,           \* next_confirmed_slot
    announced,      \* BlockConfirmed is sent for next, its push is not done
    next_back_slot, \* where backfilling goes on, None when it is finished
    inbox,          \* messages a reader has not handled yet
    reader,         \* what a reader knows
    stored,         \* StoredSlots: the published levels
    req             \* the request under way

writer == <<bytes, indexed, basic, ring, used, queue, op, status, next, announced, next_back_slot>>

readvars == <<bytes, indexed, basic, ring, used, queue, op, status, next, announced,
              next_back_slot, inbox, reader, stored, req>>

Commitments == {"confirmed", "finalized"}

\* first_available of an empty index is u64::MAX.
Never == MaxSlot + 1

LiveSlots == Slots \ Skipped

Height(s) == Cardinality({t \in LiveSlots : t <= s})

-----------------------------------------------------------------------------
(***************************************************************************)
(* The writer: BlockStore's steps, each with what it tells the readers and *)
(* what it publishes as first_available.                                   *)
(***************************************************************************)
Send(messages) == inbox' = [r \in Readers |-> inbox[r] \o messages]

RingMessages ==
    LET gone == DOMAIN ring \ DOMAIN ring'
        came == DOMAIN ring' \ DOMAIN ring
        new  == CHOOSE s \in came : TRUE
        front == ring = <<>> \/ new > Highest(DOMAIN ring)
    IN  IF gone # {} THEN <<[type |-> "PopBack"]>>
        ELSE IF came # {}
        THEN <<[type |-> IF front THEN "PushFront" ELSE "PushBack",
                slot |-> new, cell |-> ring'[new]]>>
        ELSE <<>>

(***************************************************************************)
(* pop_block_back, push_block_back2 and update_total store the lowest      *)
(* slot.  The push into an empty ring does so only at entry 0.             *)
(***************************************************************************)
first_available ==
    LET lowest == IF DOMAIN ring' = {} THEN Never ELSE Lowest(DOMAIN ring')
    IN  IF ring' = ring THEN {stored.first}
        ELSE {lowest} \union IF ring = <<>> THEN {stored.first} ELSE {}

Announce ==
    /\ Send(RingMessages)
    /\ \E first \in first_available : stored' = [stored EXCEPT !.first = first]
    /\ UNCHANGED <<reader, req>>

CanSend == \A r \in Readers : Len(inbox[r]) < MaxPending

Between == status = "running" /\ op.stage = "idle" /\ ~ announced

\* The next slot is confirmed: the readers hear of it first.
confirm ==
    /\ Between /\ CanSend
    /\ next <= MaxSlot
    /\ announced' = TRUE
    /\ Send(<<[type |-> "BlockConfirmed", slot |-> next]>>)
    /\ UNCHANGED <<vars, next, next_back_slot, reader, stored, req>>

\* Then it is stored.
store ==
    /\ CanSend
    /\ announced /\ push_block_front(next)
    /\ Announce
    /\ UNCHANGED <<next, announced, next_back_slot>>

(***************************************************************************)
(* Backfilling: the slot below the ring, as long as the ring has not moved *)
(* on since the last one.                                                  *)
(***************************************************************************)
backfill ==
    /\ Between /\ CanSend
    /\ next_back_slot # None
    /\ \/ /\ push_block_back(next_back_slot)
          /\ next_back_slot' = next_back_slot - 1
       \/ /\ is_full \/ DOMAIN ring = {} \/ next_back_slot # Lowest(DOMAIN ring) - 1
          /\ next_back_slot' = None
          /\ UNCHANGED vars
    /\ Announce
    /\ UNCHANGED <<next, announced>>

\* The rest of a push.
go_on ==
    /\ CanSend
    /\ \/ pop_block_done
       \/ \E c \in Cells : write_file(c)
       \/ file_written
       \/ no_room
       \/ send_indexes
       \/ joined
       \/ push_block_done
    /\ LET done == announced /\ op.stage = "added"
       IN  /\ announced' = (announced /\ ~ done)
           /\ next' = IF done THEN next + 1 ELSE next
    /\ Announce
    /\ UNCHANGED next_back_slot

(***************************************************************************)
(* A slot is finalized, stored already or not: the stream goes on while    *)
(* the writer waits for a block.                                           *)
(***************************************************************************)
finalize(s) ==
    /\ Between /\ CanSend
    /\ \A r \in Readers : reader[r].heard < s
    /\ \A r \in Readers : \A i \in DOMAIN inbox[r] : inbox[r][i].type # "SlotFinalized"
    /\ Send(<<[type |-> "SlotFinalized", slot |-> s]>>)
    /\ UNCHANGED <<vars, next, announced, next_back_slot, reader, stored, req>>

Storage ==
    \/ status = "running" /\ (confirm \/ store \/ backfill \/ go_on)
    \/ \E s \in Finalized : finalize(s)
    \/ status = "running" /\ rocksdb_write /\ Announce /\ UNCHANGED <<next, announced, next_back_slot>>

-----------------------------------------------------------------------------
(***************************************************************************)
(* A reader: its copy of the slot index, which is ring and the rows of     *)
(* extra above it, that the start takes back from the front and whose      *)
(* ConfirmedBlockPopFront messages it has not handled; the block in        *)
(* process (confirmed and not stored yet, None for no block); confirmed    *)
(* and finalized slot, confirmed height and slots of recent_blocks of its  *)
(* StorageProcessed; the last BlockConfirmed (told) and SlotFinalized      *)
(* (heard) since the start.  peak is for the properties: the highest       *)
(* confirmed height it had.                                                *)
(***************************************************************************)
InProcess(R) == R.inproc # None

Copy(R) ==
    [R EXCEPT !.ring = [s \in DOMAIN R.ring \union DOMAIN R.extra |->
                          IF s \in DOMAIN R.ring THEN R.ring[s] ELSE R.extra[s]]]

(***************************************************************************)
(* set_confirmed of StorageProcessed.  Without a block the height stays,   *)
(* unless recent_blocks has the block of a fork at that slot: its height   *)
(* is taken, whichever block it descends from.                             *)
(***************************************************************************)
ConfirmedHeights(R, slot) ==
    IF slot \in Skipped THEN {R.height} \union Forks ELSE {Height(slot)}

Recent(R, slot, height) ==
    {s \in R.recent \union ({slot} \ Skipped) : height - Height(s) < MaxRecent}

set_confirmed(R, slot, height) ==
    [R EXCEPT !.confirmed = slot, !.told = slot, !.inproc = slot, !.height = height,
              !.peak = IF @ < height THEN height ELSE @,
              !.recent = Recent(R, slot, height)]

\* Mutant: a level is published by the first reader that handles it.
AllHandledFirst(r, level, slot) == TRUE

\* set_confirmed and set_finalized of StoredSlotsRead: the last reader to
\* handle a slot publishes it.
AllHandled(r, level, slot) == \A q \in Readers \ {r} : reader[q][level] >= slot

(***************************************************************************)
(* What the readers handled of a slot is forgotten when a slot as high is  *)
(* finalized, and such a slot may not get published.                       *)
(***************************************************************************)
block_confirmed(r, m) ==
    /\ m.type = "BlockConfirmed"
    /\ \E height \in ConfirmedHeights(reader[r], m.slot) :
          reader' = [reader EXCEPT ![r] = set_confirmed(reader[r], m.slot, height)]
    /\ \/ /\ AllHandled(r, "told", m.slot)
          /\ stored' = [stored EXCEPT !.confirmed = m.slot, !.source = "readers"]
       \/ /\ ~ AllHandled(r, "told", m.slot) \/ m.slot <= reader[r].heard
          /\ UNCHANGED stored

\* A block above the confirmed slot may be known or not.
slot_finalized(r, m) ==
    /\ m.type = "SlotFinalized"
    /\ \E known \in IF m.slot \in reader[r].recent THEN {TRUE}
                    ELSE {FALSE} \union {m.slot > reader[r].confirmed} :
          reader' = [reader EXCEPT ![r].heard = m.slot,
                                   ![r].finalized = IF known THEN m.slot ELSE @]
    /\ stored' = IF AllHandled(r, "heard", m.slot) /\ m.slot >= stored.first
                 THEN [stored EXCEPT !.finalized = m.slot] ELSE stored

replica_update(r, m) ==
    LET R == reader[r].ring
    IN  /\ \/ /\ m.type = "PopBack"
              /\ reader' = [reader EXCEPT ![r].ring = Restrict(R, DOMAIN R \ {Lowest(DOMAIN R)})]
           \/ /\ m.type = "PushBack"
              /\ reader' = [reader EXCEPT ![r].ring = Put(R, m.slot, m.cell)]
           \/ /\ m.type = "PushFront"
              /\ reader' = [reader EXCEPT ![r].ring = Put(R, m.slot, m.cell),
                               ![r].inproc = None,
                               ![r].failed = (reader[r].inproc # m.slot)]
        /\ UNCHANGED stored

receive(r) ==
    /\ inbox[r] # <<>> /\ ~ reader[r].failed /\ DOMAIN reader[r].extra = {}
    /\ LET m == Head(inbox[r])
       IN  block_confirmed(r, m) \/ slot_finalized(r, m) \/ replica_update(r, m)
    /\ inbox' = [inbox EXCEPT ![r] = Tail(@)]
    /\ UNCHANGED <<writer, req>>

\* ConfirmedBlockPopFront, sent by the start only, before all the others.
pop_block_front(r) ==
    LET R == reader[r].extra
    IN  /\ DOMAIN R # {} /\ ~ reader[r].failed
        /\ reader' = [reader EXCEPT ![r].extra = Restrict(R, DOMAIN R \ {Highest(DOMAIN R)})]
        /\ UNCHANGED <<writer, inbox, stored, req>>

handle(r) == pop_block_front(r) \/ receive(r)

-----------------------------------------------------------------------------
(***************************************************************************)
(* What a reader finds.  StoredBlocksQueries shows that get_block_location *)
(* and get_blocks of a ring do this; here a ring entry is a slot modulo    *)
(* the size.                                                               *)
(***************************************************************************)
get_block_location(R, slot) ==
    IF DOMAIN R = {} \/ slot < Lowest(DOMAIN R) THEN "removed"
    ELSE IF slot > Highest(DOMAIN R) THEN "not_available"
    ELSE IF R[slot] = None THEN "dead" ELSE "found"

\* The n lowest.
Least(n, S) == {s \in S : Cardinality({t \in S : t < s}) < n}

\* Mutant: the scan stops before the last slot.
GetBlocksShort(R, start_slot, end, until) ==
    LET last == IF "end" \in DOMAIN until /\ until.end < end THEN until.end ELSE end
        found == {s \in Live(R) : start_slot <= s /\ s < last}
    IN  IF "limit" \in DOMAIN until THEN Least(until.limit, found) ELSE found

get_blocks(R, start_slot, end, until) ==
    LET tail == Lowest(DOMAIN R)
        from == tail + ((start_slot - tail) % MaxBlocks)
        last == IF "end" \in DOMAIN until /\ until.end < end THEN until.end ELSE end
        found == {s \in Live(R) : from <= s /\ s <= last}
    IN  IF "limit" \in DOMAIN until THEN Least(until.limit, found) ELSE found

Result(type, value) == [type |-> type, value |-> value]

\* A ReadError, with what the reader had at that moment.
Failed(R) ==
    Result("failed", [inproc |-> R.inproc, confirmed |-> R.confirmed, peak |-> R.peak,
                      live |-> Live(R.ring) # {},
                      above |-> R.told = 0 /\ \A s \in DOMAIN R.ring : s < R.confirmed])

(***************************************************************************)
(* ReadRequest::process, one operator per request that is answered from    *)
(* memory.  R is the reader.                                               *)
(***************************************************************************)
\* Mutant: the ring is asked for the block in process too.
BlocksNoInProcess(R) ==
    LET end == IF req.commit = "confirmed" THEN R.confirmed ELSE R.finalized
    IN  IF DOMAIN R.ring = {} \/ req.slot < Lowest(DOMAIN R.ring)
        THEN Result("removed", None)
        ELSE IF Highest(DOMAIN R.ring) < end THEN Failed(R)
        ELSE Result("blocks", get_blocks(R.ring, req.slot, end, req.until))

Blocks(R) ==
    LET ahead == req.commit = "confirmed" /\ InProcess(R)
        end == IF req.commit = "finalized" THEN R.finalized
               ELSE IF ahead THEN R.confirmed - 1 ELSE R.confirmed
        found == get_blocks(R.ring, req.slot, end, req.until)
        more == /\ ahead /\ R.inproc \notin Skipped /\ R.inproc >= req.slot
                /\ IF "end" \in DOMAIN req.until THEN R.inproc <= req.until.end
                   ELSE Cardinality(found) < req.until.limit
    IN  IF DOMAIN R.ring = {} \/ req.slot < Lowest(DOMAIN R.ring)
        THEN Result("removed", None)
        ELSE IF Highest(DOMAIN R.ring) < end THEN Failed(R)
        ELSE Result("blocks", found \union IF more THEN {R.inproc} ELSE {})

\* From the slot of the commitment down to a block.
BlockHeight(R) ==
    LET slot == IF req.commit = "confirmed" THEN R.confirmed ELSE R.finalized
        below == {s \in Live(R.ring) : s <= slot}
    IN  IF req.commit = "confirmed" /\ InProcess(R) /\ R.inproc \notin Skipped
        THEN Result("height", Height(R.inproc))
        ELSE IF get_block_location(R.ring, slot) \in {"removed", "not_available"} \/ below = {}
        THEN Failed(R)
        ELSE Result("height", Height(Highest(below)))

\* Above the confirmed slot an unconfirmed block may be known.
BlockTime(R) ==
    LET location == get_block_location(R.ring, req.slot)
    IN  IF R.inproc = req.slot
        THEN {IF req.slot \in Skipped THEN Result("dead", None) ELSE Result("time", req.slot)}
        ELSE IF req.slot > R.confirmed
        THEN {Result("not_available", None), Result("time", req.slot)}
        ELSE {CASE location = "found" -> Result("time", req.slot)
                [] location = "not_available" -> Failed(R)
                [] OTHER -> Result(location, None)}

\* At a slot without a block the block of a fork may be known still.
LatestBlockhash(R) ==
    LET slot == IF req.commit = "confirmed" THEN R.confirmed ELSE R.finalized
    IN  IF slot \in R.recent THEN {Result("height", Height(slot))}
        ELSE {Failed(R)} \union IF slot \in Skipped THEN {Result("fork", None)} ELSE {}

\* finalized_height and confirmed_height.
LevelHeight(R) == IF req.commit = "finalized" THEN Height(R.finalized) ELSE R.height

\* Block heights are known by blockhash as long as the block is recent.
BlockhashValid(R) ==
    IF req.slot \notin R.recent THEN Failed(R)
    ELSE Result(IF Height(req.slot) + MaxAge > LevelHeight(R) THEN "valid" ELSE "expired",
                [slot |-> R.confirmed, height |-> R.height])

\* The statuses of recent blocks; the rest is looked up if the client wants it.
NoStatus == [slot |-> None, level |-> "none"]

\* A height above confirmed_height passes for finalized.
Status(R, slot) ==
    IF slot \notin R.recent THEN NoStatus
    ELSE [slot |-> slot,
          level |-> IF Height(R.finalized) < Height(slot) /\ Height(slot) <= R.height
                    THEN "confirmed" ELSE "finalized"]

Signatures == <<req.slot, req.other>>

SignatureStatuses(R) ==
    LET local == [i \in 1 .. 2 |-> Status(R, Signatures[i])]
    IN  IF req.history /\ \E i \in 1 .. 2 : local[i] = NoStatus
        THEN [req EXCEPT !.stage = "index", !.local = local, !.finalized = R.finalized]
        ELSE [req EXCEPT !.stage = "result", !.result = Result("statuses", local)]

(***************************************************************************)
(* Requests that need the disk go on in steps: Block and Transaction2 read *)
(* the file at the location found before, Transaction reads its index row, *)
(* SignatureStatuses the rows of what is not recent.                       *)
(***************************************************************************)
ReadAt(R, slot) == [req EXCEPT !.stage = "file", !.cell = R.ring[slot]]

Answer(result) == [req EXCEPT !.stage = "result", !.result = result]

\* Mutant: the block in process is not looked at.
BlockStoredOnly(R) ==
    LET location == get_block_location(R.ring, req.slot)
    IN  IF location = "found" THEN ReadAt(R, req.slot) ELSE Answer(Result(location, None))

Block(R) ==
    LET location == get_block_location(R.ring, req.slot)
    IN  IF R.inproc = req.slot
        THEN Answer(IF req.slot \in Skipped THEN Result("dead", None) ELSE Result("block", req.slot))
        ELSE IF location = "found" THEN ReadAt(R, req.slot)
        ELSE Answer(Result(location, None))

Transaction(R) ==
    IF R.inproc = req.slot THEN Answer(Result("block", req.slot))
    ELSE [req EXCEPT !.stage = "index"]

Transaction2(R) ==
    IF get_block_location(R.ring, req.slot) = "found" THEN ReadAt(R, req.slot)
    ELSE Answer(Result("not_found", None))

(***************************************************************************)
(* A reader takes a request, or goes on with one.  The select is biased    *)
(* towards messages, but one may come while the other branches are polled. *)
(***************************************************************************)
process(r, R) ==
    CASE req.kind \in {"getBlock", "/block"}    -> {Block(R)}
      [] req.kind \in {"getTransaction", "/tx"} -> {Transaction(R)}
      [] req.kind = "getBlocks"      -> {[Answer(Blocks(R)) EXCEPT !.inside =
                                             DOMAIN R.ring # {} /\ req.slot <= Highest(DOMAIN R.ring)]}
      [] req.kind = "getBlockHeight" -> {Answer(BlockHeight(R))}
      [] req.kind = "getBlockTime"   -> {Answer(result) : result \in BlockTime(R)}
      [] req.kind = "getLatestBlockhash" -> {Answer(result) : result \in LatestBlockhash(R)}
      [] req.kind = "isBlockhashValid"   -> {Answer(BlockhashValid(R))}
      [] OTHER                       -> {SignatureStatuses(R)}

take(r) ==
    /\ ~ reader[r].failed
    /\ \/ /\ req.stage = "queued"
          /\ \E q \in process(r, Copy(reader[r])) : req' = [q EXCEPT !.reader = r]
       \/ /\ req.stage = "found" /\ req.reader = r
          /\ req' = Transaction2(Copy(reader[r]))
    /\ UNCHANGED <<writer, inbox, reader, stored>>

\* spawn_signature_statuses and read_tx_index: what has rows now.
read_index ==
    /\ req.stage = "index"
    /\ req' = IF req.kind = "getSignatureStatuses"
              THEN Answer(Result("statuses", [i \in 1 .. 2 |->
                     IF req.local[i] = NoStatus /\ Signatures[i] \in indexed
                        /\ Signatures[i] <= req.finalized
                     THEN [slot |-> Signatures[i], level |-> "finalized"]
                     ELSE req.local[i]]))
              ELSE IF req.slot \in indexed THEN [req EXCEPT !.stage = "found"]
              ELSE Answer(Result("not_found", None))
    /\ UNCHANGED <<writer, inbox, reader, stored>>

\* StorageFilesRead::read: whatever is there now.
read_file ==
    /\ req.stage = "file"
    /\ req' = Answer(Result("block", bytes[req.cell]))
    /\ UNCHANGED <<writer, inbox, reader, stored>>

-----------------------------------------------------------------------------
(***************************************************************************)
(* A start.  The newest slot on disk is published as confirmed, not by the *)
(* readers (source).  The readers get the index, and in recent_blocks the  *)
(* newest blocks but the one at the tail (get_recent_blocks).  Then the    *)
(* writer pops slots off the back and the front, if it is told to.  Here   *)
(* it is done with that; the readers follow the pops off the front.        *)
(***************************************************************************)
Seeded == stored.source = "disk"

\* The readers that still have slots the start has taken back.
Behind == {r \in Readers : DOMAIN reader[r].extra # {}}

Loaded(a, lo, hi, b) ==
    LET live == (lo .. b) \ Skipped
        recent == {s \in (a + 1 .. b) \ Skipped : Height(b) - Height(s) < MaxRecent}
        top == IF recent = {} THEN 0 ELSE Highest(recent)
        cell == CHOOSE f \in [live -> Cells] : \A s, t \in live : s # t => f[s] # f[t]
        rows(S) == [s \in S |-> IF s \in live THEN cell[s] ELSE None]
    IN  /\ ring = rows(lo .. hi)
        /\ bytes = [c \in Cells |-> IF \E s \in live : cell[s] = c
                                    THEN CHOOSE s \in live : cell[s] = c ELSE None]
        /\ indexed = (lo .. hi) \ Skipped
        /\ next = hi + 1 /\ next_back_slot = lo - 1
        /\ stored = [confirmed |-> b, finalized |-> 0, first |-> lo, source |-> "disk"]
        /\ reader = [r \in Readers |->
                [ring |-> ring, extra |-> rows(hi + 1 .. b), inproc |-> None,
                 finalized |-> 0, heard |-> 0, told |-> 0, confirmed |-> top,
                 height |-> Height(top), peak |-> Height(top),
                 recent |-> recent, failed |-> FALSE]]

Start ==
    /\ \E l \in Loads : Loaded(l[1], l[2], l[3], l[4])
    /\ basic = ring /\ used = CellsOf(ring)
    /\ queue = <<>> /\ op = Idle /\ status = "running"
    /\ announced = FALSE
    /\ inbox = [r \in Readers |-> <<>>]
=============================================================================
