----------------------------- MODULE BlockStore -----------------------------
(***************************************************************************)
(* How a block gets onto disk and off it: push_block_front,                *)
(* push_block_back and pop_block of RocksdbWrite (src/storage/rocksdb.rs), *)
(* with the thread that writes to RocksDB, and a crash at any point.       *)
(*                                                                         *)
(* A block is three things: its bytes in a file, its index rows            *)
(* (SlotExtraIndex, TransactionIndex, SfaIndex; one batch) and its row in  *)
(* SlotBasicIndex, which makes it part of the database at the next start.  *)
(* A file is a set of cells, one per block.  Which cell a block gets is    *)
(* StorageFiles' business; here it is any the files hold for free.         *)
(***************************************************************************)
EXTENDS Integers, Sequences, Functions, FiniteSets

CONSTANTS
    MaxSlot,    \* bound on the slots of the chain
    Skipped,    \* slots without a block
    Cells,      \* room in the files
    MaxBlocks   \* storage.blocks.max

ASSUME BlockStoreAssumption ==
    /\ MaxSlot \in Nat \ {0}
    /\ Skipped \subseteq 1 .. MaxSlot
    /\ Cells \intersect Int = {}
    /\ MaxBlocks \in Nat \ {0}

Slots == 1 .. MaxSlot

None == 0

VARIABLES
    bytes,      \* disk: the slot whose block is in a cell, None for anything else
    indexed,    \* disk: slots that have index rows
    basic,      \* disk: SlotBasicIndex, slot -> cell, None for a dead slot
    ring,       \* memory: StoredBlocksWrite, the same way
    used,       \* memory: cells between tail and head of the files
    queue,      \* requests to the thread that writes to RocksDB
    op,         \* the push or pop under way, see Op
    status      \* "starting", "running", "down", or the error that ended the process

disk == <<bytes, indexed, basic>>

vars == <<bytes, indexed, basic, ring, used, queue, op, status>>

(***************************************************************************)
(* stage: "idle", "make_room" (the pop when is_full), "join" (the two      *)
(* futures of try_join!), "add" (SlotAdd sent), "added", "pop" (a pop on   *)
(* its own).  file and index: the two futures.  gone: the slot pop_block   *)
(* waits for, with its cell in free; rows: whether its rows are removed.   *)
(***************************************************************************)
Op == [stage : {"idle", "make_room", "join", "add", "added", "pop"},
       side : {"front", "back"}, slot : Slots \union {None}, cell : Cells \union {None},
       file : {"try", "writing", "done", "no_room"}, index : {"unsent", "sent", "done"},
       gone : Slots \union {None}, free : Cells \union {None}, rows : {"there", "removed"}]

Idle == [stage |-> "idle", side |-> "front", slot |-> None, cell |-> None,
         file |-> "try", index |-> "unsent", gone |-> None, free |-> None,
         rows |-> "there"]

Lowest(S) == CHOOSE s \in S : \A t \in S : s <= t

Highest(S) == CHOOSE s \in S : \A t \in S : t <= s

\* Mutant: one block too many.
IsFullLate == Cardinality(DOMAIN ring) > MaxBlocks

is_full == Cardinality(DOMAIN ring) >= MaxBlocks

Request(type, slot, cell) == [type |-> type, slot |-> slot, cell |-> cell]

CellsOf(rows) == {rows[s] : s \in DOMAIN rows} \ {None}

Live(rows) == {s \in DOMAIN rows : rows[s] # None}

\* A row is added, or written over.
Put(rows, slot, cell) ==
    [s \in DOMAIN rows \union {slot} |-> IF s = slot THEN cell ELSE rows[s]]

(***************************************************************************)
(* pop_block takes the slot out of the ring first, then asks for its rows  *)
(* to be removed, and gives its bytes up when that is done.                *)
(***************************************************************************)
Popped(o, s) == [o EXCEPT !.gone = s, !.free = ring[s], !.rows = "there"]

TakeOut(s) ==
    /\ ring' = Restrict(ring, DOMAIN ring \ {s})
    /\ queue' = Append(queue, Request("SlotRemove", s, ring[s]))

\* Start-up pops, on request.
pop_block(side) ==
    /\ status = "starting"
    /\ op.stage = "idle"
    /\ DOMAIN ring # {}
    /\ LET s == IF side = "back" THEN Lowest(DOMAIN ring) ELSE Highest(DOMAIN ring)
       IN  /\ TakeOut(s)
           /\ op' = Popped([Idle EXCEPT !.stage = "pop"], s)
    /\ UNCHANGED <<disk, used, status>>

begin ==
    /\ status = "starting"
    /\ op.stage = "idle"
    /\ status' = "running"
    /\ UNCHANGED <<disk, ring, used, queue, op>>

(***************************************************************************)
(* push_block_back and push_block_front up to the first await.  The caller *)
(* gives the next slot on that side.                                       *)
(***************************************************************************)
Stored(o) ==
    IF o.slot \in Skipped
    THEN /\ op' = [o EXCEPT !.stage = "add"]
         /\ queue' = Append(queue, Request("SlotAdd", o.slot, None))
    ELSE /\ op' = [o EXCEPT !.stage = "join"]
         /\ UNCHANGED queue

push_block_back(s) ==
    /\ status = "running"
    /\ op.stage = "idle"
    /\ DOMAIN ring # {} /\ s = Lowest(DOMAIN ring) - 1
    /\ ~ is_full
    /\ Stored([Idle EXCEPT !.side = "back", !.slot = s])
    /\ UNCHANGED <<disk, ring, used, status>>

push_block_front(s) ==
    /\ status = "running"
    /\ op.stage = "idle"
    /\ DOMAIN ring # {} => s = Highest(DOMAIN ring) + 1
    /\ LET o == [Idle EXCEPT !.slot = s]
           oldest == Lowest(DOMAIN ring)
       IN  IF is_full
           THEN TakeOut(oldest) /\ op' = Popped([o EXCEPT !.stage = "make_room"], oldest)
           ELSE Stored(o) /\ UNCHANGED ring
    /\ UNCHANGED <<disk, used, status>>

\* Mutant: the bytes are given up while the rows are still there.
PopDoneEarly ==
    /\ op.gone # None
    /\ used' = used \ {op.free}
    /\ LET o == [op EXCEPT !.gone = None, !.free = None]
       IN  IF op.stage = "make_room" THEN Stored(o) ELSE op' = o /\ UNCHANGED queue
    /\ UNCHANGED <<disk, ring, status>>

\* The rows are gone: the files take the bytes for free, the caller goes on.
pop_block_done ==
    /\ op.gone # None /\ op.rows = "removed"
    /\ used' = used \ {op.free}
    /\ LET o == [op EXCEPT !.gone = None, !.free = None, !.rows = "there"]
       IN  CASE op.stage = "pop"       -> op' = Idle /\ UNCHANGED queue
             [] op.stage = "make_room" -> Stored(o)
             [] OTHER                  -> op' = o /\ UNCHANGED queue
    /\ UNCHANGED <<disk, ring, status>>

(***************************************************************************)
(* The first future of try_join!: the bytes.  While they are being written *)
(* the cell holds neither block.  Free space may be in pieces too short,   *)
(* and a block may be longer than every file.                              *)
(***************************************************************************)
write_file(c) ==
    /\ op.stage = "join" /\ op.file = "try" /\ op.gone = None
    /\ c \notin used
    /\ used' = used \union {c}
    /\ bytes' = [bytes EXCEPT ![c] = None]
    /\ op' = [op EXCEPT !.cell = c, !.file = "writing"]
    /\ UNCHANGED <<indexed, basic, ring, queue, status>>

file_written ==
    /\ op.file = "writing"
    /\ bytes' = [bytes EXCEPT ![op.cell] = op.slot]
    /\ op' = [op EXCEPT !.file = "done"]
    /\ UNCHANGED <<indexed, basic, ring, used, queue, status>>

no_room ==
    /\ op.stage = "join" /\ op.file = "try" /\ op.gone = None
    /\ CASE op.side = "back" ->
              op' = [op EXCEPT !.file = "no_room"] /\ UNCHANGED <<ring, queue, status>>
         [] op.side = "front" /\ DOMAIN ring # {} ->
              LET oldest == Lowest(DOMAIN ring)
              IN  TakeOut(oldest) /\ op' = Popped(op, oldest) /\ UNCHANGED status
         [] OTHER -> status' = "no_blocks_to_remove" /\ UNCHANGED <<ring, queue, op>>
    /\ UNCHANGED <<disk, used>>

\* The second future: the index rows.
send_indexes ==
    /\ op.stage = "join" /\ op.index = "unsent"
    /\ queue' = Append(queue, Request("AddIndexes", op.slot, None))
    /\ op' = [op EXCEPT !.index = "sent"]
    /\ UNCHANGED <<disk, ring, used, status>>

\* Mutant: the slot is added as soon as the bytes are written.
JoinedEarly ==
    /\ op.stage = "join" /\ op.file = "done"
    /\ op' = [op EXCEPT !.stage = "add"]
    /\ queue' = Append(queue, Request("SlotAdd", op.slot, op.cell))
    /\ UNCHANGED <<disk, ring, used, status>>

\* Both futures are done: the slot is added, or, without room for a block of
\* the history, push_block_back returns false.
joined ==
    /\ op.stage = "join" /\ op.index = "done"
    /\ \/ /\ op.file = "done"
          /\ op' = [op EXCEPT !.stage = "add"]
          /\ queue' = Append(queue, Request("SlotAdd", op.slot, op.cell))
       \/ op.file = "no_room" /\ op' = Idle /\ UNCHANGED queue
    /\ UNCHANGED <<disk, ring, used, status>>

\* The row is in the database: now the readers are told.
push_block_done ==
    /\ op.stage = "added"
    /\ ring' = Put(ring, op.slot, op.cell)
    /\ op' = Idle
    /\ UNCHANGED <<disk, used, queue, status>>

-----------------------------------------------------------------------------
(***************************************************************************)
(* RocksdbWrite::spawn: the thread that writes to RocksDB takes a request, *)
(* writes one batch and answers.                                           *)
(***************************************************************************)
AddIndexes ==
    /\ queue[1].type = "AddIndexes"
    /\ indexed' = indexed \union {queue[1].slot}
    /\ op' = [op EXCEPT !.index = "done"]
    /\ UNCHANGED <<basic, status>>

SlotAdd ==
    /\ queue[1].type = "SlotAdd"
    /\ basic' = Put(basic, queue[1].slot, queue[1].cell)
    /\ op' = [op EXCEPT !.stage = "added"]
    /\ UNCHANGED <<indexed, status>>

SlotRemove ==
    /\ queue[1].type = "SlotRemove"
    /\ LET s == queue[1].slot
           dead == queue[1].cell = None
       IN  IF dead \/ s \in indexed
           THEN /\ basic' = Restrict(basic, DOMAIN basic \ {s})
                /\ indexed' = IF dead THEN indexed ELSE indexed \ {s}
                /\ op' = [op EXCEPT !.rows = "removed"]
                /\ UNCHANGED status
           ELSE /\ status' = "existed_slot_not_found"
                /\ UNCHANGED <<basic, indexed, op>>

rocksdb_write ==
    /\ queue # <<>>
    /\ AddIndexes \/ SlotAdd \/ SlotRemove
    /\ queue' = Tail(queue)
    /\ UNCHANGED <<bytes, ring, used>>

(***************************************************************************)
(* The process stops, at any point, and starts again.  RocksDB keeps what  *)
(* was written.  A new start reads the slots, refuses a hole, rebuilds the *)
(* files' positions, and reads the recent blocks (here all) back.          *)
(***************************************************************************)
crash ==
    /\ status # "down"
    /\ status' = "down"
    /\ ring' = <<>> /\ used' = {} /\ queue' = <<>> /\ op' = Idle
    /\ UNCHANGED disk

Hole(S) == \E s \in S : s < Highest(S) /\ s + 1 \notin S

start ==
    /\ status = "down"
    /\ IF Hole(DOMAIN basic) THEN status' = "found_a_hole"
       ELSE IF \E s \in Live(basic) : bytes[basic[s]] # s THEN status' = "failed_to_load_blocks"
       ELSE status' = "starting"
    /\ ring' = basic
    /\ used' = CellsOf(basic)
    /\ UNCHANGED <<disk, queue, op>>

Init ==
    /\ bytes = [c \in Cells |-> None]
    /\ indexed = {}
    /\ basic = <<>> /\ ring = <<>>
    /\ used = {} /\ queue = <<>> /\ op = Idle
    /\ status = "starting"

Up == status \in {"starting", "running"}

Writer ==
    \/ \E side \in {"front", "back"} : pop_block(side)
    \/ begin
    \/ \E s \in Slots : push_block_back(s) \/ push_block_front(s)
    \/ pop_block_done
    \/ \E c \in Cells : write_file(c)
    \/ file_written
    \/ no_room
    \/ send_indexes
    \/ joined
    \/ push_block_done

Next ==
    \/ Up /\ (Writer \/ rocksdb_write)
    \/ crash
    \/ start

Spec == Init /\ [][Next]_vars

-----------------------------------------------------------------------------
(***************************************************************************)
(* Properties.                                                             *)
(***************************************************************************)

\* Every slot in SlotBasicIndex has its block in its cell, at every moment and
\* so after every crash: rows are removed before the bytes are given up, and
\* added after they are written.
ListedIntact == \A s \in Live(basic) : bytes[basic[s]] = s

\* Every slot with a block in SlotBasicIndex has its index rows: transactions
\* of a listed block are found, and removing a slot never stops the process
\* with "existed slot not found", whatever a crash left behind.
ListedIndexed ==
    /\ Live(basic) \subseteq indexed
    /\ status # "existed_slot_not_found"

Entries == [slot : Slots, cell : Cells \union {None}]

Window ==
    [i \in 1 .. Cardinality(DOMAIN basic) |->
        LET s == Lowest(DOMAIN basic) + i - 1
        IN  [slot |-> s, cell |-> IF s \in DOMAIN basic THEN basic[s] ELSE None]]

W == INSTANCE SlotWindow WITH window <- Window, Max <- MaxBlocks

\* What is durable is the window of SlotWindow: through pushes at both ends,
\* pruning in the middle of a push and crashes, SlotBasicIndex grows and
\* shrinks by one slot at an end, so that a new start never finds a hole.
DurableWindow == W!Spec
=============================================================================
