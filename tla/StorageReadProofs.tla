-------------------------- MODULE StorageReadProofs --------------------------
(***************************************************************************)
(* Proofs about what is on disk and what is read from it.  The first part  *)
(* is about BlockStore alone: whatever is pushed, pruned and lost in a     *)
(* crash, every listed slot has its bytes and its index rows, and what is  *)
(* durable is a window of consecutive slots.  The second is about          *)
(* RpcRequests: a block that is answered is the one asked for.  The third  *)
(* follows a request from the moment it is asked: what could be served is  *)
(* found, listed and reported as long as it is stored.                     *)
(***************************************************************************)
EXTENDS RpcRequests, FunctionTheorems, FiniteSetTheorems, SequenceTheorems, WellFoundedInduction, TLAPS

-----------------------------------------------------------------------------
(***************************************************************************)
(* The invariant of BlockStore.                                            *)
(***************************************************************************)
IsRows(rows) ==
    /\ rows \in [DOMAIN rows -> Cells \union {None}]
    /\ DOMAIN rows \subseteq Slots

Types ==
    /\ bytes \in [Cells -> Slots \union {None}]
    /\ indexed \subseteq Slots
    /\ IsRows(basic) /\ IsRows(ring)
    /\ used \subseteq Cells
    /\ op \in Op
    /\ status = "down" => op = Idle /\ queue = <<>>

Asks == [type : {"AddIndexes", "SlotAdd", "SlotRemove"}, slot : Slots, cell : Cells \union {None}]

\* Each request in the queue is one the push or pop under way waits for, and
\* no two are of the same type.
Awaited(o, q) ==
    /\ q.type = "AddIndexes" => o.stage = "join" /\ o.index = "sent" /\ q.slot = o.slot
    /\ q.type = "SlotAdd" => o.stage = "add" /\ q.slot = o.slot /\ q.cell = o.cell
    /\ q.type = "SlotRemove" =>
          o.gone # None /\ o.rows = "there" /\ q.slot = o.gone /\ q.cell = o.free

QueueOK ==
    /\ queue \in Seq(Asks)
    /\ \A i \in 1 .. Len(queue) : Awaited(op, queue[i])
    /\ \A i, j \in 1 .. Len(queue) : queue[i].type = queue[j].type => i = j

\* How far the push or pop under way has got, and what that means on disk.
OpOK ==
    /\ op.stage \in {"idle", "pop", "make_room"} => op.cell = None /\ op.file = "try" /\ op.index = "unsent"
    /\ op.stage \in {"idle", "add", "added"} => op.gone = None
    /\ op.stage \in {"make_room", "join", "add", "added"} => op.slot \in Slots
    /\ op.stage = "join" => op.slot \notin Skipped
    /\ op.file = "writing" => op.stage = "join"
    /\ op.gone # None => op.cell = None
    /\ op.cell # None => op.file \in {"writing", "done"}
    /\ op.file = "done" => op.cell # None /\ bytes[op.cell] = op.slot
    /\ op.file = "writing" => op.cell # None
    /\ op.file = "no_room" => op.stage = "join" /\ op.gone = None
    /\ op.index = "done" => op.slot \in indexed
    /\ op.stage \in {"add", "added"} /\ op.cell # None => op.file = "done" /\ op.index = "done"

\* The row of the slot under way is there.
Leaving == op.gone # None /\ op.rows = "there"

\* SlotBasicIndex is the ring, but for the slot that leaves or comes.
RowsFollow ==
    /\ \A s \in DOMAIN ring : s \in DOMAIN basic /\ basic[s] = ring[s]
    /\ \A s \in DOMAIN basic \ DOMAIN ring :
          \/ Leaving /\ s = op.gone
          \/ op.stage = "added" /\ s = op.slot
    /\ Leaving => op.gone \in DOMAIN basic \ DOMAIN ring /\ basic[op.gone] = op.free
    /\ op.stage = "added" => op.slot \in DOMAIN basic /\ basic[op.slot] = op.cell
    /\ op.gone \notin DOMAIN ring

\* No cell of a listed slot is given away.
CellsKept ==
    /\ \A s \in Live(basic) : basic[s] \in used
    /\ op.cell # None => op.cell \in used
    /\ op.cell # None /\ op.stage # "added" => \A s \in DOMAIN basic : basic[s] # op.cell
    /\ op.gone # None /\ op.rows = "removed" /\ op.free # None => \A s \in DOMAIN basic : basic[s] # op.free

Consecutive(S) == \A s, t \in S : \A u \in s .. t : u \in S

\* The slots in SlotBasicIndex are consecutive and not too many.
Durable ==
    /\ Consecutive(DOMAIN basic)
    /\ \A s, t \in DOMAIN basic : t - s < MaxBlocks

Pushing == op.stage \in {"make_room", "join", "add", "added"}

\* The slot that comes is next to the ring on its side, and there is room.
Fits(o) ==
    /\ o.side = "front" =>
          /\ \A s \in DOMAIN ring : s < o.slot /\ o.slot - s < MaxBlocks
          /\ DOMAIN ring # {} => o.slot - 1 \in DOMAIN ring
    /\ o.side = "back" =>
          /\ \A s \in DOMAIN ring : o.slot < s /\ s - o.slot < MaxBlocks
          /\ o.slot + 1 \in DOMAIN ring

\* The slot that leaves was at an end of the ring; a push takes out the lowest.
Placed ==
    /\ Consecutive(DOMAIN ring)
    /\ Pushing => Fits(op)
    /\ op.gone # None => \/ \A s \in DOMAIN ring : op.gone < s
                         \/ op.stage = "pop" /\ \A s \in DOMAIN ring : s < op.gone
    /\ Pushing /\ op.gone # None => op.side = "front" /\ op.gone < op.slot

StoreInv ==
    /\ Types
    /\ QueueOK
    /\ OpOK
    /\ status # "down" => RowsFollow /\ CellsKept /\ Placed
    /\ ListedIntact
    /\ ListedIndexed
    /\ Durable

-----------------------------------------------------------------------------
(***************************************************************************)
(* Lowest and Highest choose an element that is there.                     *)
(***************************************************************************)

\* A nonempty set of naturals has a least element.
LEMMA NatMin ==
    ASSUME NEW T, T \subseteq Nat, T # {}
    PROVE  \E x \in T : \A y \in T : x <= y
<1> DEFINE R == OpToRel(<, Nat)
<1>1. IsWellFoundedOn(R, Nat)  BY NatLessThanWellFounded
<1>2. \A x, y \in Nat : y < x => <<y, x>> \in R  BY DEF OpToRel
<1> HIDE DEF R
<1>3. PICK x \in T : \A y \in T : ~ (<<y, x>> \in R)  BY <1>1, WFMin, Zenon
<1>4. \A y \in T : y \in Nat /\ x \in Nat /\ ~ (y < x)  BY <1>2, <1>3
<1>5. \A y \in T : x <= y  BY <1>4
<1> QED  BY <1>5

\* The lowest of some slots is one of them and no other is lower.
LEMMA LowestIn ==
    ASSUME NEW S, S \subseteq Slots, S # {}
    PROVE  /\ Lowest(S) \in S
           /\ \A t \in S : Lowest(S) <= t
<1>1. S \subseteq Nat  BY BlockStoreAssumption DEF Slots
<1>2. \E s \in S : \A t \in S : s <= t  BY <1>1, NatMin, Zenon
<1> QED  BY <1>2, Zenon DEF Lowest

\* The highest of some slots is one of them and no other is higher.
LEMMA HighestIn ==
    ASSUME NEW S, S \subseteq Slots, S # {}
    PROVE  /\ Highest(S) \in S
           /\ \A t \in S : t <= Highest(S)
<1> DEFINE T == {n \in Nat : MaxSlot - n \in S}
<1>1. MaxSlot \in Nat /\ \A s \in S : s \in Nat /\ s <= MaxSlot  BY BlockStoreAssumption DEF Slots
<1>2. \A s \in S : MaxSlot - s \in T  BY <1>1
<1>3. T \subseteq Nat /\ T # {}  BY <1>2
<1>4. PICK x \in T : \A y \in T : x <= y  BY <1>3, NatMin, Zenon
<1>5. \A t \in S : t <= MaxSlot - x  BY <1>1, <1>2, <1>4
<1>6. \E s \in S : \A t \in S : t <= s  BY <1>4, <1>5
<1> QED  BY <1>6, Zenon DEF Highest

\* No cell is a number, so none is None.
LEMMA CellNotNone == None \notin Cells
BY BlockStoreAssumption DEF None

\* Slots are counted from 1, so none is None.
LEMMA SlotNotNone == None \notin Slots
BY DEF None, Slots

-----------------------------------------------------------------------------
(***************************************************************************)
(* Every step keeps the invariant: one lemma per action.                   *)
(***************************************************************************)

\* Init: nothing is stored.
LEMMA StoreInit == Init => StoreInv
<1> SUFFICES ASSUME Init PROVE StoreInv  OBVIOUS
<1> USE DEF Init
<1>1. Types  BY DEF Types, IsRows, Idle, Op, None, Slots
<1>2. QueueOK  BY DEF QueueOK, Awaited
<1>3. OpOK  BY DEF OpOK, Idle, None
<1>4. RowsFollow  BY DEF RowsFollow, Leaving, Idle, None
<1>5. CellsKept  BY DEF CellsKept, Live, Idle, None
<1>6. Placed /\ Durable  BY DEF Placed, Durable, Consecutive, Pushing, Idle, None
<1>7. ListedIntact /\ ListedIndexed  BY DEF ListedIntact, ListedIndexed, Live
<1> QED  BY <1>1, <1>2, <1>3, <1>4, <1>5, <1>6, <1>7 DEF StoreInv

\* A sequence without an entry is the empty one.
LEMMA SeqLenZero ==
    ASSUME NEW S, NEW q \in Seq(S), Len(q) = 0
    PROVE  q = <<>>
OBVIOUS

\* A request is of one of three types.
LEMMA AskIs ==
    ASSUME NEW q \in Asks
    PROVE  /\ q.type \in {"AddIndexes", "SlotAdd", "SlotRemove"}
           /\ q.slot \in Slots /\ q.cell \in Cells \union {None}
BY DEF Asks

\* A request is asked that was not waiting.
LEMMA QueueAppend ==
    ASSUME QueueOK, NEW q \in Asks, queue' = Append(queue, q), Awaited(op', q),
           \A i \in 1 .. Len(queue) : queue[i].type # q.type /\ Awaited(op', queue[i])
    PROVE  QueueOK'
<1>1. queue \in Seq(Asks) /\ Len(queue) \in Nat  BY DEF QueueOK
<1>2. /\ queue' \in Seq(Asks) /\ Len(queue') = Len(queue) + 1
      /\ \A i \in 1 .. Len(queue) : queue'[i] = queue[i]
      /\ queue'[Len(queue) + 1] = q
  BY <1>1
<1>3. \A i \in 1 .. Len(queue') : i \in 1 .. Len(queue) \/ i = Len(queue) + 1  BY <1>1, <1>2
<1>4. \A i \in 1 .. Len(queue') : Awaited(op', queue'[i])  BY <1>2, <1>3
<1>5. \A i, j \in 1 .. Len(queue) : queue[i].type = queue[j].type => i = j  BY DEF QueueOK
<1>6. \A i, j \in 1 .. Len(queue') : queue'[i].type = queue'[j].type => i = j
  BY <1>2, <1>3, <1>5
<1> QED  BY <1>2, <1>4, <1>6 DEF QueueOK

\* The thread that writes to RocksDB takes the first request.
LEMMA QueueTail ==
    ASSUME QueueOK, queue # <<>>, queue' = Tail(queue),
           \A i \in 1 .. Len(queue) :
              queue[i] \in Asks /\ queue[i].type # queue[1].type => Awaited(op', queue[i])
    PROVE  QueueOK'
<1>1. queue \in Seq(Asks) /\ Len(queue) \in Nat \ {0}  BY DEF QueueOK
<1>2. /\ queue' \in Seq(Asks) /\ Len(queue') = Len(queue) - 1
      /\ \A i \in 1 .. Len(queue') : queue'[i] = queue[i + 1]
  BY <1>1
<1>3. \A i \in 1 .. Len(queue') : i + 1 \in 1 .. Len(queue) /\ i + 1 # 1  BY <1>1, <1>2
<1>4. 1 \in 1 .. Len(queue)  BY <1>1
<1>5. \A i, j \in 1 .. Len(queue) : queue[i].type = queue[j].type => i = j  BY DEF QueueOK
<1>6. \A i \in 1 .. Len(queue') : Awaited(op', queue'[i])
  <2> TAKE i \in 1 .. Len(queue')
  <2>1. queue[i + 1].type # queue[1].type  BY <1>3, <1>4, <1>5
  <2>2. queue[i + 1] \in Asks  BY <1>1, <1>3
  <2> QED  BY <1>2, <1>3, <2>1, <2>2
<1>7. \A i, j \in 1 .. Len(queue') : queue'[i].type = queue'[j].type => i = j
  <2> TAKE i, j \in 1 .. Len(queue')
  <2>1. queue[i + 1].type = queue[j + 1].type => i + 1 = j + 1  BY <1>3, <1>5
  <2> QED  BY <1>2, <2>1
<1> QED  BY <1>2, <1>6, <1>7 DEF QueueOK

\* Nothing is asked of the database that the push or pop does not wait for.
LEMMA IdleQueue ==
    ASSUME QueueOK, op.stage # "add", ~ (op.stage = "join" /\ op.index = "sent"),
           op.gone = None \/ op.rows = "removed"
    PROVE  queue = <<>>
<1>1. queue \in Seq(Asks)  BY DEF QueueOK
<1>2. Len(queue) \in Nat  BY <1>1
<1>3. SUFFICES ASSUME Len(queue) # 0 PROVE FALSE  BY <1>1, SeqLenZero
<1>4. 1 \in 1 .. Len(queue)  BY <1>2, <1>3
<1>5. queue[1] \in Asks  BY <1>1, <1>4
<1>6. Awaited(op, queue[1])  BY <1>4 DEF QueueOK
<1>7. queue[1].type \in {"AddIndexes", "SlotAdd", "SlotRemove"}  BY <1>5, AskIs
<1> QED  BY <1>6, <1>7 DEF Awaited

\* What the invariant says while the process is up.
LEMMA StoreUp ==
    ASSUME StoreInv, Up
    PROVE  /\ Types /\ QueueOK /\ OpOK /\ RowsFollow /\ CellsKept /\ Placed
           /\ ListedIntact /\ ListedIndexed /\ Durable
BY DEF StoreInv, Up

\* Placed is about the ring and the slots that come and leave.
LEMMA PlacedSame ==
    ASSUME Placed, UNCHANGED ring, op'.slot = op.slot, op'.side = op.side,
           op'.gone = None \/ (op'.gone = op.gone /\ op'.stage = op.stage),
           Pushing' => Pushing
    PROVE  Placed'
BY DEF Placed, Fits, Pushing

\* A slot is taken out of the ring and its rows are to be removed.
LEMMA TakeOutStore ==
    ASSUME StoreInv, Up, NEW s \in DOMAIN ring, NEW o \in Op,
           op.gone = None, TakeOut(s), op' = Popped(o, s),
           \/ /\ op.stage = "idle" /\ o.stage \in {"pop", "make_room"}
              /\ o.cell = None /\ o.file = "try" /\ o.index = "unsent"
              /\ o.stage = "make_room" =>
                    /\ o.slot \in Slots /\ o.side = "front" /\ o.slot - 1 \in DOMAIN ring
                    /\ \A t \in DOMAIN ring : t < o.slot /\ (t # s => o.slot - t < MaxBlocks)
           \/ o = op /\ op.stage = "join" /\ op.file = "try" /\ op.side = "front",
           \/ \A t \in DOMAIN ring : s <= t
           \/ o.stage = "pop" /\ \A t \in DOMAIN ring : t <= s,
           UNCHANGED <<disk, used, status>>
    PROVE  StoreInv'
<1>0. /\ Types /\ QueueOK /\ OpOK /\ RowsFollow /\ CellsKept /\ Placed
      /\ ListedIntact /\ ListedIndexed /\ Durable
  BY StoreUp
<1>1. s \in Slots /\ ring[s] \in Cells \union {None} /\ s # None
  BY <1>0, SlotNotNone DEF Types, IsRows
<1>2. /\ op' \in Op /\ op'.gone = s /\ op'.free = ring[s] /\ op'.rows = "there"
      /\ op'.stage = o.stage /\ op'.slot = o.slot /\ op'.cell = o.cell
      /\ op'.file = o.file /\ op'.index = o.index /\ op'.side = o.side
  BY <1>1 DEF Popped, Op
<1>3. IsRows(ring')
  BY <1>0 DEF Types, IsRows, TakeOut, Restrict
<1>4. Types'  BY <1>0, <1>2, <1>3 DEF Types, Up, disk
<1>5. QueueOK'
  <2> DEFINE q == Request("SlotRemove", s, ring[s])
  <2>1. /\ q \in Asks /\ queue' = Append(queue, q)
        /\ q.type = "SlotRemove" /\ q.slot = s /\ q.cell = ring[s]
    BY <1>1 DEF Request, Asks, TakeOut
  <2> HIDE DEF q
  <2>2. Awaited(op', q)  BY <1>1, <1>2, <2>1 DEF Awaited
  <2>3. \A i \in 1 .. Len(queue) : queue[i].type # q.type /\ Awaited(op', queue[i])
    BY <1>0, <1>2, <2>1 DEF QueueOK, Awaited
  <2> QED  BY <1>0, <2>1, <2>2, <2>3, QueueAppend
<1>6. OpOK'  BY <1>0, <1>2 DEF OpOK, disk
<1>7. RowsFollow'
  <2>1. DOMAIN ring' = DOMAIN ring \ {s} /\ \A t \in DOMAIN ring' : ring'[t] = ring[t]
    BY <1>0 DEF TakeOut, Restrict, Types, IsRows
  <2>2. op.stage # "added" /\ op'.stage # "added"  BY <1>2, <1>0
  <2>3. Leaving' /\ ~ Leaving  BY <1>1, <1>2 DEF Leaving
  <2> QED  BY <1>0, <1>2, <2>1, <2>2, <2>3 DEF RowsFollow, disk
<1>8. CellsKept'  BY <1>0, <1>2 DEF CellsKept, Live, disk, OpOK
<1>9. ListedIntact' /\ ListedIndexed' /\ Durable'
  BY <1>0 DEF ListedIntact, ListedIndexed, Durable, Live, disk
<1>10. Placed'
  <2>1. DOMAIN ring' = DOMAIN ring \ {s} /\ DOMAIN ring \subseteq Int
    BY <1>0 DEF TakeOut, Restrict, Types, IsRows, Slots
  <2>2. o.stage # "pop" => /\ o.side = "front" /\ o.slot - 1 \in DOMAIN ring /\ o.slot \in Int
                           /\ \A t \in DOMAIN ring : t < o.slot /\ (t # s => o.slot - t < MaxBlocks)
    BY <1>0, <2>1 DEF Placed, Fits, Pushing, OpOK, Slots
  <2>3. Consecutive(DOMAIN ring')  BY <1>0, <2>1 DEF Placed, Consecutive
  <2>4. o.stage # "pop" => Fits(op)'
    BY <1>2, <2>1, <2>2 DEF Fits
  <2>5. \/ \A t \in DOMAIN ring' : s < t
        \/ op'.stage = "pop" /\ \A t \in DOMAIN ring' : t < s
    BY <1>2, <2>1
  <2>6. o.stage # "pop" => s < o.slot  BY <2>2
  <2> QED  BY <1>1, <1>2, <2>2, <2>3, <2>4, <2>5, <2>6 DEF Placed, Pushing
<1> QED  BY <1>4, <1>5, <1>6, <1>7, <1>8, <1>9, <1>10 DEF StoreInv

\* pop_block at start-up.
LEMMA PopBlockStore ==
    ASSUME StoreInv, Up, NEW side \in {"front", "back"}, pop_block(side)
    PROVE  StoreInv'
<1>1. Types /\ OpOK  BY StoreUp
<1> DEFINE s == IF side = "back" THEN Lowest(DOMAIN ring) ELSE Highest(DOMAIN ring)
           o == [Idle EXCEPT !.stage = "pop"]
<1>2. s \in DOMAIN ring  BY <1>1, LowestIn, HighestIn DEF pop_block, Types, IsRows
<1>3. /\ o \in Op /\ o.stage = "pop" /\ o.cell = None /\ o.file = "try" /\ o.index = "unsent"
  BY DEF Idle, Op
<1>4. /\ TakeOut(s) /\ op' = Popped(o, s) /\ op.stage = "idle"
      /\ UNCHANGED <<disk, used, status>>
  BY DEF pop_block
<1>5. op.gone = None  BY <1>1, <1>4 DEF OpOK
<1>6. (\A t \in DOMAIN ring : s <= t) \/ (\A t \in DOMAIN ring : t <= s)
  BY <1>1, LowestIn, HighestIn DEF pop_block, Types, IsRows
<1> HIDE DEF s, o
<1> QED  BY <1>2, <1>3, <1>4, <1>5, <1>6, TakeOutStore

\* The caller goes on with the push: the row of a dead slot, or a block.
LEMMA StoredStore ==
    ASSUME StoreInv, Up, NEW o \in Op, Stored(o), queue = <<>>,
           o.slot \in Slots, o.cell = None, o.file = "try", o.index = "unsent", o.gone = None,
           Fits(o),
           op.gone # None => op.rows = "removed", op.stage # "added", op.cell = None,
           used' = used \/ (op.gone # None /\ used' = used \ {op.free}),
           UNCHANGED <<disk, ring, status>>
    PROVE  StoreInv'
<1>0. /\ Types /\ QueueOK /\ OpOK /\ RowsFollow /\ CellsKept /\ Placed
      /\ ListedIntact /\ ListedIndexed /\ Durable
  BY StoreUp
<1>1. /\ op' \in Op /\ op'.slot = o.slot /\ op'.side = o.side /\ op'.cell = None
      /\ op'.file = "try" /\ op'.index = "unsent" /\ op'.gone = None
      /\ \/ op'.stage = "add" /\ queue' = <<Request("SlotAdd", o.slot, None)>>
         \/ op'.stage = "join" /\ o.slot \notin Skipped /\ queue' = queue
  <2>1. CASE o.slot \in Skipped
    <3>1. op' = [o EXCEPT !.stage = "add"]  BY <2>1 DEF Stored
    <3>2. queue' = <<Request("SlotAdd", o.slot, None)>>  BY <2>1 DEF Stored
    <3> QED  BY <3>1, <3>2 DEF Op
  <2>2. CASE o.slot \notin Skipped
    <3>1. op' = [o EXCEPT !.stage = "join"] /\ queue' = queue  BY <2>2 DEF Stored
    <3> QED  BY <3>1, <2>2 DEF Op
  <2> QED  BY <2>1, <2>2
<1>2. Types'  BY <1>0, <1>1 DEF Types, Up, disk
<1>3. QueueOK'
  <2>1. CASE queue' = queue  BY <2>1 DEF QueueOK
  <2>2. CASE op'.stage = "add" /\ queue' = <<Request("SlotAdd", o.slot, None)>>
    <3> DEFINE q == Request("SlotAdd", o.slot, None)
    <3>1. q \in Asks /\ q.type = "SlotAdd" /\ q.slot = o.slot /\ q.cell = None
      BY DEF Request, Asks
    <3>2. queue' = <<q>>  BY <2>2
    <3> HIDE DEF q
    <3>3. Awaited(op', q)  BY <1>1, <2>2, <3>1 DEF Awaited
    <3> QED  BY <3>1, <3>2, <3>3 DEF QueueOK
  <2> QED  BY <1>1, <2>1, <2>2
<1>4. OpOK'  BY <1>0, <1>1 DEF OpOK, disk
<1>5. RowsFollow'  BY <1>0, <1>1, SlotNotNone DEF RowsFollow, Leaving, disk, Types, IsRows
<1>6. CellsKept'  BY <1>0, <1>1, CellNotNone DEF CellsKept, Live, disk, Types
<1>7. ListedIntact' /\ ListedIndexed' /\ Durable'
  BY <1>0 DEF ListedIntact, ListedIndexed, Durable, Live, disk
<1>8. Placed'  BY <1>0, <1>1 DEF Placed, Fits
<1> QED  BY <1>2, <1>3, <1>4, <1>5, <1>6, <1>7, <1>8 DEF StoreInv

\* How many slots the ring has: it is consecutive, and a full one is as long as
\* SlotBasicIndex may be.
LEMMA RingRoom ==
    ASSUME Types, RowsFollow, Durable, Placed, DOMAIN ring # {}
    PROVE  /\ Lowest(DOMAIN ring) \in DOMAIN ring /\ Highest(DOMAIN ring) \in DOMAIN ring
           /\ DOMAIN ring \subseteq Int
           /\ \A t \in DOMAIN ring : Lowest(DOMAIN ring) <= t /\ t <= Highest(DOMAIN ring)
           /\ Highest(DOMAIN ring) - Lowest(DOMAIN ring) < MaxBlocks
           /\ ~ is_full => Highest(DOMAIN ring) - Lowest(DOMAIN ring) + 1 < MaxBlocks
<1> DEFINE low == Lowest(DOMAIN ring)
           high == Highest(DOMAIN ring)
<1>1. DOMAIN ring \subseteq Slots /\ DOMAIN ring \subseteq Int  BY DEF Types, IsRows, Slots
<1>2. low \in DOMAIN ring /\ \A t \in DOMAIN ring : low <= t  BY <1>1, LowestIn
<1>3. high \in DOMAIN ring /\ \A t \in DOMAIN ring : t <= high  BY <1>1, HighestIn
<1> HIDE DEF low, high
<1>4. high - low < MaxBlocks  BY <1>2, <1>3 DEF RowsFollow, Durable
<1>5. DOMAIN ring = low .. high
  <2>1. DOMAIN ring \subseteq low .. high  BY <1>1, <1>2, <1>3
  <2>2. low .. high \subseteq DOMAIN ring  BY <1>2, <1>3 DEF Placed, Consecutive
  <2> QED  BY <2>1, <2>2
<1>6. Cardinality(DOMAIN ring) = high - low + 1
  BY <1>1, <1>2, <1>3, <1>5, FS_Interval
<1>7. ~ is_full => high - low + 1 < MaxBlocks
  BY <1>1, <1>2, <1>3, <1>6, BlockStoreAssumption DEF is_full
<1> QED  BY <1>1, <1>2, <1>3, <1>4, <1>7 DEF low, high

\* push_block_back up to the first await.
LEMMA PushBackStore ==
    ASSUME StoreInv, Up, NEW s \in Slots, push_block_back(s)
    PROVE  StoreInv'
<1>1. Types /\ QueueOK /\ OpOK /\ RowsFollow /\ Placed /\ Durable  BY StoreUp
<1> DEFINE o == [Idle EXCEPT !.side = "back", !.slot = s]
<1>2. /\ o \in Op /\ o.slot = s /\ o.cell = None /\ o.file = "try" /\ o.index = "unsent"
      /\ o.gone = None /\ o.side = "back"
  BY DEF Idle, Op
<1>3. Stored(o) /\ op.stage = "idle" /\ UNCHANGED <<disk, ring, used, status>>
  BY DEF push_block_back
<1>4. op.gone = None /\ op.cell = None  BY <1>1, <1>3 DEF OpOK
<1>5. queue = <<>>  BY <1>1, <1>3, <1>4, IdleQueue
<1>6. Fits(o)
  <2>1. DOMAIN ring # {} /\ s = Lowest(DOMAIN ring) - 1 /\ ~ is_full  BY DEF push_block_back
  <2>2. /\ Lowest(DOMAIN ring) \in DOMAIN ring /\ s + 1 \in DOMAIN ring
        /\ \A t \in DOMAIN ring : s < t /\ t - s < MaxBlocks
    <3>1. s \in Int /\ MaxBlocks \in Int  BY BlockStoreAssumption DEF Slots
    <3> QED  BY <1>1, <2>1, <3>1, RingRoom
  <2> QED  BY <1>2, <2>2 DEF Fits
<1> HIDE DEF o
<1> QED  BY <1>2, <1>3, <1>4, <1>5, <1>6, StoredStore

\* push_block_front up to the first await.
LEMMA PushFrontStore ==
    ASSUME StoreInv, Up, NEW s \in Slots, push_block_front(s)
    PROVE  StoreInv'
<1>1. Types /\ QueueOK /\ OpOK /\ RowsFollow /\ Placed /\ Durable  BY StoreUp
<1> DEFINE o == [Idle EXCEPT !.slot = s]
           r == [o EXCEPT !.stage = "make_room"]
           oldest == Lowest(DOMAIN ring)
<1>2. /\ o \in Op /\ o.slot = s /\ o.cell = None /\ o.file = "try" /\ o.index = "unsent"
      /\ o.gone = None /\ o.side = "front"
      /\ r \in Op /\ r.side = "front" /\ r.slot = s /\ r.cell = None /\ r.file = "try" /\ r.index = "unsent"
      /\ r.stage = "make_room"
  BY DEF Idle, Op
<1>3. /\ op.stage = "idle" /\ UNCHANGED <<disk, used, status>>
      /\ \/ is_full /\ TakeOut(oldest) /\ op' = Popped(r, oldest)
         \/ ~ is_full /\ Stored(o) /\ UNCHANGED ring
      /\ DOMAIN ring # {} => s = Highest(DOMAIN ring) + 1
  BY DEF push_block_front
<1>4. op.gone = None /\ op.cell = None  BY <1>1, <1>3 DEF OpOK
<1>5. queue = <<>>  BY <1>1, <1>3, <1>4, IdleQueue
<1> HIDE DEF o, r
<1>6. CASE ~ is_full /\ Stored(o) /\ UNCHANGED ring
  <2>1. DOMAIN ring # {} => /\ s - 1 \in DOMAIN ring
                            /\ \A t \in DOMAIN ring : t < s /\ s - t < MaxBlocks
    <3>1. s \in Int /\ MaxBlocks \in Int  BY BlockStoreAssumption DEF Slots
    <3> QED  BY <1>1, <1>3, <1>6, <3>1, RingRoom
  <2>2. Fits(o)  BY <1>2, <2>1 DEF Fits
  <2> QED  BY <1>2, <1>3, <1>4, <1>5, <1>6, <2>2, StoredStore
<1>7. CASE is_full /\ TakeOut(oldest) /\ op' = Popped(r, oldest)
  <2>1. DOMAIN ring # {}
    <3>1. SUFFICES ASSUME DOMAIN ring = {} PROVE FALSE  OBVIOUS
    <3>2. Cardinality(DOMAIN ring) = 0  BY <3>1, FS_EmptySet
    <3> QED  BY <1>7, <3>2, BlockStoreAssumption DEF is_full
  <2>2. oldest \in DOMAIN ring /\ \A t \in DOMAIN ring : oldest <= t
    BY <1>1, <2>1, LowestIn DEF Types, IsRows
  <2>3. /\ s - 1 \in DOMAIN ring
        /\ \A t \in DOMAIN ring : t < s /\ (t # oldest => s - t < MaxBlocks)
    <3>1. s \in Int /\ MaxBlocks \in Int  BY BlockStoreAssumption DEF Slots
    <3> QED  BY <1>1, <1>3, <2>1, <2>2, <3>1, RingRoom
  <2> QED  BY <1>2, <1>3, <1>4, <1>7, <2>2, <2>3, TakeOutStore
<1> QED  BY <1>3, <1>6, <1>7

\* Only op and used change, to a state of the push or pop that is as far.
LEMMA OpOnlyStore ==
    ASSUME StoreInv, Up, op' \in Op, OpOK', QueueOK', RowsFollow', CellsKept',
           Placed', used' \subseteq Cells, UNCHANGED <<disk, ring, status>>
    PROVE  StoreInv'
<1>1. Types /\ ListedIntact /\ ListedIndexed /\ Durable  BY StoreUp
<1>2. Types'  BY <1>1 DEF Types, disk, Up
<1>3. ListedIntact' /\ ListedIndexed' /\ Durable'
  BY <1>1 DEF ListedIntact, ListedIndexed, Durable, Live, disk
<1> QED  BY <1>2, <1>3 DEF StoreInv

\* The rows are gone and the bytes are given up.
LEMMA PopDoneStore == StoreInv /\ Up /\ pop_block_done => StoreInv'
<1> SUFFICES ASSUME StoreInv, Up, pop_block_done PROVE StoreInv'  OBVIOUS
<1>0. /\ Types /\ QueueOK /\ OpOK /\ RowsFollow /\ CellsKept /\ Placed
      /\ ListedIntact /\ ListedIndexed /\ Durable
  BY StoreUp
<1> DEFINE o == [op EXCEPT !.gone = None, !.free = None, !.rows = "there"]
<1>1. /\ o \in Op /\ o.stage = op.stage /\ o.slot = op.slot /\ o.cell = op.cell
      /\ o.file = op.file /\ o.index = op.index /\ o.gone = None /\ o.side = op.side
  BY <1>0 DEF Types, Op
<1>2. /\ op.gone # None /\ op.rows = "removed" /\ used' = used \ {op.free}
      /\ UNCHANGED <<disk, ring, status>>
  BY DEF pop_block_done
<1>3. op.cell = None /\ op.stage \in {"make_room", "join", "pop"}
  BY <1>0, <1>2 DEF OpOK, Types, Op
<1>4. CASE op.stage = "make_room"
  <2>1. Stored(o)  BY <1>4 DEF pop_block_done
  <2>2. queue = <<>>  BY <1>0, <1>2, <1>4, IdleQueue
  <2>3. o.slot \in Slots /\ o.file = "try" /\ o.index = "unsent" /\ o.cell = None
    BY <1>0, <1>1, <1>4 DEF OpOK
  <2>4. Fits(o)  BY <1>0, <1>1, <1>4 DEF Placed, Pushing, Fits
  <2> HIDE DEF o
  <2> QED  BY <1>1, <1>2, <1>3, <1>4, <2>1, <2>2, <2>3, <2>4, StoredStore
<1>5. CASE op.stage # "make_room"
  <2>1. /\ op' \in {o, Idle} /\ queue' = queue
        /\ op.stage = "pop" => op' = Idle
        /\ op.stage = "join" => op' = o
    BY <1>3, <1>5 DEF pop_block_done
  <2>2. /\ Idle \in Op /\ Idle.stage = "idle" /\ Idle.cell = None /\ Idle.gone = None
        /\ Idle.file = "try" /\ Idle.index = "unsent"
    BY DEF Idle, Op
  <2> HIDE DEF o
  <2>3. op' \in Op  BY <1>1, <2>1, <2>2
  <2>4. OpOK'  BY <1>0, <1>1, <1>3, <1>5, <2>1, <2>2, <1>2 DEF OpOK, disk
  <2>5. QueueOK'
    <3>1. CASE op.stage = "pop"
      <4>1. queue = <<>>  BY <1>0, <1>2, <3>1, IdleQueue
      <4> QED  BY <1>0, <2>1, <4>1 DEF QueueOK
    <3>2. CASE op.stage = "join"
      <4>1. op' = o  BY <2>1, <3>2
      <4>2. \A i \in 1 .. Len(queue) : Awaited(op', queue[i])
        BY <1>0, <1>1, <1>2, <4>1 DEF QueueOK, Awaited
      <4> QED  BY <1>0, <2>1, <4>2 DEF QueueOK
    <3> QED  BY <1>3, <1>5, <3>1, <3>2
  <2>6. RowsFollow'
    <3>1. op'.stage # "added" /\ op'.gone = None  BY <1>1, <1>3, <1>5, <2>1, <2>2
    <3>2. None \notin DOMAIN ring  BY <1>0, SlotNotNone DEF Types, IsRows
    <3> QED  BY <1>0, <1>2, <1>3, <3>1, <3>2 DEF RowsFollow, Leaving, disk
  <2>7. CellsKept'
    <3>1. op'.cell = None /\ op'.gone = None  BY <1>1, <1>3, <1>5, <2>1, <2>2
    <3> QED  BY <1>0, <1>2, <3>1, CellNotNone DEF CellsKept, Live, disk, Types
  <2>8. used' \subseteq Cells  BY <1>0, <1>2 DEF Types
  <2>9. Placed'
    <3>1. CASE op.stage = "pop"  BY <1>0, <1>2, <2>1, <2>2, <3>1 DEF Placed, Pushing
    <3>2. CASE op.stage = "join"
      <4>1. op' = o  BY <2>1, <3>2
      <4> QED  BY <1>0, <1>1, <1>2, <3>2, <4>1, PlacedSame DEF Pushing
    <3> QED  BY <1>3, <1>5, <3>1, <3>2
  <2> QED  BY <1>2, <2>3, <2>4, <2>5, <2>6, <2>7, <2>8, <2>9, OpOnlyStore
<1> QED  BY <1>4, <1>5

\* The bytes of a block go into a cell no listed block has.
LEMMA WriteFileStore ==
    ASSUME StoreInv, Up, NEW c \in Cells, write_file(c)
    PROVE  StoreInv'
<1>0. /\ Types /\ QueueOK /\ OpOK /\ RowsFollow /\ CellsKept /\ Placed
      /\ ListedIntact /\ ListedIndexed /\ Durable
  BY StoreUp
<1>1. /\ op.stage = "join" /\ op.gone = None /\ c \notin used /\ used' = used \union {c}
      /\ bytes' = [bytes EXCEPT ![c] = None]
      /\ UNCHANGED <<indexed, basic, ring, queue, status>>
  BY DEF write_file
<1>2. /\ op' \in Op /\ op'.stage = "join" /\ op'.slot = op.slot /\ op'.side = op.side /\ op'.cell = c
      /\ op'.file = "writing" /\ op'.index = op.index /\ op'.gone = None
      /\ op'.rows = op.rows
  BY <1>0, <1>1 DEF write_file, Types, Op
<1>3. c # None  BY CellNotNone
<1>4. Types'  BY <1>0, <1>1, <1>2 DEF Types, Up
<1>5. QueueOK'
  <2>1. \A i \in 1 .. Len(queue) : Awaited(op', queue[i])
    BY <1>0, <1>1, <1>2 DEF QueueOK, Awaited
  <2> QED  BY <1>0, <1>1, <2>1 DEF QueueOK
<1>6. OpOK'  BY <1>0, <1>1, <1>2, <1>3 DEF OpOK
<1>7. RowsFollow'  BY <1>0, <1>1, <1>2 DEF RowsFollow, Leaving
<1>8. \A s \in DOMAIN basic : basic[s] # c  BY <1>0, <1>1, <1>3 DEF CellsKept, Live
<1>9. CellsKept'  BY <1>0, <1>1, <1>2, <1>8 DEF CellsKept, Live
<1>10. ListedIntact'
  <2>1. \A s \in Live(basic) : basic[s] \in Cells /\ basic[s] # c
    BY <1>0, <1>8 DEF Live, Types, IsRows
  <2> QED  BY <1>0, <1>1, <2>1 DEF ListedIntact, Live, Types
<1>11. ListedIndexed' /\ Durable'  BY <1>0, <1>1 DEF ListedIndexed, Durable, Live
<1>12. Placed'  BY <1>0, <1>1, <1>2, PlacedSame DEF Pushing
<1> QED  BY <1>4, <1>5, <1>6, <1>7, <1>9, <1>10, <1>11, <1>12 DEF StoreInv

\* The bytes are written.
LEMMA FileWrittenStore == StoreInv /\ Up /\ file_written => StoreInv'
<1> SUFFICES ASSUME StoreInv, Up, file_written PROVE StoreInv'  OBVIOUS
<1>0. /\ Types /\ QueueOK /\ OpOK /\ RowsFollow /\ CellsKept /\ Placed
      /\ ListedIntact /\ ListedIndexed /\ Durable
  BY StoreUp
<1>1. /\ op.file = "writing" /\ op.stage = "join" /\ op.cell \in Cells /\ op.slot \in Slots
      /\ bytes' = [bytes EXCEPT ![op.cell] = op.slot]
      /\ UNCHANGED <<indexed, basic, ring, used, queue, status>>
  BY <1>0 DEF file_written, OpOK, Types, Op
<1>2. /\ op' \in Op /\ op'.stage = "join" /\ op'.slot = op.slot /\ op'.side = op.side /\ op'.cell = op.cell
      /\ op'.file = "done" /\ op'.index = op.index /\ op'.gone = op.gone
      /\ op'.free = op.free /\ op'.rows = op.rows
  BY <1>0, <1>1 DEF file_written, Types, Op
<1>3. op.cell # None  BY <1>1, CellNotNone
<1>4. Types'  BY <1>0, <1>1, <1>2 DEF Types, Up
<1>5. QueueOK'
  <2>1. \A i \in 1 .. Len(queue) : Awaited(op', queue[i])
    BY <1>0, <1>1, <1>2 DEF QueueOK, Awaited
  <2> QED  BY <1>0, <1>1, <2>1 DEF QueueOK
<1>6. OpOK'
  <2>1. bytes'[op.cell] = op.slot  BY <1>0, <1>1 DEF Types
  <2> QED  BY <1>0, <1>1, <1>2, <1>3, <2>1 DEF OpOK
<1>7. RowsFollow'  BY <1>0, <1>1, <1>2 DEF RowsFollow, Leaving
<1>8. \A s \in DOMAIN basic : basic[s] # op.cell  BY <1>0, <1>1, <1>3 DEF CellsKept
<1>9. CellsKept'  BY <1>0, <1>1, <1>2 DEF CellsKept, Live
<1>10. ListedIntact'
  <2>1. \A s \in Live(basic) : basic[s] \in Cells /\ basic[s] # op.cell
    BY <1>0, <1>8 DEF Live, Types, IsRows
  <2> QED  BY <1>0, <1>1, <2>1 DEF ListedIntact, Live, Types
<1>11. ListedIndexed' /\ Durable'  BY <1>0, <1>1 DEF ListedIndexed, Durable, Live
<1>12. Placed'  BY <1>0, <1>1, <1>2, PlacedSame DEF Pushing
<1> QED  BY <1>4, <1>5, <1>6, <1>7, <1>9, <1>10, <1>11, <1>12 DEF StoreInv

\* No room: the oldest block goes, or the push or the process ends.
LEMMA NoRoomStore == StoreInv /\ Up /\ no_room => StoreInv'
<1> SUFFICES ASSUME StoreInv, Up, no_room PROVE StoreInv'  OBVIOUS
<1>0. /\ Types /\ QueueOK /\ OpOK /\ RowsFollow /\ CellsKept /\ Placed
      /\ ListedIntact /\ ListedIndexed /\ Durable
  BY StoreUp
<1> DEFINE oldest == Lowest(DOMAIN ring)
<1>1. /\ op.stage = "join" /\ op.file = "try" /\ op.gone = None /\ UNCHANGED <<disk, used>>
      /\ op \in Op /\ op.cell = None
      /\ \/ op' = [op EXCEPT !.file = "no_room"] /\ UNCHANGED <<ring, queue, status>>
         \/ /\ op.side = "front" /\ DOMAIN ring # {}
            /\ TakeOut(oldest) /\ op' = Popped(op, oldest) /\ UNCHANGED status
         \/ status' = "no_blocks_to_remove" /\ UNCHANGED <<ring, queue, op>>
  BY <1>0 DEF no_room, Types, Op, OpOK
<1>2. CASE op' = [op EXCEPT !.file = "no_room"] /\ UNCHANGED <<ring, queue, status>>
  <2>1. /\ op' \in Op /\ op'.stage = "join" /\ op'.slot = op.slot /\ op'.side = op.side /\ op'.cell = None
        /\ op'.file = "no_room" /\ op'.index = op.index /\ op'.gone = None
        /\ op'.rows = op.rows
    BY <1>1, <1>2 DEF Op
  <2>2. OpOK'  BY <1>0, <1>1, <2>1 DEF OpOK, disk
  <2>3. \A i \in 1 .. Len(queue) : Awaited(op', queue[i])
    BY <1>0, <1>1, <2>1 DEF QueueOK, Awaited
  <2>4. QueueOK'  BY <1>0, <1>2, <2>3 DEF QueueOK
  <2>5. RowsFollow'  BY <1>0, <1>1, <1>2, <2>1 DEF RowsFollow, Leaving, disk
  <2>6. CellsKept'  BY <1>0, <1>1, <1>2, <2>1 DEF CellsKept, Live, disk
  <2>7. used' \subseteq Cells  BY <1>0, <1>1 DEF Types
  <2>8. Placed'  BY <1>0, <1>1, <1>2, <2>1, PlacedSame DEF Pushing
  <2> QED  BY <1>1, <1>2, <2>1, <2>2, <2>4, <2>5, <2>6, <2>7, <2>8, OpOnlyStore
<1>3. CASE /\ op.side = "front" /\ DOMAIN ring # {}
           /\ TakeOut(oldest) /\ op' = Popped(op, oldest) /\ UNCHANGED status
  <2>1. oldest \in DOMAIN ring /\ \A t \in DOMAIN ring : oldest <= t
    BY <1>0, <1>3, LowestIn DEF Types, IsRows
  <2> QED  BY <1>1, <1>3, <2>1, TakeOutStore
<1>4. CASE status' = "no_blocks_to_remove" /\ UNCHANGED <<ring, queue, op>>
  <2>1. Types'  BY <1>0, <1>1, <1>4 DEF Types, disk
  <2>2. QueueOK'  BY <1>0, <1>4 DEF QueueOK
  <2>3. OpOK'  BY <1>0, <1>1, <1>4 DEF OpOK, disk
  <2>4. RowsFollow'  BY <1>0, <1>1, <1>4 DEF RowsFollow, Leaving, disk
  <2>5. CellsKept'  BY <1>0, <1>1, <1>4 DEF CellsKept, Live, disk
  <2>6. ListedIntact' /\ ListedIndexed' /\ Durable'
    BY <1>0, <1>1, <1>4 DEF ListedIntact, ListedIndexed, Durable, Live, disk
  <2>7. Placed'  BY <1>0, <1>4 DEF Placed, Fits, Pushing
  <2> QED  BY <2>1, <2>2, <2>3, <2>4, <2>5, <2>6, <2>7 DEF StoreInv
<1> QED  BY <1>1, <1>2, <1>3, <1>4

\* The index rows are asked for.
LEMMA SendIndexesStore == StoreInv /\ Up /\ send_indexes => StoreInv'
<1> SUFFICES ASSUME StoreInv, Up, send_indexes PROVE StoreInv'  OBVIOUS
<1>0. /\ Types /\ QueueOK /\ OpOK /\ RowsFollow /\ CellsKept /\ Placed
      /\ ListedIntact /\ ListedIndexed /\ Durable
  BY StoreUp
<1> DEFINE q == Request("AddIndexes", op.slot, None)
<1>1. /\ op.stage = "join" /\ op.index = "unsent" /\ op.slot \in Slots
      /\ queue' = Append(queue, q)
      /\ UNCHANGED <<disk, ring, used, status>>
  BY <1>0 DEF send_indexes, OpOK
<1>2. /\ op' \in Op /\ op'.stage = "join" /\ op'.slot = op.slot /\ op'.side = op.side /\ op'.cell = op.cell
      /\ op'.file = op.file /\ op'.index = "sent" /\ op'.gone = op.gone
      /\ op'.free = op.free /\ op'.rows = op.rows
  BY <1>0, <1>1 DEF send_indexes, Types, Op
<1>3. q \in Asks /\ q.type = "AddIndexes" /\ q.slot = op.slot  BY <1>1 DEF Request, Asks
<1> HIDE DEF q
<1>4. QueueOK'
  <2>1. Awaited(op', q)  BY <1>2, <1>3 DEF Awaited
  <2>2. \A i \in 1 .. Len(queue) : queue[i].type # q.type /\ Awaited(op', queue[i])
    BY <1>0, <1>1, <1>2, <1>3 DEF QueueOK, Awaited
  <2> QED  BY <1>0, <1>1, <1>3, <2>1, <2>2, QueueAppend
<1>5. OpOK'  BY <1>0, <1>1, <1>2 DEF OpOK, disk
<1>6. RowsFollow'  BY <1>0, <1>1, <1>2 DEF RowsFollow, Leaving, disk
<1>7. CellsKept'  BY <1>0, <1>1, <1>2 DEF CellsKept, Live, disk
<1>8. used' \subseteq Cells  BY <1>0, <1>1 DEF Types
<1>9. Placed'  BY <1>0, <1>1, <1>2, PlacedSame DEF Pushing
<1> QED  BY <1>1, <1>2, <1>4, <1>5, <1>6, <1>7, <1>8, <1>9, OpOnlyStore

\* Idle again, with nothing asked.
LEMMA IdleOp ==
    /\ Idle \in Op /\ Idle.stage = "idle" /\ Idle.cell = None /\ Idle.gone = None
    /\ Idle.file = "try" /\ Idle.index = "unsent"
BY DEF Idle, Op

\* Bytes and index rows are there: the slot's row is asked for.
LEMMA JoinedStore == StoreInv /\ Up /\ joined => StoreInv'
<1> SUFFICES ASSUME StoreInv, Up, joined PROVE StoreInv'  OBVIOUS
<1>0. /\ Types /\ QueueOK /\ OpOK /\ RowsFollow /\ CellsKept /\ Placed
      /\ ListedIntact /\ ListedIndexed /\ Durable
  BY StoreUp
<1>1. /\ op.stage = "join" /\ op.index = "done" /\ op.slot \in Slots
      /\ op.cell \in Cells \union {None}
      /\ UNCHANGED <<disk, ring, used, status>>
  BY <1>0 DEF joined, OpOK, Types, Op
<1>2. CASE /\ op.file = "done" /\ op' = [op EXCEPT !.stage = "add"]
           /\ queue' = Append(queue, Request("SlotAdd", op.slot, op.cell))
  <2> DEFINE q == Request("SlotAdd", op.slot, op.cell)
  <2>1. q \in Asks /\ q.type = "SlotAdd" /\ q.slot = op.slot /\ q.cell = op.cell
    BY <1>1 DEF Request, Asks
  <2>2. queue' = Append(queue, q)  BY <1>2
  <2> HIDE DEF q
  <2>3. op.cell # None /\ op.gone = None  BY <1>0, <1>2 DEF OpOK
  <2>4. /\ op' \in Op /\ op'.stage = "add" /\ op'.slot = op.slot /\ op'.side = op.side /\ op'.cell = op.cell
        /\ op'.file = "done" /\ op'.index = "done" /\ op'.gone = None
        /\ op'.rows = op.rows
    BY <1>0, <1>1, <1>2, <2>3 DEF Types, Op
  <2>5. QueueOK'
    <3>1. Awaited(op', q)  BY <2>1, <2>4 DEF Awaited
    <3>2. \A i \in 1 .. Len(queue) : queue[i].type # q.type /\ Awaited(op', queue[i])
      BY <1>0, <1>1, <2>1, <2>3, <2>4 DEF QueueOK, Awaited
    <3> QED  BY <1>0, <2>1, <2>2, <3>1, <3>2, QueueAppend
  <2>6. OpOK'  BY <1>0, <1>1, <1>2, <2>3, <2>4 DEF OpOK, disk
  <2>7. RowsFollow'  BY <1>0, <1>1, <2>3, <2>4 DEF RowsFollow, Leaving, disk
  <2>8. CellsKept'  BY <1>0, <1>1, <2>3, <2>4 DEF CellsKept, Live, disk
  <2>9. used' \subseteq Cells  BY <1>0, <1>1 DEF Types
  <2>10. Placed'  BY <1>0, <1>1, <2>3, <2>4, PlacedSame DEF Pushing
  <2> QED  BY <1>1, <2>4, <2>5, <2>6, <2>7, <2>8, <2>9, <2>10, OpOnlyStore
<1>3. CASE op.file = "no_room" /\ op' = Idle /\ UNCHANGED queue
  <2>1. op.cell = None /\ op.gone = None  BY <1>0, <1>3 DEF OpOK
  <2>2. queue = <<>>  BY <1>0, <1>1, <2>1, IdleQueue
  <2>3. op' \in Op /\ OpOK'  BY <1>3, IdleOp DEF OpOK
  <2>4. QueueOK'  BY <1>0, <1>3, <2>2 DEF QueueOK
  <2>5. RowsFollow'  BY <1>0, <1>1, <1>3, <2>1, IdleOp DEF RowsFollow, Leaving, disk
  <2>6. CellsKept'  BY <1>0, <1>1, <1>3, IdleOp DEF CellsKept, Live, disk
  <2>7. used' \subseteq Cells  BY <1>0, <1>1 DEF Types
  <2>8. Placed'  BY <1>0, <1>1, <1>3, IdleOp DEF Placed, Pushing
  <2> QED  BY <1>1, <2>3, <2>4, <2>5, <2>6, <2>7, <2>8, OpOnlyStore
<1> QED  BY <1>1, <1>2, <1>3 DEF joined

\* The pushed slot joins the ring.
LEMMA PushDoneStore == StoreInv /\ Up /\ push_block_done => StoreInv'
<1> SUFFICES ASSUME StoreInv, Up, push_block_done PROVE StoreInv'  OBVIOUS
<1>0. /\ Types /\ QueueOK /\ OpOK /\ RowsFollow /\ CellsKept /\ Placed
      /\ ListedIntact /\ ListedIndexed /\ Durable
  BY StoreUp
<1>1. /\ op.stage = "added" /\ op.slot \in Slots /\ op.cell \in Cells \union {None}
      /\ op.gone = None /\ op' = Idle /\ UNCHANGED <<disk, used, queue, status>>
  BY <1>0 DEF push_block_done, OpOK, Types, Op
<1>2. /\ DOMAIN ring' = DOMAIN ring \union {op.slot} /\ ring'[op.slot] = op.cell
      /\ \A s \in DOMAIN ring : s # op.slot => ring'[s] = ring[s]
  BY DEF push_block_done, Put
<1>3. IsRows(ring')  BY <1>0, <1>1 DEF push_block_done, Put, Types, IsRows
<1>4. Types'  BY <1>0, <1>1, <1>3, IdleOp DEF Types, disk, Up
<1>5. queue = <<>>  BY <1>0, <1>1, IdleQueue
<1>6. QueueOK'  BY <1>0, <1>1, <1>5 DEF QueueOK
<1>7. OpOK'  BY <1>1, IdleOp DEF OpOK
<1>8. RowsFollow'
  <2>1. None \notin DOMAIN ring'  BY <1>3, SlotNotNone DEF IsRows
  <2> QED  BY <1>0, <1>1, <1>2, <2>1, IdleOp DEF RowsFollow, Leaving, disk
<1>9. CellsKept'  BY <1>0, <1>1, IdleOp DEF CellsKept, Live, disk
<1>10. ListedIntact' /\ ListedIndexed' /\ Durable'
  BY <1>0, <1>1 DEF ListedIntact, ListedIndexed, Durable, Live, disk
<1>11. Placed'
  <2>1. Fits(op) /\ Consecutive(DOMAIN ring) /\ op.side \in {"front", "back"}
    BY <1>0, <1>1 DEF Placed, Pushing, Types, Op
  <2>2. DOMAIN ring \subseteq Int /\ op.slot \in Int  BY <1>0, <1>1 DEF Types, IsRows, Slots
  <2>3. Consecutive(DOMAIN ring')  BY <1>2, <2>1, <2>2 DEF Fits, Consecutive
  <2> QED  BY <1>1, <2>3, IdleOp DEF Placed, Pushing
<1> QED  BY <1>4, <1>6, <1>7, <1>8, <1>9, <1>10, <1>11 DEF StoreInv

\* The first request in the queue, as the thread that writes to RocksDB sees it.
LEMMA FirstAsk ==
    ASSUME QueueOK, queue # <<>>
    PROVE  queue[1] \in Asks /\ Awaited(op, queue[1])
<1>1. queue \in Seq(Asks)  BY DEF QueueOK
<1>2. Len(queue) \in Nat /\ Len(queue) # 0  BY <1>1, SeqLenZero
<1>3. 1 \in 1 .. Len(queue)  BY <1>2
<1> QED  BY <1>1, <1>3 DEF QueueOK

\* The index rows are in the database.
LEMMA AddIndexesStore ==
    ASSUME StoreInv, Up, queue # <<>>, AddIndexes, queue' = Tail(queue),
           UNCHANGED <<bytes, ring, used>>
    PROVE  StoreInv'
<1>0. /\ Types /\ QueueOK /\ OpOK /\ RowsFollow /\ CellsKept /\ Placed
      /\ ListedIntact /\ ListedIndexed /\ Durable
  BY StoreUp
<1>1. /\ queue[1].type = "AddIndexes" /\ op.stage = "join" /\ op.index = "sent"
      /\ queue[1].slot = op.slot /\ op.slot \in Slots
      /\ indexed' = indexed \union {op.slot}
      /\ UNCHANGED <<basic, status>>
  BY <1>0, FirstAsk DEF AddIndexes, Awaited, OpOK
<1>2. /\ op' \in Op /\ op'.stage = "join" /\ op'.slot = op.slot /\ op'.side = op.side /\ op'.cell = op.cell
      /\ op'.file = op.file /\ op'.index = "done" /\ op'.gone = op.gone
      /\ op'.free = op.free /\ op'.rows = op.rows
  BY <1>0, <1>1 DEF AddIndexes, Types, Op
<1>3. Types'  BY <1>0, <1>1, <1>2 DEF Types, Up
<1>4. QueueOK'
  <2>1. \A i \in 1 .. Len(queue) :
           queue[i] \in Asks /\ queue[i].type # queue[1].type => Awaited(op', queue[i])
    BY <1>0, <1>1, <1>2 DEF QueueOK, Awaited
  <2> QED  BY <1>0, <2>1, QueueTail
<1>5. OpOK'  BY <1>0, <1>1, <1>2 DEF OpOK
<1>6. RowsFollow'  BY <1>0, <1>1, <1>2 DEF RowsFollow, Leaving
<1>7. CellsKept'  BY <1>0, <1>1, <1>2 DEF CellsKept, Live
<1>8. ListedIntact' /\ ListedIndexed' /\ Durable'
  BY <1>0, <1>1 DEF ListedIntact, ListedIndexed, Durable, Live
<1>9. Placed'  BY <1>0, <1>1, <1>2, PlacedSame DEF Pushing
<1> QED  BY <1>3, <1>4, <1>5, <1>6, <1>7, <1>8, <1>9 DEF StoreInv

\* The slot's row is in the database.
LEMMA SlotAddStore ==
    ASSUME StoreInv, Up, queue # <<>>, SlotAdd, queue' = Tail(queue),
           UNCHANGED <<bytes, ring, used>>
    PROVE  StoreInv'
<1>0. /\ Types /\ QueueOK /\ OpOK /\ RowsFollow /\ CellsKept /\ Placed
      /\ ListedIntact /\ ListedIndexed /\ Durable
  BY StoreUp
<1>1. /\ queue[1].type = "SlotAdd" /\ op.stage = "add" /\ op.gone = None
      /\ op.slot \in Slots /\ op.cell \in Cells \union {None}
      /\ basic' = Put(basic, op.slot, op.cell)
      /\ UNCHANGED <<indexed, status>>
  BY <1>0, FirstAsk DEF SlotAdd, Awaited, OpOK, Types, Op
<1>2. /\ op' \in Op /\ op'.stage = "added" /\ op'.slot = op.slot /\ op'.side = op.side /\ op'.cell = op.cell
      /\ op'.file = op.file /\ op'.index = op.index /\ op'.gone = None
      /\ op'.rows = op.rows
  BY <1>0, <1>1 DEF SlotAdd, Types, Op
<1>3. /\ DOMAIN basic' = DOMAIN basic \union {op.slot} /\ basic'[op.slot] = op.cell
      /\ \A s \in DOMAIN basic : s # op.slot => basic'[s] = basic[s]
  BY <1>1 DEF Put
<1>4. IsRows(basic')  BY <1>0, <1>1 DEF Put, Types, IsRows
<1>5. Types'  BY <1>0, <1>1, <1>2, <1>4 DEF Types, Up
<1>6. QueueOK'
  <2>1. \A i \in 1 .. Len(queue) :
           queue[i] \in Asks /\ queue[i].type # queue[1].type => Awaited(op', queue[i])
    BY <1>0, <1>1, <1>2, AskIs DEF QueueOK, Awaited
  <2> QED  BY <1>0, <2>1, QueueTail
<1>7. OpOK'  BY <1>0, <1>1, <1>2 DEF OpOK
<1>11. /\ Fits(op) /\ Consecutive(DOMAIN ring) /\ op.side \in {"front", "back"}
       /\ op.slot \notin DOMAIN ring
  <2>1. Fits(op) /\ Consecutive(DOMAIN ring) /\ op.side \in {"front", "back"}
    BY <1>0, <1>1 DEF Placed, Pushing, Types, Op
  <2>2. op.slot \in Int  BY <1>1 DEF Slots
  <2> QED  BY <2>1, <2>2 DEF Fits
<1>8. RowsFollow'
  <2>1. op.slot \notin DOMAIN ring  BY <1>11
  <2> QED  BY <1>0, <1>1, <1>2, <1>3, <2>1 DEF RowsFollow, Leaving
<1>9. CellsKept'  BY <1>0, <1>1, <1>2, <1>3 DEF CellsKept, Live
<1>10. ListedIntact' /\ ListedIndexed'
  BY <1>0, <1>1, <1>2, <1>3 DEF ListedIntact, ListedIndexed, Live, OpOK
<1>12. Durable'
  <2>1. DOMAIN basic = DOMAIN ring  BY <1>0, <1>1 DEF RowsFollow, Leaving
  <2>2. DOMAIN ring \subseteq Int /\ op.slot \in Int /\ MaxBlocks \in Nat \ {0}
    BY <1>0, <1>1, BlockStoreAssumption DEF Types, IsRows, Slots
  <2>3. Consecutive(DOMAIN basic')  BY <1>3, <1>11, <2>1, <2>2 DEF Fits, Consecutive
  <2>4. \A s, t \in DOMAIN basic' : t - s < MaxBlocks
    BY <1>0, <1>3, <1>11, <2>1, <2>2 DEF Fits, Durable
  <2> QED  BY <2>3, <2>4 DEF Durable
<1>13. Placed'  BY <1>0, <1>1, <1>2, PlacedSame DEF Pushing
<1> QED  BY <1>5, <1>6, <1>7, <1>8, <1>9, <1>10, <1>12, <1>13 DEF StoreInv

\* The rows of a slot are gone from the database.
LEMMA SlotRemoveStore ==
    ASSUME StoreInv, Up, queue # <<>>, SlotRemove, queue' = Tail(queue),
           UNCHANGED <<bytes, ring, used>>
    PROVE  StoreInv'
<1>0. /\ Types /\ QueueOK /\ OpOK /\ RowsFollow /\ CellsKept /\ Placed
      /\ ListedIntact /\ ListedIndexed /\ Durable
  BY StoreUp
<1>1. /\ queue[1].type = "SlotRemove" /\ op.gone # None /\ op.rows = "there"
      /\ queue[1].slot = op.gone /\ queue[1].cell = op.free
      /\ op.gone \in Slots
  BY <1>0, FirstAsk DEF SlotRemove, Awaited, Types, Op
<1>2. Leaving /\ op.gone \in DOMAIN basic \ DOMAIN ring /\ basic[op.gone] = op.free
  BY <1>0, <1>1 DEF RowsFollow, Leaving
<1>3. op.free # None => op.gone \in indexed  BY <1>0, <1>2 DEF ListedIndexed, Live
<1>4. /\ basic' = Restrict(basic, DOMAIN basic \ {op.gone})
      /\ indexed' \in {indexed, indexed \ {op.gone}}
      /\ op' = [op EXCEPT !.rows = "removed"]
      /\ UNCHANGED status
  BY <1>1, <1>3 DEF SlotRemove
<1>5. /\ op' \in Op /\ op'.stage = op.stage /\ op'.slot = op.slot /\ op'.side = op.side /\ op'.cell = op.cell
      /\ op'.file = op.file /\ op'.index = op.index /\ op'.gone = op.gone
      /\ op'.free = op.free /\ op'.rows = "removed"
  BY <1>0, <1>4 DEF Types, Op
<1>6. /\ DOMAIN basic' = DOMAIN basic \ {op.gone}
      /\ \A s \in DOMAIN basic' : basic'[s] = basic[s]
  BY <1>0, <1>4 DEF Restrict
<1>7. IsRows(basic')  BY <1>0, <1>4 DEF Restrict, Types, IsRows
<1>8. Types'  BY <1>0, <1>4, <1>5, <1>7 DEF Types, Up
<1>9. QueueOK'
  <2>1. \A i \in 1 .. Len(queue) :
           queue[i] \in Asks /\ queue[i].type # queue[1].type => Awaited(op', queue[i])
    BY <1>0, <1>1, <1>5 DEF QueueOK, Awaited
  <2> QED  BY <1>0, <2>1, QueueTail
<1>10. op.stage # "added" /\ op.cell = None  BY <1>0, <1>1 DEF OpOK
<1>11. OpOK'
  <2>1. op.index = "done" => op.slot # op.gone
    <3>1. op.index = "done" => Pushing  BY <1>0 DEF OpOK, Pushing, Types, Op
    <3>2. op.index = "done" => op.gone < op.slot  BY <1>0, <1>1, <3>1 DEF Placed
    <3> QED  BY <1>1, <3>2 DEF Slots
  <2> QED  BY <1>0, <1>1, <1>4, <1>5, <2>1 DEF OpOK
<1>12. RowsFollow'  BY <1>0, <1>2, <1>5, <1>6, <1>10 DEF RowsFollow, Leaving
<1>13. CellsKept'
  <2>1. op.free # None => \A s \in DOMAIN basic' : basic'[s] # op.free
    BY <1>0, <1>2, <1>6 DEF ListedIntact, Live
  <2> QED  BY <1>0, <1>5, <1>6, <1>10, <2>1 DEF CellsKept, Live
<1>14. ListedIntact' /\ ListedIndexed'
  BY <1>0, <1>4, <1>6 DEF ListedIntact, ListedIndexed, Live
<1>15. Durable'
  <2>1. DOMAIN basic' = DOMAIN ring
    BY <1>0, <1>2, <1>6, <1>10 DEF RowsFollow, Leaving
  <2>2. \A s, t \in DOMAIN basic' : t - s < MaxBlocks  BY <1>0, <1>6 DEF Durable
  <2> QED  BY <1>0, <2>1, <2>2 DEF Durable, Placed
<1>16. Placed'  BY <1>0, <1>5, PlacedSame DEF Pushing
<1> QED  BY <1>8, <1>9, <1>11, <1>12, <1>13, <1>14, <1>15, <1>16 DEF StoreInv

\* The process stops: the disk keeps what was written.
LEMMA CrashStore == StoreInv /\ crash => StoreInv'
<1> SUFFICES ASSUME StoreInv, crash PROVE StoreInv'  OBVIOUS
<1>1. /\ status' = "down" /\ ring' = <<>> /\ used' = {} /\ queue' = <<>> /\ op' = Idle
      /\ UNCHANGED disk
  BY DEF crash
<1>2. Types'  BY <1>1, IdleOp DEF StoreInv, Types, IsRows, disk
<1>3. QueueOK'  BY <1>1 DEF QueueOK
<1>4. OpOK'  BY <1>1, IdleOp DEF OpOK
<1>5. ListedIntact' /\ ListedIndexed' /\ Durable'
  BY <1>1 DEF StoreInv, ListedIntact, ListedIndexed, Durable, Live, disk
<1> QED  BY <1>1, <1>2, <1>3, <1>4, <1>5 DEF StoreInv

\* The process starts and finds what SlotBasicIndex has.
LEMMA StartStore == StoreInv /\ start => StoreInv' /\ status' = "starting"
<1> SUFFICES ASSUME StoreInv, start PROVE StoreInv' /\ status' = "starting"  OBVIOUS
<1>0. Types /\ QueueOK /\ OpOK /\ ListedIntact /\ ListedIndexed /\ Durable  BY DEF StoreInv
<1>1. /\ op = Idle /\ ring' = basic /\ used' = CellsOf(basic) /\ UNCHANGED <<disk, queue, op>>
  BY <1>0 DEF start, Types
<1>2. ~ Hole(DOMAIN basic)
  <2>1. SUFFICES ASSUME NEW s \in DOMAIN basic, s < Highest(DOMAIN basic)
                 PROVE  s + 1 \in DOMAIN basic
    BY DEF Hole
  <2>2. DOMAIN basic \subseteq Slots  BY <1>0 DEF Types, IsRows
  <2>3. Highest(DOMAIN basic) \in DOMAIN basic  BY <2>2, HighestIn
  <2>4. s \in Int /\ Highest(DOMAIN basic) \in Int  BY <2>2, <2>3 DEF Slots
  <2>5. s + 1 \in s .. Highest(DOMAIN basic)  BY <2>1, <2>4
  <2> QED  BY <1>0, <2>3, <2>5 DEF Durable, Consecutive
<1>3. status' = "starting"  BY <1>0, <1>2 DEF start, ListedIntact
<1>4. Types'  BY <1>0, <1>1, <1>3 DEF Types, IsRows, CellsOf, disk
<1>5. QueueOK'  BY <1>0, <1>1 DEF QueueOK
<1>6. OpOK'  BY <1>1, IdleOp DEF OpOK
<1>7. RowsFollow'
  <2>1. None \notin DOMAIN basic  BY <1>0, SlotNotNone DEF Types, IsRows
  <2> QED  BY <1>1, <2>1, IdleOp DEF RowsFollow, Leaving, disk
<1>8. CellsKept'  BY <1>1, IdleOp DEF CellsKept, CellsOf, Live, disk
<1>9. Placed'  BY <1>0, <1>1, IdleOp DEF Placed, Pushing, Durable
<1>10. ListedIntact' /\ ListedIndexed' /\ Durable'
  BY <1>0, <1>1, <1>3 DEF ListedIntact, ListedIndexed, Durable, Live, disk
<1> QED  BY <1>3, <1>4, <1>5, <1>6, <1>7, <1>8, <1>9, <1>10 DEF StoreInv

\* Only the status changes, or nothing.
LEMMA BeginStore == StoreInv /\ Up /\ begin => StoreInv'
<1> SUFFICES ASSUME StoreInv, Up, begin PROVE StoreInv'  OBVIOUS
<1>1. status' = "running" /\ UNCHANGED <<disk, ring, used, queue, op>>  BY DEF begin
<1> USE <1>1, StoreUp DEF disk
<1>2. Types' /\ QueueOK' /\ OpOK'  BY DEF Types, QueueOK, OpOK
<1>3. RowsFollow' /\ CellsKept'  BY DEF RowsFollow, CellsKept, Leaving, Live
<1>4. Placed' /\ Durable'  BY DEF Placed, Durable, Fits, Pushing
<1>5. ListedIntact' /\ ListedIndexed'  BY DEF ListedIntact, ListedIndexed, Live
<1> QED  BY <1>2, <1>3, <1>4, <1>5 DEF StoreInv

\* A step that changes nothing keeps it.
LEMMA StutterStore == StoreInv /\ UNCHANGED vars => StoreInv'
<1> SUFFICES ASSUME StoreInv, UNCHANGED vars PROVE StoreInv'  OBVIOUS
<1> USE DEF vars
<1>1. Types' /\ QueueOK' /\ OpOK'  BY DEF StoreInv, Types, QueueOK, OpOK
<1>2. status # "down" => RowsFollow' /\ CellsKept'
  BY DEF StoreInv, RowsFollow, CellsKept, Leaving, Live
<1>3. status # "down" => Placed'  BY DEF StoreInv, Placed, Fits, Pushing
<1>4. ListedIntact' /\ ListedIndexed' /\ Durable'
  BY DEF StoreInv, ListedIntact, ListedIndexed, Durable, Live
<1> QED  BY <1>1, <1>2, <1>3, <1>4 DEF StoreInv

\* Every step of the store keeps the invariant.
LEMMA StoreNext == StoreInv /\ [Next]_vars => StoreInv'
<1> SUFFICES ASSUME StoreInv, [Next]_vars PROVE StoreInv'  OBVIOUS
<1>1. CASE Up /\ \E side \in {"front", "back"} : pop_block(side)  BY <1>1, PopBlockStore
<1>2. CASE Up /\ begin  BY <1>2, BeginStore
<1>3. CASE Up /\ \E s \in Slots : push_block_back(s) \/ push_block_front(s)
  BY <1>3, PushBackStore, PushFrontStore
<1>4. CASE Up /\ pop_block_done  BY <1>4, PopDoneStore
<1>5. CASE Up /\ \E c \in Cells : write_file(c)  BY <1>5, WriteFileStore
<1>6. CASE Up /\ file_written  BY <1>6, FileWrittenStore
<1>7. CASE Up /\ no_room  BY <1>7, NoRoomStore
<1>8. CASE Up /\ send_indexes  BY <1>8, SendIndexesStore
<1>9. CASE Up /\ joined  BY <1>9, JoinedStore
<1>10. CASE Up /\ push_block_done  BY <1>10, PushDoneStore
<1>11. CASE Up /\ rocksdb_write
  BY <1>11, AddIndexesStore, SlotAddStore, SlotRemoveStore DEF rocksdb_write
<1>12. CASE crash  BY <1>12, CrashStore
<1>13. CASE start  BY <1>13, StartStore
<1>14. CASE UNCHANGED vars  BY <1>14, StutterStore
<1> QED
  BY <1>1, <1>2, <1>3, <1>4, <1>5, <1>6, <1>7, <1>8, <1>9, <1>10, <1>11, <1>12, <1>13, <1>14
  DEF Next, Writer

\* The invariant of the store holds always.
THEOREM StoreInvariant == Spec => []StoreInv
BY StoreInit, StoreNext, PTL DEF Spec

\* Every slot in SlotBasicIndex has its block in its cell, at every moment and
\* so after every crash, for any number of slots, cells and blocks.
THEOREM ListedIntactAlways == Spec => []ListedIntact
<1>1. StoreInv => ListedIntact  BY DEF StoreInv
<1> QED  BY <1>1, StoreInvariant, PTL

\* Every listed block has its index rows, and the writer never meets a slot
\* without them.
THEOREM ListedIndexedAlways == Spec => []ListedIndexed
<1>1. StoreInv => ListedIndexed  BY DEF StoreInv
<1> QED  BY <1>1, StoreInvariant, PTL

\* A new start always succeeds: whatever a crash left, SlotBasicIndex has no
\* hole and every block it lists can be read back.
THEOREM StartNeverFails == Spec => [][start => status' = "starting"]_vars
<1>1. StoreInv /\ [Next]_vars => [start => status' = "starting"]_vars  BY StartStore
<1> QED  BY <1>1, StoreInvariant, PTL DEF Spec

-----------------------------------------------------------------------------
(***************************************************************************)
(* What is durable is a window of consecutive slots: SlotBasicIndex        *)
(* implements SlotWindow.                                                  *)
(***************************************************************************)
WindowOf(rows) ==
    [i \in 1 .. Cardinality(DOMAIN rows) |->
        LET s == Lowest(DOMAIN rows) + i - 1
        IN  [slot |-> s, cell |-> IF s \in DOMAIN rows THEN rows[s] ELSE None]]

\* A function on 1 .. n is a sequence of that length.
LEMMA FunIsSeq ==
    ASSUME NEW S, NEW n \in Nat, NEW f \in [1 .. n -> S]
    PROVE  f \in Seq(S) /\ Len(f) = n
BY SeqDef

\* The window of n rows from low on.
LEMMA WindowIs ==
    ASSUME NEW rows, NEW low \in Slots, NEW n \in Nat, IsRows(rows),
           DOMAIN rows = low .. (low + n - 1)
    PROVE  /\ WindowOf(rows) \in Seq(Entries)
           /\ Len(WindowOf(rows)) = n
           /\ \A i \in 1 .. n : WindowOf(rows)[i] = [slot |-> low + i - 1, cell |-> rows[low + i - 1]]
<1>1. low \in Nat \ {0}  BY DEF Slots
<1>2. Cardinality(DOMAIN rows) = n  BY <1>1, FS_Interval
<1>3. n # 0 => Lowest(DOMAIN rows) = low
  <2>1. SUFFICES ASSUME n # 0 PROVE Lowest(DOMAIN rows) = low  OBVIOUS
  <2>2. low \in DOMAIN rows  BY <1>1, <2>1
  <2>3. /\ Lowest(DOMAIN rows) \in DOMAIN rows
        /\ \A t \in DOMAIN rows : Lowest(DOMAIN rows) <= t
    BY <2>2, LowestIn DEF IsRows
  <2>4. Lowest(DOMAIN rows) \in Int /\ low <= Lowest(DOMAIN rows)  BY <1>1, <2>3
  <2>5. Lowest(DOMAIN rows) <= low  BY <2>2, <2>3, Zenon
  <2> QED  BY <1>1, <2>4, <2>5
<1>4. \A i \in 1 .. n : /\ low + i - 1 \in DOMAIN rows
                        /\ Lowest(DOMAIN rows) + i - 1 = low + i - 1
  BY <1>1, <1>3
<1>5. WindowOf(rows) = [i \in 1 .. n |-> [slot |-> low + i - 1, cell |-> rows[low + i - 1]]]
  BY <1>2, <1>4 DEF WindowOf
<1>6. \A i \in 1 .. n : [slot |-> low + i - 1, cell |-> rows[low + i - 1]] \in Entries
  BY <1>4 DEF Entries, IsRows
<1>7. WindowOf(rows) \in [1 .. n -> Entries]  BY <1>5, <1>6
<1> QED  BY <1>5, <1>7, FunIsSeq

\* Without rows the window is empty.
LEMMA WindowEmpty ==
    ASSUME NEW rows, DOMAIN rows = {}
    PROVE  WindowOf(rows) = <<>>
<1>1. Cardinality(DOMAIN rows) = 0  BY FS_EmptySet
<1> QED  BY <1>1 DEF WindowOf

\* The rows of SlotBasicIndex, from the lowest on.
LEMMA BasicFrom ==
    ASSUME Types, Durable, DOMAIN basic # {}
    PROVE  \E low \in Slots, n \in Nat \ {0} : DOMAIN basic = low .. (low + n - 1)
<1>1. DOMAIN basic \subseteq Slots /\ DOMAIN basic \subseteq Int  BY DEF Types, IsRows, Slots
<1>2. PICK low \in DOMAIN basic : \A t \in DOMAIN basic : low <= t  BY <1>1, LowestIn
<1>3. PICK high \in DOMAIN basic : \A t \in DOMAIN basic : t <= high  BY <1>1, HighestIn
<1>4. DOMAIN basic = low .. high
  <2>1. DOMAIN basic \subseteq low .. high  BY <1>1, <1>2, <1>3
  <2>2. low .. high \subseteq DOMAIN basic  BY <1>2, <1>3 DEF Durable, Consecutive
  <2> QED  BY <2>1, <2>2
<1>5. high - low + 1 \in Nat \ {0} /\ low + (high - low + 1) - 1 = high  BY <1>1, <1>2, <1>3
<1> QED  BY <1>1, <1>4, <1>5

\* A row is added at an end of the rows: the window grows there.
LEMMA WindowGrows ==
    ASSUME StoreInv, Up, queue # <<>>, SlotAdd, StoreInv'
    PROVE  \E e \in Entries : W!GrowFront(e) \/ W!GrowBack(e)
<1>0. Types /\ QueueOK /\ OpOK /\ RowsFollow /\ Placed /\ Durable  BY StoreUp
<1>1. /\ op.stage = "add" /\ op.gone = None
      /\ op.slot \in Slots /\ op.cell \in Cells \union {None} /\ op.side \in {"front", "back"}
      /\ basic' = Put(basic, op.slot, op.cell)
  BY <1>0, FirstAsk DEF SlotAdd, Awaited, OpOK, Types, Op
<1>2. /\ DOMAIN basic' = DOMAIN basic \union {op.slot} /\ basic'[op.slot] = op.cell
      /\ \A s \in DOMAIN basic : s # op.slot => basic'[s] = basic[s]
  BY <1>1 DEF Put
<1>3. DOMAIN basic = DOMAIN ring  BY <1>0, <1>1 DEF RowsFollow, Leaving
<1>4. Fits(op)  BY <1>0, <1>1 DEF Placed, Pushing
<1>5. IsRows(basic) /\ IsRows(basic')  BY <1>0 DEF StoreInv, Types
<1>6. Window = WindowOf(basic) /\ Window' = WindowOf(basic')  BY DEF Window, WindowOf
<1> DEFINE e == [slot |-> op.slot, cell |-> op.cell]
<1>7. e \in Entries /\ e.slot = op.slot  BY <1>1 DEF Entries
<1>8. op.slot \in Int /\ MaxBlocks \in Nat \ {0}  BY <1>1, BlockStoreAssumption DEF Slots
<1>9. CASE DOMAIN basic = {}
  <2>1. Window = <<>>  BY <1>6, <1>9, WindowEmpty
  <2> DEFINE m == 1
  <2>2. DOMAIN basic' = op.slot .. (op.slot + m - 1) /\ m \in Nat  BY <1>2, <1>8, <1>9
  <2> HIDE DEF m
  <2>7. /\ Window' \in Seq(Entries) /\ Len(Window') = m
        /\ \A i \in 1 .. m :
              Window'[i] = [slot |-> op.slot + i - 1, cell |-> basic'[op.slot + i - 1]]
    BY <1>1, <1>5, <1>6, <2>2, WindowIs
  <2>3. /\ Window' \in Seq(Entries) /\ Len(Window') = 1
        /\ Window'[1] = [slot |-> op.slot + 1 - 1, cell |-> basic'[op.slot + 1 - 1]]
    BY <2>7 DEF m
  <2>4. Window'[1] = e  BY <1>2, <1>8, <2>3
  <2>5. Window' = <<e>>  BY <1>7, <2>3, <2>4
  <2>6. W!GrowFront(e)  BY <1>8, <2>1, <2>5 DEF W!GrowFront
  <2> QED  BY <1>7, <2>6
<1>10. CASE DOMAIN basic # {}
  <2>1. PICK low \in Slots, n \in Nat \ {0} : DOMAIN basic = low .. (low + n - 1)
    BY <1>0, <1>10, BasicFrom
  <2>2. low \in Nat \ {0}  BY DEF Slots
  <2>3. /\ Window \in Seq(Entries) /\ Len(Window) = n
        /\ \A i \in 1 .. n : Window[i] = [slot |-> low + i - 1, cell |-> basic[low + i - 1]]
    BY <1>5, <1>6, <2>1, WindowIs
  <2>4. CASE op.side = "front"
    <3>1. op.slot = low + n /\ n < MaxBlocks
      BY <1>3, <1>4, <1>8, <1>10, <2>1, <2>2, <2>4 DEF Fits
    <3> DEFINE m == n + 1
    <3>2. DOMAIN basic' = low .. (low + m - 1) /\ m \in Nat  BY <1>2, <2>1, <2>2, <3>1
    <3> HIDE DEF m
    <3>10. /\ Window' \in Seq(Entries) /\ Len(Window') = m
           /\ \A i \in 1 .. m : Window'[i] = [slot |-> low + i - 1, cell |-> basic'[low + i - 1]]
      BY <1>5, <1>6, <3>2, WindowIs
    <3>3. /\ Window' \in Seq(Entries) /\ Len(Window') = n + 1
          /\ \A i \in 1 .. n + 1 : Window'[i] = [slot |-> low + i - 1, cell |-> basic'[low + i - 1]]
      BY <3>10 DEF m
    <3>4. Window'[n + 1] = e
      <4>1. n + 1 \in 1 .. n + 1 /\ low + (n + 1) - 1 = op.slot  BY <2>2, <3>1
      <4> QED  BY <1>2, <3>3, <4>1
    <3>5. \A i \in 1 .. n : Window'[i] = Window[i]
      <4> TAKE i \in 1 .. n
      <4>1. i \in 1 .. n + 1 /\ low + i - 1 \in DOMAIN basic /\ low + i - 1 # op.slot
        BY <2>1, <2>2, <3>1
      <4>2. basic'[low + i - 1] = basic[low + i - 1]  BY <1>2, <4>1
      <4> QED  BY <2>3, <3>3, <4>1, <4>2
    <3>6. /\ Append(Window, e) \in Seq(Entries) /\ Len(Append(Window, e)) = n + 1
          /\ \A i \in 1 .. n : Append(Window, e)[i] = Window[i]
          /\ Append(Window, e)[n + 1] = e
      BY <1>7, <2>3, AppendProperties
    <3>7. \A i \in 1 .. n + 1 : Window'[i] = Append(Window, e)[i]  BY <3>4, <3>5, <3>6
    <3>8. Window' = Append(Window, e)  BY <3>3, <3>6, <3>7, SeqEqual
    <3>9. Window[Len(Window)].slot + 1 = e.slot  BY <1>7, <2>2, <2>3, <3>1
    <3> QED  BY <1>7, <2>3, <3>1, <3>8, <3>9 DEF W!GrowFront
  <2>5. CASE op.side = "back"
    <3>1. op.slot = low - 1 /\ n < MaxBlocks
      <4>1. /\ op.slot + 1 \in DOMAIN basic
            /\ \A s \in DOMAIN basic : op.slot < s /\ s - op.slot < MaxBlocks
        BY <1>3, <1>4, <2>5 DEF Fits
      <4>2. low \in DOMAIN basic /\ low + n - 1 \in DOMAIN basic  BY <2>1, <2>2
      <4>3. op.slot = low - 1  BY <1>8, <2>1, <2>2, <4>1, <4>2
      <4> QED  BY <1>8, <2>2, <4>1, <4>2, <4>3
    <3> DEFINE m == n + 1
    <3>2. DOMAIN basic' = op.slot .. (op.slot + m - 1) /\ m \in Nat
      BY <1>2, <1>8, <2>1, <2>2, <3>1
    <3> HIDE DEF m
    <3>11. /\ Window' \in Seq(Entries) /\ Len(Window') = m
           /\ \A i \in 1 .. m :
                 Window'[i] = [slot |-> op.slot + i - 1, cell |-> basic'[op.slot + i - 1]]
      BY <1>1, <1>5, <1>6, <3>2, WindowIs
    <3>3. /\ Window' \in Seq(Entries) /\ Len(Window') = n + 1
          /\ \A i \in 1 .. n + 1 :
                Window'[i] = [slot |-> op.slot + i - 1, cell |-> basic'[op.slot + i - 1]]
      BY <3>11 DEF m
    <3>4. Window'[1] = e  BY <1>2, <1>8, <3>3
    <3>5. \A i \in 1 .. n : Window'[i + 1] = Window[i]
      BY <1>2, <1>8, <2>1, <2>2, <2>3, <3>1, <3>3
    <3>6. <<e>> \in Seq(Entries) /\ Len(<<e>>) = 1 /\ <<e>>[1] = e  BY <1>7
    <3>7. /\ <<e>> \o Window \in Seq(Entries) /\ Len(<<e>> \o Window) = n + 1
          /\ \A i \in 1 .. n + 1 : (<<e>> \o Window)[i] = IF i <= 1 THEN e ELSE Window[i - 1]
      BY <2>3, <3>6, ConcatProperties
    <3>8. \A i \in 1 .. n + 1 : Window'[i] = (<<e>> \o Window)[i]
      <4> TAKE i \in 1 .. n + 1
      <4>1. CASE i = 1  BY <3>4, <3>7, <4>1
      <4>2. CASE i # 1
        <5>1. i - 1 \in 1 .. n /\ i - 1 + 1 = i  BY <4>2
        <5> QED  BY <3>5, <3>7, <4>2, <5>1
      <4> QED  BY <4>1, <4>2
    <3>9. Window' = <<e>> \o Window  BY <3>3, <3>7, <3>8, SeqEqual
    <3>10. Window[1].slot = low  BY <2>2, <2>3
    <3>12. e.slot = Window[1].slot - 1 /\ Len(Window) < MaxBlocks /\ Window # <<>>
      BY <1>7, <2>3, <3>1, <3>10
    <3>13. W!GrowBack(e)  BY <3>9, <3>12 DEF W!GrowBack
    <3> QED  BY <1>7, <3>13
  <2> QED  BY <1>1, <2>4, <2>5
<1> QED  BY <1>9, <1>10

\* A row is removed at an end of the rows: the window shrinks there.
LEMMA WindowShrinks ==
    ASSUME StoreInv, Up, queue # <<>>, SlotRemove, StoreInv'
    PROVE  W!ShrinkBack \/ W!ShrinkFront
<1>0. Types /\ QueueOK /\ OpOK /\ RowsFollow /\ Placed /\ Durable /\ ListedIndexed  BY StoreUp
<1>1. /\ op.gone # None /\ op.rows = "there" /\ queue[1].slot = op.gone
      /\ queue[1].cell = op.free /\ op.gone \in Slots
  BY <1>0, FirstAsk DEF SlotRemove, Awaited, Types, Op
<1>2. Leaving /\ op.gone \in DOMAIN basic \ DOMAIN ring /\ basic[op.gone] = op.free
  BY <1>0, <1>1 DEF RowsFollow, Leaving
<1>3. op.free # None => op.gone \in indexed  BY <1>0, <1>2 DEF ListedIndexed, Live
<1>4. basic' = Restrict(basic, DOMAIN basic \ {op.gone})  BY <1>1, <1>3 DEF SlotRemove
<1>5. /\ DOMAIN basic' = DOMAIN basic \ {op.gone}
      /\ \A s \in DOMAIN basic' : basic'[s] = basic[s]
  BY <1>4 DEF Restrict
<1>6. DOMAIN basic = DOMAIN ring \union {op.gone}
  BY <1>0, <1>1, <1>2 DEF RowsFollow, Leaving, OpOK
<1>7. IsRows(basic) /\ IsRows(basic')  BY <1>0 DEF StoreInv, Types
<1>8. Window = WindowOf(basic) /\ Window' = WindowOf(basic')  BY DEF Window, WindowOf
<1>9. PICK low \in Slots, n \in Nat \ {0} : DOMAIN basic = low .. (low + n - 1)
  BY <1>0, <1>2, BasicFrom
<1>10. low \in Nat \ {0} /\ op.gone \in Int /\ DOMAIN ring \subseteq Int
  BY <1>0, <1>1 DEF Slots, Types, IsRows
<1>11. /\ Window \in Seq(Entries) /\ Len(Window) = n
       /\ \A i \in 1 .. n : Window[i] = [slot |-> low + i - 1, cell |-> basic[low + i - 1]]
  BY <1>7, <1>8, <1>9, WindowIs
<1>12. Window # <<>>  BY <1>11
<1>13. op.gone = low \/ op.gone = low + n - 1
  <2>1. \/ \A s \in DOMAIN ring : op.gone < s
        \/ \A s \in DOMAIN ring : s < op.gone
    BY <1>0, <1>1 DEF Placed
  <2>2. \A s \in DOMAIN basic : s # op.gone => s \in DOMAIN ring  BY <1>6
  <2>3. low \in DOMAIN basic /\ low + n - 1 \in DOMAIN basic  BY <1>9, <1>10
  <2>4. low <= op.gone /\ op.gone <= low + n - 1  BY <1>2, <1>9, <1>10
  <2> QED  BY <1>10, <2>1, <2>2, <2>3, <2>4
<1> DEFINE m == n - 1
<1>14. m \in Nat /\ n = m + 1  OBVIOUS
<1>15. CASE m = 0
  <2>1. DOMAIN basic' = {}  BY <1>5, <1>9, <1>10, <1>13, <1>15
  <2>2. Window' = <<>>  BY <1>8, <2>1, WindowEmpty
  <2>3. /\ Tail(Window) \in Seq(Entries) /\ Len(Tail(Window)) = 0
    BY <1>11, <1>12, <1>15, HeadTailProperties
  <2>4. Tail(Window) = <<>>  BY <2>3, SeqLenZero
  <2> QED  BY <1>12, <2>2, <2>4 DEF W!ShrinkBack
<1>16. CASE m # 0 /\ op.gone = low
  <2> DEFINE next_low == low + 1
  <2>1. next_low \in Slots  BY <1>7, <1>9, <1>10, <1>14, <1>16 DEF IsRows
  <2>2. DOMAIN basic' = next_low .. (next_low + m - 1)  BY <1>5, <1>9, <1>10, <1>14, <1>16
  <2> HIDE DEF m, next_low
  <2>3. /\ Window' \in Seq(Entries) /\ Len(Window') = m
        /\ \A i \in 1 .. m :
              Window'[i] = [slot |-> next_low + i - 1, cell |-> basic'[next_low + i - 1]]
    BY <1>7, <1>8, <1>14, <2>1, <2>2, WindowIs
  <2>4. /\ Tail(Window) \in Seq(Entries) /\ Len(Tail(Window)) = m
        /\ \A i \in 1 .. m : Tail(Window)[i] = Window[i + 1]
    BY <1>11, <1>12, <1>14, HeadTailProperties
  <2>5. \A i \in 1 .. m : Window'[i] = Tail(Window)[i]
    <3> TAKE i \in 1 .. m
    <3>1. i + 1 \in 1 .. n /\ low + (i + 1) - 1 = next_low + i - 1
      BY <1>10, <1>14 DEF next_low
    <3>2. next_low + i - 1 \in DOMAIN basic'  BY <1>10, <1>14, <2>2 DEF next_low
    <3> QED  BY <1>5, <1>11, <2>3, <2>4, <3>1, <3>2
  <2>6. Window' = Tail(Window)  BY <2>3, <2>4, <2>5, SeqEqual
  <2> QED  BY <1>12, <2>6 DEF W!ShrinkBack
<1>17. CASE m # 0 /\ op.gone = low + n - 1
  <2>1. DOMAIN basic' = low .. (low + m - 1)  BY <1>5, <1>9, <1>10, <1>14, <1>17
  <2> HIDE DEF m
  <2>2. /\ Window' \in Seq(Entries) /\ Len(Window') = m
        /\ \A i \in 1 .. m : Window'[i] = [slot |-> low + i - 1, cell |-> basic'[low + i - 1]]
    BY <1>7, <1>8, <1>14, <2>1, WindowIs
  <2>3. \A i \in 1 .. m : Window[i] \in Entries  BY <1>11, <1>14
  <2>4. /\ SubSeq(Window, 1, m) \in Seq(Entries) /\ Len(SubSeq(Window, 1, m)) = m
        /\ \A i \in 1 .. m : SubSeq(Window, 1, m)[i] = Window[i]
    BY <1>14, <1>17, <2>3, SubSeqProperties
  <2>5. \A i \in 1 .. m : Window'[i] = SubSeq(Window, 1, m)[i]
    <3> TAKE i \in 1 .. m
    <3>1. i \in 1 .. n /\ low + i - 1 \in DOMAIN basic'  BY <1>10, <1>14, <2>1
    <3> QED  BY <1>5, <1>11, <2>2, <2>4, <3>1
  <2>6. Window' = SubSeq(Window, 1, m)  BY <2>2, <2>4, <2>5, SeqEqual
  <2>7. m = Len(Window) - 1  BY <1>11, <1>14
  <2> QED  BY <1>12, <2>6, <2>7 DEF W!ShrinkFront
<1> QED  BY <1>13, <1>15, <1>16, <1>17

\* Every step of the store is a step of the window or leaves it alone.
LEMMA WindowNext == StoreInv /\ StoreInv' /\ [Next]_vars => [W!Next]_Window
<1> SUFFICES ASSUME StoreInv, StoreInv', [Next]_vars PROVE [W!Next]_Window  OBVIOUS
<1>1. CASE basic' = basic  BY <1>1, Zenon DEF Window
<1>2. CASE Up /\ rocksdb_write
  <2>1. queue # <<>> /\ (AddIndexes \/ SlotAdd \/ SlotRemove)  BY <1>2 DEF rocksdb_write
  <2>2. CASE AddIndexes  BY <1>1, <2>2 DEF AddIndexes
  <2>3. CASE SlotAdd  BY <1>2, <2>1, <2>3, WindowGrows DEF W!Next
  <2>4. CASE SlotRemove  BY <1>2, <2>1, <2>4, WindowShrinks DEF W!Next
  <2> QED  BY <2>1, <2>2, <2>3, <2>4
<1>3. CASE Writer \/ crash \/ start
  <2>1. basic' = basic
    BY <1>3 DEF Writer, crash, start, pop_block, begin, push_block_back, push_block_front,
       pop_block_done, write_file, file_written, no_room, send_indexes, joined,
       push_block_done, disk
  <2> QED  BY <1>1, <2>1
<1>4. CASE UNCHANGED vars  BY <1>1, <1>4 DEF vars
<1> QED  BY <1>2, <1>3, <1>4 DEF Next

\* What is durable is the window of SlotWindow, at every moment and so after
\* every crash: SlotBasicIndex grows and shrinks by one slot at an end and
\* never holds more than storage.blocks.max slots.
THEOREM DurableWindowAlways == Spec => DurableWindow
<1>1. Init => W!Init
  <2>1. SUFFICES ASSUME Init PROVE Window = <<>>  BY DEF W!Init
  <2>2. DOMAIN basic = {}  BY <2>1 DEF Init
  <2>3. Window = WindowOf(basic)  BY DEF Window, WindowOf
  <2> QED  BY <2>2, <2>3, WindowEmpty
<1> QED  BY <1>1, StoreInvariant, WindowNext, PTL DEF Spec, DurableWindow, W!Spec

-----------------------------------------------------------------------------
(***************************************************************************)
(* The second part: a request that is answered from the files while the    *)
(* writer prunes blocks and reuses their bytes.                            *)
(*                                                                         *)
(* The writer's index once had a cell for every slot a reader may look up; *)
(* it has that cell still, or the slot is below the lowest one and will    *)
(* never be in the index again.                                            *)
(***************************************************************************)

\* The writer has passed the slot on its way: it is not to come any more.
Known(s) ==
    /\ s \in Slots /\ s < next
    /\ next_back_slot < s
    /\ op.stage # "idle" /\ op.side = "back" => op.slot < s

Reached(s) == DOMAIN ring # {} /\ Lowest(DOMAIN ring) <= s

Agrees(s, c) == Known(s) /\ (Reached(s) => s \in DOMAIN ring /\ ring[s] = c)

Lost(s) == Known(s) /\ ~ Reached(s)

\* Where the writer is.
Progress ==
    /\ status # "down"
    /\ next \in Nat \ {0} /\ next_back_slot \in Nat /\ next_back_slot < next
    /\ \A s \in DOMAIN ring : s < next /\ next_back_slot < s
    /\ announced \in BOOLEAN
    /\ announced => next \in Slots
    /\ op.stage # "pop"
    /\ op.stage # "idle" /\ op.side = "front" => announced /\ op.slot = next
    /\ op.stage # "idle" /\ op.side = "back" =>
          ~ announced /\ next_back_slot < op.slot /\ op.slot < next

\* What is published is the lowest slot, or that there is none.
FirstFollows ==
    /\ DOMAIN stored = {"confirmed", "finalized", "first", "source"}
    /\ \/ stored.first = Never
       \/ DOMAIN ring # {} /\ stored.first = Lowest(DOMAIN ring)

Messages ==
    {[type |-> "PopBack"]}
    \union [type : {"PushFront", "PushBack"}, slot : Slots, cell : Cells \union {None}]
    \union [type : {"BlockConfirmed", "SlotFinalized"}, slot : Slots]

ReaderFields ==
    {"ring", "extra", "inproc", "finalized", "heard", "told", "confirmed", "height", "peak",
     "recent", "failed"}

ReadersOK ==
    /\ inbox \in [Readers -> Seq(Messages)]
    /\ DOMAIN reader = Readers /\ reader = [r \in Readers |-> reader[r]]
    /\ \A r \in Readers : /\ DOMAIN reader[r] = ReaderFields
                          /\ reader[r] = [f \in ReaderFields |-> reader[r][f]]

\* Rows the writer's index had once.
Past(rows) ==
    /\ IsRows(rows) /\ Consecutive(DOMAIN rows)
    /\ \A s \in DOMAIN rows : Agrees(s, rows[s])

\* What a message makes of the rows.
Turn(m, a, b) ==
    /\ m.type = "PopBack" => DOMAIN a # {} /\ b = Restrict(a, DOMAIN a \ {Lowest(DOMAIN a)})
    /\ m.type \in {"PushFront", "PushBack"} => b = Put(a, m.slot, m.cell)
    /\ m.type \in {"BlockConfirmed", "SlotFinalized"} => b = a

\* h: a reader's index now and after each message it has not handled yet.
FollowsBy(h, r) ==
    /\ h[1] = reader[r].ring /\ h[Len(inbox[r]) + 1] = ring
    /\ \A i \in 1 .. Len(inbox[r]) + 1 : Past(h[i])
    /\ \A i \in 1 .. Len(inbox[r]) : Turn(inbox[r][i], h[i], h[i + 1])

Follows == \A r \in Readers : \E h : FollowsBy(h, r)

RequestFields ==
    {"kind", "slot", "commit", "stage", "reader", "cell", "result", "held", "seen", "until",
     "behind", "inside", "recent", "other", "history", "local", "finalized"}

IsRequest(q) == DOMAIN q = RequestFields /\ q = [f \in RequestFields |-> q[f]]

\* A location that was looked up is good still, or its block is lost; so is
\* what was read there.
Served(q) ==
    /\ q.slot \in Slots
    /\ q.stage = "file" => q.cell \in Cells /\ Agrees(q.slot, q.cell)
    /\ q.stage = "result" /\ q.result.type = "block" =>
          q.result.value = q.slot \/ Lost(q.slot)
    /\ q.stage = "done" /\ q.result.type = "block" => q.result.value = q.slot

ReadKinds == BlockKinds \union TransactionKinds

\* Requests that came while a reader had slots the start has taken back are
\* not looked at.
RequestOK ==
    \/ req = NoRequest
    \/ /\ IsRequest(req)
       /\ req.behind = {} => Behind = {} /\ (req.kind \in ReadKinds => Served(req))

\* Storage and the readers' index, whatever is asked.
IndexInv ==
    /\ StoreInv
    /\ Progress
    /\ FirstFollows
    /\ ReadersOK
    /\ Follows

ReadInv == IndexInv /\ RequestOK

-----------------------------------------------------------------------------
(***************************************************************************)
(* What a step of the writer does to the index, and that it forgets no     *)
(* slot it has passed.                                                     *)
(***************************************************************************)
Pruned == DOMAIN ring # {} /\ ring' = Restrict(ring, DOMAIN ring \ {Lowest(DOMAIN ring)})

Grown == op.stage = "added" /\ ring' = Put(ring, op.slot, op.cell)

\* A slot that is reached after a step was reached before it.
LEMMA ReachedBefore ==
    ASSUME Types, Types', Placed, Progress, ring' = ring \/ Pruned \/ Grown,
           NEW s, Known(s), Reached(s)'
    PROVE  Reached(s)
<1>1. /\ DOMAIN ring \subseteq Slots /\ DOMAIN ring \subseteq Int
      /\ DOMAIN ring' \subseteq Slots /\ DOMAIN ring' \subseteq Int
  BY DEF Types, IsRows, Slots
<1>2. s \in Int /\ s < next  BY DEF Known, Slots
<1>3. /\ DOMAIN ring' # {} /\ Lowest(DOMAIN ring') <= s
  BY DEF Reached
<1>4. Lowest(DOMAIN ring') \in DOMAIN ring' /\ Lowest(DOMAIN ring') \in Int
  BY <1>1, <1>3, LowestIn
<1>5. SUFFICES ASSUME NEW t \in DOMAIN ring, t <= s PROVE Reached(s)
  <2>1. CASE ring' = ring  BY <1>3, <2>1 DEF Reached
  <2>2. CASE Pruned
    <3>1. DOMAIN ring' \subseteq DOMAIN ring  BY <2>2 DEF Pruned, Restrict
    <3> QED  BY <1>3, <1>4, <1>5, <3>1
  <2>3. CASE Grown
    <3>1. DOMAIN ring' = DOMAIN ring \union {op.slot}  BY <2>3 DEF Grown, Put
    <3>2. Fits(op) /\ op.side \in {"front", "back"} /\ op.slot \in Slots \union {None}
      BY <2>3 DEF Grown, Placed, Pushing, Types, Op
    <3>3. CASE op.side = "front"
      <4>1. op.slot = next  BY <2>3, <3>3 DEF Grown, Progress
      <4>2. Lowest(DOMAIN ring') # next  BY <1>2, <1>3, <1>4 DEF Progress
      <4> QED  BY <1>3, <1>4, <1>5, <3>1, <4>1, <4>2
    <3>4. CASE op.side = "back"
      <4>1. op.slot + 1 \in DOMAIN ring  BY <3>2, <3>4 DEF Fits
      <4>2. op.slot < s  BY <2>3, <3>4 DEF Grown, Known
      <4>3. op.slot \in Int  BY <3>2 DEF Slots, None
      <4>4. op.slot + 1 <= s  BY <1>2, <4>2, <4>3
      <4> QED  BY <1>5, <4>1, <4>4
    <3> QED  BY <3>2, <3>3, <3>4
  <2> QED  BY <2>1, <2>2, <2>3
<1>6. Lowest(DOMAIN ring) \in DOMAIN ring /\ Lowest(DOMAIN ring) <= t
  BY <1>1, LowestIn
<1>7. Lowest(DOMAIN ring) \in Int /\ t \in Int  BY <1>1, <1>6
<1>8. Lowest(DOMAIN ring) <= s  BY <1>2, <1>5, <1>6, <1>7
<1> QED  BY <1>8 DEF Reached

\* What a reader may have looked up stays good or gets lost.
LEMMA AgreesKept ==
    ASSUME Types, Types', Placed, Progress, ring' = ring \/ Pruned \/ Grown,
           NEW s, NEW c, Agrees(s, c), Known(s)'
    PROVE  Agrees(s, c)'
<1>1. SUFFICES ASSUME Reached(s)' PROVE s \in DOMAIN ring' /\ ring'[s] = c  BY DEF Agrees
<1>2. Known(s)  BY DEF Agrees
<1>3. Reached(s)  BY <1>1, <1>2, ReachedBefore
<1>4. s \in DOMAIN ring /\ ring[s] = c  BY <1>3 DEF Agrees
<1>5. CASE ring' = ring  BY <1>4, <1>5
<1>6. CASE Pruned
  <2>1. DOMAIN ring' = DOMAIN ring \ {Lowest(DOMAIN ring)} /\ \A t \in DOMAIN ring' : ring'[t] = ring[t]
    BY <1>6 DEF Pruned, Restrict
  <2>2. DOMAIN ring' # {} /\ Lowest(DOMAIN ring') <= s  BY <1>1 DEF Reached
  <2>3. DOMAIN ring \subseteq Slots /\ DOMAIN ring \subseteq Int
    BY DEF Types, IsRows, Slots
  <2>4. /\ Lowest(DOMAIN ring') \in DOMAIN ring'
        /\ \A t \in DOMAIN ring : Lowest(DOMAIN ring) <= t
    BY <1>4, <2>1, <2>2, <2>3, LowestIn
  <2>5. Lowest(DOMAIN ring) \in DOMAIN ring  BY <1>4, <2>3, LowestIn
  <2>6. s # Lowest(DOMAIN ring)  BY <1>4, <2>1, <2>2, <2>3, <2>4, <2>5
  <2> QED  BY <1>4, <2>1, <2>6
<1>7. CASE Grown
  <2>1. /\ DOMAIN ring' = DOMAIN ring \union {op.slot}
        /\ \A t \in DOMAIN ring : t # op.slot => ring'[t] = ring[t]
    BY <1>7 DEF Grown, Put
  <2>2. op.slot \notin DOMAIN ring
    <3>1. Fits(op) /\ op.side \in {"front", "back"}
      BY <1>7 DEF Grown, Placed, Pushing, Types, Op
    <3>2. DOMAIN ring \subseteq Int  BY DEF Types, IsRows, Slots
    <3> QED  BY <3>1, <3>2 DEF Fits
  <2> QED  BY <1>4, <2>1, <2>2
<1> QED  BY <1>5, <1>6, <1>7

\* What is lost stays lost.
LEMMA LostKept ==
    ASSUME Types, Types', Placed, Progress, ring' = ring \/ Pruned \/ Grown,
           NEW s, Lost(s), Known(s)'
    PROVE  Lost(s)'
BY ReachedBefore DEF Lost

\* The writer's step keeps its invariant, forgets no slot and moves the index
\* at most by one slot.
Moves ==
    /\ StoreInv' /\ Progress'
    /\ \A s : Known(s) => Known(s)'
    /\ ring' = ring \/ Pruned \/ Grown

\* The parts of the invariant while the writer runs.
LEMMA RunningStore ==
    ASSUME StoreInv, status = "running"
    PROVE  /\ Up /\ Types /\ QueueOK /\ OpOK /\ RowsFollow /\ Placed /\ Durable
           /\ op \in Op /\ DOMAIN ring \subseteq Slots
BY StoreUp DEF Up, Types, IsRows

\* A push that has begun.
LEMMA StoredOp ==
    ASSUME NEW o \in Op, Stored(o)
    PROVE  op'.stage \in {"add", "join"} /\ op'.side = o.side /\ op'.slot = o.slot
<1>1. CASE op' = [o EXCEPT !.stage = "add"]  BY <1>1 DEF Op
<1>2. CASE op' = [o EXCEPT !.stage = "join"]  BY <1>2 DEF Op
<1> QED  BY <1>1, <1>2 DEF Stored

\* The next slot is confirmed, or finalized, or backfilling ends: the store
\* is left alone.
LEMMA QuietMoves ==
    ASSUME StoreInv, Progress, UNCHANGED vars, next' = next, op.stage = "idle",
           \/ announced' = TRUE /\ next <= MaxSlot /\ next_back_slot' = next_back_slot
           \/ announced' = announced /\ next_back_slot' \in {next_back_slot, None}
    PROVE  Moves
<1>1. StoreInv'  BY StutterStore
<1>2. next_back_slot' \in Nat /\ next_back_slot' <= next_back_slot
  BY DEF Progress, None
<1>3. announced' \in BOOLEAN  BY Zenon DEF Progress
<1>4. announced' => next \in Slots
  <2>1. next <= MaxSlot => next \in Slots
    <3>1. next \in Nat \ {0} /\ MaxSlot \in Nat  BY BlockStoreAssumption DEF Progress
    <3> QED  BY <3>1 DEF Slots
  <2>2. announced => next \in Slots  BY DEF Progress
  <2> QED  BY <2>1, <2>2, Zenon
<1>5. Progress'
  <2>1. \A s \in DOMAIN ring : s < next' /\ next_back_slot' < s
    <3>1. DOMAIN ring \subseteq Int  BY DEF StoreInv, Types, IsRows, Slots
    <3> QED  BY <1>2, <3>1 DEF Progress
  <2>2. next' \in Nat \ {0} /\ next_back_slot' < next'  BY <1>2 DEF Progress
  <2> QED  BY <1>2, <1>3, <1>4, <2>1, <2>2 DEF Progress, vars
<1>6. \A s : Known(s) => Known(s)'
  BY <1>2 DEF Known, vars, Slots, Progress
<1>7. ring' = ring  BY DEF vars
<1> QED  BY <1>1, <1>5, <1>6, <1>7 DEF Moves

\* The next slot is stored.
LEMMA FrontMoves ==
    ASSUME StoreInv, Progress, status = "running", announced, push_block_front(next),
           UNCHANGED <<next, announced, next_back_slot>>
    PROVE  Moves
<1>0. /\ Up /\ Types /\ QueueOK /\ OpOK /\ RowsFollow /\ Placed /\ Durable
      /\ op \in Op /\ DOMAIN ring \subseteq Slots
  BY RunningStore
<1>1. next \in Slots  BY DEF Progress
<1>2. StoreInv'  BY <1>0, <1>1, PushFrontStore
<1> DEFINE o == [Idle EXCEPT !.slot = next]
           p == [o EXCEPT !.stage = "make_room"]
           oldest == Lowest(DOMAIN ring)
<1>3. /\ o \in Op /\ o.slot = next /\ o.side = "front"
      /\ p \in Op /\ p.slot = next /\ p.side = "front" /\ p.stage = "make_room"
  BY <1>1 DEF Idle, Op
<1>4. /\ op.stage = "idle" /\ UNCHANGED <<disk, used, status>>
      /\ \/ is_full /\ TakeOut(oldest) /\ op' = Popped(p, oldest)
         \/ Stored(o) /\ UNCHANGED ring
  BY DEF push_block_front
<1> HIDE DEF o, p
<1>5. /\ op'.stage \in {"add", "join", "make_room"} /\ op'.side = "front" /\ op'.slot = next
  <2>1. CASE Stored(o)  BY <1>3, <2>1, StoredOp
  <2>2. CASE op' = Popped(p, oldest)  BY <1>3, <2>2 DEF Popped, Op
  <2> QED  BY <1>4, <2>1, <2>2
<1>6. ring' = ring \/ Pruned
  <2>1. CASE is_full /\ TakeOut(oldest)
    <3>1. DOMAIN ring # {}
      <4>1. SUFFICES ASSUME DOMAIN ring = {} PROVE FALSE  OBVIOUS
      <4>2. Cardinality(DOMAIN ring) = 0  BY <4>1, FS_EmptySet
      <4> QED  BY <2>1, <4>2, BlockStoreAssumption DEF is_full
    <3> QED  BY <2>1, <3>1 DEF TakeOut, Pruned
  <2> QED  BY <1>4, <2>1
<1>7. DOMAIN ring' \subseteq DOMAIN ring  BY <1>6 DEF Pruned, Restrict
<1>8. Progress'  BY <1>1, <1>4, <1>5, <1>7 DEF Progress, Up
<1>9. \A s : Known(s) => Known(s)'  BY <1>5 DEF Known
<1> QED  BY <1>2, <1>6, <1>8, <1>9 DEF Moves

\* A slot of the history is stored.
LEMMA BackMoves ==
    ASSUME StoreInv, Progress, status = "running", ~ announced,
           next_back_slot # None, push_block_back(next_back_slot),
           next_back_slot' = next_back_slot - 1, UNCHANGED <<next, announced>>
    PROVE  Moves
<1>0. /\ Up /\ Types /\ QueueOK /\ OpOK /\ RowsFollow /\ Placed /\ Durable
      /\ op \in Op /\ DOMAIN ring \subseteq Slots
  BY RunningStore
<1>1. /\ op.stage = "idle" /\ DOMAIN ring # {} /\ next_back_slot = Lowest(DOMAIN ring) - 1
      /\ UNCHANGED <<disk, ring, used, status>>
  BY DEF push_block_back
<1>2. next_back_slot \in Slots
  <2>1. Lowest(DOMAIN ring) \in Slots  BY <1>0, <1>1, LowestIn
  <2>2. MaxSlot \in Nat  BY BlockStoreAssumption
  <2> QED  BY <1>1, <2>1, <2>2 DEF Progress, Slots, None
<1>3. StoreInv'  BY <1>0, <1>2, PushBackStore
<1> DEFINE o == [Idle EXCEPT !.side = "back", !.slot = next_back_slot]
<1>4. o \in Op /\ o.slot = next_back_slot /\ o.side = "back"  BY <1>2 DEF Idle, Op
<1>5. Stored(o)  BY DEF push_block_back
<1> HIDE DEF o
<1>6. op'.stage \in {"add", "join"} /\ op'.side = "back" /\ op'.slot = next_back_slot
  BY <1>4, <1>5, StoredOp
<1>7. next_back_slot' \in Nat /\ next_back_slot' < next_back_slot /\ next_back_slot \in Nat
  BY <1>2 DEF Slots
<1>8. Progress'
  <2>1. \A s \in DOMAIN ring' : s < next' /\ next_back_slot' < s
    <3>1. DOMAIN ring \subseteq Int  BY <1>0 DEF Slots
    <3> QED  BY <1>1, <1>7, <3>1 DEF Progress
  <2>2. next' \in Nat \ {0} /\ next_back_slot' < next' /\ next_back_slot < next'
    BY <1>7 DEF Progress
  <2> QED  BY <1>1, <1>6, <1>7, <2>1, <2>2 DEF Progress, Up
<1>9. \A s : Known(s) => Known(s)'  BY <1>6, <1>7 DEF Known, Slots
<1> QED  BY <1>1, <1>3, <1>8, <1>9 DEF Moves

\* The push goes on, or the thread that writes to RocksDB does.
LEMMA GoOnMoves ==
    ASSUME StoreInv, StoreInv', Progress, status = "running", op.stage # "idle",
           op'.stage \notin {"idle", "pop"}, op'.slot = op.slot, op'.side = op.side,
           ring' = ring \/ Pruned, status' # "down",
           UNCHANGED <<next, announced, next_back_slot>>
    PROVE  Moves
<1>1. DOMAIN ring' \subseteq DOMAIN ring  BY DEF Pruned, Restrict
<1>2. Progress'  BY <1>1 DEF Progress
<1>3. \A s : Known(s) => Known(s)'  BY DEF Known
<1> QED  BY <1>2, <1>3 DEF Moves

\* The push is given up or done.
LEMMA DoneMoves ==
    ASSUME StoreInv, StoreInv', Progress, status = "running", op.stage # "idle",
           op' = Idle, status' = status, next_back_slot' = next_back_slot,
           \/ ring' = ring /\ next' = next /\ announced' = announced
           \/ /\ Grown /\ announced' = FALSE
              /\ next' = IF announced THEN next + 1 ELSE next
    PROVE  Moves
<1>0. /\ Up /\ Types /\ QueueOK /\ OpOK /\ RowsFollow /\ Placed /\ Durable
      /\ op \in Op /\ DOMAIN ring \subseteq Slots
  BY RunningStore
<1>1. op'.stage = "idle"  BY IdleOp
<1>2. next' \in Nat \ {0} /\ next <= next' /\ next \in Nat  BY DEF Progress
<1>3. Progress'
  <2>1. \A s \in DOMAIN ring' : s < next' /\ next_back_slot' < s
    <3>1. \A s \in DOMAIN ring : s < next' /\ next_back_slot' < s
      <4>1. DOMAIN ring \subseteq Int  BY <1>0 DEF Slots
      <4> QED  BY <1>2, <4>1 DEF Progress
    <3>2. CASE ring' = ring  BY <3>1, <3>2
    <3>3. CASE Grown /\ next' = IF announced THEN next + 1 ELSE next
      <4>1. DOMAIN ring' = DOMAIN ring \union {op.slot}  BY <3>3 DEF Grown, Put
      <4>2. op.side \in {"front", "back"}  BY <1>0 DEF Op
      <4>3. op.slot < next' /\ next_back_slot' < op.slot
        <5>1. CASE op.side = "front"  BY <1>2, <3>3, <5>1 DEF Progress
        <5>2. CASE op.side = "back"  BY <1>2, <3>3, <5>2 DEF Progress
        <5> QED  BY <4>2, <5>1, <5>2
      <4> QED  BY <3>1, <4>1, <4>3
    <3> QED  BY <3>2, <3>3
  <2>2. announced' \in BOOLEAN  BY DEF Progress
  <2>3. announced' => next' \in Slots  BY DEF Progress
  <2>4. next_back_slot' \in Nat /\ next_back_slot' < next'  BY <1>2 DEF Progress
  <2> QED  BY <1>1, <1>2, <2>1, <2>2, <2>3, <2>4 DEF Progress
<1>4. \A s : Known(s) => Known(s)'  BY <1>1, <1>2 DEF Known, Slots
<1> QED  BY <1>3, <1>4 DEF Moves

\* Every step of the writer moves as Moves says.
LEMMA StorageMoves ==
    ASSUME StoreInv, Progress, Storage
    PROVE  Moves
<1>1. CASE confirm
  <2>1. UNCHANGED vars /\ next' = next /\ next_back_slot' = next_back_slot /\ announced' = TRUE
        /\ next <= MaxSlot /\ op.stage = "idle"
    BY <1>1 DEF confirm, Between
  <2> QED  BY <2>1, QuietMoves
<1>2. CASE \E s \in Finalized : finalize(s)
  <2>1. UNCHANGED <<vars, next, announced, next_back_slot>> /\ op.stage = "idle"
    BY <1>2 DEF finalize, Between
  <2> QED  BY <2>1, QuietMoves
<1>3. CASE status = "running" /\ store  BY <1>3, FrontMoves DEF store
<1>4. CASE status = "running" /\ backfill
  <2>1. /\ next_back_slot # None /\ ~ announced /\ op.stage = "idle" /\ UNCHANGED <<next, announced>>
        /\ \/ push_block_back(next_back_slot) /\ next_back_slot' = next_back_slot - 1
           \/ next_back_slot' = None /\ UNCHANGED vars
    BY <1>4 DEF backfill, Between
  <2>2. CASE push_block_back(next_back_slot) /\ next_back_slot' = next_back_slot - 1
    BY <1>4, <2>1, <2>2, BackMoves
  <2>3. CASE next_back_slot' = None /\ UNCHANGED vars  BY <2>1, <2>3, QuietMoves
  <2> QED  BY <2>1, <2>2, <2>3
<1>5. ASSUME status = "running" PROVE
        /\ Up /\ Types /\ QueueOK /\ OpOK /\ RowsFollow /\ Placed /\ Durable
        /\ op \in Op /\ DOMAIN ring \subseteq Slots
  BY <1>5, RunningStore
<1>6. CASE status = "running" /\ go_on
  <2>0. /\ Up /\ Types /\ QueueOK /\ OpOK /\ op \in Op /\ DOMAIN ring \subseteq Slots
        /\ op.stage # "pop"
    BY <1>5, <1>6 DEF Progress
  <2>1. /\ next_back_slot' = next_back_slot
        /\ announced' = (announced /\ ~ (announced /\ op.stage = "added"))
        /\ next' = IF announced /\ op.stage = "added" THEN next + 1 ELSE next
    BY <1>6 DEF go_on
  <2>2. announced \in BOOLEAN  BY DEF Progress
  <2>3. op.stage # "added" => announced' = announced /\ next' = next
    <3>1. op.stage # "added" => announced' = announced  BY <2>1, <2>2, Zenon
    <3> QED  BY <2>1, <3>1
  <2>4. op.stage = "added" => announced' = FALSE  BY <2>1, <2>2, Zenon
  <2>5. CASE pop_block_done
    <3>1. StoreInv'  BY <2>0, <2>5, PopDoneStore
    <3>2. op.gone # None /\ UNCHANGED <<disk, ring, status>>  BY <2>5 DEF pop_block_done
    <3>3. op.stage \in {"make_room", "join"}  BY <2>0, <3>2 DEF OpOK, Op
    <3> DEFINE o == [op EXCEPT !.gone = None, !.free = None, !.rows = "there"]
    <3>4. o \in Op /\ o.stage = op.stage /\ o.slot = op.slot /\ o.side = op.side
      BY <2>0 DEF Op
    <3>5. Stored(o) \/ op' = o  BY <2>5, <3>3 DEF pop_block_done
    <3> HIDE DEF o
    <3>6. op'.stage \notin {"idle", "pop"} /\ op'.slot = op.slot /\ op'.side = op.side
      BY <3>3, <3>4, <3>5, StoredOp
    <3> QED  BY <1>6, <2>1, <2>3, <3>1, <3>2, <3>3, <3>6, GoOnMoves DEF Progress
  <2>6. CASE \E c \in Cells : write_file(c)
    <3>1. PICK c \in Cells : write_file(c)  BY <2>6
    <3>2. StoreInv'  BY <2>0, <3>1, WriteFileStore
    <3>3. /\ op.stage = "join" /\ op' = [op EXCEPT !.cell = c, !.file = "writing"]
          /\ UNCHANGED <<ring, status>>
      BY <3>1 DEF write_file
    <3>4. op'.stage = "join" /\ op'.slot = op.slot /\ op'.side = op.side  BY <2>0, <3>3 DEF Op
    <3> QED  BY <1>6, <2>1, <2>3, <3>2, <3>3, <3>4, GoOnMoves DEF Progress
  <2>7. CASE file_written
    <3>1. StoreInv'  BY <2>0, <2>7, FileWrittenStore
    <3>2. /\ op.stage = "join" /\ op' = [op EXCEPT !.file = "done"]
          /\ UNCHANGED <<ring, status>>
      BY <2>0, <2>7 DEF file_written, OpOK
    <3>3. op'.stage = "join" /\ op'.slot = op.slot /\ op'.side = op.side  BY <2>0, <3>2 DEF Op
    <3> QED  BY <1>6, <2>1, <2>3, <3>1, <3>2, <3>3, GoOnMoves DEF Progress
  <2>8. CASE no_room
    <3>1. StoreInv'  BY <2>0, <2>8, NoRoomStore
    <3> DEFINE oldest == Lowest(DOMAIN ring)
    <3>2. /\ op.stage = "join"
          /\ \/ op' = [op EXCEPT !.file = "no_room"] /\ UNCHANGED <<ring, status>>
             \/ DOMAIN ring # {} /\ TakeOut(oldest) /\ op' = Popped(op, oldest) /\ UNCHANGED status
             \/ status' = "no_blocks_to_remove" /\ UNCHANGED <<ring, op>>
      BY <2>8 DEF no_room
    <3>3. op'.stage = "join" /\ op'.slot = op.slot /\ op'.side = op.side
      BY <2>0, <3>2 DEF Op, Popped
    <3>4. ring' = ring \/ Pruned  BY <3>2 DEF TakeOut, Pruned
    <3>5. status' # "down"  BY <1>6, <3>2
    <3> QED  BY <1>6, <2>1, <2>3, <3>1, <3>2, <3>3, <3>4, <3>5, GoOnMoves
  <2>9. CASE send_indexes
    <3>1. StoreInv'  BY <2>0, <2>9, SendIndexesStore
    <3>2. /\ op.stage = "join" /\ op' = [op EXCEPT !.index = "sent"]
          /\ UNCHANGED <<ring, status>>
      BY <2>9 DEF send_indexes
    <3>3. op'.stage = "join" /\ op'.slot = op.slot /\ op'.side = op.side  BY <2>0, <3>2 DEF Op
    <3> QED  BY <1>6, <2>1, <2>3, <3>1, <3>2, <3>3, GoOnMoves DEF Progress
  <2>10. CASE joined
    <3>1. StoreInv'  BY <2>0, <2>10, JoinedStore
    <3>2. /\ op.stage = "join" /\ (op' = [op EXCEPT !.stage = "add"] \/ op' = Idle)
          /\ UNCHANGED <<ring, status>>
      BY <2>10 DEF joined
    <3>3. CASE op' = Idle  BY <1>6, <2>1, <2>3, <3>1, <3>2, <3>3, DoneMoves
    <3>4. CASE op' = [op EXCEPT !.stage = "add"]
      <4>1. op'.stage = "add" /\ op'.slot = op.slot /\ op'.side = op.side
        BY <2>0, <3>2, <3>4 DEF Op
      <4> QED  BY <1>6, <2>1, <2>3, <3>1, <3>2, <4>1, GoOnMoves DEF Progress
    <3> QED  BY <3>2, <3>3, <3>4
  <2>11. CASE push_block_done
    <3>1. StoreInv'  BY <2>0, <2>11, PushDoneStore
    <3>2. op.stage = "added" /\ op' = Idle /\ status' = status
          /\ ring' = Put(ring, op.slot, op.cell)
      BY <2>11 DEF push_block_done
    <3>3. Grown  BY <3>2 DEF Grown
    <3>4. next' = IF announced THEN next + 1 ELSE next  BY <2>1, <3>2
    <3> QED  BY <1>6, <2>1, <2>4, <3>1, <3>2, <3>3, <3>4, DoneMoves
  <2> QED  BY <1>6, <2>5, <2>6, <2>7, <2>8, <2>9, <2>10, <2>11 DEF go_on
<1>7. CASE status = "running" /\ rocksdb_write /\ UNCHANGED <<next, announced, next_back_slot>>
  <2>0. /\ Up /\ Types /\ QueueOK /\ OpOK /\ RowsFollow /\ op \in Op /\ op.stage # "pop"
    BY <1>5, <1>7 DEF Progress
  <2>1. StoreInv'
    BY <1>7, <2>0, AddIndexesStore, SlotAddStore, SlotRemoveStore DEF rocksdb_write
  <2>2. queue # <<>> /\ ring' = ring  BY <1>7 DEF rocksdb_write
  <2>3. queue[1] \in Asks /\ Awaited(op, queue[1])  BY <2>0, <2>2, FirstAsk
  <2>4. CASE AddIndexes
    <3>1. op.stage = "join"  BY <2>3, <2>4 DEF AddIndexes, Awaited
    <3>2. op' = [op EXCEPT !.index = "done"] /\ UNCHANGED status  BY <2>4 DEF AddIndexes
    <3>3. op'.stage = "join" /\ op'.slot = op.slot /\ op'.side = op.side
      BY <2>0, <3>1, <3>2 DEF Op
    <3> QED  BY <1>7, <2>1, <2>2, <3>1, <3>2, <3>3, GoOnMoves DEF Progress
  <2>5. CASE SlotAdd
    <3>1. op.stage = "add"  BY <2>3, <2>5 DEF SlotAdd, Awaited
    <3>2. op' = [op EXCEPT !.stage = "added"] /\ UNCHANGED status  BY <2>5 DEF SlotAdd
    <3>3. op'.stage = "added" /\ op'.slot = op.slot /\ op'.side = op.side
      BY <2>0, <3>2 DEF Op
    <3> QED  BY <1>7, <2>1, <2>2, <3>1, <3>2, <3>3, GoOnMoves DEF Progress
  <2>6. CASE SlotRemove
    <3>1. op.gone # None  BY <2>3, <2>6 DEF SlotRemove, Awaited
    <3>2. op.stage # "idle"  BY <2>0, <3>1 DEF OpOK
    <3>3. /\ op' = [op EXCEPT !.rows = "removed"] \/ op' = op
          /\ status' \in {status, "existed_slot_not_found"}
      BY <2>6 DEF SlotRemove
    <3>4. op'.stage = op.stage /\ op'.slot = op.slot /\ op'.side = op.side
      BY <2>0, <3>3 DEF Op
    <3> QED  BY <1>7, <2>0, <2>1, <2>2, <3>2, <3>3, <3>4, GoOnMoves DEF Progress
  <2> QED  BY <1>7, <2>4, <2>5, <2>6 DEF rocksdb_write
<1> QED  BY <1>1, <1>2, <1>3, <1>4, <1>6, <1>7 DEF Storage

-----------------------------------------------------------------------------
(***************************************************************************)
(* The readers follow.                                                     *)
(***************************************************************************)

Op_Stages == {"idle", "make_room", "join", "add", "added", "pop"}

\* The index itself is rows the index had once.
LEMMA RingPast ==
    ASSUME Types, Placed, Progress
    PROVE  Past(ring)
<1>1. IsRows(ring) /\ Consecutive(DOMAIN ring) /\ op.stage \in Op_Stages  BY DEF Types, Placed, Op, Op_Stages
<1>2. ASSUME NEW s \in DOMAIN ring PROVE Known(s)
  <2>1. s \in Slots  BY <1>1 DEF IsRows
  <2>2. s < next /\ next_back_slot < s  BY DEF Progress
  <2>3. op.stage # "idle" /\ op.side = "back" => op.slot < s
    BY <1>1 DEF Progress, Placed, Pushing, Fits, Op_Stages
  <2> QED  BY <2>1, <2>2, <2>3 DEF Known
<1> QED  BY <1>1, <1>2 DEF Past, Agrees

\* And after a step.
LEMMA RingPastNext ==
    ASSUME Types', Placed', Progress'
    PROVE  Past(ring)'
<1>1. IsRows(ring') /\ Consecutive(DOMAIN ring') /\ op'.stage \in Op_Stages
  BY DEF Types, Placed, Op, Op_Stages
<1>2. ASSUME NEW s \in DOMAIN ring' PROVE Known(s)'
  <2>1. s \in Slots  BY <1>1 DEF IsRows
  <2>2. s < next' /\ next_back_slot' < s  BY DEF Progress
  <2>3. op'.stage # "idle" /\ op'.side = "back" => op'.slot < s
    BY <1>1 DEF Progress, Placed, Pushing, Fits, Op_Stages
  <2> QED  BY <2>1, <2>2, <2>3 DEF Known
<1> QED  BY <1>1, <1>2 DEF Past, Agrees

\* Rows the index had once stay that.
LEMMA PastKept ==
    ASSUME StoreInv, Progress, Moves, NEW rows, Past(rows)
    PROVE  Past(rows)'
<1>1. Types /\ Types' /\ Placed  BY DEF StoreInv, Moves, Progress
<1>2. ASSUME NEW s \in DOMAIN rows PROVE Agrees(s, rows[s])'
  <2>1. Agrees(s, rows[s]) /\ Known(s)'  BY DEF Past, Agrees, Moves
  <2> QED  BY <1>1, <2>1, AgreesKept DEF Moves
<1> QED  BY <1>2 DEF Past, IsRows

\* The readers have more to handle: nothing, or one message.
LEMMA FollowsMore ==
    ASSUME StoreInv, Progress, Moves, ReadersOK, Follows, reader' = reader,
           \/ ring' = ring /\ Send(<<>>)
           \/ \E m \in Messages : Turn(m, ring, ring') /\ Send(<<m>>)
    PROVE  ReadersOK' /\ Follows'
<1>1. CASE ring' = ring /\ Send(<<>>)
  <2>1. inbox' = inbox
    <3>1. \A r \in Readers : inbox[r] \o <<>> = inbox[r]  BY DEF ReadersOK
    <3> QED  BY <1>1, <3>1 DEF Send, ReadersOK
  <2>2. ReadersOK'  BY <2>1 DEF ReadersOK
  <2>3. ASSUME NEW r \in Readers PROVE (\E h : FollowsBy(h, r))'
    <3>1. PICK h : FollowsBy(h, r)  BY DEF Follows
    <3>2. \A i \in 1 .. Len(inbox[r]) + 1 : Past(h[i])'  BY <3>1, PastKept DEF FollowsBy
    <3>3. FollowsBy(h, r)'  BY <1>1, <2>1, <3>1, <3>2 DEF FollowsBy
    <3> QED  BY <3>3
  <2> QED  BY <2>2, <2>3 DEF Follows
<1>2. ASSUME NEW m \in Messages, Turn(m, ring, ring'), Send(<<m>>) PROVE ReadersOK' /\ Follows'
  <2>1. ASSUME NEW r \in Readers
        PROVE  /\ inbox'[r] \in Seq(Messages) /\ Len(inbox'[r]) = Len(inbox[r]) + 1
               /\ \A i \in 1 .. Len(inbox[r]) : inbox'[r][i] = inbox[r][i]
               /\ inbox'[r][Len(inbox[r]) + 1] = m
               /\ Len(inbox[r]) \in Nat
    <3>1. inbox'[r] = inbox[r] \o <<m>> /\ inbox[r] \in Seq(Messages)
      BY <1>2 DEF Send, ReadersOK
    <3> QED  BY <3>1
  <2>2. inbox' \in [Readers -> Seq(Messages)]  BY <1>2, <2>1 DEF Send
  <2>3. ReadersOK'  BY <2>2 DEF ReadersOK
  <2>4. Past(ring)'  BY RingPastNext DEF Moves, StoreInv, Progress
  <2>5. ASSUME NEW r \in Readers PROVE (\E h : FollowsBy(h, r))'
    <3>1. PICK h : FollowsBy(h, r)  BY DEF Follows
    <3>6. PICK k : k = Len(inbox[r]) + 1  OBVIOUS
    <3>7. PICK g : g = [i \in 1 .. k + 1 |-> IF i = k + 1 THEN ring' ELSE h[i]]  OBVIOUS
    <3>2. k \in Nat /\ k >= 1 /\ Len(inbox'[r]) = k  BY <2>1, <3>6
    <3>3. g[1] = reader[r].ring /\ g[k] = ring /\ g[k + 1] = ring' /\ \A i \in 1 .. k : g[i] = h[i]
      BY <3>1, <3>2, <3>6, <3>7 DEF FollowsBy
    <3>4. \A i \in 1 .. k + 1 : Past(g[i])'
      <4> TAKE i \in 1 .. k + 1
      <4>1. CASE i = k + 1
        <5>1. g[i] = ring'  BY <3>3, <4>1
        <5> QED  BY <2>4, <5>1
      <4>2. CASE i # k + 1
        <5>1. i \in 1 .. k  BY <3>2, <4>2
        <5>2. Past(h[i])  BY <3>1, <3>6, <5>1 DEF FollowsBy
        <5>3. Past(h[i])'  BY <5>2, PastKept
        <5> QED  BY <3>3, <5>1, <5>3
      <4> QED  BY <4>1, <4>2
    <3>5. \A i \in 1 .. k : Turn(inbox'[r][i], g[i], g[i + 1])
      <4> TAKE i \in 1 .. k
      <4>1. CASE i = k  BY <1>2, <2>1, <3>2, <3>3, <3>6, <4>1
      <4>2. CASE i # k
        <5>1. i \in 1 .. Len(inbox[r]) /\ i + 1 \in 1 .. k  BY <2>1, <3>2, <3>6, <4>2
        <5> QED  BY <2>1, <3>1, <3>3, <5>1 DEF FollowsBy
      <4> QED  BY <4>1, <4>2
    <3> QED  BY <3>2, <3>3, <3>4, <3>5 DEF FollowsBy
  <2> QED  BY <2>3, <2>5 DEF Follows
<1> QED  BY <1>1, <1>2

\* What the readers are told of a step: nothing, or what makes their index the
\* writer's.
LEMMA RingMessagesIs ==
    ASSUME StoreInv, Progress, Moves
    PROVE  \/ ring' = ring /\ RingMessages = <<>>
           \/ \E m \in Messages : RingMessages = <<m>> /\ Turn(m, ring, ring')
<1>1. Types /\ Placed  BY DEF StoreInv, Progress
<1>2. CASE ring' = ring
  <2>1. DOMAIN ring \ DOMAIN ring' = {} /\ DOMAIN ring' \ DOMAIN ring = {}  BY <1>2
  <2> QED  BY <1>2, <2>1 DEF RingMessages
<1>3. CASE Pruned
  <2>1. Lowest(DOMAIN ring) \in DOMAIN ring  BY <1>1, <1>3, LowestIn DEF Pruned, Types, IsRows
  <2>2. DOMAIN ring \ DOMAIN ring' # {}  BY <1>3, <2>1 DEF Pruned, Restrict
  <2> DEFINE m == [type |-> "PopBack"]
  <2>3. RingMessages = <<m>>  BY <2>2 DEF RingMessages
  <2>4. m \in Messages  BY DEF Messages
  <2>5. Turn(m, ring, ring')  BY <1>3 DEF Turn, Pruned
  <2> QED  BY <2>3, <2>4, <2>5
<1>4. CASE Grown
  <2>1. /\ DOMAIN ring' = DOMAIN ring \union {op.slot} /\ ring'[op.slot] = op.cell
    BY <1>4 DEF Grown, Put
  <2>2. op.slot \notin DOMAIN ring
    <3>1. Fits(op) /\ op.side \in {"front", "back"}
      BY <1>1, <1>4 DEF Grown, Placed, Pushing, Types, Op
    <3>2. DOMAIN ring \subseteq Int  BY <1>1 DEF Types, IsRows, Slots
    <3> QED  BY <3>1, <3>2 DEF Fits
  <2>3. op.slot \in Slots /\ op.cell \in Cells \union {None}
    BY <1>1, <1>4 DEF Grown, StoreInv, OpOK, Types, Op
  <2>4. DOMAIN ring \ DOMAIN ring' = {} /\ DOMAIN ring' \ DOMAIN ring = {op.slot}
    BY <2>1, <2>2
  <2>5. (CHOOSE s \in {op.slot} : TRUE) = op.slot  OBVIOUS
  <2>6. \E t \in {"PushFront", "PushBack"} :
           RingMessages = <<[type |-> t, slot |-> op.slot, cell |-> op.cell]>>
    BY <2>1, <2>4, <2>5 DEF RingMessages
  <2>7. PICK t \in {"PushFront", "PushBack"} :
           RingMessages = <<[type |-> t, slot |-> op.slot, cell |-> op.cell]>>
    BY <2>6
  <2> DEFINE m == [type |-> t, slot |-> op.slot, cell |-> op.cell]
  <2>8. m \in Messages  BY <2>3 DEF Messages
  <2>9. m.type = t /\ m.slot = op.slot /\ m.cell = op.cell  OBVIOUS
  <2>10. RingMessages = <<m>>  BY <2>7
  <2> HIDE DEF m
  <2>11. Turn(m, ring, ring')  BY <1>4, <2>9 DEF Turn, Grown
  <2> QED  BY <2>8, <2>10, <2>11
<1> QED  BY <1>2, <1>3, <1>4 DEF Moves

\* What is published with a step.
LEMMA FirstKept ==
    ASSUME FirstFollows, NEW first \in first_available,
           stored' = [stored EXCEPT !.first = first]
    PROVE  FirstFollows'
<1>1. stored'.first = first /\ DOMAIN stored' = DOMAIN stored  BY DEF FirstFollows
<1> DEFINE lowest == IF DOMAIN ring' = {} THEN Never ELSE Lowest(DOMAIN ring')
<1>2. \/ ring' = ring /\ first = stored.first
      \/ ring = <<>> /\ first = stored.first
      \/ first = lowest
  BY DEF first_available
<1>3. CASE ring' = ring /\ first = stored.first  BY <1>1, <1>3 DEF FirstFollows
<1>4. CASE ring = <<>> /\ first = stored.first
  <2>1. DOMAIN ring = {}  BY <1>4
  <2> QED  BY <1>1, <1>4, <2>1 DEF FirstFollows
<1>5. CASE first = lowest  BY <1>1, <1>5 DEF FirstFollows
<1> QED  BY <1>2, <1>3, <1>4, <1>5

\* A step of the writer: the readers and the published level follow.
LEMMA StorageFollows ==
    ASSUME IndexInv, Storage, Moves
    PROVE  /\ ReadersOK' /\ Follows' /\ FirstFollows'
           /\ UNCHANGED <<reader, req>>
<1>0. StoreInv /\ Progress /\ FirstFollows /\ ReadersOK /\ Follows  BY DEF IndexInv
<1>1. CASE Announce
  <2>1. reader' = reader /\ req' = req /\ Send(RingMessages)  BY <1>1 DEF Announce
  <2>2. FirstFollows'  BY <1>0, <1>1, FirstKept DEF Announce
  <2>3. \/ ring' = ring /\ Send(<<>>)
        \/ \E m \in Messages : Turn(m, ring, ring') /\ Send(<<m>>)
    <3>1. CASE ring' = ring /\ RingMessages = <<>>  BY <2>1, <3>1
    <3>2. CASE \E m \in Messages : RingMessages = <<m>> /\ Turn(m, ring, ring')
      <4>1. PICK m \in Messages : RingMessages = <<m>> /\ Turn(m, ring, ring')  BY <3>2
      <4>2. Send(<<m>>)  BY <2>1, <4>1
      <4> QED  BY <4>1, <4>2
    <3> QED  BY <1>0, <3>1, <3>2, RingMessagesIs
  <2>4. ReadersOK' /\ Follows'  BY <1>0, <2>1, <2>3, FollowsMore
  <2> QED  BY <2>1, <2>2, <2>4
<1>2. ASSUME NEW t \in {"BlockConfirmed", "SlotFinalized"}, NEW s \in Slots,
             Send(<<[type |-> t, slot |-> s]>>), UNCHANGED vars, UNCHANGED <<reader, stored, req>>
      PROVE  ReadersOK' /\ Follows' /\ FirstFollows' /\ UNCHANGED <<reader, req>>
  <2> DEFINE m == [type |-> t, slot |-> s]
  <2>1. m \in Messages /\ m.type = t  BY DEF Messages
  <2>2. Send(<<m>>) /\ ring' = ring /\ reader' = reader  BY <1>2 DEF vars
  <2> HIDE DEF m
  <2>3. Turn(m, ring, ring')  BY <2>1, <2>2 DEF Turn
  <2>4. ReadersOK' /\ Follows'  BY <1>0, <2>1, <2>2, <2>3, FollowsMore
  <2>5. FirstFollows'  BY <1>0, <1>2, <2>2 DEF FirstFollows
  <2> QED  BY <1>2, <2>4, <2>5
<1>3. CASE confirm
  <2>1. next \in Slots
    <3>1. next \in Nat \ {0} /\ MaxSlot \in Nat /\ next <= MaxSlot
      BY <1>0, <1>3, BlockStoreAssumption DEF Progress, confirm
    <3> QED  BY <3>1 DEF Slots
  <2> QED  BY <1>2, <1>3, <2>1 DEF confirm
<1>4. CASE \E s \in Finalized : finalize(s)
  BY <1>2, <1>4, StorageReadAssumption DEF finalize
<1> QED  BY <1>1, <1>3, <1>4 DEF Storage, store, backfill, go_on

\* A reader handles a message: it turns its index as the writer turned his.
LEMMA ReceiveFollows ==
    ASSUME IndexInv, NEW r \in Readers, receive(r)
    PROVE  /\ ReadersOK' /\ Follows' /\ FirstFollows' /\ UNCHANGED <<writer, req>>
           /\ \A q \in Readers : reader'[q].extra = reader[q].extra
<1>0. StoreInv /\ Progress /\ FirstFollows /\ ReadersOK /\ Follows  BY DEF IndexInv
<1> DEFINE m == Head(inbox[r])
<1>1. /\ inbox[r] # <<>> /\ inbox' = [inbox EXCEPT ![r] = Tail(inbox[r])]
      /\ UNCHANGED <<writer, req>>
      /\ block_confirmed(r, m) \/ slot_finalized(r, m) \/ replica_update(r, m)
  BY DEF receive
<1>2. inbox[r] \in Seq(Messages)  BY <1>0 DEF ReadersOK
<1>3. /\ m = inbox[r][1] /\ m \in Messages /\ Len(inbox[r]) \in Nat \ {0}
      /\ Tail(inbox[r]) \in Seq(Messages) /\ Len(Tail(inbox[r])) = Len(inbox[r]) - 1
      /\ \A i \in 1 .. Len(inbox[r]) - 1 : Tail(inbox[r])[i] = inbox[r][i + 1]
  BY <1>1, <1>2
<1>4. inbox' \in [Readers -> Seq(Messages)] /\ inbox'[r] = Tail(inbox[r])
      /\ \A q \in Readers \ {r} : inbox'[q] = inbox[q]
  BY <1>0, <1>1, <1>3 DEF ReadersOK
<1>5. PICK h : FollowsBy(h, r)  BY <1>0 DEF Follows
<1>6. h[1] = reader[r].ring /\ Turn(m, h[1], h[2])
  <2>1. 1 \in 1 .. Len(inbox[r]) /\ 1 + 1 = 2  BY <1>3
  <2> QED  BY <1>3, <1>5, <2>1 DEF FollowsBy
<1> HIDE DEF m
<1>7. /\ DOMAIN reader' = Readers /\ reader' = [q \in Readers |-> reader'[q]]
      /\ \A q \in Readers : /\ DOMAIN reader'[q] = ReaderFields
                            /\ reader'[q] = [f \in ReaderFields |-> reader'[q][f]]
      /\ \A q \in Readers \ {r} : reader'[q] = reader[q]
      /\ reader'[r].ring = h[2] /\ reader'[r].extra = reader[r].extra
      /\ stored'.first = stored.first /\ DOMAIN stored' = DOMAIN stored
  <2>1. CASE block_confirmed(r, m)
    <3>1. h[2] = h[1]  BY <1>6, <2>1 DEF block_confirmed, Turn
    <3>2. PICK d, e, f :
             reader' = [reader EXCEPT ![r] = [reader[r] EXCEPT !.confirmed = m.slot, !.told = m.slot,
                           !.inproc = m.slot, !.height = d, !.peak = e, !.recent = f]]
      <4>1. PICK d : reader' = [reader EXCEPT ![r] = set_confirmed(reader[r], m.slot, d)]
        BY <2>1 DEF block_confirmed
      <4>2. PICK e : e = IF reader[r].peak < d THEN d ELSE reader[r].peak  OBVIOUS
      <4>3. PICK f : f = Recent(reader[r], m.slot, d)  OBVIOUS
      <4>4. set_confirmed(reader[r], m.slot, d)
              = [reader[r] EXCEPT !.confirmed = m.slot, !.told = m.slot,
                           !.inproc = m.slot, !.height = d, !.peak = e, !.recent = f]
        BY <4>2, <4>3 DEF set_confirmed
      <4> QED  BY <4>1, <4>4, Zenon
    <3>3. stored' = [stored EXCEPT !.confirmed = m.slot, !.source = "readers"] \/ stored' = stored
      BY <2>1 DEF block_confirmed
    <3>4. stored'.first = stored.first /\ DOMAIN stored' = DOMAIN stored
      BY <1>0, <3>3 DEF FirstFollows
    <3> QED  BY <1>0, <1>6, <3>1, <3>2, <3>4 DEF ReadersOK, ReaderFields
  <2>2. CASE slot_finalized(r, m)
    <3>1. h[2] = h[1]  BY <1>6, <2>2 DEF slot_finalized, Turn
    <3>2. PICK x : reader' = [reader EXCEPT ![r].heard = m.slot, ![r].finalized = x]
      BY <2>2 DEF slot_finalized
    <3>3. stored' = [stored EXCEPT !.finalized = m.slot] \/ stored' = stored
      BY <2>2 DEF slot_finalized
    <3>4. stored'.first = stored.first /\ DOMAIN stored' = DOMAIN stored
      BY <1>0, <3>3 DEF FirstFollows
    <3> QED  BY <1>0, <1>6, <3>1, <3>2, <3>4 DEF ReadersOK, ReaderFields
  <2>3. CASE replica_update(r, m)
    <3>1. stored' = stored  BY <2>3 DEF replica_update
    <3>2. CASE m.type = "PushFront"
      <4>1. h[2] = Put(reader[r].ring, m.slot, m.cell)  BY <1>6, <3>2, Zenon DEF Turn
      <4>2. reader' = [reader EXCEPT ![r].ring = Put(reader[r].ring, m.slot, m.cell),
                                     ![r].inproc = None,
                                     ![r].failed = (reader[r].inproc # m.slot)]
        BY <2>3, <3>2 DEF replica_update
      <4>3. PICK x, z : reader' = [reader EXCEPT ![r].ring = x, ![r].inproc = None, ![r].failed = z]
                        /\ x = h[2]
        BY <4>1, <4>2, Zenon
      <4> QED  BY <1>0, <3>1, <4>3 DEF ReadersOK, ReaderFields
    <3>3. CASE m.type # "PushFront"
      <4>1. PICK x : x = h[2] /\ reader' = [reader EXCEPT ![r].ring = x]
        BY <1>6, <2>3, <3>3 DEF replica_update, Turn
      <4> QED  BY <1>0, <3>1, <4>1 DEF ReadersOK, ReaderFields
    <3> QED  BY <3>2, <3>3
  <2> QED  BY <1>1, <2>1, <2>2, <2>3
<1>8. ReadersOK'  BY <1>4, <1>7 DEF ReadersOK
<1>9. /\ ring' = ring /\ next' = next /\ next_back_slot' = next_back_slot /\ op' = op
  BY <1>1 DEF writer
<1>10. FirstFollows'  BY <1>0, <1>7, <1>9 DEF FirstFollows
<1>11. \A rows : Past(rows) => Past(rows)'
  BY <1>9 DEF Past, Agrees, Known, Reached
<1>12. ASSUME NEW q \in Readers PROVE (\E g : FollowsBy(g, q))'
  <2>1. CASE q # r
    <3>1. PICK g : FollowsBy(g, q)  BY <1>0 DEF Follows
    <3>2. inbox'[q] = inbox[q] /\ reader'[q] = reader[q]  BY <1>4, <1>7, <2>1
    <3>3. FollowsBy(g, q)'  BY <1>9, <1>11, <3>1, <3>2 DEF FollowsBy
    <3> QED  BY <3>3
  <2>2. CASE q = r
    <3>1. PICK k : k = Len(inbox[r])  OBVIOUS
    <3>2. PICK g : g = [i \in 1 .. k |-> h[i + 1]]  OBVIOUS
    <3>3. k \in Nat \ {0} /\ Len(inbox'[r]) = k - 1  BY <1>3, <1>4, <3>1
    <3>4. g[1] = reader'[r].ring /\ g[k] = ring'
      BY <1>5, <1>7, <1>9, <3>1, <3>2, <3>3 DEF FollowsBy
    <3>5. \A i \in 1 .. k : Past(g[i])'
      <4> TAKE i \in 1 .. k
      <4>1. i + 1 \in 1 .. k + 1 /\ g[i] = h[i + 1]  BY <3>2, <3>3
      <4> QED  BY <1>5, <1>11, <3>1, <4>1 DEF FollowsBy
    <3>6. \A i \in 1 .. k - 1 : Turn(inbox'[r][i], g[i], g[i + 1])
      <4> TAKE i \in 1 .. k - 1
      <4>1. i + 1 \in 1 .. k /\ g[i] = h[i + 1] /\ g[i + 1] = h[(i + 1) + 1]  BY <3>2, <3>3
      <4>2. inbox'[r][i] = inbox[r][i + 1]  BY <1>3, <1>4, <3>1
      <4> QED  BY <1>5, <3>1, <4>1, <4>2 DEF FollowsBy
    <3>7. k - 1 + 1 = k  BY <3>3
    <3>8. FollowsBy(g, r)'  BY <3>3, <3>4, <3>5, <3>6, <3>7 DEF FollowsBy
    <3> QED  BY <2>2, <3>8
  <2> QED  BY <2>1, <2>2
<1>13. Follows'  BY <1>12 DEF Follows
<1> QED  BY <1>1, <1>7, <1>8, <1>10, <1>13

\* A slot the start has taken back leaves the reader's copy: nothing else
\* changes.
LEMMA PopFrontIs ==
    ASSUME ReadersOK, NEW r \in Readers, pop_block_front(r)
    PROVE  /\ ReadersOK' /\ UNCHANGED <<writer, inbox, stored, req>>
           /\ DOMAIN reader[r].extra # {}
           /\ \A q \in Readers : \A f \in ReaderFields \ {"extra"} : reader'[q][f] = reader[q][f]
           /\ \A q \in Readers \ {r} : reader'[q] = reader[q]
<1>1. PICK x : reader' = [reader EXCEPT ![r].extra = x]  BY Zenon DEF pop_block_front
<1>2. UNCHANGED <<writer, inbox, stored, req>> /\ DOMAIN reader[r].extra # {}
  BY DEF pop_block_front
<1>3. ReadersOK'  BY <1>1, <1>2 DEF ReadersOK, ReaderFields
<1>4. ASSUME NEW q \in Readers, NEW f \in ReaderFields \ {"extra"} PROVE reader'[q][f] = reader[q][f]
  BY <1>1 DEF ReadersOK, ReaderFields
<1>5. \A q \in Readers \ {r} : reader'[q] = reader[q]  BY <1>1 DEF ReadersOK
<1> QED  BY <1>2, <1>3, <1>4, <1>5

LEMMA HandleFollows ==
    ASSUME IndexInv, NEW r \in Readers, handle(r)
    PROVE  /\ ReadersOK' /\ Follows' /\ FirstFollows' /\ UNCHANGED <<writer, req>>
           /\ Behind = {} => Behind' = {} /\ receive(r)
<1>1. CASE receive(r)
  <2>1. /\ ReadersOK' /\ Follows' /\ FirstFollows' /\ UNCHANGED <<writer, req>>
        /\ \A q \in Readers : reader'[q].extra = reader[q].extra
    BY <1>1, ReceiveFollows
  <2> QED  BY <1>1, <2>1 DEF Behind
<1>2. CASE pop_block_front(r)
  <2>0. StoreInv /\ Progress /\ FirstFollows /\ ReadersOK /\ Follows  BY DEF IndexInv
  <2>1. /\ ReadersOK' /\ UNCHANGED <<writer, inbox, stored, req>> /\ DOMAIN reader[r].extra # {}
        /\ \A q \in Readers : reader'[q].ring = reader[q].ring
    BY <1>2, <2>0, PopFrontIs DEF ReaderFields
  <2>2. ring' = ring /\ next' = next /\ next_back_slot' = next_back_slot /\ op' = op
    BY <2>1 DEF writer
  <2>3. FirstFollows'  BY <2>0, <2>1, <2>2 DEF FirstFollows
  <2>4. \A rows : Past(rows) => Past(rows)'  BY <2>2 DEF Past, Agrees, Known, Reached
  <2>5. ASSUME NEW q \in Readers PROVE (\E g : FollowsBy(g, q))'
    <3>1. PICK g : FollowsBy(g, q)  BY <2>0 DEF Follows
    <3>2. FollowsBy(g, q)'  BY <2>1, <2>2, <2>4, <3>1 DEF FollowsBy
    <3> QED  BY <3>2
  <2>6. Behind # {}  BY <2>1 DEF Behind
  <2> QED  BY <2>1, <2>3, <2>5, <2>6 DEF Follows
<1> QED  BY <1>1, <1>2 DEF handle

\* A reader that has handled the start's messages has no other rows.
LEMMA CopyIs ==
    ASSUME IndexInv, NEW r \in Readers \ Behind
    PROVE  Copy(reader[r]) = reader[r]
<1>1. DOMAIN reader[r].extra = {}  BY DEF Behind
<1>2. IsRows(reader[r].ring)
  <2>1. PICK h : FollowsBy(h, r)  BY DEF IndexInv, Follows
  <2>2. Len(inbox[r]) \in Nat  BY DEF IndexInv, ReadersOK
  <2>3. 1 \in 1 .. Len(inbox[r]) + 1  BY <2>2
  <2> QED  BY <2>1, <2>3 DEF FollowsBy, Past
<1>3. PICK x : x = [s \in DOMAIN reader[r].ring \union DOMAIN reader[r].extra |->
                      IF s \in DOMAIN reader[r].ring THEN reader[r].ring[s] ELSE reader[r].extra[s]]
  OBVIOUS
<1>4. x = reader[r].ring  BY <1>1, <1>2, <1>3 DEF IsRows
<1>5. Copy(reader[r]) = [reader[r] EXCEPT !.ring = x]  BY <1>3 DEF Copy
<1>6. reader[r] = [f \in ReaderFields |-> reader[r][f]]  BY DEF IndexInv, ReadersOK
<1> QED  BY <1>4, <1>5, <1>6 DEF ReaderFields

-----------------------------------------------------------------------------
(***************************************************************************)
(* The request.                                                            *)
(***************************************************************************)

\* What was looked up or read for a request stays good or gets lost while the
\* others move.
LEMMA ServedKept ==
    ASSUME StoreInv, Progress, Moves, NEW q, Served(q)
    PROVE  Served(q)'
<1>1. Types /\ Types' /\ Placed  BY DEF StoreInv, Moves, Progress
<1>2. ASSUME Agrees(q.slot, q.cell) PROVE Agrees(q.slot, q.cell)'
  <2>1. Known(q.slot)'  BY <1>2 DEF Agrees, Moves
  <2> QED  BY <1>1, <1>2, <2>1, AgreesKept DEF Moves
<1>3. ASSUME Lost(q.slot) PROVE Lost(q.slot)'
  <2>1. Known(q.slot)'  BY <1>3 DEF Lost, Moves
  <2> QED  BY <1>1, <1>3, <2>1, LostKept DEF Moves
<1> QED  BY <1>2, <1>3 DEF Served

\* It does not depend on anything but the writer.
LEMMA ServedSame ==
    ASSUME UNCHANGED writer, NEW q, Served(q)
    PROVE  Served(q)'
<1>1. ring' = ring /\ next' = next /\ next_back_slot' = next_back_slot /\ op' = op  BY DEF writer
<1> QED  BY <1>1 DEF Served, Agrees, Lost, Known, Reached

\* A step of the request alone.
LEMMA IndexSame ==
    ASSUME IndexInv, UNCHANGED <<writer, inbox, reader, stored>>
    PROVE  IndexInv'
<1>0. StoreInv /\ Progress /\ FirstFollows /\ ReadersOK /\ Follows  BY DEF IndexInv
<1>1. /\ ring' = ring /\ next' = next /\ next_back_slot' = next_back_slot /\ op' = op
      /\ status' = status /\ announced' = announced /\ UNCHANGED vars
  BY DEF writer, vars
<1>2. StoreInv'  BY <1>0, <1>1, StutterStore
<1>3. Progress'  BY <1>0, <1>1, Zenon DEF Progress
<1>4. FirstFollows' /\ ReadersOK'  BY <1>0, <1>1 DEF FirstFollows, ReadersOK
<1>5. \A rows : Past(rows) => Past(rows)'  BY <1>1 DEF Past, Agrees, Known, Reached
<1>6. ASSUME NEW r \in Readers PROVE (\E g : FollowsBy(g, r))'
  <2>1. PICK g : FollowsBy(g, r)  BY <1>0 DEF Follows
  <2>2. FollowsBy(g, r)'  BY <1>1, <1>5, <2>1 DEF FollowsBy
  <2> QED  BY <2>2
<1>7. Follows'  BY <1>6 DEF Follows
<1> QED  BY <1>2, <1>3, <1>4, <1>7 DEF IndexInv

\* A step of the writer or of a reader.
LEMMA IndexMoves ==
    ASSUME IndexInv, Storage \/ \E r \in Readers : handle(r)
    PROVE  IndexInv'
<1>0. StoreInv /\ Progress  BY DEF IndexInv
<1>1. CASE Storage
  <2>1. Moves  BY <1>0, <1>1, StorageMoves
  <2>2. ReadersOK' /\ Follows' /\ FirstFollows'  BY <1>1, <2>1, StorageFollows
  <2> QED  BY <2>1, <2>2 DEF IndexInv, Moves
<1>2. ASSUME NEW r \in Readers, handle(r) PROVE IndexInv'
  <2>1. ReadersOK' /\ Follows' /\ FirstFollows' /\ UNCHANGED writer  BY <1>2, HandleFollows
  <2>3. UNCHANGED vars /\ UNCHANGED <<next, announced, next_back_slot>>  BY <2>1 DEF writer, vars
  <2>4. StoreInv'  BY <1>0, <2>3, StutterStore
  <2>5. Progress'  BY <1>0, <2>3, Zenon DEF Progress, vars
  <2> QED  BY <2>1, <2>4, <2>5 DEF IndexInv
<1> QED  BY <1>1, <1>2

\* The client or a reader goes on with the request: nothing else moves.
LEMMA RequestStep ==
    ASSUME ReadInv, UNCHANGED <<writer, inbox, reader, stored>>, NEW q, req' = q,
           q = NoRequest \/ IsRequest(q),
           IsRequest(q) /\ q.behind = {} => Behind = {} /\ (q.kind \in ReadKinds => Served(q))
    PROVE  ReadInv'
<1>1. IndexInv'  BY IndexSame DEF ReadInv
<1>8. /\ IsRequest(q) /\ q.behind = {} /\ q.kind \in ReadKinds => Served(q)'
      /\ IsRequest(q) /\ q.behind = {} => Behind' = {}
  BY ServedSame DEF Behind
<1>9. RequestOK'
  <2>1. CASE q = NoRequest  BY <2>1 DEF RequestOK
  <2>2. CASE IsRequest(q)
    <3>1. /\ IsRequest(req')
          /\ req'.behind = {} => Behind' = {} /\ (req'.kind \in ReadKinds => Served(req)')
      BY <1>8, <2>2 DEF Served
    <3> QED  BY <3>1 DEF RequestOK
  <2> QED  BY <2>1, <2>2
<1> QED  BY <1>1, <1>9 DEF ReadInv

\* The writer or a reader moves, the request waits.
LEMMA RequestWaits ==
    ASSUME StoreInv, Progress, RequestOK, Moves \/ UNCHANGED writer, req' = req,
           Behind = {} => Behind' = {}
    PROVE  RequestOK'
<1>1. CASE req = NoRequest  BY <1>1 DEF RequestOK
<1>2. CASE /\ IsRequest(req)
           /\ req.behind = {} => Behind = {} /\ (req.kind \in ReadKinds => Served(req))
  <2>1. PICK q : q = req  OBVIOUS
  <2>2. q.behind = {} => Behind' = {} /\ (q.kind \in ReadKinds => Served(q)')
    BY <1>2, <2>1, ServedKept, ServedSame
  <2>3. /\ IsRequest(req')
        /\ req'.behind = {} => Behind' = {} /\ (req'.kind \in ReadKinds => Served(req)')
    BY <1>2, <2>1, <2>2 DEF Served
  <2> QED  BY <2>3 DEF RequestOK
<1> QED  BY <1>1, <1>2 DEF RequestOK

\* A location that a reader finds is one its slot had.
LEMMA FoundAgrees ==
    ASSUME IndexInv, NEW r \in Readers, NEW s \in Slots,
           get_block_location(reader[r].ring, s) = "found"
    PROVE  reader[r].ring[s] \in Cells /\ Agrees(s, reader[r].ring[s])
<1> DEFINE R == reader[r].ring
<1>1. PICK h : FollowsBy(h, r)  BY DEF IndexInv, Follows
<1>2. Past(R)
  <2>1. Len(inbox[r]) \in Nat  BY DEF IndexInv, ReadersOK
  <2>2. 1 \in 1 .. Len(inbox[r]) + 1  BY <2>1
  <2> QED  BY <1>1, <2>2 DEF FollowsBy
<1> HIDE DEF R
<1>3. /\ DOMAIN R # {} /\ ~ (s < Lowest(DOMAIN R)) /\ ~ (s > Highest(DOMAIN R)) /\ R[s] # None
  BY DEF get_block_location, R
<1>4. DOMAIN R \subseteq Slots  BY <1>2 DEF Past, IsRows
<1>5. Lowest(DOMAIN R) \in DOMAIN R /\ Highest(DOMAIN R) \in DOMAIN R
  BY <1>3, <1>4, LowestIn, HighestIn
<1>6. s \in Lowest(DOMAIN R) .. Highest(DOMAIN R)
  <2>1. s \in Int /\ Lowest(DOMAIN R) \in Int /\ Highest(DOMAIN R) \in Int
    BY <1>4, <1>5 DEF Slots
  <2> QED  BY <1>3, <2>1
<1>7. s \in DOMAIN R  BY <1>2, <1>5, <1>6 DEF Past, Consecutive
<1> QED  BY <1>2, <1>3, <1>7 DEF Past, IsRows, R

\* A request that is asked: it waits for a reader, or is done without a block.
Fresh(q) ==
    /\ IsRequest(q) /\ q.slot \in Slots /\ q.behind = Behind
    /\ q.stage \in {"queued", "done"}
    /\ q.stage = "done" => q.result.type # "block"

LEMMA AskedFresh ==
    ASSUME NEW kind, NEW slot \in Slots, NEW c
    PROVE  /\ Fresh(Asked(kind, slot, c)) /\ Asked(kind, slot, c).stage = "queued"
<1>1. PICK q : q = Asked(kind, slot, c)  OBVIOUS
<1>2. PICK held : q = [kind |-> kind, slot |-> slot, commit |-> c, stage |-> "queued", reader |-> None,
     cell |-> None, result |-> Result("none", None),
     held |-> held, seen |-> None, behind |-> Behind,
     until |-> <<>>, inside |-> FALSE, recent |-> {},
     other |-> None, history |-> FALSE, local |-> <<>>, finalized |-> None]
  BY <1>1 DEF Asked
<1>3. PICK result, f, u, b : b = Behind /\ q = [kind |-> kind, slot |-> slot, commit |-> c, stage |-> "queued", reader |-> None,
     cell |-> None, result |-> result,
     held |-> held, seen |-> None, behind |-> b,
     until |-> u, inside |-> f, recent |-> {},
     other |-> None, history |-> f, local |-> u, finalized |-> None]
  BY <1>2, Zenon
<1>4. IsRequest(q) /\ q.slot = slot /\ q.stage = "queued" /\ q.behind = Behind
  BY <1>3 DEF IsRequest, RequestFields
<1> QED  BY <1>1, <1>4 DEF Fresh

\* A field that the answer does not depend on is set.
LEMMA FreshWith ==
    ASSUME NEW q, Fresh(q), NEW f \in RequestFields \ {"slot", "stage", "result", "kind", "behind"}, NEW v
    PROVE  Fresh([q EXCEPT ![f] = v]) /\ [q EXCEPT ![f] = v].stage = q.stage
<1>1. PICK p : p = [q EXCEPT ![f] = v]  OBVIOUS
<1>2. /\ DOMAIN p = RequestFields /\ p = [g \in RequestFields |-> p[g]]
      /\ p.slot = q.slot /\ p.stage = q.stage /\ p.result = q.result /\ p.behind = q.behind
  BY <1>1 DEF Fresh, IsRequest, RequestFields
<1> QED  BY <1>1, <1>2 DEF Fresh, IsRequest

\* A request is done without a block.
LEMMA DoneFresh ==
    ASSUME NEW q, Fresh(q), NEW type, NEW value, type # "block"
    PROVE  Fresh([q EXCEPT !.stage = "done", !.result = Result(type, value)])
<1>1. PICK result : result = Result(type, value)  OBVIOUS
<1>2. result.type = type  BY <1>1 DEF Result
<1>3. PICK p : p = [q EXCEPT !.stage = "done", !.result = result]  OBVIOUS
<1>4. /\ DOMAIN p = RequestFields /\ p = [g \in RequestFields |-> p[g]]
      /\ p.slot = q.slot /\ p.stage = "done" /\ p.result = result /\ p.behind = q.behind
  BY <1>3 DEF Fresh, IsRequest, RequestFields
<1>5. Fresh(p)  BY <1>2, <1>4 DEF Fresh, IsRequest
<1> QED  BY <1>1, <1>3, <1>5

LEMMA UpstreamFresh ==
    ASSUME NEW q, Fresh(q), NEW type, type # "block"
    PROVE  Fresh(Done(q, type))
BY DoneFresh DEF Done

\* The requests of one call.
OneOf(Q) ==
    \/ \E s \in Slots, c \in Commitments : Q = RpcRequestBlock(s, c)
    \/ \E s \in Slots : Q = process_block(s)
    \/ \E s \in Slots, e \in Slots, c \in Commitments : Q = RpcRequestBlocks(s, e, c)
    \/ \E s \in Slots, n \in 1 .. 2, c \in Commitments : Q = RpcRequestBlocksWithLimit(s, n, c)
    \/ \E c \in Commitments : Q = RpcRequestBlockHeight(c)
    \/ \E s \in Slots : Q = RpcRequestBlockTime(s)
    \/ \E c \in Commitments : Q = RpcRequestLatestBlockhash(c)
    \/ \E s \in LiveSlots, c \in Commitments : Q = RpcRequestIsBlockhashValid(s, c)
    \/ \E s \in LiveSlots, c \in Commitments : Q = RpcRequestTransaction(s, c)
    \/ \E s \in LiveSlots : Q = process_transaction(s)
    \/ \E c \in Commitments, h \in BOOLEAN, p \in {x \in LiveSlots \X LiveSlots : x[1] # x[2]} :
          Q = RpcRequestSignatureStatuses(p[1], p[2], c, h)

LEMMA RequestsAre == \A q \in Requests : \E Q : q \in Q /\ OneOf(Q)
<1> SUFFICES ASSUME NEW q \in Requests PROVE \E Q : q \in Q /\ OneOf(Q)  OBVIOUS
<1>1. PICK Q : q \in Q /\
         \/ Q \in {RpcRequestBlock(s, c) : s \in Slots, c \in Commitments}
         \/ Q \in {process_block(s) : s \in Slots}
         \/ Q \in {RpcRequestBlocks(s, e, c) : s \in Slots, e \in Slots, c \in Commitments}
         \/ Q \in {RpcRequestBlocksWithLimit(s, n, c) : s \in Slots, n \in 1 .. 2, c \in Commitments}
         \/ Q \in {RpcRequestBlockHeight(c) : c \in Commitments}
         \/ Q \in {RpcRequestBlockTime(s) : s \in Slots}
         \/ Q \in {RpcRequestLatestBlockhash(c) : c \in Commitments}
         \/ Q \in {RpcRequestIsBlockhashValid(s, c) : s \in LiveSlots, c \in Commitments}
         \/ Q \in {RpcRequestTransaction(s, c) : s \in LiveSlots, c \in Commitments}
         \/ Q \in {process_transaction(s) : s \in LiveSlots}
         \/ Q \in {RpcRequestSignatureStatuses(p[1], p[2], c, h) : c \in Commitments, h \in BOOLEAN,
                     p \in {x \in LiveSlots \X LiveSlots : x[1] # x[2]}}
  BY DEF Requests
<1>2. OneOf(Q)  BY <1>1 DEF OneOf
<1> QED  BY <1>1, <1>2

\* Whatever a client may ask.
LEMMA RequestsFresh == \A q \in Requests : Fresh(q)
<1>0. LiveSlots \subseteq Slots  BY DEF LiveSlots
<1>1. ASSUME NEW kind, NEW s \in Slots, NEW c PROVE Fresh(AskedFromMemory(kind, s, c))
  <2>1. Fresh(Asked(kind, s, c))  BY AskedFresh
  <2>2. "seen" \in RequestFields \ {"slot", "stage", "result", "kind", "behind"}  BY DEF RequestFields
  <2> HIDE DEF Asked
  <2> QED  BY <2>1, <2>2, FreshWith DEF AskedFromMemory
<1>2. ASSUME NEW kind, NEW s \in Slots, NEW c, NEW tip PROVE Fresh(CheckSlot(Asked(kind, s, c), tip))
  <2>1. PICK q : q = Asked(kind, s, c)  OBVIOUS
  <2>2. Fresh(q)  BY <2>1, AskedFresh
  <2>3. Fresh(Done(q, "not_available")) /\ Fresh(Done(q, "elsewhere"))  BY <2>2, UpstreamFresh
  <2>4. Fresh(CheckSlot(q, tip))  BY <2>2, <2>3 DEF CheckSlot, fetch_upstream
  <2> QED  BY <2>1, <2>4
<1>3. ASSUME NEW q, Fresh(q), NEW p \in process_blocks(q) PROVE Fresh(p)
  <2>1. Fresh(Done(q, "elsewhere"))  BY <1>3, UpstreamFresh
  <2> QED  BY <1>3, <2>1 DEF process_blocks, fetch_upstream
<1>4. ASSUME NEW s \in Slots, NEW until, NEW c PROVE Fresh(AskedBlocks(s, until, c))
  <2>1. PICK q : q = AskedFromMemory("getBlocks", s, c)  OBVIOUS
  <2>2. Fresh(q)  BY <1>1, <2>1
  <2>3. "until" \in RequestFields \ {"slot", "stage", "result", "kind", "behind"}  BY DEF RequestFields
  <2>4. Fresh([q EXCEPT !.until = until])  BY <2>2, <2>3, FreshWith
  <2> QED  BY <2>1, <2>4 DEF AskedBlocks
<1>5. ASSUME NEW s \in Slots, NEW e, NEW c, NEW p \in RpcRequestBlocks(s, e, c) PROVE Fresh(p)
  <2>1. PICK end : end = IF e < stored[c] THEN e ELSE stored[c]  OBVIOUS
  <2>2. PICK q : q = AskedBlocks(s, [end |-> end], c)  OBVIOUS
  <2>3. Fresh(q)  BY <1>4, <2>2
  <2>4. Fresh([q EXCEPT !.stage = "done", !.result = Result("blocks", {})])  BY <2>3, DoneFresh
  <2>5. \/ p = [q EXCEPT !.stage = "done", !.result = Result("blocks", {})]
        \/ p \in process_blocks(q)
    BY <1>5, <2>1, <2>2 DEF RpcRequestBlocks
  <2> QED  BY <1>3, <2>3, <2>4, <2>5
<1>6. ASSUME NEW s \in Slots, NEW n, NEW c, NEW p \in RpcRequestBlocksWithLimit(s, n, c) PROVE Fresh(p)
  BY <1>3, <1>4, <1>6 DEF RpcRequestBlocksWithLimit
<1>7. 1 \in Slots  BY BlockStoreAssumption DEF Slots
<1>8. ASSUME NEW s \in Slots, NEW c, NEW p \in RpcRequestIsBlockhashValid(s, c) PROVE Fresh(p)
  <2>1. PICK q : q = AskedFromMemory("isBlockhashValid", s, c)  OBVIOUS
  <2>2. Fresh(q)  BY <1>1, <2>1
  <2>3. PICK x : x = {t \in Slots : \A r \in Readers : t \in reader[r].recent}  OBVIOUS
  <2>4. "recent" \in RequestFields \ {"slot", "stage", "result", "kind", "behind"}  BY DEF RequestFields
  <2>5. Fresh([q EXCEPT !.recent = x])  BY <2>2, <2>4, FreshWith
  <2>6. p = [q EXCEPT !.recent = x]  BY <1>8, <2>1, <2>3 DEF RpcRequestIsBlockhashValid
  <2> QED  BY <2>5, <2>6
<1>9. ASSUME NEW a \in Slots, NEW b, NEW c, NEW history,
             NEW p \in RpcRequestSignatureStatuses(a, b, c, history) PROVE Fresh(p)
  <2>1. PICK q : q = Asked("getSignatureStatuses", a, c)  OBVIOUS
  <2>2. Fresh(q)  BY <2>1, AskedFresh
  <2>3. PICK x, y : p = [q EXCEPT !.other = b, !.history = history, !.local = y, !.held = x]
    BY <1>9, <2>1 DEF RpcRequestSignatureStatuses
  <2>4. {"other", "history", "local", "held"} \subseteq RequestFields \ {"slot", "stage", "result", "kind", "behind"}
    BY DEF RequestFields
  <2>5. PICK q1 : q1 = [q EXCEPT !.other = b]  OBVIOUS
  <2>6. PICK q2 : q2 = [q1 EXCEPT !.history = history]  OBVIOUS
  <2>7. PICK q3 : q3 = [q2 EXCEPT !.local = y]  OBVIOUS
  <2>8. Fresh(q1)  BY <2>2, <2>4, <2>5, FreshWith
  <2>9. Fresh(q2)  BY <2>4, <2>6, <2>8, FreshWith
  <2>10. Fresh(q3)  BY <2>4, <2>7, <2>9, FreshWith
  <2>11. Fresh([q3 EXCEPT !.held = x])  BY <2>4, <2>10, FreshWith
  <2>12. p = [q3 EXCEPT !.held = x]  BY <2>3, <2>5, <2>6, <2>7
  <2> QED  BY <2>11, <2>12
<1> SUFFICES ASSUME NEW q \in Requests PROVE Fresh(q)  OBVIOUS
<1>10. CASE \E s \in Slots, c \in Commitments : q \in RpcRequestBlock(s, c)
  BY <1>2, <1>10 DEF RpcRequestBlock
<1>11. CASE \E s \in Slots : q \in process_block(s)
  BY <1>2, <1>11 DEF process_block
<1>12. CASE \E s \in Slots, e \in Slots, c \in Commitments : q \in RpcRequestBlocks(s, e, c)
  BY <1>5, <1>12
<1>13. CASE \E s \in Slots, n \in 1 .. 2, c \in Commitments : q \in RpcRequestBlocksWithLimit(s, n, c)
  BY <1>6, <1>13
<1>14. CASE \E c \in Commitments : q \in RpcRequestBlockHeight(c) \/ q \in RpcRequestLatestBlockhash(c)
  BY <1>1, <1>7, <1>14 DEF RpcRequestBlockHeight, RpcRequestLatestBlockhash
<1>15. CASE \E s \in Slots : q \in RpcRequestBlockTime(s)
  <2>1. PICK s \in Slots : q \in RpcRequestBlockTime(s)  BY <1>15
  <2>2. PICK p : p = AskedFromMemory("getBlockTime", s, "confirmed")  OBVIOUS
  <2>3. PICK x : q = [p EXCEPT !.held = x]  BY <2>1, <2>2, Zenon DEF RpcRequestBlockTime
  <2>4. "held" \in RequestFields \ {"slot", "stage", "result", "kind", "behind"}  BY DEF RequestFields
  <2> QED  BY <1>1, <2>2, <2>3, <2>4, FreshWith
<1>16. CASE \E s \in LiveSlots, c \in Commitments : q \in RpcRequestIsBlockhashValid(s, c)
  BY <1>0, <1>8, <1>16
<1>17. CASE \E s \in LiveSlots, c \in Commitments :
              q \in RpcRequestTransaction(s, c) \/ q \in process_transaction(s)
  BY <1>0, <1>17, AskedFresh DEF RpcRequestTransaction, process_transaction
<1>18. CASE \E c \in Commitments, h \in BOOLEAN, p \in {x \in LiveSlots \X LiveSlots : x[1] # x[2]} :
              q \in RpcRequestSignatureStatuses(p[1], p[2], c, h)
  <2>1. PICK c \in Commitments, h \in BOOLEAN, p \in {x \in LiveSlots \X LiveSlots : x[1] # x[2]} :
              q \in RpcRequestSignatureStatuses(p[1], p[2], c, h)
    BY <1>18
  <2>2. p[1] \in Slots  BY <1>0
  <2> QED  BY <1>9, <2>1, <2>2
<1>19. CASE \E s \in LiveSlots : q \in process_transaction(s)
  BY <1>0, <1>19, AskedFresh DEF process_transaction
<1>20. PICK Q : q \in Q /\ OneOf(Q)  BY RequestsAre
<1> QED
  BY <1>10, <1>11, <1>12, <1>13, <1>14, <1>15, <1>16, <1>17, <1>18, <1>19, <1>20 DEF OneOf

\* A request that is under way.
LEMMA UnderWay ==
    ASSUME ReadInv, req.stage # "none"
    PROVE  /\ IsRequest(req)
           /\ req.behind = {} => Behind = {} /\ (req.kind \in ReadKinds => Served(req))
BY DEF ReadInv, RequestOK, NoRequest

\* The client asks.
LEMMA AskStep == ReadInv /\ ask => ReadInv'
<1> SUFFICES ASSUME ReadInv, ask PROVE ReadInv'  OBVIOUS
<1>1. PICK q : q = req'  OBVIOUS
<1>2. q \in Requests /\ UNCHANGED <<writer, inbox, reader, stored>>  BY <1>1 DEF ask
<1>3. Fresh(q)  BY <1>2, RequestsFresh
<1>4. Served(q)  BY <1>3 DEF Fresh, Served
<1>5. q.behind = {} => Behind = {}  BY <1>3 DEF Fresh
<1> QED  BY <1>1, <1>2, <1>3, <1>4, <1>5, RequestStep DEF Fresh

\* A request with a new stage and result.
LEMMA Updated ==
    ASSUME NEW q, IsRequest(q), NEW stage, NEW result, NEW f \in RequestFields, NEW v
    PROVE  LET p == [q EXCEPT !.stage = stage, !.result = result]
               r == [q EXCEPT ![f] = v]
           IN  /\ IsRequest(p) /\ p.stage = stage /\ p.result = result
               /\ p.kind = q.kind /\ p.slot = q.slot
               /\ IsRequest(r) /\ r[f] = v /\ \A g \in RequestFields \ {f} : r[g] = q[g]
<1> DEFINE p == [q EXCEPT !.stage = stage, !.result = result]
           r == [q EXCEPT ![f] = v]
<1>1. /\ IsRequest(p) /\ p.stage = stage /\ p.result = result /\ p.kind = q.kind /\ p.slot = q.slot
  BY DEF IsRequest, RequestFields
<1>2. /\ IsRequest(r) /\ r[f] = v /\ \A g \in RequestFields \ {f} : r[g] = q[g]
  BY DEF IsRequest
<1> QED  BY <1>1, <1>2

\* The request is done without a block.
LEMMA DoneStep ==
    ASSUME ReadInv, req.behind = {}, req.stage # "none", NEW type, NEW value, type # "block",
           req' = [req EXCEPT !.stage = "done", !.result = Result(type, value)],
           UNCHANGED <<writer, inbox, reader, stored>>
    PROVE  ReadInv'
<1>1. IsRequest(req) /\ Behind = {} /\ (req.kind \in ReadKinds => Served(req))  BY UnderWay
<1>2. PICK q : q = req'  OBVIOUS
<1>3. PICK result : result = Result(type, value)  OBVIOUS
<1>4. result.type # "block"  BY <1>3 DEF Result
<1>5. IsRequest(q) /\ q.stage = "done" /\ q.result = result /\ q.kind = req.kind /\ q.slot = req.slot
  BY <1>1, <1>2, <1>3 DEF IsRequest, RequestFields
<1>6. q.kind \in ReadKinds => Served(q)  BY <1>1, <1>4, <1>5 DEF Served
<1> QED  BY <1>1, <1>2, <1>5, <1>6, RequestStep

\* A result with the block asked for, or without a block, in memory.
LEMMA ResultStep ==
    ASSUME ReadInv, req.behind = {}, req.stage # "none", NEW result, NEW q,
           IsRequest(q), q.kind = req.kind, q.slot = req.slot, q.stage = "result", q.result = result,
           req.kind \in ReadKinds /\ result.type = "block" =>
              result.value = req.slot \/ Lost(req.slot),
           req' = q, UNCHANGED <<writer, inbox, reader, stored>>
    PROVE  ReadInv'
<1>1. IsRequest(req) /\ Behind = {} /\ (req.kind \in ReadKinds => Served(req))  BY UnderWay
<1>2. q.kind \in ReadKinds => Served(q)  BY <1>1 DEF Served
<1> QED  BY <1>1, <1>2, RequestStep

\* The deadline passes.
LEMMA GiveUpStep == ReadInv /\ req.behind = {} /\ give_up => ReadInv'
<1> SUFFICES ASSUME ReadInv, req.behind = {}, give_up PROVE ReadInv'  OBVIOUS
<1>1. /\ req.stage # "none" /\ UNCHANGED <<writer, inbox, reader, stored>>
      /\ req' = [req EXCEPT !.stage = "done", !.result = Result("timeout", None)]
  BY DEF give_up, Done
<1> QED  BY <1>1, DoneStep

\* The client has its answer.
LEMMA FinishStep == ReadInv /\ finish => ReadInv'
<1> SUFFICES ASSUME ReadInv, finish PROVE ReadInv'  OBVIOUS
<1>1. req' = NoRequest /\ UNCHANGED <<writer, inbox, reader, stored>>  BY DEF finish
<1>2. ~ IsRequest(NoRequest)  BY DEF IsRequest, NoRequest, RequestFields
<1> QED  BY <1>1, <1>2, RequestStep

\* The bytes at the location looked up before: the block asked for, or the
\* slot has been pruned in the meantime.
LEMMA ReadFileStep == ReadInv /\ req.behind = {} /\ read_file => ReadInv'
<1> SUFFICES ASSUME ReadInv, req.behind = {}, read_file PROVE ReadInv'  OBVIOUS
<1>1. req.stage = "file" /\ UNCHANGED <<writer, inbox, reader, stored>>
      /\ req' = [req EXCEPT !.stage = "result", !.result = Result("block", bytes[req.cell])]
  BY DEF read_file, Answer
<1>2. IsRequest(req) /\ Behind = {} /\ (req.kind \in ReadKinds => Served(req))  BY <1>1, UnderWay
<1>3. PICK result : result = Result("block", bytes[req.cell])  OBVIOUS
<1>4. result.type = "block" /\ result.value = bytes[req.cell]  BY <1>3 DEF Result
<1>5. PICK q : q = req'  OBVIOUS
<1>6. IsRequest(q) /\ q.kind = req.kind /\ q.slot = req.slot /\ q.stage = "result" /\ q.result = result
  BY <1>1, <1>2, <1>3, <1>5 DEF IsRequest, RequestFields
<1>7. ASSUME req.kind \in ReadKinds PROVE result.value = req.slot \/ Lost(req.slot)
  <2>1. req.cell \in Cells /\ Agrees(req.slot, req.cell)  BY <1>1, <1>2, <1>7 DEF Served
  <2>2. CASE Reached(req.slot)
    <3>1. req.slot \in DOMAIN ring /\ ring[req.slot] = req.cell  BY <2>1, <2>2 DEF Agrees
    <3>2. RowsFollow /\ ListedIntact  BY DEF ReadInv, IndexInv, StoreInv, Progress
    <3>3. req.slot \in DOMAIN basic /\ basic[req.slot] = req.cell  BY <3>1, <3>2 DEF RowsFollow
    <3>4. req.slot \in Live(basic)  BY <2>1, <3>3, CellNotNone DEF Live
    <3> QED  BY <1>4, <3>2, <3>3, <3>4 DEF ListedIntact
  <2>3. CASE ~ Reached(req.slot)  BY <2>1, <2>3 DEF Agrees, Lost
  <2> QED  BY <2>2, <2>3
<1> QED  BY <1>1, <1>5, <1>6, <1>7, ResultStep

\* The index rows are read: no block is read here.
LEMMA ReadIndexStep == ReadInv /\ req.behind = {} /\ read_index => ReadInv'
<1> SUFFICES ASSUME ReadInv, req.behind = {}, read_index PROVE ReadInv'  OBVIOUS
<1>1. req.stage = "index" /\ UNCHANGED <<writer, inbox, reader, stored>>  BY DEF read_index
<1>2. IsRequest(req) /\ Behind = {} /\ (req.kind \in ReadKinds => Served(req))  BY <1>1, UnderWay
<1>3. PICK q : q = req'  OBVIOUS
<1>4. CASE q = [req EXCEPT !.stage = "found"]
  <2>1. IsRequest(q) /\ q.kind = req.kind /\ q.slot = req.slot /\ q.stage = "found"
    BY <1>2, <1>4 DEF IsRequest, RequestFields
  <2>2. q.kind \in ReadKinds => Served(q)  BY <1>2, <2>1 DEF Served
  <2> QED  BY <1>1, <1>2, <1>3, <2>1, <2>2, RequestStep
<1>5. ASSUME NEW type, NEW value, type # "block",
             q = [req EXCEPT !.stage = "result", !.result = Result(type, value)]
      PROVE  ReadInv'
  <2>1. PICK result : result = Result(type, value)  OBVIOUS
  <2>2. result.type # "block"  BY <1>5, <2>1 DEF Result
  <2>3. IsRequest(q) /\ q.kind = req.kind /\ q.slot = req.slot /\ q.stage = "result" /\ q.result = result
    BY <1>2, <1>5, <2>1 DEF IsRequest, RequestFields
  <2> QED  BY <1>1, <1>3, <2>2, <2>3, ResultStep
<1>6. \/ q = [req EXCEPT !.stage = "found"]
      \/ \E value : q = [req EXCEPT !.stage = "result", !.result = Result("statuses", value)]
      \/ q = [req EXCEPT !.stage = "result", !.result = Result("not_found", None)]
  BY <1>3 DEF read_index, Answer
<1> QED  BY <1>4, <1>5, <1>6

\* A reader goes on with a location it finds.
LEMMA ReadAtStep ==
    ASSUME ReadInv, req.behind = {}, NEW r \in Readers, req.stage # "none", req.kind \in ReadKinds,
           get_block_location(reader[r].ring, req.slot) = "found",
           NEW q, q = ReadAt(reader[r], req.slot), NEW x, x \in {req.reader, r},
           req' = [q EXCEPT !.reader = x], UNCHANGED <<writer, inbox, reader, stored>>
    PROVE  ReadInv'
<1>1. IsRequest(req) /\ Behind = {} /\ Served(req)  BY UnderWay
<1>2. req.slot \in Slots  BY <1>1 DEF Served
<1>3. reader[r].ring[req.slot] \in Cells /\ Agrees(req.slot, reader[r].ring[req.slot])
  BY <1>2, FoundAgrees DEF ReadInv
<1>4. PICK p : p = req'  OBVIOUS
<1>5. PICK c : c = reader[r].ring[req.slot]  OBVIOUS
<1>6. q = [req EXCEPT !.stage = "file", !.cell = c]  BY <1>5 DEF ReadAt
<1>7. /\ IsRequest(p) /\ p.kind = req.kind /\ p.slot = req.slot /\ p.stage = "file" /\ p.cell = c
  BY <1>1, <1>4, <1>6 DEF IsRequest, RequestFields
<1>8. Served(p)  BY <1>2, <1>3, <1>5, <1>7 DEF Served
<1> QED  BY <1>1, <1>4, <1>7, <1>8, RequestStep

\* A reader has a result without looking at a file: without a block, or from
\* the block in process.
LEMMA AnswerStep ==
    ASSUME ReadInv, req.behind = {}, req.stage # "none", NEW type, NEW value,
           type # "block" \/ value = req.slot \/ req.kind \notin ReadKinds,
           NEW r, NEW inside,
           NEW q, q \in {Answer(Result(type, value)),
                         [Answer(Result(type, value)) EXCEPT !.inside = inside]},
           NEW x, x \in {req.reader, r},
           req' = [q EXCEPT !.reader = x], UNCHANGED <<writer, inbox, reader, stored>>
    PROVE  ReadInv'
<1>1. IsRequest(req) /\ Behind = {} /\ (req.kind \in ReadKinds => Served(req))  BY UnderWay
<1>2. PICK p : p = req'  OBVIOUS
<1>3. PICK result : result = Result(type, value)  OBVIOUS
<1>4. result.type = type /\ result.value = value  BY <1>3 DEF Result
<1>5. PICK y : q = [req EXCEPT !.stage = "result", !.result = result]
               \/ q = [[req EXCEPT !.stage = "result", !.result = result] EXCEPT !.inside = y]
  BY <1>3, Zenon DEF Answer
<1>6. /\ IsRequest(p) /\ p.kind = req.kind /\ p.slot = req.slot /\ p.stage = "result"
      /\ p.result = result
  BY <1>1, <1>2, <1>5 DEF IsRequest, RequestFields
<1> QED  BY <1>2, <1>4, <1>6, ResultStep

\* The kinds of a request.
OtherKinds ==
    {"getBlocks", "getBlockHeight", "getBlockTime", "getLatestBlockhash", "isBlockhashValid"}

\* What a reader makes of a request that reads no block.
OtherForm(q) ==
    \/ \E result : q = [req EXCEPT !.stage = "result", !.result = result]
    \/ \E result, y : q = [[req EXCEPT !.stage = "result", !.result = result] EXCEPT !.inside = y]
    \/ \E x, y : q = [req EXCEPT !.stage = "index", !.local = x, !.finalized = y]

LEMMA OtherForms ==
    ASSUME NEW r, NEW R, req.kind \notin ReadKinds, NEW q \in process(r, R)
    PROVE  OtherForm(q)
<1>0. req.kind \notin {"getBlock", "/block"} /\ req.kind \notin {"getTransaction", "/tx"}
  BY DEF ReadKinds, BlockKinds, TransactionKinds
<1>1. CASE req.kind = "getBlocks"
  <2>1. PICK y : y = (DOMAIN R.ring # {} /\ req.slot <= Highest(DOMAIN R.ring))  BY Zenon
  <2>2. q = [Answer(Blocks(R)) EXCEPT !.inside = y]
    BY <1>1, <2>1, Zenon DEF process
  <2> QED  BY <2>2, Zenon DEF Answer, OtherForm
<1>2. CASE req.kind = "getBlockHeight"
  <2>1. q = Answer(BlockHeight(R))  BY <1>2 DEF process
  <2> QED  BY <2>1, Zenon DEF Answer, OtherForm
<1>3. CASE req.kind = "getBlockTime"
  <2>1. q \in {Answer(result) : result \in BlockTime(R)}  BY <1>3 DEF process
  <2>2. PICK result : q = Answer(result)  BY <2>1, Zenon
  <2> QED  BY <2>2, Zenon DEF Answer, OtherForm
<1>4. CASE req.kind = "getLatestBlockhash"
  <2>1. q \in {Answer(result) : result \in LatestBlockhash(R)}  BY <1>4 DEF process
  <2>2. PICK result : q = Answer(result)  BY <2>1, Zenon
  <2> QED  BY <2>2, Zenon DEF Answer, OtherForm
<1>5. CASE req.kind = "isBlockhashValid"
  <2>1. q = Answer(BlockhashValid(R))  BY <1>5 DEF process
  <2> QED  BY <2>1, Zenon DEF Answer, OtherForm
<1>6. CASE req.kind \notin OtherKinds
  <2>1. q = SignatureStatuses(R)  BY <1>0, <1>6 DEF process, OtherKinds
  <2>2. PICK local : local = [i \in 1 .. 2 |-> Status(R, Signatures[i])]  OBVIOUS
  <2>3. \/ q = [req EXCEPT !.stage = "index", !.local = local, !.finalized = R.finalized]
        \/ q = [req EXCEPT !.stage = "result", !.result = Result("statuses", local)]
    BY <2>1, <2>2, Zenon DEF SignatureStatuses
  <2> QED  BY <2>3, Zenon DEF OtherForm
<1> QED  BY <1>1, <1>2, <1>3, <1>4, <1>5, <1>6 DEF OtherKinds

\* A reader takes a request that reads no block.
LEMMA OtherStep ==
    ASSUME ReadInv, req.behind = {}, NEW r \in Readers, req.stage = "queued", req.kind \notin ReadKinds,
           NEW q \in process(r, reader[r]), req' = [q EXCEPT !.reader = r],
           UNCHANGED <<writer, inbox, reader, stored>>
    PROVE  ReadInv'
<1>1. IsRequest(req) /\ Behind = {}  BY UnderWay
<1>4. OtherForm(q)  BY OtherForms
<1>5. IsRequest(q) /\ q.kind = req.kind
  BY <1>1, <1>4 DEF OtherForm, IsRequest, RequestFields
<1>6. PICK p : p = req'  OBVIOUS
<1>7. IsRequest(p) /\ p.kind = req.kind  BY <1>5, <1>6 DEF IsRequest, RequestFields
<1> QED  BY <1>1, <1>6, <1>7, RequestStep

\* A reader takes a request or goes on with one.
LEMMA TakeStep ==
    ASSUME ReadInv, req.behind = {}, NEW r \in Readers, take(r)
    PROVE  ReadInv'
<1>1. UNCHANGED <<writer, inbox, reader, stored>>  BY DEF take
<1>2. PICK R : R = reader[r]  OBVIOUS
<1>0. Behind = {} /\ Copy(reader[r]) = reader[r]
  <2>1. req.stage # "none"  BY DEF take
  <2>2. Behind = {}  BY <2>1, UnderWay
  <2> QED  BY <2>2, CopyIs DEF ReadInv
<1>3. CASE req.stage = "queued" /\ \E q \in process(r, reader[r]) : req' = [q EXCEPT !.reader = r]
  <2>1. PICK q \in process(r, reader[r]) : req' = [q EXCEPT !.reader = r]  BY <1>3
  <2>2. CASE req.kind \notin ReadKinds  BY <1>1, <1>3, <2>1, <2>2, OtherStep
  <2>3. CASE req.kind \in BlockKinds
    <3>1. req.kind \in ReadKinds /\ req.stage # "none"  BY <1>3, <2>3 DEF ReadKinds
    <3>2. q = Block(R)  BY <1>2, <2>1, <2>3 DEF process, BlockKinds
    <3>3. \/ q = Answer(Result("block", req.slot))
          \/ q = Answer(Result("dead", None))
          \/ get_block_location(R.ring, req.slot) = "found" /\ q = ReadAt(R, req.slot)
          \/ \E l \in {"removed", "not_available", "dead"} : q = Answer(Result(l, None))
      BY <3>2 DEF Block, get_block_location
    <3>4. CASE get_block_location(R.ring, req.slot) = "found" /\ q = ReadAt(R, req.slot)
      BY <1>1, <1>2, <2>1, <3>1, <3>4, ReadAtStep
    <3>5. ASSUME NEW type, NEW value, type # "block" \/ value = req.slot,
                 q = Answer(Result(type, value))
          PROVE  ReadInv'
      BY <1>1, <2>1, <3>1, <3>5, AnswerStep
    <3> QED  BY <3>3, <3>4, <3>5
  <2>4. CASE req.kind \in TransactionKinds
    <3>1. req.kind \in ReadKinds /\ req.stage # "none"  BY <1>3, <2>4 DEF ReadKinds
    <3>2. q = Transaction(R)  BY <1>2, <2>1, <2>4 DEF process, TransactionKinds
    <3>3. CASE q = Answer(Result("block", req.slot))
      BY <1>1, <2>1, <3>1, <3>3, AnswerStep
    <3>4. CASE q = [req EXCEPT !.stage = "index"]
      <4>1. IsRequest(req) /\ Served(req)  BY <3>1, UnderWay
      <4>2. PICK p : p = req'  OBVIOUS
      <4>3. IsRequest(p) /\ p.stage = "index" /\ p.slot = req.slot
        BY <2>1, <3>4, <4>1, <4>2 DEF IsRequest, RequestFields
      <4>4. Served(p)  BY <4>1, <4>3 DEF Served
      <4> QED  BY <1>0, <1>1, <4>2, <4>3, <4>4, RequestStep
    <3> QED  BY <3>2, <3>3, <3>4 DEF Transaction
  <2> QED  BY <2>2, <2>3, <2>4 DEF ReadKinds
<1>4. CASE req.stage = "found" /\ req' = Transaction2(reader[r])
  <2>1. IsRequest(req)  BY <1>4, UnderWay
  <2>2. PICK q : q = req'  OBVIOUS
  <2>3. PICK c, result : c = R.ring[req.slot] /\ result = Result("not_found", None)  OBVIOUS
  <2>4. \/ get_block_location(R.ring, req.slot) = "found"
           /\ q = ReadAt(R, req.slot) /\ q = [req EXCEPT !.stage = "file", !.cell = c]
        \/ q = Answer(result) /\ q = [req EXCEPT !.stage = "result", !.result = result]
    BY <1>2, <1>4, <2>2, <2>3 DEF Transaction2, ReadAt, Answer
  <2>5. /\ IsRequest(q) /\ q.kind = req.kind /\ q.reader = req.reader
        /\ q = [q EXCEPT !.reader = req.reader]
    BY <2>1, <2>4 DEF IsRequest, RequestFields
  <2>6. CASE req.kind \notin ReadKinds  BY <1>0, <1>1, <2>2, <2>5, <2>6, RequestStep
  <2>7. CASE req.kind \in ReadKinds
    <3>1. req' = [q EXCEPT !.reader = req.reader]  BY <2>2, <2>5
    <3>2. CASE get_block_location(R.ring, req.slot) = "found" /\ q = ReadAt(R, req.slot)
      BY <1>1, <1>2, <1>4, <2>7, <3>1, <3>2, ReadAtStep
    <3>3. CASE q = Answer(result)  BY <1>1, <1>4, <2>3, <2>7, <3>1, <3>3, AnswerStep
    <3> QED  BY <2>4, <3>2, <3>3
  <2> QED  BY <2>6, <2>7
<1> QED  BY <1>0, <1>3, <1>4 DEF take

\* A block whose slot is above first_available is not lost.
LEMMA StillStoredKept ==
    ASSUME IndexInv, NEW s \in Slots, StillStored(s)
    PROVE  ~ Lost(s)
<1>1. stored.first # Never
  <2>1. s \in Int /\ s <= MaxSlot /\ MaxSlot \in Int  BY BlockStoreAssumption DEF Slots
  <2> QED  BY <2>1 DEF StillStored, Never
<1>2. DOMAIN ring # {} /\ stored.first = Lowest(DOMAIN ring)  BY <1>1 DEF IndexInv, FirstFollows
<1>3. DOMAIN ring \subseteq Slots  BY DEF IndexInv, StoreInv, Types, IsRows
<1>4. Lowest(DOMAIN ring) \in Int /\ s \in Int  BY <1>2, <1>3, LowestIn DEF Slots
<1>5. Lowest(DOMAIN ring) <= s  BY <1>2, <1>4 DEF StillStored
<1> QED  BY <1>2, <1>5 DEF Lost, Reached

\* The result as it is, if it has no block or the block is still stored.
LEMMA KeepStep ==
    ASSUME ReadInv, req.behind = {}, req.stage = "result", req.kind \in ReadKinds,
           req.result.type = "block" => StillStored(req.slot),
           req' = [req EXCEPT !.stage = "done"], UNCHANGED <<writer, inbox, reader, stored>>
    PROVE  ReadInv'
<1>1. IsRequest(req) /\ Behind = {} /\ Served(req)  BY UnderWay
<1>2. PICK q : q = req'  OBVIOUS
<1>3. IsRequest(q) /\ q.stage = "done" /\ q.slot = req.slot /\ q.result = req.result
  BY <1>1, <1>2 DEF IsRequest, RequestFields
<1>4. req.result.type = "block" => req.result.value = req.slot
  BY <1>1, StillStoredKept DEF Served, ReadInv
<1>5. Served(q)  BY <1>1, <1>3, <1>4 DEF Served
<1> QED  BY <1>1, <1>2, <1>3, <1>5, RequestStep

\* The client gets an answer.
LEMMA GiveStep == ReadInv /\ req.behind = {} /\ answer => ReadInv'
<1> SUFFICES ASSUME ReadInv, req.behind = {}, answer PROVE ReadInv'  OBVIOUS
<1>1. req.stage = "result" /\ UNCHANGED <<writer, inbox, reader, stored>>  BY DEF answer
<1>2. IsRequest(req) /\ Behind = {}  BY <1>1, UnderWay
<1>3. ASSUME NEW type, type # "block", req' = Done(req, type) PROVE ReadInv'
  <2>1. req' = [req EXCEPT !.stage = "done", !.result = Result(type, None)]  BY <1>3 DEF Done
  <2>2. req.stage # "none"  BY <1>1
  <2> QED  BY <1>1, <1>3, <2>1, <2>2, DoneStep
<1>4. CASE req.kind \in BlockKinds
  <2>0. req.kind \in {"getBlock", "/block"}  BY <1>4 DEF BlockKinds
  <2>1. req' = block_answer /\ req.kind \in ReadKinds
    <3>1. req' \in {block_answer}  BY <2>0 DEF answer, HeightKinds
    <3> QED  BY <1>4, <3>1 DEF ReadKinds
  <2>2. \/ req' = Done(req, "elsewhere")
        \/ req' = Done(req, "skipped")
        \/ req' = [req EXCEPT !.stage = "done"]
           /\ (req.result.type = "block" => StillStored(req.slot))
    BY <2>1 DEF block_answer, fetch_upstream, PassedOn
  <2>3. ASSUME req' = [req EXCEPT !.stage = "done"], req.result.type = "block" => StillStored(req.slot)
        PROVE  ReadInv'
    BY <1>1, <2>1, <2>3, KeepStep
  <2> QED  BY <1>3, <2>2, <2>3
<1>5. CASE req.kind \in TransactionKinds
  <2>0. req.kind \in {"getTransaction", "/tx"}  BY <1>5 DEF TransactionKinds
  <2>1. req' = transaction_answer /\ req.kind \in ReadKinds
    <3>1. req' \in {transaction_answer}  BY <2>0 DEF answer, HeightKinds
    <3> QED  BY <1>5, <3>1 DEF ReadKinds
  <2>2. \/ req' = Done(req, "elsewhere")
        \/ req' = Done(req, "null")
        \/ req' = [req EXCEPT !.stage = "done"] /\ StillStored(req.slot)
    BY <2>1 DEF transaction_answer, fetch_upstream, PassedOn
  <2>3. ASSUME req' = [req EXCEPT !.stage = "done"], req.result.type = "block" => StillStored(req.slot)
        PROVE  ReadInv'
    BY <1>1, <2>1, <2>3, KeepStep
  <2> QED  BY <1>3, <2>2, <2>3
<1>6. CASE req.kind \notin ReadKinds
  <2>1. req.kind \notin {"getBlock", "/block"} /\ req.kind \notin {"getTransaction", "/tx"}
    BY <1>6 DEF ReadKinds, BlockKinds, TransactionKinds
  <2>2. \/ req' = blocks_answer \/ req' = PassedOn
        \/ req' = block_time_answer \/ req' \in statuses_answer
    BY <2>1 DEF answer, HeightKinds
  <2>3. \/ \E type \in {"cleaned_up", "elsewhere", "skipped"} : req' = Done(req, type)
        \/ req' = [req EXCEPT !.stage = "done"]
        \/ \E x : req' = [req EXCEPT !.stage = "done", !.result = Result("statuses", x)]
    <3>1. CASE req' = blocks_answer  BY <3>1 DEF blocks_answer, PassedOn
    <3>2. CASE req' = block_time_answer  BY <3>2 DEF block_time_answer, fetch_upstream, PassedOn
    <3>3. CASE req' \in statuses_answer  BY <3>3, Zenon DEF statuses_answer
    <3> QED  BY <2>2, <3>1, <3>2, <3>3 DEF PassedOn
  <2>4. PICK q : q = req'  OBVIOUS
  <2>5. ASSUME q = [req EXCEPT !.stage = "done"] \/ \E x : q = [req EXCEPT !.stage = "done", !.result = Result("statuses", x)]
        PROVE  IsRequest(q) /\ q.kind = req.kind
    <3>1. CASE q = [req EXCEPT !.stage = "done"]  BY <1>2, <3>1 DEF IsRequest, RequestFields
    <3>2. CASE \E x : q = [req EXCEPT !.stage = "done", !.result = Result("statuses", x)]
      <4>1. PICK y : q = [req EXCEPT !.stage = "done", !.result = y]  BY <3>2
      <4> QED  BY <1>2, <4>1 DEF IsRequest, RequestFields
    <3> QED  BY <2>5, <3>1, <3>2
  <2> QED  BY <1>1, <1>2, <1>3, <1>6, <2>3, <2>4, <2>5, RequestStep
<1> QED  BY <1>4, <1>5, <1>6 DEF ReadKinds

\* Whatever becomes of a request, who was behind when it came stays.
LEMMA KeepsBehind ==
    ASSUME IsRequest(req), NEW r,
           take(r) \/ read_index \/ read_file \/ answer \/ give_up
    PROVE  IsRequest(req') /\ req'.behind = req.behind /\ req' # NoRequest
<1> DEFINE Form(q) ==
             \/ \E a : q = [req EXCEPT !.stage = a]
             \/ \E a, b : q = [req EXCEPT !.stage = a, !.result = b]
             \/ \E a, b, c : q = [[req EXCEPT !.stage = a, !.result = b] EXCEPT !.inside = c]
             \/ \E a, b : q = [req EXCEPT !.stage = a, !.cell = b]
             \/ \E a, b, c : q = [req EXCEPT !.stage = a, !.local = b, !.finalized = c]
<1>1. ASSUME NEW q, Form(q) PROVE IsRequest(q) /\ q.behind = req.behind
  BY <1>1 DEF IsRequest, RequestFields
<1>2. ASSUME NEW R, NEW q \in process(r, R) PROVE Form(q)
  <2>1. CASE req.kind \notin ReadKinds
    <3>1. OtherForm(q)  BY <1>2, <2>1, OtherForms
    <3> QED  BY <3>1, Zenon DEF OtherForm
  <2>2. CASE req.kind \in BlockKinds
    <3>1. q = Block(R)  BY <1>2, <2>2 DEF process, BlockKinds
    <3> QED  BY <3>1, Zenon DEF Block, Answer, ReadAt
  <2>3. CASE req.kind \in TransactionKinds
    <3>1. q = Transaction(R)  BY <1>2, <2>3 DEF process, TransactionKinds
    <3> QED  BY <3>1, Zenon DEF Transaction, Answer
  <2> QED  BY <2>1, <2>2, <2>3 DEF ReadKinds
<1>3. PICK p : p = req'  OBVIOUS
<1>4. \/ Form(p)
      \/ \E q : Form(q) /\ p = [q EXCEPT !.reader = r]
  <2>1. CASE take(r)
    <3>1. PICK R : R = Copy(reader[r])  OBVIOUS
    <3>2. \/ \E q \in process(r, R) : p = [q EXCEPT !.reader = r]
          \/ p = Transaction2(R)
      BY <1>3, <2>1, <3>1, Zenon DEF take
    <3>3. p = Transaction2(R) => Form(p)  BY Zenon DEF Transaction2, ReadAt, Answer
    <3> HIDE DEF Form
    <3> QED  BY <1>2, <3>2, <3>3, Zenon
  <2>2. CASE read_index  BY <1>3, <2>2, Zenon DEF read_index, Answer
  <2>3. CASE read_file  BY <1>3, <2>3, Zenon DEF read_file, Answer
  <2>4. CASE give_up  BY <1>3, <2>4, Zenon DEF give_up, Done
  <2>5. CASE answer
    <3>1. \/ p = block_answer \/ p = transaction_answer \/ p = blocks_answer \/ p = PassedOn
          \/ p = block_time_answer \/ p \in statuses_answer
      BY <1>3, <2>5, Zenon DEF answer
    <3>2. p = block_answer => Form(p)  BY Zenon DEF block_answer, fetch_upstream, Done, PassedOn
    <3>3. p = transaction_answer => Form(p)
      BY Zenon DEF transaction_answer, fetch_upstream, Done, PassedOn
    <3>4. p = blocks_answer => Form(p)  BY Zenon DEF blocks_answer, Done, PassedOn
    <3>5. p = block_time_answer => Form(p)
      BY Zenon DEF block_time_answer, fetch_upstream, Done, PassedOn
    <3>6. p \in statuses_answer => Form(p)  BY Zenon DEF statuses_answer
    <3>7. p = PassedOn => Form(p)  BY Zenon DEF PassedOn
    <3> QED  BY <3>1, <3>2, <3>3, <3>4, <3>5, <3>6, <3>7
  <2> QED  BY <2>1, <2>2, <2>3, <2>4, <2>5
<1>5. IsRequest(p) /\ p.behind = req.behind
  <2>1. CASE Form(p)  BY <1>1, <2>1
  <2>2. CASE \E q : Form(q) /\ p = [q EXCEPT !.reader = r]
    <3>1. PICK q : Form(q) /\ p = [q EXCEPT !.reader = r]  BY <2>2
    <3>2. IsRequest(q) /\ q.behind = req.behind  BY <1>1, <3>1
    <3> QED  BY <3>1, <3>2 DEF IsRequest, RequestFields
  <2> QED  BY <1>4, <2>1, <2>2
<1>6. ~ IsRequest(NoRequest)  BY DEF IsRequest, NoRequest, RequestFields
<1> QED  BY <1>3, <1>5, <1>6

\* Every step keeps the invariant.
LEMMA ReadNextInv == ReadInv /\ [ReadNext]_readvars => ReadInv'
<1> SUFFICES ASSUME ReadInv, [ReadNext]_readvars PROVE ReadInv'  OBVIOUS
<1>0. IndexInv /\ StoreInv /\ Progress /\ RequestOK  BY DEF ReadInv, IndexInv
<1>1. CASE Storage
  <2>1. Moves  BY <1>0, <1>1, StorageMoves
  <2>2. req' = req /\ reader' = reader  BY <1>0, <1>1, <2>1, StorageFollows
  <2>3. Behind' = Behind  BY <2>2 DEF Behind
  <2>4. RequestOK'  BY <1>0, <2>1, <2>2, <2>3, RequestWaits
  <2> QED  BY <1>0, <1>1, <2>4, IndexMoves DEF ReadInv
<1>2. ASSUME NEW r \in Readers, handle(r) PROVE ReadInv'
  <2>1. UNCHANGED <<writer, req>> /\ (Behind = {} => Behind' = {})  BY <1>0, <1>2, HandleFollows
  <2>2. RequestOK'  BY <1>0, <2>1, RequestWaits
  <2> QED  BY <1>0, <1>2, <2>2, IndexMoves DEF ReadInv
<1>3. ASSUME NEW r \in Readers, take(r) \/ read_index \/ read_file \/ answer \/ give_up
      PROVE  ReadInv'
  <2>1. req.stage # "none" /\ UNCHANGED <<writer, inbox, reader, stored>>
    BY <1>3 DEF take, read_index, read_file, answer, give_up
  <2>2. IsRequest(req)  BY <2>1, UnderWay
  <2>3. CASE req.behind = {}
    BY <1>3, <2>3, TakeStep, ReadIndexStep, ReadFileStep, GiveStep, GiveUpStep
  <2>4. CASE req.behind # {}
    <3>1. IsRequest(req') /\ req'.behind = req.behind  BY <1>3, <2>2, KeepsBehind
    <3> QED  BY <2>1, <2>4, <3>1, RequestStep
  <2> QED  BY <2>3, <2>4
<1>4. CASE UNCHANGED readvars
  <2>1. UNCHANGED <<writer, inbox, reader, stored>> /\ req' = req  BY <1>4 DEF readvars, writer
  <2>2. PICK q : q = req  OBVIOUS
  <2>3. ~ IsRequest(NoRequest)  BY DEF IsRequest, NoRequest, RequestFields
  <2>4. q = NoRequest \/ IsRequest(q)  BY <1>0, <2>2 DEF RequestOK
  <2>5. IsRequest(q) /\ q.behind = {} => Behind = {} /\ (q.kind \in ReadKinds => Served(q))
    BY <1>0, <2>2, <2>3 DEF RequestOK
  <2> QED  BY <2>1, <2>2, <2>4, <2>5, RequestStep
<1>5. PICK r : r \in Readers  BY StorageReadAssumption
<1> QED
  BY <1>1, <1>2, <1>3, <1>4, <1>5, AskStep, FinishStep DEF ReadNext, Client, Reading

-----------------------------------------------------------------------------
(***************************************************************************)
(* The start.                                                              *)
(***************************************************************************)

\* A finite set that is not larger than another fits into it.
LEMMA Fitting ==
    ASSUME NEW S, NEW T, IsFiniteSet(S), IsFiniteSet(T), Cardinality(S) <= Cardinality(T)
    PROVE  \E f \in [S -> T] : \A s, t \in S : s # t => f[s] # f[t]
<1>1. /\ Cardinality(S) \in Nat /\ ExistsBijection(1 .. Cardinality(S), S)
      /\ Cardinality(T) \in Nat /\ ExistsBijection(1 .. Cardinality(T), T)
  BY FS_CardinalityType
<1>2. ExistsBijection(S, 1 .. Cardinality(S))  BY <1>1, Fun_ExistsBijSymmetric
<1>3. PICK g : g \in Bijection(S, 1 .. Cardinality(S))  BY <1>2 DEF ExistsBijection
<1>4. PICK b : b \in Bijection(1 .. Cardinality(T), T)  BY <1>1 DEF ExistsBijection
<1>5. /\ g \in [S -> 1 .. Cardinality(S)] /\ \A s, t \in S : g[s] = g[t] => s = t
      /\ b \in [1 .. Cardinality(T) -> T]
      /\ \A i, j \in 1 .. Cardinality(T) : b[i] = b[j] => i = j
  BY <1>3, <1>4 DEF Bijection, Injection, IsInjective
<1>6. \A s \in S : g[s] \in 1 .. Cardinality(T)  BY <1>1, <1>5
<1> DEFINE f == [s \in S |-> b[g[s]]]
<1>7. f \in [S -> T] /\ \A s, t \in S : s # t => f[s] # f[t]  BY <1>5, <1>6
<1> QED  BY <1>7

\* What is loaded at the start: consecutive slots, each block in a cell of its
\* own.
LEMMA LoadedIs ==
    ASSUME NEW l \in Loads, Loaded(l[1], l[2], l[3], l[4])
    PROVE  /\ l[1] \in Slots /\ l[2] \in l[1] .. MaxSlot /\ l[3] \in l[2] .. MaxSlot
           /\ l[4] \in l[3] .. MaxSlot /\ l[4] - l[1] < MaxBlocks
           /\ l[1] \in Int /\ l[2] \in Int /\ l[3] \in Int /\ l[4] \in Int
           /\ ring \in [l[2] .. l[3] -> Cells \union {None}]
           /\ indexed = (l[2] .. l[3]) \ Skipped
           /\ bytes \in [Cells -> Slots \union {None}]
           /\ \A s \in Live(ring) : s \in indexed /\ ring[s] \in Cells /\ bytes[ring[s]] = s
           /\ \A s \in DOMAIN ring : ring[s] = None <=> s \in Skipped
           /\ next = l[3] + 1 /\ next_back_slot = l[2] - 1
           /\ stored = [confirmed |-> l[4], finalized |-> 0, first |-> l[2], source |-> "disk"]
           /\ \E extra, recent, confirmed, height : reader = [r \in Readers |->
                [ring |-> ring, extra |-> extra, inproc |-> None, finalized |-> 0, heard |-> 0,
                 told |-> 0, confirmed |-> confirmed, height |-> height, peak |-> height,
                 recent |-> recent, failed |-> FALSE]]
<1> DEFINE lo == l[2]
           hi == l[3]
           live == (lo .. l[4]) \ Skipped
           cell == CHOOSE f \in [live -> Cells] : \A s, t \in live : s # t => f[s] # f[t]
<1>1. /\ l[1] \in Slots /\ lo \in l[1] .. MaxSlot /\ hi \in lo .. MaxSlot /\ l[4] \in hi .. MaxSlot
      /\ l[4] - l[1] < MaxBlocks
      /\ Cardinality(live) <= Cardinality(Cells) /\ IsFiniteSet(Cells)
  BY StorageReadAssumption
<1>2. l[1] \in Int /\ lo \in Int /\ hi \in Int /\ l[4] \in Int /\ MaxSlot \in Int /\ lo \in Slots
  BY <1>1, BlockStoreAssumption DEF Slots
<1>3. IsFiniteSet(live)
  <2>1. IsFiniteSet(lo .. l[4])  BY <1>2, FS_Interval
  <2>2. live \in SUBSET (lo .. l[4])  OBVIOUS
  <2> HIDE DEF live
  <2> QED  BY <2>1, <2>2, FS_Subset
<1>4. /\ ring = [s \in lo .. hi |-> IF s \in live THEN cell[s] ELSE None]
      /\ bytes = [c \in Cells |-> IF \E s \in live : cell[s] = c
                                  THEN CHOOSE s \in live : cell[s] = c ELSE None]
      /\ indexed = (lo .. hi) \ Skipped /\ next = hi + 1 /\ next_back_slot = lo - 1
      /\ stored = [confirmed |-> l[4], finalized |-> 0, first |-> lo, source |-> "disk"]
  BY DEF Loaded
<1>5. \E extra, recent, confirmed, height : reader = [r \in Readers |->
        [ring |-> ring, extra |-> extra, inproc |-> None, finalized |-> 0, heard |-> 0,
         told |-> 0, confirmed |-> confirmed, height |-> height, peak |-> height,
         recent |-> recent, failed |-> FALSE]]
  <2> DEFINE rows(S) == [s \in S |-> IF s \in live THEN cell[s] ELSE None]
             recent == {s \in (l[1] + 1 .. l[4]) \ Skipped : Height(l[4]) - Height(s) < MaxRecent}
             top == IF recent = {} THEN 0 ELSE Highest(recent)
  <2>1. reader = [r \in Readers |->
          [ring |-> ring, extra |-> rows(hi + 1 .. l[4]), inproc |-> None, finalized |-> 0,
           heard |-> 0, told |-> 0, confirmed |-> top, height |-> Height(top),
           peak |-> Height(top), recent |-> recent, failed |-> FALSE]]
    BY DEF Loaded
  <2> HIDE DEF rows, top, recent
  <2> QED  BY <2>1, Zenon
<1>6. /\ live \subseteq lo .. l[4] /\ lo .. l[4] \subseteq Slots /\ lo .. hi \subseteq lo .. l[4]
      /\ \A s \in lo .. hi : s \in live <=> s \notin Skipped
  BY <1>1, <1>2 DEF Slots
<1> HIDE DEF live
<1>7. \E f \in [live -> Cells] : \A s, t \in live : s # t => f[s] # f[t]  BY <1>1, <1>3, Fitting
<1>8. cell \in [live -> Cells] /\ \A s, t \in live : s # t => cell[s] # cell[t]
  BY <1>7, Zenon
<1> HIDE DEF cell
<1>9. ring \in [lo .. hi -> Cells \union {None}]  BY <1>4, <1>8
<1>10. bytes \in [Cells -> Slots \union {None}]  BY <1>4, <1>6
<1>11. ASSUME NEW s \in Live(ring) PROVE s \in indexed /\ ring[s] \in Cells /\ bytes[ring[s]] = s
  <2>1. s \in live /\ s \in indexed /\ ring[s] = cell[s]  BY <1>4, <1>6 DEF Live
  <2>2. cell[s] \in Cells /\ \A t \in live : cell[t] = cell[s] => t = s  BY <1>8, <2>1
  <2>3. bytes[cell[s]] = CHOOSE t \in live : cell[t] = cell[s]  BY <1>4, <2>1, <2>2
  <2>4. bytes[cell[s]] = s  BY <2>1, <2>2, <2>3
  <2> QED  BY <1>4, <2>1, <2>2, <2>4
<1>12. \A s \in DOMAIN ring : ring[s] = None <=> s \in Skipped
  BY <1>4, <1>6, <1>8, CellNotNone
<1> QED  BY <1>1, <1>2, <1>4, <1>5, <1>9, <1>10, <1>11, <1>12

\* The invariant holds at the start.
LEMMA IndexStart == Start => IndexInv
<1> SUFFICES ASSUME Start PROVE IndexInv  OBVIOUS
<1>1. PICK l \in Loads : Loaded(l[1], l[2], l[3], l[4])  BY DEF Start
<1>2. /\ basic = ring /\ used = CellsOf(ring) /\ queue = <<>> /\ op = Idle /\ status = "running"
      /\ announced = FALSE /\ inbox = [r \in Readers |-> <<>>]
  BY DEF Start
<1>3. PICK lo, hi : lo = l[2] /\ hi = l[3]  OBVIOUS
<1>4. /\ lo \in Slots /\ hi \in lo .. MaxSlot /\ hi - lo < MaxBlocks /\ lo \in Int /\ hi \in Int
      /\ ring \in [lo .. hi -> Cells \union {None}]
      /\ indexed = (lo .. hi) \ Skipped
      /\ bytes \in [Cells -> Slots \union {None}]
      /\ \A s \in Live(ring) : s \in indexed /\ ring[s] \in Cells /\ bytes[ring[s]] = s
      /\ next = hi + 1 /\ next_back_slot = lo - 1
      /\ stored = [confirmed |-> l[4], finalized |-> 0, first |-> lo, source |-> "disk"]
  <2>1. MaxSlot \in Int /\ MaxBlocks \in Int  BY BlockStoreAssumption
  <2> QED  BY <1>1, <1>3, <2>1, LoadedIs DEF Slots
<1>5. DOMAIN ring = lo .. hi /\ lo .. hi \subseteq Slots /\ MaxSlot \in Int /\ MaxBlocks \in Int
  BY <1>4, BlockStoreAssumption DEF Slots
<1>6. Types
  <2>1. IsRows(ring)  BY <1>4, <1>5 DEF IsRows
  <2>2. used \subseteq Cells  BY <1>2, <1>4, <1>5 DEF CellsOf
  <2>3. indexed \subseteq Slots  BY <1>4, <1>5
  <2> QED  BY <1>2, <1>4, <2>1, <2>2, <2>3, IdleOp DEF Types
<1>7. QueueOK  BY <1>2 DEF QueueOK, Awaited
<1>8. OpOK  BY <1>2 DEF OpOK, Idle, None
<1>9. RowsFollow  BY <1>2, <1>5, SlotNotNone DEF RowsFollow, Leaving, Idle
<1>10. CellsKept  BY <1>2 DEF CellsKept, Live, CellsOf, Idle
<1>11. Consecutive(DOMAIN ring)  BY <1>4, <1>5 DEF Consecutive
<1>12. Placed  BY <1>2, <1>11 DEF Placed, Pushing, Idle
<1>13. Durable  BY <1>2, <1>4, <1>5, <1>11 DEF Durable
<1>14. ListedIntact /\ ListedIndexed  BY <1>2, <1>4 DEF ListedIntact, ListedIndexed
<1>15. StoreInv  BY <1>2, <1>6, <1>7, <1>8, <1>9, <1>10, <1>12, <1>13, <1>14 DEF StoreInv
<1>16. Progress
  <2>1. next \in Nat \ {0} /\ next_back_slot \in Nat /\ next_back_slot < next
    BY <1>4 DEF Slots
  <2>2. \A s \in DOMAIN ring : s < next /\ next_back_slot < s  BY <1>4, <1>5
  <2>3. op.stage = "idle"  BY <1>2, IdleOp
  <2>4. announced \in BOOLEAN /\ ~ announced  BY <1>2, Zenon
  <2> QED  BY <1>2, <2>1, <2>2, <2>3, <2>4, Zenon DEF Progress
<1>17. lo \in DOMAIN ring /\ \A s \in DOMAIN ring : lo <= s  BY <1>4, <1>5
<1>18. FirstFollows
  <2>1. Lowest(DOMAIN ring) \in DOMAIN ring /\ Lowest(DOMAIN ring) <= lo  BY <1>5, <1>17, LowestIn
  <2>2. Lowest(DOMAIN ring) = lo  BY <1>4, <1>5, <1>17, <2>1
  <2>3. stored.first = lo /\ DOMAIN stored = {"confirmed", "finalized", "first", "source"}  BY <1>4
  <2> QED  BY <1>17, <2>2, <2>3 DEF FirstFollows
<1>19. PICK extra, recent, confirmed, height, no : reader = [r \in Readers |->
            [ring |-> ring, extra |-> extra, inproc |-> None, finalized |-> 0, heard |-> 0,
             told |-> 0, confirmed |-> confirmed, height |-> height, peak |-> height,
             recent |-> recent, failed |-> no]]
  <2>1. PICK extra, recent, confirmed, height : reader = [r \in Readers |->
            [ring |-> ring, extra |-> extra, inproc |-> None, finalized |-> 0, heard |-> 0,
             told |-> 0, confirmed |-> confirmed, height |-> height, peak |-> height,
             recent |-> recent, failed |-> FALSE]]
    BY <1>1, LoadedIs
  <2>2. PICK no : no = FALSE  BY Zenon
  <2>3. reader = [r \in Readers |->
            [ring |-> ring, extra |-> extra, inproc |-> None, finalized |-> 0, heard |-> 0,
             told |-> 0, confirmed |-> confirmed, height |-> height, peak |-> height,
             recent |-> recent, failed |-> no]]
    BY <2>1, <2>2, Zenon
  <2> QED  BY <2>3, Zenon
<1>20. ReadersOK /\ \A r \in Readers : reader[r].ring = ring
  <2>1. inbox \in [Readers -> Seq(Messages)]  BY <1>2
  <2> QED  BY <1>19, <2>1 DEF ReadersOK, ReaderFields
<1>21. Past(ring)  BY <1>6, <1>12, <1>16, RingPast
<1>22. ASSUME NEW r \in Readers PROVE \E h : FollowsBy(h, r)
  <2>1. inbox[r] = <<>> /\ Len(inbox[r]) = 0  BY <1>2
  <2>2. PICK h : h = [i \in {1} |-> ring]  OBVIOUS
  <2>3. \A i \in 1 .. 0 + 1 : Past(h[i])  BY <1>21, <2>2
  <2>4. h[1] = ring /\ 0 + 1 = 1  BY <2>2
  <2>5. FollowsBy(h, r)  BY <1>20, <2>1, <2>3, <2>4 DEF FollowsBy
  <2> QED  BY <2>5
<1>23. Follows  BY <1>22 DEF Follows
<1> QED  BY <1>15, <1>16, <1>18, <1>20, <1>23 DEF IndexInv

LEMMA ReadInitInv == ReadInit => ReadInv
BY IndexStart DEF ReadInit, ReadInv, RequestOK

\* The invariant of the requests holds always.
THEOREM ReadInvariant == ReadSpec => []ReadInv
BY ReadInitInv, ReadNextInv, PTL DEF ReadSpec

\* A block or a transaction that is answered is the one asked for, for any
\* number of readers, slots, cells and pending messages: whatever the writer
\* prunes and writes between the moment a reader looks up a location, the
\* moment the bytes are read and the moment the answer is given.
THEOREM AnswerRightAlways == ReadSpec => []AnswerRight
<1>1. ReadInv => AnswerRight
  <2> SUFFICES ASSUME ReadInv, req.stage = "done", req.kind \in ReadKinds, req.behind = {},
                      req.result.type = "block"
               PROVE  req.result.value = req.slot
    BY DEF AnswerRight, IsDone, ReadKinds
  <2> QED  BY UnderWay DEF Served
<1> QED  BY <1>1, ReadInvariant, PTL

\* The readers' index is never ahead of the writer's and never wrong, once a
\* reader has handled what the start took back: a location it would find now
\* is the writer's, or the slot is pruned.
THEOREM FoundAgreesAlways ==
    ReadSpec => [](\A r \in Readers \ Behind, s \in Slots :
        get_block_location(Copy(reader[r]).ring, s) = "found" /\ Reached(s) =>
            s \in DOMAIN ring /\ ring[s] = Copy(reader[r]).ring[s])
<1>1. ReadInv => \A r \in Readers \ Behind, s \in Slots :
        get_block_location(Copy(reader[r]).ring, s) = "found" /\ Reached(s) =>
            s \in DOMAIN ring /\ ring[s] = Copy(reader[r]).ring[s]
  BY FoundAgrees, CopyIs DEF Agrees, ReadInv
<1> QED  BY <1>1, ReadInvariant, PTL

-----------------------------------------------------------------------------
(***************************************************************************)
(* The third part: what a request finds, and what is answered from memory. *)
(*                                                                         *)
(* A reader hears of the confirmed slot that is not stored yet by messages *)
(* too: its index and its block in process, together, are what the         *)
(* writer's were once.                                                     *)
(***************************************************************************)

\* The writer's block in process.
Pending == IF announced THEN next ELSE None

\* A dead slot has no cell, any other has one.
Skips(o) == o.stage \in {"add", "added"} => (o.cell = None <=> o.slot \in Skipped)

DeadOrLive(rows) == \A s \in DOMAIN rows : rows[s] = None <=> s \in Skipped

\* The index ends below the slot to come; it is empty only while that slot is
\* being stored, after the slot below it was pruned to make room.
Front ==
    /\ Skips(op) /\ DeadOrLive(ring)
    /\ DOMAIN ring # {} => next - 1 \in DOMAIN ring
    /\ DOMAIN ring = {} => Pending # None /\ Lost(next - 1)

\* What index and block in process were together once.
View(rows, proc) ==
    /\ IsRows(rows) /\ Consecutive(DOMAIN rows) /\ DeadOrLive(rows)
    /\ \A s, t \in DOMAIN rows : t - s < MaxBlocks
    /\ proc = None => DOMAIN rows # {}
    /\ proc # None =>
          /\ proc \in Slots
          /\ DOMAIN rows # {} => proc = Highest(DOMAIN rows) + 1
          /\ DOMAIN rows = {} => Lost(proc - 1)

\* What a message makes of them.
Goes(m, a, b) ==
    /\ m.type = "BlockConfirmed" => a.proc = None /\ b.proc = m.slot /\ b.rows = a.rows
    /\ m.type = "SlotFinalized" => b.proc = a.proc /\ b.rows = a.rows
    /\ m.type = "PushFront" =>
          a.proc = m.slot /\ b.proc = None /\ b.rows = Put(a.rows, m.slot, m.cell)
    /\ m.type = "PushBack" =>
          a.proc = None /\ b.proc = None /\ b.rows = Put(a.rows, m.slot, m.cell)
          /\ \A s \in DOMAIN a.rows : m.slot < s
    /\ m.type = "PopBack" =>
          /\ a.proc # None /\ b.proc = a.proc
          /\ DOMAIN a.rows # {} /\ Lost(Lowest(DOMAIN a.rows))
          /\ b.rows = Restrict(a.rows, DOMAIN a.rows \ {Lowest(DOMAIN a.rows)})

\* h: a reader's index and block in process now and after each message it has
\* not handled yet.
TracedBy(h, r) ==
    /\ h[1].rows = reader[r].ring /\ h[1].proc = reader[r].inproc
    /\ h[Len(inbox[r]) + 1].rows = ring /\ h[Len(inbox[r]) + 1].proc = Pending
    /\ \A i \in 1 .. Len(inbox[r]) + 1 : View(h[i].rows, h[i].proc)
    /\ \A i \in 1 .. Len(inbox[r]) : Goes(inbox[r][i], h[i], h[i + 1])

Traced == \A r \in Readers : \E h : TracedBy(h, r)

-----------------------------------------------------------------------------
(***************************************************************************)
(* The writer.                                                             *)
(***************************************************************************)

\* The writer's block in process, by cases.
LEMMA PendingIs ==
    ASSUME announced \in BOOLEAN
    PROVE  /\ announced => Pending = next
           /\ ~ announced => Pending = None
BY Zenon DEF Pending

\* A push that has begun has no cell for a dead slot.
LEMMA StoredSkips ==
    ASSUME NEW o \in Op, o.cell = None, Stored(o)
    PROVE  Skips(op')
<1>1. CASE o.slot \in Skipped
  <2>1. op' = [o EXCEPT !.stage = "add"]  BY <1>1 DEF Stored
  <2>2. op'.cell = None /\ op'.slot = o.slot  BY <2>1 DEF Op
  <2> QED  BY <1>1, <2>2 DEF Skips
<1>2. CASE o.slot \notin Skipped
  <2>1. op' = [o EXCEPT !.stage = "join"]  BY <1>2 DEF Stored
  <2>2. op'.stage = "join"  BY <2>1 DEF Op
  <2> QED  BY <2>2 DEF Skips
<1> QED  BY <1>1, <1>2

\* The stage, the slot and the cell stay.
LEMMA SameSkips ==
    ASSUME Skips(op), op'.stage = op.stage \/ op'.stage \notin {"add", "added"},
           op'.cell = op.cell \/ op'.stage \notin {"add", "added"}, op'.slot = op.slot
    PROVE  Skips(op')
BY DEF Skips

\* No step of the writer loses a cell, or gives one to a dead slot.
LEMMA StorageSkips ==
    ASSUME StoreInv, Progress, Skips(op), Storage
    PROVE  Skips(op')
<1>0. op \in Op /\ op.stage # "pop"  BY DEF StoreInv, Types, Progress
<1>1. CASE op' = op  BY <1>1
<1>2. CASE \E c \in Cells : write_file(c)
  <2>1. PICK c \in Cells : write_file(c)  BY <1>2
  <2>2. op.stage = "join" /\ op' = [op EXCEPT !.cell = c, !.file = "writing"]
    BY <2>1 DEF write_file
  <2>3. op'.stage = "join"  BY <1>0, <2>2 DEF Op
  <2> QED  BY <2>3 DEF Skips
<1>3. CASE file_written
  <2>1. op' = [op EXCEPT !.file = "done"]  BY <1>3 DEF file_written
  <2>2. op'.stage = op.stage /\ op'.cell = op.cell /\ op'.slot = op.slot  BY <1>0, <2>1 DEF Op
  <2> QED  BY <2>2, SameSkips
<1>4. CASE no_room
  <2>1. op.stage = "join" /\ (op' = [op EXCEPT !.file = "no_room"] \/ op' = Popped(op, Lowest(DOMAIN ring)) \/ op' = op)
    BY <1>4 DEF no_room
  <2>2. op'.stage = "join"  BY <1>0, <2>1 DEF Op, Popped
  <2> QED  BY <2>2 DEF Skips
<1>5. CASE send_indexes
  <2>1. op' = [op EXCEPT !.index = "sent"]  BY <1>5 DEF send_indexes
  <2>2. op'.stage = op.stage /\ op'.cell = op.cell /\ op'.slot = op.slot  BY <1>0, <2>1 DEF Op
  <2> QED  BY <2>2, SameSkips
<1>6. CASE op' = Idle
  <2>1. op'.stage = "idle"  BY <1>6 DEF Idle
  <2> QED  BY <2>1 DEF Skips
<1>7. CASE joined
  <2>1. op.stage = "join" /\ ((op.file = "done" /\ op' = [op EXCEPT !.stage = "add"]) \/ op' = Idle)
    BY <1>7 DEF joined
  <2>2. CASE op.file = "done" /\ op' = [op EXCEPT !.stage = "add"]
    <3>1. op.cell # None /\ op.slot \notin Skipped  BY <2>1, <2>2 DEF StoreInv, OpOK
    <3>2. op'.cell = op.cell /\ op'.slot = op.slot  BY <1>0, <2>2 DEF Op
    <3> QED  BY <3>1, <3>2 DEF Skips
  <2> QED  BY <1>6, <2>1, <2>2
<1>8. CASE pop_block_done
  <2>1. op.gone # None  BY <1>8 DEF pop_block_done
  <2>2. op.stage \in {"make_room", "join"} /\ op.cell = None  BY <1>0, <2>1 DEF StoreInv, OpOK, Op
  <2> DEFINE o == [op EXCEPT !.gone = None, !.free = None, !.rows = "there"]
  <2>3. o \in Op /\ o.cell = None /\ o.stage = op.stage  BY <1>0, <2>2 DEF Op
  <2>4. Stored(o) \/ (op.stage = "join" /\ op' = o)  BY <1>8, <2>2 DEF pop_block_done
  <2> HIDE DEF o
  <2>5. CASE op.stage = "join" /\ op' = o
    <3>1. op'.stage = "join"  BY <2>3, <2>5
    <3> QED  BY <3>1 DEF Skips
  <2> QED  BY <2>3, <2>4, <2>5, StoredSkips
<1>9. CASE rocksdb_write
  <2>1. QueueOK  BY DEF StoreInv
  <2>2. queue # <<>>  BY <1>9 DEF rocksdb_write
  <2>3. queue[1] \in Asks /\ Awaited(op, queue[1])  BY <2>1, <2>2, FirstAsk
  <2>4. CASE AddIndexes
    <3>1. op' = [op EXCEPT !.index = "done"]  BY <2>4 DEF AddIndexes
    <3>2. op'.stage = op.stage /\ op'.cell = op.cell /\ op'.slot = op.slot  BY <1>0, <3>1 DEF Op
    <3> QED  BY <3>2, SameSkips
  <2>5. CASE SlotAdd
    <3>1. op' = [op EXCEPT !.stage = "added"] /\ op.stage = "add"
      BY <2>3, <2>5 DEF SlotAdd, Awaited
    <3>2. op'.cell = op.cell /\ op'.slot = op.slot  BY <1>0, <3>1 DEF Op
    <3> QED  BY <3>1, <3>2 DEF Skips
  <2>6. CASE SlotRemove
    <3>1. op' = [op EXCEPT !.rows = "removed"] \/ op' = op  BY <2>6 DEF SlotRemove
    <3>2. op'.stage = op.stage /\ op'.cell = op.cell /\ op'.slot = op.slot  BY <1>0, <3>1 DEF Op
    <3> QED  BY <3>2, SameSkips
  <2> QED  BY <1>9, <2>4, <2>5, <2>6 DEF rocksdb_write
<1>10. ASSUME NEW s \in Slots, push_block_front(s) \/ push_block_back(s) PROVE Skips(op')
  <2>1. \/ Stored([Idle EXCEPT !.side = "back", !.slot = s])
        \/ Stored([Idle EXCEPT !.slot = s])
        \/ op' = Popped([[Idle EXCEPT !.slot = s] EXCEPT !.stage = "make_room"], Lowest(DOMAIN ring))
    BY <1>10 DEF push_block_back, push_block_front
  <2>2. ASSUME NEW o \in Op, o.cell = None, Stored(o) PROVE Skips(op')  BY <2>2, StoredSkips
  <2>3. /\ [Idle EXCEPT !.side = "back", !.slot = s] \in Op
        /\ [Idle EXCEPT !.side = "back", !.slot = s].cell = None
        /\ [Idle EXCEPT !.slot = s] \in Op /\ [Idle EXCEPT !.slot = s].cell = None
    BY DEF Op, Idle
  <2>4. CASE op' = Popped([[Idle EXCEPT !.slot = s] EXCEPT !.stage = "make_room"], Lowest(DOMAIN ring))
    <3>1. op'.stage = "make_room"  BY <2>4 DEF Popped, Idle
    <3> QED  BY <3>1 DEF Skips
  <2> QED  BY <2>1, <2>2, <2>3, <2>4
<1>11. CASE store
  <2>1. next \in Slots /\ push_block_front(next)
    <3>1. announced /\ push_block_front(next)  BY <1>11 DEF store
    <3> QED  BY <3>1 DEF Progress
  <2> QED  BY <1>10, <2>1
<1>12. CASE backfill
  <2>1. op' = op \/ push_block_back(next_back_slot)  BY <1>12 DEF backfill, vars
  <2>2. ASSUME push_block_back(next_back_slot) PROVE next_back_slot \in Slots
    <3>1. next_back_slot \in Nat \ {0}  BY <1>12 DEF backfill, None, Progress
    <3>2. DOMAIN ring # {} /\ next_back_slot = Lowest(DOMAIN ring) - 1  BY <2>2 DEF push_block_back
    <3>3. Lowest(DOMAIN ring) \in Slots  BY <3>2, LowestIn DEF StoreInv, Types, IsRows
    <3> QED  BY <3>1, <3>2, <3>3, BlockStoreAssumption DEF Slots
  <2> QED  BY <1>1, <1>10, <2>1, <2>2
<1>13. CASE confirm \/ \E s \in Finalized : finalize(s)
  <2>1. op' = op  BY <1>13 DEF confirm, finalize, vars
  <2> QED  BY <1>1, <2>1
<1>14. CASE go_on
  BY <1>2, <1>3, <1>4, <1>5, <1>6, <1>7, <1>8, <1>14 DEF go_on, push_block_done
<1> QED  BY <1>9, <1>11, <1>12, <1>13, <1>14 DEF Storage

\* What a step of the writer does to the index and the block in process, and
\* what the readers are told of it.
Steps ==
    \/ /\ ring' = ring /\ Pending' = Pending /\ next' = next
       /\ inbox' = inbox
    \/ /\ ring' = ring /\ Pending' = Pending /\ next' = next
       /\ \E s \in Slots :
             /\ Send(<<[type |-> "SlotFinalized", slot |-> s]>>)
             /\ \A r \in Readers : reader[r].heard < s
             /\ \A r \in Readers : \A i \in DOMAIN inbox[r] : inbox[r][i].type # "SlotFinalized"
    \/ /\ ring' = ring /\ Pending = None /\ Pending' = next /\ next' = next /\ next \in Slots
       /\ Send(<<[type |-> "BlockConfirmed", slot |-> next]>>)
    \/ /\ Pruned /\ Pending' = Pending /\ Pending = next /\ next' = next
       /\ Send(<<[type |-> "PopBack"]>>)
    \/ /\ Grown /\ op.slot = next /\ Pending = next /\ Pending' = None /\ next' = next + 1
       /\ op.slot \in Slots /\ op.cell \in Cells \union {None}
       /\ Send(<<[type |-> "PushFront", slot |-> op.slot, cell |-> op.cell]>>)
    \/ /\ Grown /\ Pending = None /\ Pending' = None /\ next' = next
       /\ op.slot \in Slots /\ op.cell \in Cells \union {None}
       /\ op.slot + 1 \in DOMAIN ring /\ \A s \in DOMAIN ring : op.slot < s
       /\ Send(<<[type |-> "PushBack", slot |-> op.slot, cell |-> op.cell]>>)

\* The message of a push.
LEMMA GrownMessage ==
    ASSUME StoreInv, Progress, Grown
    PROVE  /\ op.slot \in Slots /\ op.cell \in Cells \union {None} /\ op.side \in {"front", "back"}
           /\ Fits(op) /\ op.slot \notin DOMAIN ring
           /\ RingMessages = <<[type |-> IF op.side = "front" THEN "PushFront" ELSE "PushBack",
                                slot |-> op.slot, cell |-> op.cell]>>
<1>0. Types /\ Placed  BY DEF StoreInv, Progress
<1>1. /\ DOMAIN ring' = DOMAIN ring \union {op.slot} /\ ring'[op.slot] = op.cell
  BY DEF Grown, Put
<1>2. Fits(op) /\ op.side \in {"front", "back"}
  BY <1>0 DEF Grown, Placed, Pushing, Types, Op
<1>3. DOMAIN ring \subseteq Slots /\ DOMAIN ring \subseteq Int  BY <1>0 DEF Types, IsRows, Slots
<1>4. op.slot \notin DOMAIN ring  BY <1>2, <1>3 DEF Fits
<1>5. op.slot \in Slots /\ op.cell \in Cells \union {None}
  BY <1>0 DEF Grown, StoreInv, OpOK, Types, Op
<1>6. DOMAIN ring \ DOMAIN ring' = {} /\ DOMAIN ring' \ DOMAIN ring = {op.slot}
  BY <1>1, <1>4
<1>7. (CHOOSE s \in {op.slot} : TRUE) = op.slot  OBVIOUS
<1>8. (ring = <<>> \/ op.slot > Highest(DOMAIN ring)) <=> op.side = "front"
  <2>1. CASE DOMAIN ring = {}
    <3>1. op.side = "front"  BY <1>2, <2>1 DEF Fits
    <3>2. ring = <<>>
      <4>1. ring \in [{} -> Cells \union {None}]  BY <1>0, <2>1 DEF Types, IsRows
      <4> QED  BY <4>1
    <3> QED  BY <3>1, <3>2
  <2>2. CASE DOMAIN ring # {}
    <3>1. Highest(DOMAIN ring) \in DOMAIN ring  BY <1>3, <2>2, HighestIn
    <3>2. ring # <<>>  BY <2>2
    <3>3. CASE op.side = "front"  BY <1>2, <1>3, <1>5, <3>1, <3>2, <3>3 DEF Fits, Slots
    <3>4. CASE op.side = "back"
      <4>1. op.slot < Highest(DOMAIN ring)  BY <1>2, <3>1, <3>4 DEF Fits
      <4>2. op.slot \in Int /\ Highest(DOMAIN ring) \in Int  BY <1>3, <1>5, <3>1 DEF Slots
      <4> QED  BY <3>2, <3>4, <4>1, <4>2
    <3> QED  BY <1>2, <3>3, <3>4
  <2> QED  BY <2>1, <2>2
<1>9. RingMessages = <<[type |-> IF ring = <<>> \/ op.slot > Highest(DOMAIN ring)
                                 THEN "PushFront" ELSE "PushBack",
                        slot |-> op.slot, cell |-> op.cell]>>
  BY <1>1, <1>6, <1>7 DEF RingMessages
<1>10. RingMessages = <<[type |-> IF op.side = "front" THEN "PushFront" ELSE "PushBack",
                        slot |-> op.slot, cell |-> op.cell]>>
  BY <1>8, <1>9
<1> QED  BY <1>2, <1>4, <1>5, <1>10

LEMMA PrunedMessage ==
    ASSUME Types, Pruned
    PROVE  RingMessages = <<[type |-> "PopBack"]>>
<1>1. Lowest(DOMAIN ring) \in DOMAIN ring  BY LowestIn DEF Pruned, Types, IsRows
<1>2. DOMAIN ring \ DOMAIN ring' # {}  BY <1>1 DEF Pruned, Restrict
<1> QED  BY <1>2 DEF RingMessages

\* Nothing is sent when the index does not change.
LEMMA QuietMessage ==
    ASSUME ReadersOK, ring' = ring, Send(RingMessages)
    PROVE  inbox' = inbox
<1>1. DOMAIN ring \ DOMAIN ring' = {} /\ DOMAIN ring' \ DOMAIN ring = {}  OBVIOUS
<1>2. RingMessages = <<>>  BY <1>1 DEF RingMessages
<1>3. \A r \in Readers : inbox[r] \o <<>> = inbox[r]  BY DEF ReadersOK
<1> QED  BY <1>2, <1>3 DEF Send, ReadersOK

\* Every step of the writer is one of these.
LEMMA StorageSteps ==
    ASSUME IndexInv, Storage
    PROVE  Steps
<1>0. StoreInv /\ Progress /\ ReadersOK /\ Types /\ announced \in BOOLEAN /\ op \in Op
  BY DEF IndexInv, StoreInv, Types, Progress
<1>1. (announced => Pending = next) /\ (~ announced => Pending = None)  BY <1>0, PendingIs
<1>2. Progress' /\ (announced' \in BOOLEAN)  BY <1>0, StorageMoves DEF Moves, Progress
<1>3. (announced' => Pending' = next') /\ (~ announced' => Pending' = None)  BY <1>2, Zenon DEF Pending
<1>4. ASSUME announced' = announced, next' = next PROVE Pending' = Pending  BY <1>4 DEF Pending
<1>5. ASSUME ring' = ring, announced' = announced, next' = next, Send(RingMessages) PROVE Steps
  BY <1>0, <1>4, <1>5, QuietMessage DEF Steps
<1>6. ASSUME Pruned, announced, announced' = announced, next' = next, Send(RingMessages) PROVE Steps
  BY <1>0, <1>1, <1>4, <1>6, PrunedMessage DEF Steps
<1>7. CASE confirm
  <2>1. ~ announced /\ announced' = TRUE /\ next' = next /\ next <= MaxSlot /\ UNCHANGED vars
        /\ Send(<<[type |-> "BlockConfirmed", slot |-> next]>>)
    BY <1>7 DEF confirm, Between
  <2>2. announced'  BY <2>1, Zenon
  <2>3. next \in Slots  BY <1>0, <2>1, BlockStoreAssumption DEF Progress, Slots
  <2> QED  BY <1>1, <1>3, <2>1, <2>2, <2>3 DEF Steps, vars
<1>8. CASE \E s \in Finalized : finalize(s)
  <2>1. PICK s \in Finalized : finalize(s)  BY <1>8
  <2>2. s \in Slots  BY StorageReadAssumption
  <2>3. ring' = ring /\ Pending' = Pending /\ next' = next  BY <1>4, <2>1 DEF finalize, vars
  <2> QED  BY <2>1, <2>2, <2>3 DEF Steps, finalize
<1>9. CASE store
  <2>1. /\ announced /\ push_block_front(next) /\ Send(RingMessages)
        /\ announced' = announced /\ next' = next
    BY <1>9 DEF store, Announce
  <2>2. ring' = ring \/ Pruned
    <3>1. ring' = ring \/ (is_full /\ TakeOut(Lowest(DOMAIN ring)))  BY <2>1 DEF push_block_front
    <3>2. is_full => DOMAIN ring # {}  
      <4>1. Cardinality({}) = 0  BY FS_EmptySet
      <4> QED  BY <4>1, BlockStoreAssumption DEF is_full
    <3> QED  BY <3>1, <3>2 DEF TakeOut, Pruned
  <2> QED  BY <1>5, <1>6, <2>1, <2>2
<1>10. CASE backfill
  <2>1. ring' = ring /\ announced' = announced /\ next' = next /\ Send(RingMessages)
    BY <1>10 DEF backfill, Announce, push_block_back, vars
  <2> QED  BY <1>5, <2>1
<1>11. CASE go_on
  <2>1. /\ announced' = (announced /\ ~ (announced /\ op.stage = "added"))
        /\ next' = IF announced /\ op.stage = "added" THEN next + 1 ELSE next
        /\ Send(RingMessages)
    BY <1>11 DEF go_on, Announce
  <2>2. op.stage # "added" => announced' = announced /\ next' = next
    <3>1. op.stage # "added" => announced' = announced  BY <1>0, <2>1, Zenon
    <3> QED  BY <2>1, <3>1
  <2>3. op.stage = "added" => announced' = FALSE  BY <1>0, <2>1, Zenon
  <2>4. CASE push_block_done
    <3>1. Grown  BY <2>4 DEF push_block_done, Grown
    <3>2. /\ op.slot \in Slots /\ op.cell \in Cells \union {None} /\ op.side \in {"front", "back"}
          /\ Fits(op)
          /\ RingMessages = <<[type |-> IF op.side = "front" THEN "PushFront" ELSE "PushBack",
                                slot |-> op.slot, cell |-> op.cell]>>
      BY <1>0, <3>1, GrownMessage
    <3>3. op.stage = "added" /\ ~ announced'  BY <2>3, <3>1, Zenon DEF Grown
    <3>4. Pending' = None  BY <1>3, <3>3
    <3>5. CASE op.side = "front"
      <4>1. announced /\ op.slot = next  BY <1>0, <3>3, <3>5 DEF Progress
      <4>2. next' = next + 1  BY <2>1, <3>3, <4>1
      <4> QED  BY <1>1, <2>1, <3>1, <3>2, <3>4, <3>5, <4>1, <4>2 DEF Steps
    <3>6. CASE op.side = "back"
      <4>1. ~ announced  BY <1>0, <3>3, <3>6 DEF Progress
      <4>2. next' = next  BY <2>1, <4>1
      <4>3. op.slot + 1 \in DOMAIN ring /\ \A s \in DOMAIN ring : op.slot < s  BY <3>2, <3>6 DEF Fits
      <4> QED  BY <1>1, <2>1, <3>1, <3>2, <3>4, <3>6, <4>1, <4>2, <4>3 DEF Steps
    <3> QED  BY <3>2, <3>5, <3>6
  <2>5. CASE no_room
    <3>1. op.stage = "join"  BY <2>5 DEF no_room
    <3>2. ring' = ring \/ (op.side = "front" /\ Pruned)  BY <2>5 DEF no_room, TakeOut, Pruned
    <3>3. op.side = "front" => announced  BY <1>0, <3>1 DEF Progress
    <3> QED  BY <1>5, <1>6, <2>1, <2>2, <3>1, <3>2, <3>3
  <2>6. ASSUME op.stage # "added", ring' = ring PROVE Steps  BY <1>5, <2>1, <2>2, <2>6
  <2>7. CASE pop_block_done
    <3>1. op.gone # None /\ ring' = ring  BY <2>7 DEF pop_block_done
    <3>2. op.stage # "added"  BY <1>0, <3>1 DEF StoreInv, OpOK
    <3> QED  BY <2>6, <3>1, <3>2
  <2>8. CASE file_written
    <3>1. op.file = "writing" /\ ring' = ring  BY <2>8 DEF file_written
    <3>2. op.stage # "added"  BY <1>0, <3>1 DEF StoreInv, OpOK
    <3> QED  BY <2>6, <3>1, <3>2
  <2>9. CASE (\E c \in Cells : write_file(c)) \/ send_indexes \/ joined
    <3>1. op.stage = "join" /\ ring' = ring  BY <2>9 DEF write_file, send_indexes, joined
    <3> QED  BY <2>6, <3>1
  <2> QED  BY <1>11, <2>4, <2>5, <2>7, <2>8, <2>9 DEF go_on
<1>12. CASE rocksdb_write /\ Announce /\ UNCHANGED <<next, announced, next_back_slot>>
  <2>1. ring' = ring /\ announced' = announced /\ next' = next /\ Send(RingMessages)
    BY <1>12 DEF rocksdb_write, Announce
  <2> QED  BY <1>5, <2>1
<1> QED  BY <1>7, <1>8, <1>9, <1>10, <1>11, <1>12 DEF Storage

\* The block in process is the next slot.
LEMMA PendingNext ==
    ASSUME Progress, Pending # None
    PROVE  Pending = next /\ next \in Slots
BY PendingIs DEF Progress

\* The writer's index and its block in process are what they are once.
LEMMA WriterView == StoreInv /\ Progress /\ Front => View(ring, Pending)
<1> SUFFICES ASSUME StoreInv, Progress, Front PROVE View(ring, Pending)  OBVIOUS
<1>1. Types /\ RowsFollow /\ Placed /\ Durable  BY DEF StoreInv, Progress
<1>2. IsRows(ring) /\ Consecutive(DOMAIN ring) /\ DeadOrLive(ring)  BY <1>1 DEF Types, Placed, Front
<1>3. \A s, t \in DOMAIN ring : t - s < MaxBlocks  BY <1>1 DEF RowsFollow, Durable
<1>4. ASSUME DOMAIN ring # {} PROVE Highest(DOMAIN ring) = next - 1
  <2>1. next - 1 \in DOMAIN ring  BY <1>4 DEF Front
  <2>2. Highest(DOMAIN ring) \in DOMAIN ring /\ next - 1 <= Highest(DOMAIN ring)
    BY <1>2, <1>4, <2>1, HighestIn DEF IsRows
  <2>3. Highest(DOMAIN ring) < next  BY <2>2 DEF Progress
  <2>4. Highest(DOMAIN ring) \in Int /\ next \in Int  BY <1>2, <2>2 DEF IsRows, Slots, Progress
  <2> QED  BY <2>2, <2>3, <2>4
<1>5. ASSUME Pending # None
      PROVE  /\ Pending \in Slots
             /\ DOMAIN ring # {} => Pending = Highest(DOMAIN ring) + 1
             /\ DOMAIN ring = {} => Lost(Pending - 1)
  <2>1. Pending = next /\ next \in Slots /\ next \in Int  BY <1>5, PendingNext DEF Slots
  <2> QED  BY <1>4, <2>1 DEF Front
<1> QED  BY <1>2, <1>3, <1>5 DEF View, Front

LEMMA WriterViewNext == StoreInv' /\ Progress' /\ Front' => View(ring, Pending)'
BY WriterView, PTL

\* Every step of the writer keeps it that way.
LEMMA FrontNext ==
    ASSUME IndexInv, Front, Moves, Steps, Skips(op')
    PROVE  Front'
<1>0. Types /\ Placed /\ StoreInv /\ Progress  BY DEF IndexInv, StoreInv, Progress
<1>1. DOMAIN ring \subseteq Slots /\ DOMAIN ring \subseteq Int /\ next \in Int /\ next \in Nat \ {0}
  BY <1>0 DEF Types, IsRows, Slots, Progress
<1>2. \A s \in DOMAIN ring : s <= next - 1  BY <1>0, <1>1 DEF Progress
<1>3. ASSUME ring' = ring, next' = next, Pending' = Pending \/ Pending = None PROVE Front'
  <2>1. ASSUME DOMAIN ring' = {} PROVE Pending' # None /\ Lost(next - 1)'
    <3>1. Pending # None /\ Lost(next - 1)  BY <1>3, <2>1 DEF Front
    <3>2. PICK s : s = next - 1  OBVIOUS
    <3>3. Known(s) /\ Known(s)'  BY <3>1, <3>2 DEF Moves, Lost
    <3>4. Lost(s)'  BY <2>1, <3>3 DEF Lost, Reached
    <3>5. s = next' - 1  BY <1>3, <3>2
    <3> QED  BY <1>3, <3>1, <3>4, <3>5
  <2> QED  BY <1>3, <2>1 DEF Front, DeadOrLive
<1>4. ASSUME Pruned, Pending' = Pending, Pending = next, next' = next PROVE Front'
  <2> DEFINE low == Lowest(DOMAIN ring)
  <2>1. DOMAIN ring # {} /\ ring' = Restrict(ring, DOMAIN ring \ {low})  BY <1>4 DEF Pruned
  <2>2. low \in DOMAIN ring /\ \A t \in DOMAIN ring : low <= t  BY <1>1, <2>1, LowestIn
  <2> HIDE DEF low
  <2>3. DOMAIN ring' = DOMAIN ring \ {low} /\ \A t \in DOMAIN ring' : ring'[t] = ring[t]
    BY <2>1 DEF Restrict
  <2>4. next - 1 \in DOMAIN ring  BY <2>1 DEF Front
  <2>5. DeadOrLive(ring')  BY <2>3 DEF Front, DeadOrLive
  <2>6. ASSUME DOMAIN ring' # {} PROVE next' - 1 \in DOMAIN ring'
    <3>1. PICK t \in DOMAIN ring : t # low  BY <2>3, <2>6
    <3>2. low < next - 1  BY <1>1, <1>2, <2>2, <3>1
    <3> QED  BY <1>1, <1>4, <2>2, <2>3, <2>4, <3>2
  <2>7. ASSUME DOMAIN ring' = {} PROVE Pending' # None /\ Lost(next - 1)'
    <3>1. PICK s : s = next - 1  OBVIOUS
    <3>2. Past(ring)  BY <1>0, RingPast
    <3>3. Known(s)  BY <2>4, <3>1, <3>2 DEF Past, Agrees
    <3>4. Known(s)'  BY <3>3 DEF Moves
    <3>5. Lost(s)'  BY <2>7, <3>4 DEF Lost, Reached
    <3>6. s = next' - 1  BY <1>4, <3>1
    <3>7. Pending' # None  BY <1>1, <1>4 DEF None
    <3> QED  BY <3>5, <3>6, <3>7
  <2> QED  BY <2>5, <2>6, <2>7 DEF Front
<1>5. ASSUME Grown, op.slot \in Slots,
             \/ op.slot = next /\ next' = next + 1
             \/ next' = next /\ op.slot + 1 \in DOMAIN ring
      PROVE  Front'
  <2>1. /\ DOMAIN ring' = DOMAIN ring \union {op.slot} /\ ring'[op.slot] = op.cell
        /\ \A t \in DOMAIN ring : t # op.slot => ring'[t] = ring[t]
    BY <1>5 DEF Grown, Put
  <2>2. op.cell = None <=> op.slot \in Skipped  BY <1>5 DEF Front, Skips, Grown
  <2>3. DeadOrLive(ring')  BY <2>1, <2>2 DEF Front, DeadOrLive
  <2>4. next' - 1 \in DOMAIN ring'  BY <1>1, <1>5, <2>1 DEF Front
  <2> QED  BY <2>1, <2>3, <2>4 DEF Front
<1> QED  BY <1>3, <1>4, <1>5 DEF Steps

\* What was once stays that.
LEMMA ViewKept ==
    ASSUME StoreInv, Progress, Moves \/ UNCHANGED writer, NEW rows, NEW proc, View(rows, proc)
    PROVE  View(rows, proc)'
<1>1. CASE Moves
  <2>1. Types /\ Types' /\ Placed  BY <1>1 DEF StoreInv, Moves, Progress
  <2>2. ASSUME NEW s, Lost(s) PROVE Lost(s)'
    <3>1. Known(s)'  BY <1>1, <2>2 DEF Lost, Moves
    <3> QED  BY <1>1, <2>1, <2>2, <3>1, LostKept DEF Moves
  <2>3. Lost(proc - 1) => Lost(proc - 1)'  BY <2>2
  <2> QED  BY <2>3 DEF View, IsRows, DeadOrLive
<1>2. CASE UNCHANGED writer
  <2>1. ring' = ring /\ next' = next /\ next_back_slot' = next_back_slot /\ op' = op  BY <1>2 DEF writer
  <2>2. Lost(proc - 1) => Lost(proc - 1)'  BY <2>1 DEF Lost, Known, Reached
  <2> QED  BY <2>2 DEF View, IsRows, DeadOrLive
<1> QED  BY <1>1, <1>2

\* A slot that is lost stays lost.
LEMMA LostStays ==
    ASSUME StoreInv, Progress, Moves \/ UNCHANGED writer, NEW s, Lost(s)
    PROVE  Lost(s)'
<1>1. CASE Moves
  <2>1. Types /\ Types' /\ Placed  BY <1>1 DEF StoreInv, Moves, Progress
  <2>2. Known(s)'  BY <1>1 DEF Lost, Moves
  <2> QED  BY <1>1, <2>1, <2>2, LostKept DEF Moves
<1>2. CASE UNCHANGED writer
  <2>1. ring' = ring /\ next' = next /\ next_back_slot' = next_back_slot /\ op' = op  BY <1>2 DEF writer
  <2> QED  BY <2>1 DEF Lost, Known, Reached
<1> QED  BY <1>1, <1>2

LEMMA GoesKept ==
    ASSUME StoreInv, Progress, Moves \/ UNCHANGED writer, NEW m, NEW a, NEW b, Goes(m, a, b)
    PROVE  Goes(m, a, b)'
<1>1. Lost(Lowest(DOMAIN a.rows)) => Lost(Lowest(DOMAIN a.rows))'  BY LostStays
<1> QED  BY <1>1 DEF Goes

\* The readers have one more message to handle.
LEMMA TracedMore ==
    ASSUME StoreInv, Progress, Moves, ReadersOK, Traced, reader' = reader, View(ring, Pending)',
           NEW m, Send(<<m>>),
           \A a, b : a.rows = ring /\ a.proc = Pending /\ b.rows = ring' /\ b.proc = Pending'
                       => Goes(m, a, b)'
    PROVE  Traced'
<1>1. ASSUME NEW r \in Readers
      PROVE  /\ Len(inbox'[r]) = Len(inbox[r]) + 1 /\ Len(inbox[r]) \in Nat
             /\ \A i \in 1 .. Len(inbox[r]) : inbox'[r][i] = inbox[r][i]
             /\ inbox'[r][Len(inbox[r]) + 1] = m
  <2>1. inbox'[r] = inbox[r] \o <<m>> /\ inbox[r] \in Seq(Messages)  BY DEF Send, ReadersOK
  <2> QED  BY <2>1
<1>2. ASSUME NEW r \in Readers PROVE (\E h : TracedBy(h, r))'
  <2>1. PICK h : TracedBy(h, r)  BY DEF Traced
  <2>2. PICK k : k = Len(inbox[r]) + 1  OBVIOUS
  <2>3. PICK v : v = [rows |-> ring', proc |-> Pending']  OBVIOUS
  <2>4. v.rows = ring' /\ v.proc = Pending'  BY <2>3
  <2>5. PICK g : g = [i \in 1 .. k + 1 |-> IF i = k + 1 THEN v ELSE h[i]]  OBVIOUS
  <2>6. k \in Nat /\ k >= 1 /\ Len(inbox'[r]) = k  BY <1>1, <2>2
  <2>7. g[k + 1] = v /\ \A i \in 1 .. k : g[i] = h[i]  BY <2>5, <2>6
  <2>8. g[1] = h[1] /\ g[k] = h[k]  BY <2>6, <2>7
  <2>9. \A i \in 1 .. k + 1 : View(g[i].rows, g[i].proc)'
    <3> TAKE i \in 1 .. k + 1
    <3>1. CASE i = k + 1
      <4>1. g[i].rows = ring' /\ g[i].proc = Pending'  BY <2>4, <2>7, <3>1
      <4> QED  BY <4>1
    <3>2. CASE i # k + 1
      <4>1. i \in 1 .. k  BY <2>6, <3>2
      <4>2. View(h[i].rows, h[i].proc)  BY <2>1, <2>2, <4>1 DEF TracedBy
      <4>3. View(h[i].rows, h[i].proc)'  BY <4>2, ViewKept
      <4> QED  BY <2>7, <4>1, <4>3
    <3> QED  BY <3>1, <3>2
  <2>10. \A i \in 1 .. k : Goes(inbox[r][i], g[i], g[i + 1])'
    <3> TAKE i \in 1 .. k
    <3>1. CASE i = k
      <4>1. g[k].rows = ring /\ g[k].proc = Pending  BY <2>1, <2>2, <2>8 DEF TracedBy
      <4>2. Goes(m, g[k], g[k + 1])'  BY <2>4, <2>7, <4>1
      <4>3. inbox'[r][k] = m  BY <1>1, <2>2
      <4> QED  BY <3>1, <4>2, <4>3
    <3>2. CASE i # k
      <4>1. i \in 1 .. Len(inbox[r]) /\ i + 1 \in 1 .. k  BY <1>1, <2>2, <2>6, <3>2
      <4>2. Goes(inbox[r][i], h[i], h[i + 1])  BY <2>1, <4>1 DEF TracedBy
      <4>3. PICK x : x = inbox[r][i]  OBVIOUS
      <4>4. Goes(x, h[i], h[i + 1])  BY <4>2, <4>3
      <4>5. Goes(x, h[i], h[i + 1])'  BY <4>4, GoesKept
      <4>6. inbox'[r][i] = x /\ g[i] = h[i] /\ g[i + 1] = h[i + 1]  BY <1>1, <2>6, <2>7, <4>1, <4>3
      <4> QED  BY <4>5, <4>6
    <3> QED  BY <3>1, <3>2
  <2>11. g[1].rows = reader'[r].ring /\ g[1].proc = reader'[r].inproc  BY <2>1, <2>8 DEF TracedBy
  <2>12. TracedBy(g, r)'  BY <2>4, <2>6, <2>7, <2>9, <2>10, <2>11 DEF TracedBy
  <2> QED  BY <2>12
<1> QED  BY <1>2 DEF Traced

\* Nothing is sent and nothing moves that a reader follows.
LEMMA TracedSame ==
    ASSUME StoreInv, Progress, Moves \/ UNCHANGED writer, ReadersOK, Traced,
           \A r \in Readers : reader'[r].ring = reader[r].ring /\ reader'[r].inproc = reader[r].inproc,
           inbox' = inbox, ring' = ring, Pending' = Pending
    PROVE  Traced'
<1>1. ASSUME NEW r \in Readers PROVE (\E h : TracedBy(h, r))'
  <2>1. PICK h : TracedBy(h, r)  BY DEF Traced
  <2>2. \A i \in 1 .. Len(inbox[r]) + 1 : View(h[i].rows, h[i].proc)'
    BY <2>1, ViewKept DEF TracedBy
  <2>3. \A i \in 1 .. Len(inbox[r]) : Goes(inbox[r][i], h[i], h[i + 1])'
    <3> TAKE i \in 1 .. Len(inbox[r])
    <3>1. PICK x : x = inbox[r][i]  OBVIOUS
    <3>2. Goes(x, h[i], h[i + 1])  BY <2>1, <3>1 DEF TracedBy
    <3>3. Goes(x, h[i], h[i + 1])'  BY <3>2, GoesKept
    <3> QED  BY <3>1, <3>3
  <2>4. TracedBy(h, r)'  BY <2>1, <2>2, <2>3 DEF TracedBy
  <2> QED  BY <2>4
<1> QED  BY <1>1 DEF Traced

\* Every step of the writer is one the readers can follow.
LEMMA StorageTraced ==
    ASSUME IndexInv, Front, Traced, Moves, Steps, Front', reader' = reader
    PROVE  Traced'
<1>0. StoreInv /\ Progress /\ ReadersOK /\ Types /\ StoreInv' /\ Progress'
  BY DEF IndexInv, StoreInv, Moves
<1>1. View(ring, Pending)'  BY <1>0, WriterViewNext
<1>2. ASSUME NEW m, Send(<<m>>),
             \A a, b : a.rows = ring /\ a.proc = Pending /\ b.rows = ring' /\ b.proc = Pending'
                         => Goes(m, a, b)'
      PROVE  Traced'
  BY <1>0, <1>1, <1>2, TracedMore
<1>3. CASE ring' = ring /\ Pending' = Pending /\ inbox' = inbox  BY <1>0, <1>3, TracedSame
<1>4. ASSUME ring' = ring, Pending' = Pending, NEW s, Send(<<[type |-> "SlotFinalized", slot |-> s]>>)
      PROVE  Traced'
  <2> DEFINE m == [type |-> "SlotFinalized", slot |-> s]
  <2>1. m.type = "SlotFinalized" /\ Send(<<m>>)  BY <1>4
  <2> HIDE DEF m
  <2> QED  BY <1>2, <1>4, <2>1 DEF Goes
<1>5. ASSUME ring' = ring, Pending = None, Pending' = next,
             Send(<<[type |-> "BlockConfirmed", slot |-> next]>>)
      PROVE  Traced'
  <2> DEFINE m == [type |-> "BlockConfirmed", slot |-> next]
  <2>1. m.type = "BlockConfirmed" /\ m.slot = next /\ Send(<<m>>)  BY <1>5
  <2>2. PICK x : x = m  OBVIOUS
  <2> HIDE DEF m
  <2>3. x.type = "BlockConfirmed" /\ x.slot = next /\ Send(<<x>>)  BY <2>1, <2>2
  <2>4. \A a, b : a.rows = ring /\ a.proc = Pending /\ b.rows = ring' /\ b.proc = Pending'
                         => Goes(x, a, b)'
    BY <1>5, <2>3 DEF Goes
  <2> QED  BY <1>2, <2>3, <2>4
<1>6. ASSUME Pruned, Pending' = Pending, Pending = next, Send(<<[type |-> "PopBack"]>>) PROVE Traced'
  <2> DEFINE m == [type |-> "PopBack"]
  <2>1. m.type = "PopBack" /\ Send(<<m>>)  BY <1>6
  <2> HIDE DEF m
  <2>2. PICK low : low = Lowest(DOMAIN ring)  OBVIOUS
  <2>3. DOMAIN ring # {} /\ ring' = Restrict(ring, DOMAIN ring \ {low})  BY <1>6, <2>2 DEF Pruned
  <2>4. DOMAIN ring \subseteq Slots /\ DOMAIN ring \subseteq Int  BY <1>0 DEF Types, IsRows, Slots
  <2>5. low \in DOMAIN ring /\ \A t \in DOMAIN ring : low <= t  BY <2>2, <2>3, <2>4, LowestIn
  <2>6. DOMAIN ring' = DOMAIN ring \ {low}  BY <2>3 DEF Restrict
  <2>7. Lost(low)'
    <3>1. Past(ring) /\ Placed  BY <1>0, RingPast DEF StoreInv, Progress
    <3>2. Known(low)  BY <2>5, <3>1 DEF Past, Agrees
    <3>3. Known(low)'  BY <3>2 DEF Moves
    <3>4. ASSUME DOMAIN ring' # {} PROVE ~ (Lowest(DOMAIN ring') <= low)
      <4>1. Lowest(DOMAIN ring') \in DOMAIN ring'  BY <2>4, <2>6, <3>4, LowestIn
      <4> QED  BY <2>4, <2>5, <2>6, <4>1
    <3> QED  BY <3>3, <3>4 DEF Lost, Reached
  <2>8. Pending # None  BY <1>0, <1>6 DEF Progress, None
  <2>9. ASSUME NEW a, NEW b, a.rows = ring, a.proc = Pending, b.rows = ring', b.proc = Pending'
        PROVE  Goes(m, a, b)'
    <3>1. Lowest(DOMAIN a.rows) = low  BY <2>2, <2>9
    <3>2. Lost(Lowest(DOMAIN a.rows))'  BY <2>7, <3>1
    <3>3. b.rows = Restrict(a.rows, DOMAIN a.rows \ {Lowest(DOMAIN a.rows)})
      BY <2>3, <2>9, <3>1
    <3>4. a.proc # None /\ b.proc = a.proc /\ DOMAIN a.rows # {}  BY <1>6, <2>3, <2>8, <2>9
    <3> QED  BY <2>1, <3>2, <3>3, <3>4 DEF Goes
  <2> QED  BY <1>2, <2>1, <2>9
<1>7. ASSUME Grown, op.slot = next, Pending = next, Pending' = None,
             Send(<<[type |-> "PushFront", slot |-> op.slot, cell |-> op.cell]>>)
      PROVE  Traced'
  <2>1. PICK m : m = [type |-> "PushFront", slot |-> op.slot, cell |-> op.cell]  OBVIOUS
  <2>2. m.type = "PushFront" /\ m.slot = op.slot /\ m.cell = op.cell /\ Send(<<m>>)  BY <1>7, <2>1
  <2>3. ring' = Put(ring, m.slot, m.cell)  BY <1>7, <2>2 DEF Grown
  <2>4. \A a, b : a.rows = ring /\ a.proc = Pending /\ b.rows = ring' /\ b.proc = Pending'
                         => Goes(m, a, b)'
    BY <1>7, <2>2, <2>3 DEF Goes
  <2> QED  BY <1>2, <2>2, <2>4
<1>8. ASSUME Grown, Pending = None, Pending' = None, \A s \in DOMAIN ring : op.slot < s,
             Send(<<[type |-> "PushBack", slot |-> op.slot, cell |-> op.cell]>>)
      PROVE  Traced'
  <2>1. PICK m : m = [type |-> "PushBack", slot |-> op.slot, cell |-> op.cell]  OBVIOUS
  <2>2. m.type = "PushBack" /\ m.slot = op.slot /\ m.cell = op.cell /\ Send(<<m>>)  BY <1>8, <2>1
  <2>3. ring' = Put(ring, m.slot, m.cell) /\ \A s \in DOMAIN ring : m.slot < s
    BY <1>8, <2>2 DEF Grown
  <2>4. \A a, b : a.rows = ring /\ a.proc = Pending /\ b.rows = ring' /\ b.proc = Pending'
                         => Goes(m, a, b)'
    BY <1>8, <2>2, <2>3 DEF Goes
  <2> QED  BY <1>2, <2>2, <2>4
<1> QED  BY <1>3, <1>4, <1>5, <1>6, <1>7, <1>8 DEF Steps

-----------------------------------------------------------------------------
(***************************************************************************)
(* The readers.                                                            *)
(***************************************************************************)

\* The newest slot a reader has heard of.
Top(R) == IF R.inproc # None THEN R.inproc ELSE Highest(DOMAIN R.ring)

\* The blocks that are known by their hash.
RecentOK(R) ==
    /\ R.recent \subseteq LiveSlots
    /\ R.confirmed \in LiveSlots => R.confirmed \in R.recent

\* A reader that starts takes the newest block it knows by its hash for
\* confirmed: there may be a newer slot without a block, or slots that the start
\* has taken back, or no such block.  The first message puts it right.
StartLevel(R) ==
    R.confirmed \in LiveSlots /\ \A t \in LiveSlots : t <= Top(R) => t <= R.confirmed

ReaderLevels(R) ==
    /\ ~ R.failed
    /\ R.confirmed \in Nat /\ R.finalized \in Nat /\ R.heard \in Nat /\ R.told \in Nat
    /\ R.height \in Nat /\ R.peak \in Nat /\ R.height <= R.peak
    /\ R.inproc # None => R.confirmed = R.inproc
    /\ R.finalized <= R.heard
    /\ R.told > 0 => R.confirmed = R.told /\ R.told = Top(R)
    /\ R.told = 0 => R.inproc = None /\ (R.confirmed = 0 \/ StartLevel(R))
    /\ R.confirmed \in Skipped \/ R.height = Height(R.confirmed)

\* What the readers publish is what every reader has handled.
PublishedFor(R) ==
    /\ ~ Seeded => stored.confirmed <= R.told
    /\ stored.finalized <= R.heard

\* A reader takes a slot for confirmed and has heard of it.
Reaches(R, s) == s <= R.confirmed /\ s <= Top(R)

\* One finalized slot is under way at a time, above those handled.
OneFinalized ==
    \A r \in Readers : \A i \in 1 .. Len(inbox[r]) :
        inbox[r][i].type = "SlotFinalized" =>
            /\ reader[r].heard < inbox[r][i].slot
            /\ \A j \in 1 .. Len(inbox[r]) : inbox[r][j].type = "SlotFinalized" => j = i

Levels ==
    /\ stored.confirmed \in Nat /\ stored.finalized \in Nat
    /\ \A r \in Readers : /\ ReaderLevels(reader[r]) /\ RecentOK(reader[r])
                          /\ PublishedFor(reader[r])
    /\ OneFinalized

MemoryInv == Front /\ Traced /\ Levels

\* The blocks up to a slot are counted.
LEMMA HeightNat ==
    /\ IsFiniteSet(LiveSlots)
    /\ \A s : Height(s) \in Nat
<1>1. IsFiniteSet(Slots)  BY FS_Interval, BlockStoreAssumption DEF Slots
<1>2. LiveSlots \subseteq Slots  BY DEF LiveSlots
<1>3. IsFiniteSet(LiveSlots)  BY <1>1, <1>2, FS_Subset
<1>4. ASSUME NEW s PROVE Height(s) \in Nat
  <2>1. {t \in LiveSlots : t <= s} \subseteq LiveSlots  OBVIOUS
  <2>2. IsFiniteSet({t \in LiveSlots : t <= s})  BY <1>3, <2>1, FS_Subset
  <2> QED  BY <2>2, FS_CardinalityType DEF Height
<1> QED  BY <1>3, <1>4

\* If no block lies above a slot and up to another, the other is no higher.
LEMMA HeightLe ==
    ASSUME NEW s, NEW t, \A u \in LiveSlots : u <= s => u <= t
    PROVE  Height(s) <= Height(t)
<1> DEFINE S == {u \in LiveSlots : u <= s}
           T == {u \in LiveSlots : u <= t}
<1>1. T \subseteq LiveSlots /\ S \subseteq T  OBVIOUS
<1>2. IsFiniteSet(T)  BY <1>1, HeightNat, FS_Subset
<1> HIDE DEF S, T
<1>3. Cardinality(S) <= Cardinality(T)  BY <1>1, <1>2, FS_Subset
<1> QED  BY <1>3 DEF Height, S, T

LEMMA HeightOrder ==
    ASSUME NEW s \in Int, NEW t \in Int, s <= t
    PROVE  Height(s) <= Height(t)
<1>1. LiveSlots \subseteq Int  BY DEF LiveSlots, Slots
<1>2. \A u \in LiveSlots : u <= s => u <= t  BY <1>1
<1> QED  BY <1>2, HeightLe

\* The newest slot is a slot.
LEMMA TopIn ==
    ASSUME NEW R, View(R.ring, R.inproc)
    PROVE  /\ Top(R) \in Slots
           /\ DOMAIN R.ring # {} => /\ Highest(DOMAIN R.ring) \in DOMAIN R.ring
                                    /\ \A t \in DOMAIN R.ring : t <= Highest(DOMAIN R.ring)
                                    /\ R.inproc # None => R.inproc = Highest(DOMAIN R.ring) + 1
<1>1. DOMAIN R.ring \subseteq Slots  BY DEF View, IsRows
<1>2. DOMAIN R.ring # {} => Highest(DOMAIN R.ring) \in DOMAIN R.ring
                             /\ \A t \in DOMAIN R.ring : t <= Highest(DOMAIN R.ring)
  BY <1>1, HighestIn
<1> QED  BY <1>1, <1>2 DEF View, Top

\* What BlockConfirmed does to a reader that was R.
Confirms(R, P, slot) ==
    /\ P.confirmed = slot /\ P.told = slot
    /\ P.height \in ConfirmedHeights(R, slot)
    /\ P.peak = IF R.peak < P.height THEN P.height ELSE R.peak
    /\ P.recent = Recent(R, slot, P.height)

SameConfirmed(R, P) ==
    /\ P.confirmed = R.confirmed /\ P.told = R.told /\ P.height = R.height /\ P.peak = R.peak
    /\ P.recent = R.recent

LEMMA BlockConfirmedIs ==
    ASSUME ReadersOK, NEW r \in Readers, NEW m, block_confirmed(r, m)
    PROVE  /\ Confirms(reader[r], reader'[r], m.slot) /\ reader'[r].inproc = m.slot
           /\ \A q \in Readers \ {r} : reader'[q] = reader[q]
           /\ reader'[r].ring = reader[r].ring /\ reader'[r].extra = reader[r].extra
           /\ reader'[r].heard = reader[r].heard /\ reader'[r].finalized = reader[r].finalized
           /\ reader'[r].failed = reader[r].failed
<1>1. DOMAIN reader = Readers /\ DOMAIN reader[r] = ReaderFields  BY DEF ReadersOK
<1>2. PICK d \in ConfirmedHeights(reader[r], m.slot) :
        reader' = [reader EXCEPT ![r] = set_confirmed(reader[r], m.slot, d)]
  BY DEF block_confirmed
<1>3. PICK e : e = IF reader[r].peak < d THEN d ELSE reader[r].peak  OBVIOUS
<1>4. PICK f : f = Recent(reader[r], m.slot, d)  OBVIOUS
<1>5. set_confirmed(reader[r], m.slot, d)
        = [reader[r] EXCEPT !.confirmed = m.slot, !.told = m.slot,
                     !.inproc = m.slot, !.height = d, !.peak = e, !.recent = f]
  BY <1>3, <1>4 DEF set_confirmed
<1>6. reader' = [reader EXCEPT ![r] = [reader[r] EXCEPT !.confirmed = m.slot, !.told = m.slot,
                     !.inproc = m.slot, !.height = d, !.peak = e, !.recent = f]]
  BY <1>2, <1>5, Zenon
<1>7. /\ reader'[r].confirmed = m.slot /\ reader'[r].told = m.slot /\ reader'[r].inproc = m.slot
      /\ reader'[r].height = d /\ reader'[r].peak = e /\ reader'[r].recent = f
      /\ \A q \in Readers \ {r} : reader'[q] = reader[q]
      /\ reader'[r].ring = reader[r].ring /\ reader'[r].extra = reader[r].extra
      /\ reader'[r].heard = reader[r].heard /\ reader'[r].finalized = reader[r].finalized
      /\ reader'[r].failed = reader[r].failed
  BY <1>1, <1>6 DEF ReaderFields
<1>8. Confirms(reader[r], reader'[r], m.slot)  BY <1>3, <1>4, <1>7 DEF Confirms
<1> QED  BY <1>7, <1>8

\* What a reader does with a message, field by field.
LEMMA HandleIs ==
    ASSUME IndexInv, NEW r \in Readers, receive(r), NEW m, m = inbox[r][1]
    PROVE  /\ m \in Messages /\ Len(inbox[r]) \in Nat \ {0} /\ Len(inbox'[r]) = Len(inbox[r]) - 1
           /\ \A i \in 1 .. Len(inbox[r]) - 1 : inbox'[r][i] = inbox[r][i + 1]
           /\ \A q \in Readers \ {r} : reader'[q] = reader[q] /\ inbox'[q] = inbox[q]
           /\ stored'.first = stored.first
           /\ m.type = "BlockConfirmed" => reader'[r].inproc = m.slot /\ Confirms(reader[r], reader'[r], m.slot)
           /\ m.type # "BlockConfirmed" => SameConfirmed(reader[r], reader'[r])
           /\ m.type = "SlotFinalized" =>
                /\ reader'[r].heard = m.slot /\ reader'[r].finalized \in {reader[r].finalized, m.slot}
           /\ m.type # "SlotFinalized" =>
                /\ reader'[r].heard = reader[r].heard /\ reader'[r].finalized = reader[r].finalized
                /\ stored'.finalized = stored.finalized
           /\ m.type = "PushFront" => reader'[r].inproc = None
           /\ m.type \notin {"BlockConfirmed", "PushFront"} => reader'[r].inproc = reader[r].inproc
           /\ m.type \in {"PushFront", "PushBack"} =>
                reader'[r].ring = Put(reader[r].ring, m.slot, m.cell)
           /\ m.type = "PopBack" =>
                reader'[r].ring = Restrict(reader[r].ring,
                                           DOMAIN reader[r].ring \ {Lowest(DOMAIN reader[r].ring)})
           /\ m.type \in {"BlockConfirmed", "SlotFinalized"} => reader'[r].ring = reader[r].ring
           /\ \/ stored'.confirmed = stored.confirmed /\ stored'.source = stored.source
              \/ /\ m.type = "BlockConfirmed" /\ stored'.confirmed = m.slot
                 /\ \A q \in Readers \ {r} : reader[q].told >= m.slot
           /\ \/ stored'.finalized = stored.finalized
              \/ /\ m.type = "SlotFinalized" /\ stored'.finalized = m.slot
                 /\ \A q \in Readers \ {r} : reader[q].heard >= m.slot
<1>0. ReadersOK /\ FirstFollows  BY DEF IndexInv
<1>1. /\ inbox[r] # <<>> /\ inbox' = [inbox EXCEPT ![r] = Tail(inbox[r])]
      /\ inbox[r] \in Seq(Messages)
  BY <1>0 DEF receive, ReadersOK
<1>2. /\ m = Head(inbox[r]) /\ m \in Messages /\ Len(inbox[r]) \in Nat \ {0}
      /\ Len(Tail(inbox[r])) = Len(inbox[r]) - 1
      /\ \A i \in 1 .. Len(inbox[r]) - 1 : Tail(inbox[r])[i] = inbox[r][i + 1]
  BY <1>1
<1>3. inbox'[r] = Tail(inbox[r]) /\ \A q \in Readers \ {r} : inbox'[q] = inbox[q]
  BY <1>0, <1>1 DEF ReadersOK
<1>4. block_confirmed(r, m) \/ slot_finalized(r, m) \/ replica_update(r, m)  BY <1>2 DEF receive
<1>5. DOMAIN reader = Readers /\ DOMAIN reader[r] = ReaderFields
      /\ DOMAIN stored = {"confirmed", "finalized", "first", "source"}
  BY <1>0 DEF ReadersOK, FirstFollows
<1>6. CASE block_confirmed(r, m)
  <2>1. /\ m.type = "BlockConfirmed"
        /\ \/ stored' = stored
           \/ /\ AllHandled(r, "told", m.slot)
              /\ stored' = [stored EXCEPT !.confirmed = m.slot, !.source = "readers"]
    BY <1>6 DEF block_confirmed
  <2>2. /\ Confirms(reader[r], reader'[r], m.slot) /\ reader'[r].inproc = m.slot
        /\ \A q \in Readers \ {r} : reader'[q] = reader[q]
        /\ reader'[r].ring = reader[r].ring
        /\ reader'[r].heard = reader[r].heard /\ reader'[r].finalized = reader[r].finalized
    BY <1>0, <1>6, BlockConfirmedIs
  <2>3. AllHandled(r, "told", m.slot) => \A q \in Readers \ {r} : reader[q].told >= m.slot
    BY DEF AllHandled
  <2>4. /\ stored'.first = stored.first /\ stored'.finalized = stored.finalized
        /\ (stored'.confirmed = stored.confirmed /\ stored'.source = stored.source)
           \/ (stored'.confirmed = m.slot /\ \A q \in Readers \ {r} : reader[q].told >= m.slot)
    BY <1>5, <2>1, <2>3
  <2> QED  BY <1>2, <1>3, <2>1, <2>2, <2>4
<1>7. CASE slot_finalized(r, m)
  <2>1. PICK x \in {reader[r].finalized, m.slot} :
          /\ m.type = "SlotFinalized"
          /\ reader' = [reader EXCEPT ![r].heard = m.slot, ![r].finalized = x]
          /\ \/ stored' = stored
             \/ AllHandled(r, "heard", m.slot) /\ stored' = [stored EXCEPT !.finalized = m.slot]
    BY <1>5, <1>7 DEF slot_finalized
  <2>2. /\ \A q \in Readers \ {r} : reader'[q] = reader[q]
        /\ SameConfirmed(reader[r], reader'[r]) /\ reader'[r].inproc = reader[r].inproc
        /\ reader'[r].heard = m.slot /\ reader'[r].finalized = x
        /\ reader'[r].ring = reader[r].ring
    BY <1>5, <2>1 DEF ReaderFields, SameConfirmed
  <2>3. AllHandled(r, "heard", m.slot) => \A q \in Readers \ {r} : reader[q].heard >= m.slot
    BY DEF AllHandled
  <2>4. /\ stored'.first = stored.first /\ stored'.confirmed = stored.confirmed
        /\ stored'.source = stored.source
        /\ stored'.finalized = stored.finalized
           \/ (stored'.finalized = m.slot /\ \A q \in Readers \ {r} : reader[q].heard >= m.slot)
    BY <1>5, <2>1, <2>3
  <2> QED  BY <1>2, <1>3, <2>1, <2>2, <2>4
<1>8. CASE replica_update(r, m)
  <2>1. stored' = stored /\ m.type \in {"PopBack", "PushBack", "PushFront"}  BY <1>8 DEF replica_update
  <2>2. CASE m.type = "PushFront"
    <3>1. PICK x, z : reader' = [reader EXCEPT ![r].ring = x, ![r].inproc = None, ![r].failed = z]
                      /\ x = Put(reader[r].ring, m.slot, m.cell)
      <4>1. reader' = [reader EXCEPT ![r].ring = Put(reader[r].ring, m.slot, m.cell),
                                     ![r].inproc = None,
                                     ![r].failed = (reader[r].inproc # m.slot)]
        BY <1>8, <2>2 DEF replica_update
      <4> QED  BY <4>1, Zenon
    <3>2. /\ \A q \in Readers \ {r} : reader'[q] = reader[q]
          /\ SameConfirmed(reader[r], reader'[r]) /\ reader'[r].inproc = None
          /\ reader'[r].heard = reader[r].heard /\ reader'[r].finalized = reader[r].finalized
          /\ reader'[r].ring = Put(reader[r].ring, m.slot, m.cell)
      BY <1>5, <3>1 DEF ReaderFields, SameConfirmed
    <3> QED  BY <1>2, <1>3, <2>1, <2>2, <3>2
  <2>3. CASE m.type # "PushFront"
    <3>1. PICK x : /\ reader' = [reader EXCEPT ![r].ring = x]
                   /\ m.type = "PushBack" => x = Put(reader[r].ring, m.slot, m.cell)
                   /\ m.type = "PopBack" =>
                        x = Restrict(reader[r].ring,
                                     DOMAIN reader[r].ring \ {Lowest(DOMAIN reader[r].ring)})
      BY <1>8, <2>3 DEF replica_update
    <3>2. /\ \A q \in Readers \ {r} : reader'[q] = reader[q]
          /\ SameConfirmed(reader[r], reader'[r]) /\ reader'[r].inproc = reader[r].inproc
          /\ reader'[r].heard = reader[r].heard /\ reader'[r].finalized = reader[r].finalized
          /\ reader'[r].ring = x
      BY <1>5, <3>1 DEF ReaderFields, SameConfirmed
    <3> QED  BY <1>2, <1>3, <2>1, <2>3, <3>1, <3>2
  <2> QED  BY <2>2, <2>3
<1> QED  BY <1>4, <1>6, <1>7, <1>8

\* No reader stops, if the message is one it can follow.
LEMMA HandleFails ==
    ASSUME IndexInv, NEW r \in Readers, receive(r), ~ reader[r].failed,
           inbox[r][1].type = "PushFront" => reader[r].inproc = inbox[r][1].slot
    PROVE  ~ reader'[r].failed
<1>0. ReadersOK /\ DOMAIN reader = Readers /\ DOMAIN reader[r] = ReaderFields  BY DEF IndexInv, ReadersOK
<1>1. PICK m : m = Head(inbox[r])  OBVIOUS
<1>2. m = inbox[r][1]  BY <1>1 DEF IndexInv, ReadersOK, receive
<1>3. block_confirmed(r, m) \/ slot_finalized(r, m) \/ replica_update(r, m)  BY <1>1 DEF receive
<1>4. CASE block_confirmed(r, m)
  <2>1. reader'[r].failed = reader[r].failed  BY <1>0, <1>4, BlockConfirmedIs
  <2> QED  BY <2>1, Zenon
<1>5. CASE slot_finalized(r, m)
  <2>1. PICK x : reader' = [reader EXCEPT ![r].heard = m.slot, ![r].finalized = x]
    BY <1>5 DEF slot_finalized
  <2>2. reader'[r].failed = reader[r].failed  BY <1>0, <2>1 DEF ReaderFields
  <2> QED  BY <2>2, Zenon
<1>6. CASE replica_update(r, m)
  <2>1. CASE m.type = "PushFront"
    <3>1. PICK x, z : /\ reader' = [reader EXCEPT ![r].ring = x, ![r].inproc = None, ![r].failed = z]
                      /\ z = (reader[r].inproc # m.slot)
      <4>1. reader' = [reader EXCEPT ![r].ring = Put(reader[r].ring, m.slot, m.cell),
                                     ![r].inproc = None,
                                     ![r].failed = (reader[r].inproc # m.slot)]
        BY <1>6, <2>1 DEF replica_update
      <4> QED  BY <4>1, Zenon
    <3>2. reader'[r].failed = z  BY <1>0, <3>1 DEF ReaderFields
    <3>3. reader[r].inproc = m.slot  BY <1>2, <2>1
    <3>4. ~ z  BY <3>1, <3>3, Zenon
    <3> QED  BY <3>2, <3>4, Zenon
  <2>2. CASE m.type # "PushFront"
    <3>1. PICK x : reader' = [reader EXCEPT ![r].ring = x]  BY <1>6, <2>2 DEF replica_update
    <3>2. reader'[r].failed = reader[r].failed  BY <1>0, <3>1 DEF ReaderFields
    <3> QED  BY <3>2, Zenon
  <2> QED  BY <2>1, <2>2
<1> QED  BY <1>3, <1>4, <1>5, <1>6

\* A reader that handles a message goes on to what the writer's index and
\* block in process were next.
LEMMA HandleView ==
    ASSUME IndexInv, Traced, NEW r \in Readers, receive(r), NEW m, m = inbox[r][1]
    PROVE  /\ Traced'
           /\ View(reader[r].ring, reader[r].inproc)
           /\ View(reader'[r].ring, reader'[r].inproc)
           /\ m.type = "BlockConfirmed" => reader[r].inproc = None
           /\ m.type = "PushFront" => reader[r].inproc = m.slot
           /\ m.type = "PushBack" =>
                reader[r].inproc = None /\ \A s \in DOMAIN reader[r].ring : m.slot < s
           /\ m.type = "PopBack" =>
                /\ reader[r].inproc # None /\ DOMAIN reader[r].ring # {}
                /\ Lost(Lowest(DOMAIN reader[r].ring))
<1>0. StoreInv /\ Progress /\ ReadersOK  BY DEF IndexInv
<1>1. UNCHANGED writer  BY DEF receive
<1>2. ring' = ring /\ next' = next /\ announced' = announced /\ Pending' = Pending
  BY <1>1 DEF writer, Pending
<1>3. /\ m \in Messages /\ Len(inbox[r]) \in Nat \ {0} /\ Len(inbox'[r]) = Len(inbox[r]) - 1
      /\ \A i \in 1 .. Len(inbox[r]) - 1 : inbox'[r][i] = inbox[r][i + 1]
      /\ \A q \in Readers \ {r} : reader'[q] = reader[q] /\ inbox'[q] = inbox[q]
      /\ m.type = "BlockConfirmed" => reader'[r].inproc = m.slot
      /\ m.type = "PushFront" => reader'[r].inproc = None
      /\ m.type \notin {"BlockConfirmed", "PushFront"} => reader'[r].inproc = reader[r].inproc
      /\ m.type \in {"PushFront", "PushBack"} =>
           reader'[r].ring = Put(reader[r].ring, m.slot, m.cell)
      /\ m.type = "PopBack" =>
           reader'[r].ring = Restrict(reader[r].ring,
                                      DOMAIN reader[r].ring \ {Lowest(DOMAIN reader[r].ring)})
      /\ m.type \in {"BlockConfirmed", "SlotFinalized"} => reader'[r].ring = reader[r].ring
  BY HandleIs
<1>4. m.type \in {"PopBack", "PushFront", "PushBack", "BlockConfirmed", "SlotFinalized"}
  BY <1>3 DEF Messages
<1>5. PICK h : TracedBy(h, r)  BY DEF Traced
<1>6. /\ h[1].rows = reader[r].ring /\ h[1].proc = reader[r].inproc
      /\ View(h[1].rows, h[1].proc) /\ View(h[2].rows, h[2].proc) /\ Goes(m, h[1], h[2])
  <2>1. 1 \in 1 .. Len(inbox[r]) /\ 1 + 1 = 2 /\ 1 \in 1 .. Len(inbox[r]) + 1
        /\ 2 \in 1 .. Len(inbox[r]) + 1
    BY <1>3
  <2> QED  BY <1>5, <2>1 DEF TracedBy
<1>7. h[2].rows = reader'[r].ring /\ h[2].proc = reader'[r].inproc
  <2>1. CASE m.type = "BlockConfirmed"  BY <1>3, <1>6, <2>1 DEF Goes
  <2>2. CASE m.type = "SlotFinalized"  BY <1>3, <1>6, <2>2 DEF Goes
  <2>3. CASE m.type = "PushFront"  BY <1>3, <1>6, <2>3 DEF Goes
  <2>4. CASE m.type = "PushBack"  BY <1>3, <1>6, <2>4 DEF Goes
  <2>5. CASE m.type = "PopBack"  BY <1>3, <1>6, <2>5 DEF Goes
  <2> QED  BY <1>4, <2>1, <2>2, <2>3, <2>4, <2>5
<1>8. ASSUME NEW q \in Readers PROVE (\E g : TracedBy(g, q))'
  <2>1. CASE q # r
    <3>1. PICK g : TracedBy(g, q)  BY DEF Traced
    <3>2. inbox'[q] = inbox[q] /\ reader'[q] = reader[q]  BY <1>3, <2>1
    <3>3. \A i \in 1 .. Len(inbox[q]) + 1 : View(g[i].rows, g[i].proc)'
      BY <1>0, <1>1, <3>1, ViewKept DEF TracedBy
    <3>4. \A i \in 1 .. Len(inbox[q]) : Goes(inbox[q][i], g[i], g[i + 1])'
      <4> TAKE i \in 1 .. Len(inbox[q])
      <4>1. PICK x : x = inbox[q][i]  OBVIOUS
      <4>2. Goes(x, g[i], g[i + 1])  BY <3>1, <4>1 DEF TracedBy
      <4>3. Goes(x, g[i], g[i + 1])'  BY <1>0, <1>1, <4>2, GoesKept
      <4>4. inbox'[q][i] = x  BY <3>2, <4>1
      <4> QED  BY <4>3, <4>4
    <3>5. TracedBy(g, q)'  BY <1>2, <3>1, <3>2, <3>3, <3>4 DEF TracedBy
    <3> QED  BY <3>5
  <2>2. CASE q = r
    <3>1. PICK k : k = Len(inbox[r])  OBVIOUS
    <3>2. PICK g : g = [i \in 1 .. k |-> h[i + 1]]  OBVIOUS
    <3>3. k \in Nat \ {0} /\ Len(inbox'[r]) = k - 1 /\ (k - 1) + 1 = k  BY <1>3, <3>1
    <3>4. g[1] = h[2] /\ g[k] = h[k + 1]  BY <3>2, <3>3
    <3>5. \A i \in 1 .. k : View(g[i].rows, g[i].proc)'
      <4> TAKE i \in 1 .. k
      <4>1. i + 1 \in 1 .. k + 1 /\ g[i] = h[i + 1]  BY <3>2, <3>3
      <4>2. View(h[i + 1].rows, h[i + 1].proc)  BY <1>5, <3>1, <4>1 DEF TracedBy
      <4>3. View(h[i + 1].rows, h[i + 1].proc)'  BY <1>0, <1>1, <4>2, ViewKept
      <4> QED  BY <4>1, <4>3
    <3>6. \A i \in 1 .. k - 1 : Goes(inbox[r][i], g[i], g[i + 1])'
      <4> TAKE i \in 1 .. k - 1
      <4>1. i + 1 \in 1 .. k /\ g[i] = h[i + 1] /\ g[i + 1] = h[(i + 1) + 1]  BY <3>2, <3>3
      <4>2. PICK x : x = inbox[r][i + 1]  OBVIOUS
      <4>3. inbox'[r][i] = x  BY <1>3, <3>1, <4>2
      <4>4. Goes(x, h[i + 1], h[(i + 1) + 1])  BY <1>5, <3>1, <4>1, <4>2 DEF TracedBy
      <4>5. Goes(x, h[i + 1], h[(i + 1) + 1])'  BY <1>0, <1>1, <4>4, GoesKept
      <4> QED  BY <4>1, <4>3, <4>5
    <3>7. /\ g[1].rows = reader'[r].ring /\ g[1].proc = reader'[r].inproc
          /\ g[k].rows = ring' /\ g[k].proc = Pending'
      BY <1>2, <1>5, <1>7, <3>1, <3>4 DEF TracedBy
    <3>8. TracedBy(g, r)'  BY <3>3, <3>5, <3>6, <3>7 DEF TracedBy
    <3> QED  BY <2>2, <3>8
  <2> QED  BY <2>1, <2>2
<1>9. Traced'  BY <1>8 DEF Traced
<1> QED  BY <1>6, <1>7, <1>9 DEF Goes

\* The newest slot goes on by one with a confirmed slot, and stays otherwise.
LEMMA TopMoves ==
    ASSUME IndexInv, Traced, NEW r \in Readers, receive(r), NEW m, m = inbox[r][1]
    PROVE  /\ Top(reader[r]) \in Slots /\ Top(reader'[r]) \in Slots
           /\ m.type = "BlockConfirmed" => /\ m.slot \in Slots /\ m.slot = Top(reader[r]) + 1
                                           /\ Top(reader'[r]) = m.slot
           /\ m.type # "BlockConfirmed" => Top(reader'[r]) = Top(reader[r])
<1>1. PICK R, P : R = reader[r] /\ P = reader'[r]  OBVIOUS
<1>2. /\ m \in Messages
      /\ m.type = "BlockConfirmed" => P.inproc = m.slot /\ P.ring = R.ring
      /\ m.type = "PushFront" => P.inproc = None
      /\ m.type \notin {"BlockConfirmed", "PushFront"} => P.inproc = R.inproc
      /\ m.type \in {"PushFront", "PushBack"} => P.ring = Put(R.ring, m.slot, m.cell)
      /\ m.type = "SlotFinalized" => P.ring = R.ring
  BY <1>1, HandleIs
<1>3. /\ View(R.ring, R.inproc) /\ View(P.ring, P.inproc)
      /\ m.type = "BlockConfirmed" => R.inproc = None
      /\ m.type = "PushFront" => R.inproc = m.slot
      /\ m.type = "PushBack" => R.inproc = None /\ \A s \in DOMAIN R.ring : m.slot < s
      /\ m.type = "PopBack" => R.inproc # None
  BY <1>1, HandleView
<1>4. m.type \in {"PopBack", "PushFront", "PushBack", "BlockConfirmed", "SlotFinalized"}
  BY <1>2 DEF Messages
<1>5. m.type \in {"PushFront", "PushBack", "BlockConfirmed"} => m.slot \in Slots /\ m.slot # None
  BY <1>2, SlotNotNone DEF Messages
<1>6. /\ Top(R) \in Slots
      /\ DOMAIN R.ring # {} => /\ Highest(DOMAIN R.ring) \in DOMAIN R.ring
                               /\ \A t \in DOMAIN R.ring : t <= Highest(DOMAIN R.ring)
                               /\ R.inproc # None => R.inproc = Highest(DOMAIN R.ring) + 1
  BY <1>3, TopIn
<1>7. /\ Top(P) \in Slots
      /\ DOMAIN P.ring # {} => /\ Highest(DOMAIN P.ring) \in DOMAIN P.ring
                               /\ \A t \in DOMAIN P.ring : t <= Highest(DOMAIN P.ring)
                               /\ P.inproc # None => P.inproc = Highest(DOMAIN P.ring) + 1
  BY <1>3, TopIn
<1>8. DOMAIN R.ring \subseteq Int /\ DOMAIN P.ring \subseteq Int
  BY <1>3 DEF View, IsRows, Slots
<1>9. R.inproc = None => DOMAIN R.ring # {}  BY <1>3 DEF View
<1>10. CASE m.type = "BlockConfirmed"
  <2>1. R.inproc = None /\ P.inproc = m.slot /\ P.ring = R.ring /\ m.slot # None
    BY <1>2, <1>3, <1>5, <1>10
  <2>2. Top(R) = Highest(DOMAIN R.ring) /\ Top(P) = m.slot  BY <2>1 DEF Top
  <2>3. m.slot = Top(R) + 1  BY <1>7, <1>9, <2>1, <2>2
  <2> QED  BY <1>1, <1>5, <1>6, <1>7, <1>10, <2>2, <2>3
<1>11. CASE m.type = "SlotFinalized"
  BY <1>1, <1>2, <1>6, <1>7, <1>11 DEF Top
<1>12. CASE m.type = "PushFront"
  <2>1. R.inproc = m.slot /\ P.inproc = None /\ m.slot \in Slots /\ m.slot # None
        /\ DOMAIN P.ring = DOMAIN R.ring \union {m.slot}
    BY <1>2, <1>3, <1>5, <1>12 DEF Put
  <2>2. \A t \in DOMAIN P.ring : t <= m.slot
    <3> TAKE t \in DOMAIN P.ring
    <3>1. m.slot \in Int  BY <2>1 DEF Slots
    <3>2. CASE t = m.slot  BY <3>1, <3>2
    <3>3. CASE t \in DOMAIN R.ring
      <4>1. t <= Highest(DOMAIN R.ring) /\ m.slot = Highest(DOMAIN R.ring) + 1
            /\ Highest(DOMAIN R.ring) \in DOMAIN R.ring
        BY <1>6, <2>1, <3>3
      <4> QED  BY <1>8, <3>3, <4>1
    <3> QED  BY <2>1, <3>2, <3>3
  <2>3. Highest(DOMAIN P.ring) = m.slot
    <3>1. m.slot \in DOMAIN P.ring  BY <2>1
    <3>2. Highest(DOMAIN P.ring) \in DOMAIN P.ring /\ m.slot <= Highest(DOMAIN P.ring)
          /\ Highest(DOMAIN P.ring) <= m.slot
      BY <1>7, <2>2, <3>1
    <3> QED  BY <1>8, <3>1, <3>2
  <2> QED  BY <1>1, <1>6, <1>7, <1>12, <2>1, <2>3 DEF Top
<1>13. CASE m.type = "PushBack"
  <2>1. /\ R.inproc = None /\ P.inproc = None /\ m.slot \in Slots
        /\ DOMAIN P.ring = DOMAIN R.ring \union {m.slot} /\ \A s \in DOMAIN R.ring : m.slot < s
    BY <1>2, <1>3, <1>5, <1>13 DEF Put
  <2>2. PICK a, b : a = Highest(DOMAIN R.ring) /\ b = Highest(DOMAIN P.ring)  OBVIOUS
  <2>3. a \in DOMAIN R.ring /\ \A t \in DOMAIN R.ring : t <= a  BY <1>6, <1>9, <2>1, <2>2
  <2>4. b \in DOMAIN P.ring /\ \A t \in DOMAIN P.ring : t <= b  BY <1>7, <2>1, <2>2
  <2>5. a \in Int /\ b \in Int /\ a <= b /\ m.slot < a  BY <1>8, <2>1, <2>3, <2>4
  <2>6. m.slot \in Int  BY <2>1 DEF Slots
  <2>7. b # m.slot  BY <2>5, <2>6
  <2>8. b <= a  BY <2>1, <2>3, <2>4, <2>7
  <2> QED  BY <1>1, <1>6, <1>7, <1>13, <2>1, <2>2, <2>5, <2>8 DEF Top
<1>14. CASE m.type = "PopBack"
  <2>1. P.inproc = R.inproc /\ R.inproc # None  BY <1>2, <1>3, <1>14
  <2> QED  BY <1>1, <1>6, <1>7, <1>14, <2>1 DEF Top
<1> QED  BY <1>4, <1>10, <1>11, <1>12, <1>13, <1>14

\* What a confirmed slot does to the blocks that are known by their hash: one
\* that leaves is MaxRecent lower than a height the reader has had.
LEMMA RecentMoves ==
    ASSUME NEW R, NEW P, NEW slot \in Slots, RecentOK(R), ReaderLevels(R), Confirms(R, P, slot)
    PROVE  /\ RecentOK(P)
           /\ P.height \in Nat /\ P.peak \in Nat /\ P.height <= P.peak /\ R.peak <= P.peak
           /\ slot \in Skipped \/ P.height = Height(slot)
           /\ \A x \in R.recent : x \in P.recent \/ P.peak >= Height(x) + MaxRecent
<1>0. /\ R.recent \subseteq LiveSlots /\ MaxRecent \in Nat \ {0} /\ Forks \subseteq Nat
      /\ R.height \in Nat /\ R.peak \in Nat /\ \A s : Height(s) \in Nat
  BY StorageReadAssumption, HeightNat DEF RecentOK, ReaderLevels
<1>1. P.height \in Nat /\ (slot \in Skipped \/ P.height = Height(slot))
  BY <1>0 DEF Confirms, ConfirmedHeights
<1>2. P.peak \in Nat /\ P.height <= P.peak /\ R.peak <= P.peak  BY <1>0, <1>1 DEF Confirms
<1>3. P.recent = {s \in R.recent \union ({slot} \ Skipped) : P.height - Height(s) < MaxRecent}
  BY DEF Confirms, Recent
<1>4. \A x \in R.recent : x \in P.recent \/ P.peak >= Height(x) + MaxRecent
  <2> TAKE x \in R.recent
  <2>1. x \in P.recent \/ ~ P.height - Height(x) < MaxRecent  BY <1>3
  <2>2. Height(x) \in Nat  BY <1>0
  <2> QED  BY <1>0, <1>1, <1>2, <2>1, <2>2
<1>5. RecentOK(P)
  <2>1. P.recent \subseteq LiveSlots  BY <1>0, <1>3 DEF LiveSlots
  <2>2. ASSUME slot \in LiveSlots PROVE slot \in P.recent
    <3>1. slot \notin Skipped /\ P.height = Height(slot)  BY <1>1, <2>2 DEF LiveSlots
    <3>2. P.height - Height(slot) < MaxRecent  BY <1>0, <1>1, <3>1
    <3> QED  BY <1>3, <3>1, <3>2
  <2>3. P.confirmed = slot  BY DEF Confirms
  <2> QED  BY <2>1, <2>2, <2>3 DEF RecentOK
<1> QED  BY <1>1, <1>2, <1>4, <1>5

\* The levels of the reader that handles a message.
LEMMA HandleReader ==
    ASSUME IndexInv, Traced, Levels, NEW r \in Readers, receive(r), NEW m, m = inbox[r][1]
    PROVE  /\ ReaderLevels(reader'[r]) /\ RecentOK(reader'[r])
           /\ \A s \in Nat : Reaches(reader[r], s) => Reaches(reader'[r], s)
           /\ reader[r].heard <= reader'[r].heard /\ reader[r].told <= reader'[r].told
           /\ reader[r].finalized <= reader'[r].finalized
           /\ reader[r].peak <= reader'[r].peak
           /\ m.type = "SlotFinalized" => reader[r].heard < m.slot
           /\ \A x \in reader[r].recent :
                x \in reader'[r].recent \/ reader'[r].peak >= Height(x) + MaxRecent
<1>1. PICK R, P : R = reader[r] /\ P = reader'[r]  OBVIOUS
<1>2. /\ m \in Messages /\ Len(inbox[r]) \in Nat \ {0}
      /\ m.type = "BlockConfirmed" => P.inproc = m.slot /\ Confirms(R, P, m.slot)
      /\ m.type # "BlockConfirmed" => SameConfirmed(R, P)
      /\ m.type = "SlotFinalized" => P.heard = m.slot /\ P.finalized \in {R.finalized, m.slot}
      /\ m.type # "SlotFinalized" => P.heard = R.heard /\ P.finalized = R.finalized
      /\ m.type = "PushFront" => P.inproc = None
      /\ m.type \notin {"BlockConfirmed", "PushFront"} => P.inproc = R.inproc
  BY <1>1, HandleIs
<1>3. /\ Top(R) \in Slots /\ Top(P) \in Slots
      /\ m.type = "BlockConfirmed" => m.slot \in Slots /\ m.slot = Top(R) + 1 /\ Top(P) = m.slot
      /\ m.type # "BlockConfirmed" => Top(P) = Top(R)
  BY <1>1, TopMoves
<1>4. ReaderLevels(R) /\ RecentOK(R)  BY <1>1 DEF Levels
<1>5. ~ P.failed
  <2>1. m.type = "PushFront" => R.inproc = m.slot  BY <1>1, HandleView
  <2>2. ~ R.failed  BY <1>4 DEF ReaderLevels
  <2> QED  BY <1>1, <2>1, <2>2, HandleFails
<1>6. /\ R.confirmed \in Nat /\ R.finalized \in Nat /\ R.heard \in Nat /\ R.told \in Nat
      /\ R.peak \in Nat /\ (R.told > 0 => R.confirmed = R.told /\ R.told = Top(R))
      /\ (R.inproc # None => R.confirmed = R.inproc) /\ R.finalized <= R.heard
  BY <1>4 DEF ReaderLevels
<1>7. ASSUME m.type = "SlotFinalized" PROVE R.heard < m.slot /\ m.slot \in Slots
  <2>1. 1 \in 1 .. Len(inbox[r])  BY <1>2
  <2>2. R.heard < m.slot  BY <1>1, <1>7, <2>1 DEF Levels, OneFinalized
  <2> QED  BY <1>2, <1>7, <2>2 DEF Messages
<1>8. P.heard \in Nat /\ P.finalized \in Nat /\ P.finalized <= P.heard
      /\ R.heard <= P.heard /\ R.finalized <= P.finalized
  <2>1. CASE m.type = "SlotFinalized"
    <3>1. m.slot \in Nat /\ R.heard < m.slot  BY <1>7, <2>1 DEF Slots
    <3> QED  BY <1>2, <1>6, <2>1, <3>1
  <2>2. CASE m.type # "SlotFinalized"  BY <1>2, <1>6, <2>2
  <2> QED  BY <2>1, <2>2
<1>9. CASE m.type = "BlockConfirmed"
  <2>1. /\ m.slot \in Slots /\ m.slot = Top(R) + 1 /\ Top(P) = m.slot /\ P.confirmed = m.slot
        /\ P.told = m.slot /\ P.inproc = m.slot /\ m.slot \in Nat /\ m.slot > 0 /\ Top(R) \in Nat
    BY <1>2, <1>3, <1>9 DEF Slots, Confirms
  <2>2. /\ RecentOK(P)
        /\ P.height \in Nat /\ P.peak \in Nat /\ P.height <= P.peak /\ R.peak <= P.peak
        /\ m.slot \in Skipped \/ P.height = Height(m.slot)
        /\ \A x \in R.recent : x \in P.recent \/ P.peak >= Height(x) + MaxRecent
    BY <1>2, <1>4, <1>9, <2>1, RecentMoves
  <2>3. ReaderLevels(P)  BY <1>5, <1>8, <2>1, <2>2 DEF ReaderLevels
  <2>4. R.told <= P.told  BY <1>6, <2>1
  <2>5. \A s \in Nat : Reaches(R, s) => Reaches(P, s)  BY <1>6, <2>1 DEF Reaches
  <2> QED  BY <1>1, <1>8, <1>9, <2>2, <2>3, <2>4, <2>5
<1>10. CASE m.type # "BlockConfirmed"
  <2>1. /\ P.confirmed = R.confirmed /\ P.told = R.told /\ P.height = R.height /\ P.peak = R.peak
        /\ P.recent = R.recent /\ Top(P) = Top(R)
    BY <1>2, <1>3, <1>10 DEF SameConfirmed
  <2>2. P.inproc # None => P.inproc = R.inproc  BY <1>2, <1>10
  <2>3. StartLevel(R) => StartLevel(P)  BY <2>1 DEF StartLevel
  <2>4. ReaderLevels(P)  BY <1>4, <1>5, <1>6, <1>8, <2>1, <2>2, <2>3 DEF ReaderLevels
  <2>5. RecentOK(P)  BY <1>4, <2>1 DEF RecentOK
  <2>6. \A s \in Nat : Reaches(R, s) => Reaches(P, s)  BY <2>1 DEF Reaches
  <2> QED  BY <1>1, <1>6, <1>7, <1>8, <2>1, <2>4, <2>5, <2>6
<1> QED  BY <1>9, <1>10

\* A reader that handles a message keeps the levels.
LEMMA HandleLevels ==
    ASSUME IndexInv, Traced, Levels, NEW r \in Readers, receive(r)
    PROVE  Levels' /\ stored.finalized <= stored'.finalized
<1>1. PICK m : m = inbox[r][1]  OBVIOUS
<1>2. /\ m \in Messages /\ Len(inbox[r]) \in Nat \ {0} /\ Len(inbox'[r]) = Len(inbox[r]) - 1
      /\ \A i \in 1 .. Len(inbox[r]) - 1 : inbox'[r][i] = inbox[r][i + 1]
      /\ \A q \in Readers \ {r} : reader'[q] = reader[q] /\ inbox'[q] = inbox[q]
      /\ m.type = "BlockConfirmed" => Confirms(reader[r], reader'[r], m.slot)
      /\ m.type = "SlotFinalized" => reader'[r].heard = m.slot
      /\ m.type # "SlotFinalized" => reader'[r].heard = reader[r].heard
      /\ \/ stored'.confirmed = stored.confirmed /\ stored'.source = stored.source
         \/ /\ m.type = "BlockConfirmed" /\ stored'.confirmed = m.slot
            /\ \A q \in Readers \ {r} : reader[q].told >= m.slot
      /\ \/ stored'.finalized = stored.finalized
         \/ /\ m.type = "SlotFinalized" /\ stored'.finalized = m.slot
            /\ \A q \in Readers \ {r} : reader[q].heard >= m.slot
  BY <1>1, HandleIs
<1>3. /\ ReaderLevels(reader'[r]) /\ RecentOK(reader'[r])
      /\ reader[r].heard <= reader'[r].heard /\ reader[r].told <= reader'[r].told
      /\ m.type = "SlotFinalized" => reader[r].heard < m.slot
  BY <1>1, HandleReader
<1>4. m.type = "BlockConfirmed" => reader'[r].told = m.slot  BY <1>2 DEF Confirms
<1>5. 1 \in 1 .. Len(inbox[r])  BY <1>2
<1>6. m.type \in {"BlockConfirmed", "SlotFinalized"} => m.slot \in Nat  BY <1>2 DEF Messages, Slots
<1>7. stored.confirmed \in Nat /\ stored.finalized \in Nat  BY DEF Levels
<1>8. \A q \in Readers : /\ reader[q].told \in Nat /\ reader[q].heard \in Nat
                         /\ (stored.source # "disk" => stored.confirmed <= reader[q].told)
                         /\ stored.finalized <= reader[q].heard
                         /\ ReaderLevels(reader[q]) /\ RecentOK(reader[q])
  BY DEF Levels, ReaderLevels, PublishedFor, Seeded
<1>9. reader'[r].told \in Nat /\ reader'[r].heard \in Nat  BY <1>3 DEF ReaderLevels
<1>10. /\ stored'.confirmed \in Nat
       /\ stored'.finalized \in Nat /\ stored.finalized <= stored'.finalized
  BY <1>2, <1>3, <1>6, <1>7, <1>8
<1>11. ASSUME NEW q \in Readers
       PROVE  /\ ReaderLevels(reader'[q]) /\ RecentOK(reader'[q])
              /\ PublishedFor(reader[q])'
  <2>1. ReaderLevels(reader'[q]) /\ RecentOK(reader'[q])
    <3>1. CASE q = r  BY <1>3, <3>1
    <3>2. CASE q # r  BY <1>2, <1>8, <3>2
    <3> QED  BY <3>1, <3>2
  <2>2. ASSUME stored'.source # "disk" PROVE stored'.confirmed <= reader'[q].told
    <3>1. CASE stored'.confirmed = stored.confirmed /\ stored'.source = stored.source
      <4>1. stored.confirmed <= reader[q].told  BY <1>8, <2>2, <3>1
      <4>2. reader[q].told <= reader'[q].told
        <5>1. CASE q = r  BY <1>3, <5>1
        <5>2. CASE q # r  BY <1>2, <1>8, <5>2
        <5> QED  BY <5>1, <5>2
      <4>3. reader'[q].told \in Nat  BY <2>1 DEF ReaderLevels
      <4> QED  BY <1>7, <1>8, <3>1, <4>1, <4>2, <4>3
    <3>2. CASE /\ m.type = "BlockConfirmed" /\ stored'.confirmed = m.slot
               /\ \A p \in Readers \ {r} : reader[p].told >= m.slot
      <4>1. CASE q = r  BY <1>4, <1>6, <3>2, <4>1
      <4>2. CASE q # r
        <5>1. reader'[q] = reader[q] /\ reader[q].told >= m.slot /\ reader[q].told \in Nat
          BY <1>2, <1>8, <3>2, <4>2
        <5> QED  BY <1>6, <3>2, <5>1
      <4> QED  BY <4>1, <4>2
    <3> QED  BY <1>2, <3>1, <3>2
  <2>3. stored'.finalized <= reader'[q].heard
    <3>1. CASE q = r  BY <1>2, <1>3, <1>6, <1>7, <1>8, <1>9, <3>1
    <3>2. CASE q # r
      <4>1. reader'[q] = reader[q]  BY <1>2, <3>2
      <4>2. stored'.finalized = stored.finalized \/ (stored'.finalized \in Nat /\ stored'.finalized <= reader[q].heard)
        BY <1>2, <1>6, <1>8, <3>2
      <4> QED  BY <1>8, <4>1, <4>2
    <3> QED  BY <3>1, <3>2
  <2>4. PublishedFor(reader[q])'  BY <2>2, <2>3 DEF PublishedFor, Seeded
  <2> QED  BY <2>1, <2>4
<1>12. \A q \in Readers : \A i \in 1 .. Len(inbox'[q]) :
         \E j \in 1 .. Len(inbox[q]) : /\ inbox'[q][i] = inbox[q][j] /\ (q = r => j = i + 1)
                                       /\ (q # r => j = i)
  <2> TAKE q \in Readers
  <2> TAKE i \in 1 .. Len(inbox'[q])
  <2>1. CASE q = r
    <3>1. i \in 1 .. Len(inbox[r]) - 1 /\ i + 1 \in 1 .. Len(inbox[r])  BY <1>2, <2>1
    <3> QED  BY <1>2, <2>1, <3>1
  <2>2. CASE q # r  BY <1>2, <2>2
  <2> QED  BY <2>1, <2>2
<1>14. OneFinalized'
  <2> SUFFICES ASSUME NEW q \in Readers, NEW i \in 1 .. Len(inbox'[q]),
                      inbox'[q][i].type = "SlotFinalized"
               PROVE  /\ reader'[q].heard < inbox'[q][i].slot
                      /\ \A j \in 1 .. Len(inbox'[q]) : inbox'[q][j].type = "SlotFinalized" => j = i
    BY DEF OneFinalized
  <2>1. PICK a \in 1 .. Len(inbox[q]) : /\ inbox'[q][i] = inbox[q][a]
                                        /\ (q = r => a = i + 1) /\ (q # r => a = i)
    BY <1>12
  <2>2. /\ reader[q].heard < inbox[q][a].slot
        /\ \A j \in 1 .. Len(inbox[q]) : inbox[q][j].type = "SlotFinalized" => j = a
    BY <2>1 DEF Levels, OneFinalized
  <2>3. \A j \in 1 .. Len(inbox'[q]) : inbox'[q][j].type = "SlotFinalized" => j = i
    <3> TAKE j \in 1 .. Len(inbox'[q])
    <3>1. PICK b \in 1 .. Len(inbox[q]) : /\ inbox'[q][j] = inbox[q][b]
                                          /\ (q = r => b = j + 1) /\ (q # r => b = j)
      BY <1>12
    <3> QED  BY <2>1, <2>2, <3>1
  <2>4. reader'[q].heard = reader[q].heard
    <3>1. CASE q # r  BY <1>2, <3>1
    <3>2. CASE q = r
      <4>1. a # 1  BY <2>1, <3>2
      <4>2. m.type # "SlotFinalized"  BY <1>1, <1>5, <2>2, <3>2, <4>1
      <4> QED  BY <1>2, <3>2, <4>2
    <3> QED  BY <3>1, <3>2
  <2> QED  BY <2>1, <2>2, <2>3, <2>4
<1>15. Levels'
  <2>1. \A q \in Readers : (ReaderLevels(reader[q]) /\ RecentOK(reader[q]) /\ PublishedFor(reader[q]))'
    <3> TAKE q \in Readers
    <3>1. ReaderLevels(reader[q])' /\ RecentOK(reader[q])'
      BY <1>11, Zenon DEF ReaderLevels, StartLevel, RecentOK, Top
    <3> QED  BY <1>11, <3>1
  <2> QED  BY <1>10, <1>14, <2>1 DEF Levels
<1> QED  BY <1>10, <1>15

\* A step of the writer changes neither the readers nor the levels.
LEMMA StorageQuiet ==
    ASSUME IndexInv, Storage
    PROVE  /\ reader' = reader /\ req' = req
           /\ stored'.confirmed = stored.confirmed /\ stored'.finalized = stored.finalized
           /\ stored'.source = stored.source
<1>1. DOMAIN stored = {"confirmed", "finalized", "first", "source"}  BY DEF IndexInv, FirstFollows
<1>2. CASE Announce
  <2>1. PICK x : stored' = [stored EXCEPT !.first = x]  BY <1>2 DEF Announce
  <2> QED  BY <1>1, <1>2, <2>1 DEF Announce
<1>3. CASE confirm \/ \E s \in Finalized : finalize(s)  BY <1>3 DEF confirm, finalize
<1> QED  BY <1>2, <1>3 DEF Storage, store, backfill, go_on

\* Nor does what it tells the readers disturb them.
LEMMA StorageLevels ==
    ASSUME IndexInv, Levels, Moves, Steps, reader' = reader,
           stored'.confirmed = stored.confirmed, stored'.finalized = stored.finalized,
           stored'.source = stored.source
    PROVE  Levels'
<1>0. ReadersOK  BY DEF IndexInv
<1>2. ASSUME NEW q \in Readers
      PROVE  (ReaderLevels(reader[q]) /\ RecentOK(reader[q]) /\ PublishedFor(reader[q]))'
  <2>1. ReaderLevels(reader[q]) /\ RecentOK(reader[q]) /\ PublishedFor(reader[q])  BY DEF Levels
  <2>2. reader'[q] = reader[q]  OBVIOUS
  <2>3. RecentOK(reader[q])'  BY <2>1, <2>2 DEF RecentOK
  <2>4. PublishedFor(reader[q])'  BY <2>1, <2>2 DEF PublishedFor, Seeded
  <2>5. ReaderLevels(reader[q])'  BY <2>1, <2>2, Zenon DEF ReaderLevels, StartLevel, Top
  <2> QED  BY <2>3, <2>4, <2>5
<1>3. \/ inbox' = inbox
      \/ \E m : /\ Send(<<m>>)
                /\ m.type = "SlotFinalized" =>
                     \A r \in Readers : /\ reader[r].heard < m.slot
                                        /\ \A i \in 1 .. Len(inbox[r]) : inbox[r][i].type # "SlotFinalized"
  <2>1. ASSUME NEW s, Send(<<[type |-> "SlotFinalized", slot |-> s]>>),
               \A r \in Readers : reader[r].heard < s,
               \A r \in Readers : \A i \in DOMAIN inbox[r] : inbox[r][i].type # "SlotFinalized"
        PROVE  <1>3!2
    <3>1. PICK m : m = [type |-> "SlotFinalized", slot |-> s]  OBVIOUS
    <3>2. m.type = "SlotFinalized" /\ m.slot = s /\ Send(<<m>>)  BY <2>1, <3>1
    <3>3. \A r \in Readers : DOMAIN inbox[r] = 1 .. Len(inbox[r])  BY <1>0 DEF ReadersOK
    <3> QED  BY <2>1, <3>2, <3>3
  <2>2. ASSUME Send(<<[type |-> "BlockConfirmed", slot |-> next]>>) PROVE <1>3!2
    <3>1. PICK m : m = [type |-> "BlockConfirmed", slot |-> next]  OBVIOUS
    <3>2. m.type = "BlockConfirmed" /\ Send(<<m>>)  BY <2>2, <3>1
    <3> QED  BY <3>2
  <2>3. ASSUME Send(<<[type |-> "PopBack"]>>) PROVE <1>3!2
    <3>1. PICK m : m = [type |-> "PopBack"]  OBVIOUS
    <3>2. m.type = "PopBack" /\ Send(<<m>>)  BY <2>3, <3>1
    <3> QED  BY <3>2
  <2>4. ASSUME NEW t \in {"PushFront", "PushBack"}, NEW s, NEW c,
               Send(<<[type |-> t, slot |-> s, cell |-> c]>>)
        PROVE  <1>3!2
    <3>1. PICK m : m = [type |-> t, slot |-> s, cell |-> c]  OBVIOUS
    <3>2. m.type = t /\ Send(<<m>>)  BY <2>4, <3>1
    <3> QED  BY <3>2
  <2> QED  BY <2>1, <2>2, <2>3, <2>4 DEF Steps
<1>4. CASE inbox' = inbox
  <2>2. OneFinalized'  BY <1>4 DEF Levels, OneFinalized
  <2>3. (stored.confirmed \in Nat /\ stored.finalized \in Nat)'  BY DEF Levels
  <2> QED  BY <1>2, <2>2, <2>3 DEF Levels
<1>5. ASSUME NEW m, Send(<<m>>),
             m.type = "SlotFinalized" =>
                     \A r \in Readers : /\ reader[r].heard < m.slot
                                        /\ \A i \in 1 .. Len(inbox[r]) : inbox[r][i].type # "SlotFinalized"
      PROVE  Levels'
  <2>1. ASSUME NEW r \in Readers
        PROVE  /\ Len(inbox'[r]) = Len(inbox[r]) + 1 /\ Len(inbox[r]) \in Nat
               /\ \A i \in 1 .. Len(inbox[r]) : inbox'[r][i] = inbox[r][i]
               /\ inbox'[r][Len(inbox[r]) + 1] = m
    <3>1. inbox'[r] = inbox[r] \o <<m>> /\ inbox[r] \in Seq(Messages)  BY <1>0, <1>5 DEF Send, ReadersOK
    <3> QED  BY <3>1
  <2>2. \A q \in Readers : \A i \in 1 .. Len(inbox'[q]) :
           \/ i \in 1 .. Len(inbox[q]) /\ inbox'[q][i] = inbox[q][i]
           \/ i = Len(inbox[q]) + 1 /\ inbox'[q][i] = m
    BY <2>1
  <2>4. OneFinalized'
    <3> SUFFICES ASSUME NEW q \in Readers, NEW i \in 1 .. Len(inbox'[q]),
                        inbox'[q][i].type = "SlotFinalized"
                 PROVE  /\ reader[q].heard < inbox'[q][i].slot
                        /\ \A j \in 1 .. Len(inbox'[q]) : inbox'[q][j].type = "SlotFinalized" => j = i
      BY DEF OneFinalized
    <3>1. CASE m.type = "SlotFinalized"
      <4>1. reader[q].heard < m.slot /\ \A j \in 1 .. Len(inbox[q]) : inbox[q][j].type # "SlotFinalized"
        BY <1>5, <3>1
      <4>2. \A j \in 1 .. Len(inbox'[q]) : inbox'[q][j].type = "SlotFinalized"
                                             => j = Len(inbox[q]) + 1 /\ inbox'[q][j] = m
        BY <2>2, <4>1
      <4> QED  BY <4>1, <4>2
    <3>2. CASE m.type # "SlotFinalized"
      <4>1. \A j \in 1 .. Len(inbox'[q]) : inbox'[q][j].type = "SlotFinalized"
                                             => j \in 1 .. Len(inbox[q]) /\ inbox'[q][j] = inbox[q][j]
        BY <2>2, <3>2
      <4>2. i \in 1 .. Len(inbox[q]) /\ inbox[q][i].type = "SlotFinalized" /\ inbox'[q][i] = inbox[q][i]
        BY <4>1
      <4>3. /\ reader[q].heard < inbox[q][i].slot
            /\ \A j \in 1 .. Len(inbox[q]) : inbox[q][j].type = "SlotFinalized" => j = i
        BY <4>2 DEF Levels, OneFinalized
      <4>4. \A j \in 1 .. Len(inbox'[q]) : inbox'[q][j].type = "SlotFinalized" => j = i
        BY <4>1, <4>3
      <4> QED  BY <4>2, <4>3, <4>4
    <3> QED  BY <3>1, <3>2
  <2>5. (stored.confirmed \in Nat /\ stored.finalized \in Nat)'  BY DEF Levels
  <2> QED  BY <1>2, <2>4, <2>5 DEF Levels
<1> QED  BY <1>3, <1>4, <1>5

\* The levels are about nothing but the readers, what is published and what is
\* under way.
LEMMA LevelsSame ==
    ASSUME Levels, inbox' = inbox, stored' = stored,
           \A r \in Readers : \A f \in ReaderFields \ {"extra"} : reader'[r][f] = reader[r][f]
    PROVE  Levels'
<1>1. ASSUME NEW r \in Readers
      PROVE  (ReaderLevels(reader[r]) /\ RecentOK(reader[r]) /\ PublishedFor(reader[r]))'
  <2>1. ReaderLevels(reader[r]) /\ RecentOK(reader[r]) /\ PublishedFor(reader[r])  BY DEF Levels
  <2>2. PICK R, P : R = reader[r] /\ P = reader'[r]  OBVIOUS
  <2>3. /\ P.ring = R.ring /\ P.inproc = R.inproc /\ P.confirmed = R.confirmed /\ P.told = R.told
        /\ P.height = R.height /\ P.peak = R.peak /\ P.recent = R.recent /\ P.heard = R.heard
        /\ P.finalized = R.finalized /\ P.failed = R.failed
    BY <2>2 DEF ReaderFields
  <2>4. Top(P) = Top(R)  BY <2>3 DEF Top
  <2>5. ReaderLevels(P) /\ RecentOK(P)
    BY <2>1, <2>2, <2>3, <2>4, Zenon DEF ReaderLevels, StartLevel, RecentOK
  <2>6. ReaderLevels(reader[r])' /\ RecentOK(reader[r])'
    BY <2>2, <2>5, Zenon DEF ReaderLevels, StartLevel, RecentOK, Top
  <2>7. PublishedFor(reader[r])'  BY <2>1, <2>2, <2>3 DEF PublishedFor, Seeded
  <2> QED  BY <2>6, <2>7
<1>2. \A r \in Readers : reader'[r].heard = reader[r].heard  BY DEF ReaderFields
<1>3. OneFinalized'  BY <1>2 DEF Levels, OneFinalized
<1>4. (stored.confirmed \in Nat /\ stored.finalized \in Nat)'  BY DEF Levels
<1> QED  BY <1>1, <1>3, <1>4 DEF Levels

\* The request alone moves.
LEMMA MemorySame ==
    ASSUME IndexInv, MemoryInv, UNCHANGED <<writer, inbox, reader, stored>>
    PROVE  MemoryInv'
<1>0. /\ StoreInv /\ Progress /\ ReadersOK /\ UNCHANGED writer /\ inbox' = inbox
      /\ reader' = reader /\ stored' = stored
  BY DEF IndexInv
<1>1. /\ ring' = ring /\ next' = next /\ announced' = announced /\ op' = op
      /\ next_back_slot' = next_back_slot /\ Pending' = Pending
  BY <1>0 DEF writer, Pending
<1>2. Lost(next - 1) => Lost(next - 1)'  BY <1>1 DEF Lost, Known, Reached
<1>3. Front'  BY <1>1, <1>2 DEF MemoryInv, Front, Skips, DeadOrLive
<1>4. Traced'  BY <1>0, <1>1, TracedSame DEF MemoryInv
<1>5. Levels'  BY <1>0, LevelsSame DEF MemoryInv
<1> QED  BY <1>3, <1>4, <1>5 DEF MemoryInv

\* Every step keeps what the readers know together.
LEMMA MemoryMoves ==
    ASSUME IndexInv, MemoryInv, Storage \/ \E r \in Readers : handle(r)
    PROVE  MemoryInv'
<1>0. StoreInv /\ Progress /\ Front /\ Traced /\ Levels  BY DEF IndexInv, MemoryInv
<1>1. CASE Storage
  <2>1. Moves /\ Steps  BY <1>0, <1>1, StorageMoves, StorageSteps
  <2>2. Skips(op')  BY <1>0, <1>1, StorageSkips DEF Front
  <2>3. Front'  BY <1>0, <2>1, <2>2, FrontNext
  <2>4. /\ reader' = reader /\ stored'.confirmed = stored.confirmed
        /\ stored'.finalized = stored.finalized /\ stored'.source = stored.source
    BY <1>1, StorageQuiet
  <2>5. Traced'  BY <1>0, <2>1, <2>3, <2>4, StorageTraced
  <2>6. Levels'  BY <1>0, <2>1, <2>4, StorageLevels
  <2> QED  BY <2>3, <2>5, <2>6 DEF MemoryInv
<1>2. ASSUME NEW r \in Readers, handle(r) PROVE MemoryInv'
  <2>1. UNCHANGED writer  BY <1>2 DEF handle, pop_block_front, receive
  <2>2. /\ ring' = ring /\ next' = next /\ announced' = announced /\ op' = op
        /\ next_back_slot' = next_back_slot /\ Pending' = Pending
    BY <2>1 DEF writer, Pending
  <2>3. Lost(next - 1) => Lost(next - 1)'  BY <2>2 DEF Lost, Known, Reached
  <2>4. Front'  BY <1>0, <2>2, <2>3 DEF Front, Skips, DeadOrLive
  <2>5. CASE receive(r)
    <3>1. Traced'  BY <1>0, <2>5, HandleView
    <3>2. Levels'  BY <1>0, <2>5, HandleLevels
    <3> QED  BY <2>4, <3>1, <3>2 DEF MemoryInv
  <2>6. CASE pop_block_front(r)
    <3>1. /\ inbox' = inbox /\ stored' = stored
          /\ \A q \in Readers : \A f \in ReaderFields \ {"extra"} : reader'[q][f] = reader[q][f]
      BY <1>0, <2>6, PopFrontIs DEF IndexInv
    <3>2. \A q \in Readers : reader'[q].ring = reader[q].ring /\ reader'[q].inproc = reader[q].inproc
      BY <3>1 DEF ReaderFields
    <3>3. Traced'  BY <1>0, <2>1, <2>2, <3>1, <3>2, TracedSame DEF IndexInv
    <3>4. Levels'  BY <1>0, <3>1, LevelsSame
    <3> QED  BY <2>4, <3>3, <3>4 DEF MemoryInv
  <2> QED  BY <1>2, <2>5, <2>6 DEF handle
<1> QED  BY <1>1, <1>2

LEMMA MemoryNext == ReadInv /\ MemoryInv /\ [ReadNext]_readvars => MemoryInv'
<1> SUFFICES ASSUME ReadInv, MemoryInv, [ReadNext]_readvars PROVE MemoryInv'  OBVIOUS
<1>0. IndexInv  BY DEF ReadInv
<1>1. CASE UNCHANGED <<writer, inbox, reader, stored>>  BY <1>0, <1>1, MemorySame
<1> QED
  BY <1>0, <1>1, MemoryMoves
  DEF ReadNext, Client, Reading, take, read_index, read_file, ask, answer, give_up, finish, readvars, writer

\* What a reader knows at the start.
StartsWith(a, b, recent, confirmed) ==
    /\ \A r \in Readers :
          /\ reader[r].ring = ring /\ reader[r].inproc = None /\ reader[r].finalized = 0
          /\ reader[r].heard = 0 /\ reader[r].told = 0 /\ reader[r].confirmed = confirmed
          /\ reader[r].height = Height(confirmed) /\ reader[r].peak = Height(confirmed)
          /\ reader[r].recent = recent /\ ~ reader[r].failed
    /\ recent = {s \in (a + 1 .. b) \ Skipped : Height(b) - Height(s) < MaxRecent}
    /\ confirmed = IF recent = {} THEN 0 ELSE Highest(recent)

LEMMA LoadedMemory ==
    ASSUME NEW a, NEW lo, NEW hi, NEW b, Loaded(a, lo, hi, b)
    PROVE  \E recent, confirmed : StartsWith(a, b, recent, confirmed)
<1> DEFINE live == (lo .. b) \ Skipped
           cell == CHOOSE f \in [live -> Cells] : \A s, t \in live : s # t => f[s] # f[t]
           rows(S) == [s \in S |-> IF s \in live THEN cell[s] ELSE None]
           rec == {s \in (a + 1 .. b) \ Skipped : Height(b) - Height(s) < MaxRecent}
           top == IF rec = {} THEN 0 ELSE Highest(rec)
<1>1. reader = [r \in Readers |->
          [ring |-> ring, extra |-> rows(hi + 1 .. b), inproc |-> None, finalized |-> 0,
           heard |-> 0, told |-> 0, confirmed |-> top, height |-> Height(top),
           peak |-> Height(top), recent |-> rec, failed |-> FALSE]]
  BY DEF Loaded
<1>2. PICK recent, confirmed, extra, height :
        /\ recent = {s \in (a + 1 .. b) \ Skipped : Height(b) - Height(s) < MaxRecent}
        /\ confirmed = IF recent = {} THEN 0 ELSE Highest(recent)
        /\ extra = rows(hi + 1 .. b) /\ height = Height(confirmed)
        /\ rec = recent /\ top = confirmed
  OBVIOUS
<1> HIDE DEF rec, top, rows, live, cell
<1>3. PICK no : no = FALSE  BY Zenon
<1>4. reader = [r \in Readers |->
          [ring |-> ring, extra |-> extra, inproc |-> None, finalized |-> 0,
           heard |-> 0, told |-> 0, confirmed |-> confirmed, height |-> height,
           peak |-> height, recent |-> recent, failed |-> no]]
  BY <1>1, <1>2, <1>3, Zenon
<1>5. ASSUME NEW r \in Readers
      PROVE  /\ reader[r].ring = ring /\ reader[r].inproc = None /\ reader[r].finalized = 0
             /\ reader[r].heard = 0 /\ reader[r].told = 0 /\ reader[r].confirmed = confirmed
             /\ reader[r].height = Height(confirmed) /\ reader[r].peak = Height(confirmed)
             /\ reader[r].recent = recent /\ ~ reader[r].failed
  <2>1. /\ reader[r].ring = ring /\ reader[r].inproc = None /\ reader[r].finalized = 0
        /\ reader[r].heard = 0 /\ reader[r].told = 0 /\ reader[r].confirmed = confirmed
        /\ reader[r].height = height /\ reader[r].peak = height
        /\ reader[r].recent = recent /\ reader[r].failed = no
    BY <1>4
  <2>2. ~ reader[r].failed  BY <1>3, <2>1, Zenon
  <2> QED  BY <1>2, <2>1, <2>2
<1>6. StartsWith(a, b, recent, confirmed)  BY <1>2, <1>5, Zenon DEF StartsWith
<1> QED  BY <1>6

\* The start.
LEMMA MemoryStart == Start => MemoryInv
<1> SUFFICES ASSUME Start PROVE MemoryInv  OBVIOUS
<1>0. IndexInv /\ StoreInv /\ Progress /\ ReadersOK  BY IndexStart DEF IndexInv
<1>1. PICK l \in Loads : Loaded(l[1], l[2], l[3], l[4])  BY DEF Start
<1>2. op = Idle /\ announced = FALSE /\ inbox = [r \in Readers |-> <<>>]
  BY DEF Start
<1>3. PICK a, lo, hi, b : a = l[1] /\ lo = l[2] /\ hi = l[3] /\ b = l[4]  OBVIOUS
<1>4. /\ a \in Slots /\ lo \in a .. MaxSlot /\ hi \in lo .. MaxSlot /\ b \in hi .. MaxSlot
      /\ a \in Int /\ lo \in Int /\ hi \in Int /\ b \in Int
      /\ DOMAIN ring = lo .. hi /\ next = hi + 1
      /\ stored = [confirmed |-> b, finalized |-> 0, first |-> lo, source |-> "disk"]
      /\ \A s \in DOMAIN ring : ring[s] = None <=> s \in Skipped
  BY <1>1, <1>3, LoadedIs
<1>5a. PICK recent, confirmed : StartsWith(a, b, recent, confirmed)
  <2>1. Loaded(a, lo, hi, b)  BY <1>1, <1>3
  <2> QED  BY <2>1, LoadedMemory
<1>5. /\ \A r \in Readers :
           /\ reader[r].ring = ring /\ reader[r].inproc = None /\ reader[r].finalized = 0
           /\ reader[r].heard = 0 /\ reader[r].told = 0 /\ reader[r].confirmed = confirmed
           /\ reader[r].height = Height(confirmed) /\ reader[r].peak = Height(confirmed)
           /\ reader[r].recent = recent /\ ~ reader[r].failed
      /\ recent = {s \in (a + 1 .. b) \ Skipped : Height(b) - Height(s) < MaxRecent}
      /\ confirmed = IF recent = {} THEN 0 ELSE Highest(recent)
  BY <1>5a DEF StartsWith
<1>6. ~ announced /\ Pending = None
  <2>1. ~ announced  BY <1>2, Zenon
  <2> QED  BY <2>1, PendingIs DEF Pending
<1>7. Front
  <2>1. op.stage = "idle"  BY <1>2 DEF Idle
  <2>2. Skips(op)  BY <2>1 DEF Skips
  <2>3. DeadOrLive(ring)  BY <1>4 DEF DeadOrLive
  <2>4. next - 1 \in DOMAIN ring  BY <1>4
  <2> QED  BY <2>2, <2>3, <2>4 DEF Front
<1>8. \A r \in Readers : Len(inbox[r]) = 0  BY <1>2
<1>9. Traced
  <2>1. View(ring, Pending)  BY <1>0, <1>7, WriterView
  <2>2. ASSUME NEW r \in Readers PROVE \E h : TracedBy(h, r)
    <3>1. PICK v : v = [rows |-> ring, proc |-> Pending]  OBVIOUS
    <3>2. v.rows = ring /\ v.proc = Pending  BY <3>1
    <3>3. PICK h : h = [i \in {1} |-> v]  OBVIOUS
    <3>4. h[1] = v /\ 0 + 1 = 1  BY <3>3
    <3>5. \A i \in 1 .. 0 + 1 : View(h[i].rows, h[i].proc)  BY <2>1, <3>2, <3>4
    <3>6. \A i \in 1 .. 0 : Goes(inbox[r][i], h[i], h[i + 1])  OBVIOUS
    <3>7. TracedBy(h, r)  BY <1>5, <1>6, <1>8, <3>2, <3>4, <3>5, <3>6 DEF TracedBy
    <3> QED  BY <3>7
  <2> QED  BY <2>2 DEF Traced
<1>10. /\ LiveSlots \subseteq Int /\ a + 1 .. b \subseteq Slots /\ lo .. hi \subseteq Slots
       /\ 0 \notin LiveSlots
  BY <1>4, BlockStoreAssumption DEF LiveSlots, Slots
<1>11. recent \subseteq LiveSlots /\ recent \subseteq a + 1 .. b /\ recent \subseteq Nat /\ recent \subseteq Slots
  <2>1. recent \subseteq (a + 1 .. b) \ Skipped  BY <1>5
  <2>2. recent \subseteq Slots  BY <1>10, <2>1
  <2> QED  BY <2>1, <2>2 DEF LiveSlots, Slots
<1>12. ASSUME recent # {}
       PROVE  /\ confirmed \in recent /\ \A t \in LiveSlots : t <= hi => t <= confirmed
  <2>1. confirmed = Highest(recent)  BY <1>5, <1>12
  <2>2. confirmed \in recent /\ \A s \in recent : s <= confirmed  BY <1>11, <1>12, <2>1, HighestIn
  <2>3. ASSUME NEW t \in LiveSlots, t <= hi, ~ t <= confirmed PROVE FALSE
    <3>1. confirmed \in Int /\ t \in Int /\ a + 1 <= confirmed /\ confirmed < t  BY <1>4, <1>10, <1>11, <2>2, <2>3
    <3>2. Height(confirmed) <= Height(t)  BY <3>1, HeightOrder
    <3>3. t \in a + 1 .. b /\ t \notin Skipped  BY <1>4, <2>3, <3>1 DEF LiveSlots
    <3>4. Height(b) - Height(confirmed) < MaxRecent  BY <1>5, <2>2
    <3>5. Height(b) \in Nat /\ Height(confirmed) \in Nat /\ Height(t) \in Nat /\ MaxRecent \in Nat
      BY HeightNat, StorageReadAssumption
    <3>6. Height(b) - Height(t) < MaxRecent  BY <3>2, <3>4, <3>5
    <3>7. t \in recent  BY <1>5, <3>3, <3>6
    <3> QED  BY <2>2, <2>3, <3>7
  <2> QED  BY <2>2, <2>3
<1>13. recent = {} => confirmed = 0  BY <1>5
<1>14. confirmed \in Nat
  <2>1. CASE recent = {}  BY <1>13, <2>1
  <2>2. CASE recent # {}  BY <1>11, <1>12, <2>2
  <2> QED  BY <2>1, <2>2
<1>15. Highest(DOMAIN ring) = hi
  <2>1. hi \in DOMAIN ring  BY <1>4
  <2>2. Highest(DOMAIN ring) \in DOMAIN ring /\ hi <= Highest(DOMAIN ring)  BY <1>4, <1>10, <2>1, HighestIn
  <2> QED  BY <1>4, <2>2
<1>16. ASSUME NEW r \in Readers
       PROVE  ReaderLevels(reader[r]) /\ RecentOK(reader[r]) /\ PublishedFor(reader[r])
  <2>1. Top(reader[r]) = hi  BY <1>5, <1>15 DEF Top
  <2>2. confirmed = 0 \/ StartLevel(reader[r])
    <3>1. CASE recent = {}  BY <1>13, <3>1
    <3>2. CASE recent # {}  BY <1>5, <1>11, <1>12, <2>1, <3>2 DEF StartLevel
    <3> QED  BY <3>1, <3>2
  <2>3. ReaderLevels(reader[r])
    <3>1. Height(confirmed) \in Nat  BY HeightNat
    <3>2. PICK R : R = reader[r]  OBVIOUS
    <3>3. /\ R.confirmed = confirmed /\ R.finalized = 0 /\ R.heard = 0 /\ R.told = 0
          /\ R.height = Height(confirmed) /\ R.peak = Height(confirmed) /\ R.inproc = None
      BY <1>5, <3>2
    <3>4. ~ R.failed  BY <1>5, <3>2, Zenon
    <3>5. R.confirmed = 0 \/ StartLevel(R)  BY <2>2, <3>2, <3>3
    <3>6. ReaderLevels(R)  BY <1>14, <3>1, <3>3, <3>4, <3>5 DEF ReaderLevels
    <3> QED  BY <3>2, <3>6
  <2>4. RecentOK(reader[r])
    <3>1. confirmed \in LiveSlots => confirmed \in recent  BY <1>10, <1>12, <1>13
    <3> QED  BY <1>5, <1>11, <3>1 DEF RecentOK
  <2>5. stored.source = "disk" /\ stored.finalized = 0  BY <1>4
  <2>6. PublishedFor(reader[r])  BY <1>5, <2>5 DEF PublishedFor, Seeded
  <2> QED  BY <2>3, <2>4, <2>6
<1>17. stored.confirmed \in Nat /\ stored.finalized \in Nat  BY <1>4 DEF Slots
<1>18. OneFinalized  BY <1>8 DEF OneFinalized
<1> QED  BY <1>7, <1>9, <1>16, <1>17, <1>18 DEF MemoryInv, Levels

\* Every reader's index and block in process are what the writer's were at
\* one moment, and the messages it has still to handle lead to what they are
\* now; no reader ever stops; what the readers publish is what every reader has
\* handled, and until then a reader takes no slot for confirmed that it has not
\* a block for.
THEOREM MemoryInvariant == ReadSpec => []MemoryInv
<1>1. ReadInit => ReadInv /\ MemoryInv  BY ReadInitInv, MemoryStart DEF ReadInit
<1>2. (ReadInv /\ MemoryInv) /\ [ReadNext]_readvars => (ReadInv /\ MemoryInv)'
  BY ReadNextInv, MemoryNext
<1> QED  BY <1>1, <1>2, PTL DEF ReadSpec

-----------------------------------------------------------------------------
(***************************************************************************)
(* What a request finds, from the moment it is asked.                      *)
(***************************************************************************)
MemoryKinds == HeightKinds \union {"getBlocks", "getBlockTime"}

StatusKind == "getSignatureStatuses"

\* What does not change while a request is under way.
Sound(q) ==
    /\ q.kind \in ReadKinds \union MemoryKinds \union {StatusKind}
    /\ q.commit \in Commitments /\ q.slot \in Slots
    /\ q.kind \in MemoryKinds => q.seen \in Nat
    /\ q.kind \in TransactionKinds \union {StatusKind} => q.slot \in LiveSlots
    /\ q.kind = StatusKind => q.other \in LiveSlots
    /\ q.kind = "getBlocks" =>
          \E n \in Nat : q.until = [end |-> n] \/ q.until = [limit |-> n]
    /\ \A s \in q.held : s \in Slots /\ (q.commit = "finalized" => s <= stored.finalized)

\* A request that no reader has taken: any reader can serve it.
Waits(q) ==
    /\ q.kind \in MemoryKinds => \A r \in Readers : Reaches(reader[r], q.seen)
    /\ q.kind = "getBlockTime" => \A s \in q.held, r \in Readers : Reaches(reader[r], s)
    /\ \A s \in q.held : \A r \in Readers :
          s \in DOMAIN reader[r].ring \/ s = reader[r].inproc \/ Lost(s)
    /\ q.slot \in q.recent => \A r \in Readers :
          q.slot \in reader[r].recent \/ reader[r].peak >= Height(q.slot) + MaxRecent
    /\ q.kind = StatusKind => \A s \in q.held, r \in Readers : s <= reader[r].finalized

\* The result for a slot that is stored.
Good(q) ==
    q.result.type = IF q.slot \in Skipped THEN "dead"
                    ELSE IF q.kind = "getBlockTime" THEN "time" ELSE "block"

\* A block or a transaction on its way.
Finds(q) ==
    /\ q.stage = "file" => q.slot \notin Skipped
    /\ q.stage \in {"index", "found"} => q.kind \in TransactionKinds
    /\ q.stage \in {"index", "found"} /\ q.slot \in q.held =>
          q.reader \in Readers /\ (q.slot \in DOMAIN reader[q.reader].ring \/ Lost(q.slot))
    /\ q.stage = "result" /\ q.slot \in q.held => Good(q) \/ Lost(q.slot)

\* A request that was answered from memory: of a slot that could be served
\* nothing else can be said.
Serves(q) ==
    /\ q.kind = "getBlockTime" /\ q.slot \in q.held => Good(q) \/ Lost(q.slot)
    /\ q.kind = "getBlocks" /\ q.slot \in q.held /\ q.result.type = "removed" =>
          q.slot <= stored.first
    /\ q.kind = "getBlocks" => q.result.type # "cleaned_up"

HeightOK(q) ==
    q.kind \in HeightKinds /\ q.commit = "confirmed" =>
        /\ q.result.type = "height" => q.result.value >= Height(q.seen)
        /\ q.result.type = "valid" /\ Height(q.slot) + MaxAge <= Height(q.seen)
              => /\ q.result.value.slot \in Skipped
                 /\ q.result.value.height < Height(q.result.value.slot)

Expected(q, R) ==
    \/ q.kind = "getBlockHeight" /\ (R.inproc \in Skipped \/ ~ R.live \/ R.above)
    \/ q.kind = "getLatestBlockhash" /\ R.confirmed \in Skipped
    \/ q.kind = "isBlockhashValid"
       /\ \/ q.slot \notin q.recent
          \/ R.peak >= Height(q.slot) + MaxRecent
    \/ q.kind \in {"getBlocks", "getBlockTime"} /\ R.above

FailsOK(q) ==
    q.kind \in MemoryKinds /\ q.result.type = "failed" /\ q.commit = "confirmed" /\ q.seen > 0
        => Expected(q, q.result.value)

ListedOK(q) ==
    q.kind = "getBlocks" /\ q.result.type = "blocks" /\ q.inside =>
        LET listed == q.result.value
            end == IF "end" \in DOMAIN q.until THEN q.until.end ELSE MaxSlot
            wanted == Wanted(q.slot, end)
        IN  /\ listed \subseteq wanted
            /\ \A s \in wanted \ listed, t \in listed : t < s
            /\ "limit" \in DOMAIN q.until => Cardinality(listed) <= q.until.limit
            /\ q.commit = "confirmed" =>
                 \/ Wanted(q.slot, IF end < q.seen THEN end ELSE q.seen) \subseteq listed
                 \/ "limit" \in DOMAIN q.until /\ Cardinality(listed) = q.until.limit

MissedOK(q) ==
    q.kind \in ReadKinds \union {"getBlockTime", "getBlocks"}
    /\ q.slot \in q.held /\ q.slot > stored.first
        => \/ q.result.type = "timeout"
           \/ q.kind = "getBlocks" /\ q.result.type # "cleaned_up"
           \/ q.kind # "getBlocks"
              /\ q.result.type \in IF q.slot \in Skipped THEN {"skipped"} ELSE {"block", "time"}

\* The two signatures asked for.
Asks2(q, i) == IF i = 1 THEN q.slot ELSE q.other

\* A status that is given is the one of its signature; the level of a slot
\* that was finalized for every reader is no lower.
StatusOf(q, i, x) ==
    \/ x = NoStatus
    \/ x.slot = Asks2(q, i) /\ (x.level = "confirmed" => Asks2(q, i) \notin q.held)

\* Statuses on their way: what is looked up for a slot that could be served
\* has rows, as long as it is stored.
Looks(q) ==
    /\ q.stage \notin {"found", "file"}
    /\ q.stage = "index" =>
         /\ q.history
         /\ \A i \in 1 .. 2 :
              /\ StatusOf(q, i, q.local[i])
              /\ Asks2(q, i) \in q.held => Asks2(q, i) <= q.finalized
              /\ q.local[i] = NoStatus /\ Asks2(q, i) \in q.held =>
                   Lost(Asks2(q, i)) \/ \E c \in Cells : Agrees(Asks2(q, i), c)
    /\ q.stage = "result" => q.result.type = "statuses" /\ \A i \in 1 .. 2 :
         /\ StatusOf(q, i, q.result.value[i])
         /\ q.result.value[i] = NoStatus /\ q.history /\ Asks2(q, i) \in q.held =>
              Asks2(q, i) <= stored.first

AlignedOK(q) ==
    q.kind = StatusKind /\ q.result.type = "statuses" =>
        \A i \in 1 .. 2 :
            LET given == q.result.value[i].slot
            IN  \/ given = Asks2(q, i)
                \/ /\ given = None
                   /\ q.history /\ Asks2(q, i) \in q.held => Asks2(q, i) <= stored.first

Answered(q) == HeightOK(q) /\ FailsOK(q) /\ ListedOK(q) /\ MissedOK(q) /\ AlignedOK(q)

OnItsWay(q) ==
    /\ Sound(q)
    /\ q.stage = "queued" => Waits(q)
    /\ q.kind \in ReadKinds => Finds(q)
    /\ q.kind = StatusKind => Looks(q)
    /\ q.kind \in MemoryKinds => q.stage \notin {"index", "found", "file"}
    /\ q.kind \in MemoryKinds /\ q.stage = "result" =>
          Serves(q) /\ HeightOK(q) /\ FailsOK(q) /\ ListedOK(q)
    /\ q.stage = "done" => Answered(q)

RequestWay == req = NoRequest \/ OnItsWay(req)

\* A request that came while a reader had slots the start has taken back is
\* not looked at.
RequestInv == RequestWay \/ req.behind # {}

\* A request as it comes.
Opens(q) ==
    /\ IsRequest(q)
    /\ q.kind \in ReadKinds \union MemoryKinds \union {StatusKind}
    /\ q.commit \in Commitments /\ q.slot \in Slots
    /\ q.kind \in MemoryKinds => q.seen \in Nat /\ \A r \in Readers : Reaches(reader[r], q.seen)
    /\ q.kind = "getBlockTime" => \A s \in q.held, r \in Readers : Reaches(reader[r], s)
    /\ q.kind \in TransactionKinds \union {StatusKind} => q.slot \in LiveSlots
    /\ q.kind = StatusKind =>
          q.other \in LiveSlots /\ \A s \in q.held, r \in Readers : s <= reader[r].finalized
    /\ q.kind = "getBlocks" =>
          \E n \in Nat : q.until = [end |-> n] \/ q.until = [limit |-> n]
    /\ \A s \in q.held : s \in Slots /\ Held(s, q.commit)
    /\ \A s \in q.recent : \A r \in Readers : s \in reader[r].recent
    /\ \/ q.stage = "queued"
       \/ /\ q.stage = "done" /\ q.kind \in BlockKinds
          /\ q.result.type \in {"not_available", "elsewhere"}
          /\ q.slot \in q.held => q.slot <= stored.first
       \/ /\ q.stage = "done" /\ q.kind = "getBlocks"
          /\ q.result.type \in {"blocks", "elsewhere"} /\ ~ q.inside

\* The kinds are different.
LEMMA KindsApart ==
    /\ \A k \in ReadKinds : k \notin MemoryKinds /\ k # StatusKind /\ k # "getBlocks" /\ k # "getBlockTime"
                            /\ k \notin HeightKinds
    /\ \A k \in MemoryKinds : k # StatusKind
    /\ \A k \in HeightKinds : k \in MemoryKinds /\ k # "getBlocks" /\ k # "getBlockTime"
    /\ \A k \in BlockKinds : k \in ReadKinds /\ k \notin TransactionKinds
    /\ \A k \in TransactionKinds : k \in ReadKinds
    /\ "getBlocks" \in MemoryKinds /\ "getBlockTime" \in MemoryKinds
    /\ StatusKind \notin MemoryKinds /\ StatusKind \notin ReadKinds
BY DEF ReadKinds, BlockKinds, TransactionKinds, MemoryKinds, HeightKinds, StatusKind

\* A slot that is lost is below what is published as available.
LEMMA LostBelow ==
    ASSUME IndexInv
    PROVE  /\ stored.first \in Nat
           /\ \A s : Lost(s) => s \in Slots /\ s < stored.first
           /\ \A s \in Slots : Lost(s - 1) => s <= stored.first
<1>0. DOMAIN ring \subseteq Slots /\ MaxSlot \in Nat
  BY BlockStoreAssumption DEF IndexInv, StoreInv, Types, IsRows
<1>1. \/ stored.first = MaxSlot + 1
      \/ DOMAIN ring # {} /\ stored.first = Lowest(DOMAIN ring)
  BY DEF IndexInv, FirstFollows, Never
<1>2. DOMAIN ring # {} => Lowest(DOMAIN ring) \in Slots  BY <1>0, LowestIn
<1>3. stored.first \in Nat  BY <1>0, <1>1, <1>2 DEF Slots
<1>4. ASSUME NEW s, Lost(s) PROVE s \in Slots /\ s < stored.first
  <2>1. s \in Slots /\ s \in Int /\ s <= MaxSlot  BY <1>4 DEF Lost, Known, Slots
  <2>2. DOMAIN ring # {} => ~ Lowest(DOMAIN ring) <= s  BY <1>4 DEF Lost, Reached
  <2>3. CASE stored.first = MaxSlot + 1  BY <1>0, <2>1, <2>3
  <2>4. CASE DOMAIN ring # {} /\ stored.first = Lowest(DOMAIN ring)  BY <1>3, <2>1, <2>2, <2>4
  <2> QED  BY <1>1, <2>1, <2>3, <2>4
<1>5. ASSUME NEW s \in Slots, Lost(s - 1) PROVE s <= stored.first
  <2>1. s - 1 < stored.first  BY <1>4, <1>5
  <2>2. s \in Int  BY DEF Slots
  <2> QED  BY <1>3, <2>1, <2>2
<1> QED  BY <1>3, <1>4, <1>5

\* A request as it comes is on its way.
LEMMA OpensWell ==
    ASSUME ReadInv, NEW q, Opens(q)
    PROVE  OnItsWay(q)
<1>1. ASSUME NEW s \in q.held
      PROVE  /\ s \in Slots /\ (q.commit = "finalized" => s <= stored.finalized)
             /\ \A r \in Readers : s \in DOMAIN reader[r].ring \/ s = reader[r].inproc
  BY DEF Opens, Held
<1>2. Sound(q)  BY <1>1 DEF Opens, Sound
<1>3. Waits(q)  BY <1>1 DEF Opens, Waits
<1>4. q.stage \in {"queued", "done"}  BY DEF Opens
<1>5. Finds(q) /\ Looks(q)  BY <1>4 DEF Finds, Looks
<1>6. ASSUME q.stage = "done" PROVE Answered(q)
  <2>1. CASE q.kind \in BlockKinds
    <3>1. q.kind \in ReadKinds /\ q.kind \notin HeightKinds /\ q.kind \notin MemoryKinds
          /\ q.kind # StatusKind /\ q.kind # "getBlocks"
      BY <2>1, KindsApart
    <3>2. q.slot \in q.held => q.slot <= stored.first  BY <1>6, <3>1 DEF Opens
    <3>3. q.slot \in Int  BY DEF Opens, Slots
    <3>4. q.slot \in q.held => ~ q.slot > stored.first  BY <3>2, <3>3, LostBelow DEF ReadInv
    <3> QED  BY <3>1, <3>4 DEF Answered, HeightOK, FailsOK, ListedOK, MissedOK, AlignedOK
  <2>2. CASE q.kind = "getBlocks"
    <3>1. q.kind \notin HeightKinds /\ q.kind # StatusKind /\ q.kind \notin BlockKinds
      BY <2>2, KindsApart
    <3>2. q.result.type \in {"blocks", "elsewhere"} /\ ~ q.inside  BY <1>6, <3>1 DEF Opens
    <3> QED  BY <2>2, <3>1, <3>2 DEF Answered, HeightOK, FailsOK, ListedOK, MissedOK, AlignedOK
  <2> QED  BY <1>6, <2>1, <2>2 DEF Opens
<1>7. q.kind \in MemoryKinds => q.stage \notin {"index", "found", "file", "result"}  BY <1>4
<1> QED  BY <1>2, <1>3, <1>4, <1>5, <1>6, <1>7 DEF OnItsWay

\* The fields of a request for one slot.
AskedAs(q, kind, slot, c) ==
    /\ IsRequest(q) /\ q.kind = kind /\ q.slot = slot /\ q.commit = c /\ q.stage = "queued"
    /\ q.recent = {} /\ ~ q.inside
    /\ \A s \in q.held : s \in Slots /\ Held(s, c)

LEMMA AskedIs ==
    ASSUME NEW kind, NEW slot \in Slots, NEW c, NEW q, q = Asked(kind, slot, c)
    PROVE  AskedAs(q, kind, slot, c)
<1>1. PICK held : held = (IF Held(slot, c) THEN {slot} ELSE {}) /\ q = [kind |-> kind, slot |-> slot, commit |-> c, stage |-> "queued", reader |-> None,
     cell |-> None, result |-> Result("none", None),
     held |-> held, seen |-> None, behind |-> Behind,
     until |-> <<>>, inside |-> FALSE, recent |-> {},
     other |-> None, history |-> FALSE, local |-> <<>>, finalized |-> None]
  BY DEF Asked
<1>2. \A s \in held : s \in Slots /\ Held(s, c)  BY <1>1
<1>3. PICK result, f, u, b : b = Behind /\ f = FALSE /\ q = [kind |-> kind, slot |-> slot, commit |-> c, stage |-> "queued", reader |-> None,
     cell |-> None, result |-> result,
     held |-> held, seen |-> None, behind |-> b,
     until |-> u, inside |-> f, recent |-> {},
     other |-> None, history |-> f, local |-> u, finalized |-> None]
  BY <1>1, Zenon
<1>4. /\ IsRequest(q) /\ q.kind = kind /\ q.slot = slot /\ q.commit = c /\ q.stage = "queued"
      /\ q.recent = {} /\ q.inside = f /\ q.held = held
  BY <1>3 DEF IsRequest, RequestFields
<1>5. ~ q.inside  BY <1>3, <1>4, Zenon
<1> QED  BY <1>2, <1>4, <1>5 DEF AskedAs

\* A request that needs no more than a slot.
LEMMA AskedOpens ==
    ASSUME NEW kind \in ReadKinds, NEW slot \in Slots, NEW c \in Commitments,
           kind \in TransactionKinds => slot \in LiveSlots
    PROVE  Opens(Asked(kind, slot, c))
<1>1. PICK q : q = Asked(kind, slot, c)  OBVIOUS
<1>2. AskedAs(q, kind, slot, c)  BY <1>1, AskedIs
<1>3. kind \notin MemoryKinds /\ kind # StatusKind /\ kind # "getBlocks" /\ kind # "getBlockTime"
  BY KindsApart
<1> QED  BY <1>1, <1>2, <1>3 DEF Opens, AskedAs

\* What a reader's index and block in process are together.
LEMMA ReaderView ==
    ASSUME IndexInv, Traced, NEW r \in Readers
    PROVE  View(reader[r].ring, reader[r].inproc)
<1>1. PICK h : TracedBy(h, r)  BY DEF Traced
<1>2. 1 \in 1 .. Len(inbox[r]) + 1
  <2>1. Len(inbox[r]) \in Nat  BY DEF IndexInv, ReadersOK
  <2> QED  BY <2>1
<1> QED  BY <1>1, <1>2 DEF TracedBy

\* What a reader lists, or has in process, is no newer than the newest slot it
\* has heard of.
LEMMA TopOver ==
    ASSUME NEW R, View(R.ring, R.inproc)
    PROVE  /\ Top(R) \in Nat /\ R.inproc \in Nat /\ R.inproc <= Top(R)
           /\ \A s \in DOMAIN R.ring : s \in Nat /\ s <= Top(R)
           /\ Highest({R.inproc} \union DOMAIN R.ring) = Top(R)
<1>1. /\ Top(R) \in Slots
      /\ DOMAIN R.ring # {} => /\ Highest(DOMAIN R.ring) \in DOMAIN R.ring
                               /\ \A t \in DOMAIN R.ring : t <= Highest(DOMAIN R.ring)
                               /\ R.inproc # None => R.inproc = Highest(DOMAIN R.ring) + 1
  BY TopIn
<1>2. DOMAIN R.ring \subseteq Nat /\ Top(R) \in Nat /\ None = 0
      /\ (R.inproc = None \/ R.inproc \in Nat) /\ (R.inproc = None => DOMAIN R.ring # {})
  BY <1>1 DEF View, IsRows, Slots, None
<1>3. R.inproc \in Nat /\ R.inproc <= Top(R)  BY <1>2 DEF Top
<1>4. \A s \in DOMAIN R.ring : s \in Nat /\ s <= Top(R)
  <2> TAKE s \in DOMAIN R.ring
  <2>1. s <= Highest(DOMAIN R.ring) /\ Highest(DOMAIN R.ring) \in Nat /\ s \in Nat  BY <1>1, <1>2
  <2>2. Highest(DOMAIN R.ring) <= Top(R)  BY <1>1, <1>2, <2>1 DEF Top
  <2> QED  BY <1>2, <2>1, <2>2
<1>5. Highest({R.inproc} \union DOMAIN R.ring) = Top(R)
  <2>1. PICK S : S = {R.inproc} \union DOMAIN R.ring  OBVIOUS
  <2>2. S \subseteq Nat /\ \A t \in S : t <= Top(R)  BY <1>3, <1>4, <2>1
  <2>3. Top(R) \in S  BY <1>1, <1>2, <2>1 DEF Top
  <2>4. Highest(S) \in S /\ \A t \in S : t <= Highest(S)  BY <2>2, <2>3 DEF Highest
  <2> QED  BY <2>1, <2>2, <2>3, <2>4
<1> QED  BY <1>2, <1>3, <1>4, <1>5

\* Every reader takes the slot for confirmed, and has heard of it.
Shows(n) == n \in Nat /\ \A r \in Readers : Reaches(reader[r], n)

\* The confirmed slot the readers have published, and what they show before
\* they publish one.
LEMMA SeenShows ==
    ASSUME IndexInv, Traced, Levels
    PROVE  /\ Seeded => Shows(Shown)
           /\ ~ Seeded => Shows(stored.confirmed)
<1>0. \A r \in Readers : /\ Top(reader[r]) \in Nat
                         /\ Highest({reader[r].inproc} \union DOMAIN reader[r].ring) = Top(reader[r])
  BY ReaderView, TopOver
<1>1. \A r \in Readers : /\ reader[r].confirmed \in Nat /\ reader[r].told \in Nat
                         /\ (reader[r].told > 0 => reader[r].confirmed = reader[r].told
                                                   /\ reader[r].told = Top(reader[r]))
                         /\ (~ Seeded => stored.confirmed <= reader[r].told)
  BY DEF Levels, ReaderLevels, PublishedFor
<1>2. Shows(Shown)
  <2>1. PICK U : U = UNION {{reader[r].confirmed, Top(reader[r])} : r \in Readers}  OBVIOUS
  <2>2. Shown = Lowest(U)  BY <1>0, <2>1 DEF Shown
  <2>3. U \subseteq Nat /\ U # {}
    <3>1. U \subseteq Nat  BY <1>0, <1>1, <2>1
    <3>2. PICK r \in Readers : TRUE  BY StorageReadAssumption
    <3>3. reader[r].confirmed \in U  BY <2>1, <3>2
    <3> QED  BY <3>1, <3>3
  <2>4. \E x \in U : \A t \in U : x <= t  BY <2>3, NatMin, Zenon
  <2>5. Lowest(U) \in U /\ \A t \in U : Lowest(U) <= t  BY <2>4, Zenon DEF Lowest
  <2>6. \A r \in Readers : reader[r].confirmed \in U /\ Top(reader[r]) \in U  BY <2>1
  <2> QED  BY <2>2, <2>3, <2>5, <2>6 DEF Shows, Reaches
<1>3. ASSUME ~ Seeded PROVE Shows(stored.confirmed)
  <2>1. stored.confirmed \in Nat  BY DEF Levels
  <2>2. ASSUME NEW r \in Readers PROVE Reaches(reader[r], stored.confirmed)
    <3>1. PICK R, t : R = reader[r] /\ t = Top(R)  OBVIOUS
    <3>2. /\ t \in Nat /\ R.confirmed \in Nat /\ R.told \in Nat /\ stored.confirmed <= R.told
          /\ (R.told > 0 => R.confirmed = R.told /\ R.told = t)
      BY <1>0, <1>1, <1>3, <3>1
    <3>3. stored.confirmed <= R.confirmed /\ stored.confirmed <= t  BY <2>1, <3>2
    <3> QED  BY <3>1, <3>3 DEF Reaches
  <2> QED  BY <2>1, <2>2 DEF Shows
<1> QED  BY <1>2, <1>3

\* The fields of a request that is answered from memory.
LEMMA FromMemory ==
    ASSUME IndexInv, Traced, Levels,
           NEW kind, NEW slot \in Slots, NEW c, NEW q, q = AskedFromMemory(kind, slot, c)
    PROVE  AskedAs(q, kind, slot, c) /\ Shows(q.seen)
<1>1. PICK p : p = Asked(kind, slot, c)  OBVIOUS
<1>2. AskedAs(p, kind, slot, c)  BY <1>1, AskedIs
<1>3. PICK n : n = IF Seeded THEN Shown ELSE stored.confirmed  OBVIOUS
<1>4. q = [p EXCEPT !.seen = n]  BY <1>1, <1>3 DEF AskedFromMemory
<1>5. IsRequest(p)  BY <1>2 DEF AskedAs
<1>6. /\ IsRequest(q) /\ q.kind = p.kind /\ q.slot = p.slot /\ q.commit = p.commit /\ q.stage = p.stage
      /\ q.recent = p.recent /\ q.inside = p.inside /\ q.held = p.held /\ q.seen = n
  BY <1>4, <1>5 DEF IsRequest, RequestFields
<1>7. ~ q.inside
  <2>1. ~ p.inside  BY <1>2 DEF AskedAs
  <2> QED  BY <1>6, <2>1, Zenon
<1>8. Shows(n)  BY <1>3, SeenShows
<1> QED  BY <1>2, <1>6, <1>7, <1>8 DEF AskedAs

LEMMA MemoryOpens ==
    ASSUME IndexInv, Traced, Levels,
           NEW kind \in HeightKinds, NEW slot \in Slots, NEW c \in Commitments
    PROVE  Opens(AskedFromMemory(kind, slot, c))
<1>1. PICK q : q = AskedFromMemory(kind, slot, c)  OBVIOUS
<1>2. AskedAs(q, kind, slot, c) /\ Shows(q.seen)  BY <1>1, FromMemory
<1>3. kind \in MemoryKinds /\ kind # StatusKind /\ kind # "getBlocks" /\ kind \notin TransactionKinds
      /\ kind # "getBlockTime"
  BY DEF MemoryKinds, HeightKinds, TransactionKinds, StatusKind
<1> QED  BY <1>1, <1>2, <1>3 DEF Opens, AskedAs, Shows

\* getBlockTime.
LEMMA BlockTimeOpens ==
    ASSUME IndexInv, Traced, Levels, NEW slot \in Slots, NEW p \in RpcRequestBlockTime(slot)
    PROVE  Opens(p)
<1>1. PICK q : q = AskedFromMemory("getBlockTime", slot, "confirmed")  OBVIOUS
<1>2. AskedAs(q, "getBlockTime", slot, "confirmed") /\ Shows(q.seen)  BY <1>1, FromMemory
<1>3. IsRequest(q)  BY <1>2 DEF AskedAs
<1>4. PICK x : x = {s \in q.held : Seeded => \A r \in Readers : s <= reader[r].confirmed}  OBVIOUS
<1>5. p = [q EXCEPT !.held = x]  BY <1>1, <1>4 DEF RpcRequestBlockTime
<1>6. /\ IsRequest(p) /\ p.kind = q.kind /\ p.slot = q.slot /\ p.commit = q.commit /\ p.stage = q.stage
      /\ p.recent = q.recent /\ p.held = x /\ p.seen = q.seen
  BY <1>3, <1>5 DEF IsRequest, RequestFields
<1>7. \A s \in x : s \in Slots /\ Held(s, "confirmed")  BY <1>2, <1>4 DEF AskedAs
<1>8. ASSUME NEW s \in x, NEW r \in Readers PROVE Reaches(reader[r], s)
  <2>1. /\ s \in Slots /\ s <= stored.confirmed
        /\ s \in DOMAIN reader[r].ring \/ s = reader[r].inproc
    BY <1>7 DEF Held
  <2>2. s <= Top(reader[r])
    <3>1. View(reader[r].ring, reader[r].inproc)  BY ReaderView
    <3> QED  BY <2>1, <3>1, TopOver
  <2>3. s <= reader[r].confirmed
    <3>1. CASE Seeded  BY <1>4, <3>1
    <3>2. CASE ~ Seeded
      <4>1. /\ stored.confirmed \in Nat /\ reader[r].confirmed \in Nat
            /\ stored.confirmed <= reader[r].confirmed
        BY <3>2, SeenShows DEF Shows, Reaches, Levels, ReaderLevels
      <4>2. s \in Int  BY <2>1 DEF Slots
      <4> QED  BY <2>1, <4>1, <4>2
    <3> QED  BY <3>1, <3>2
  <2> QED  BY <2>2, <2>3 DEF Reaches
<1>9. "getBlockTime" \in MemoryKinds /\ "getBlockTime" # StatusKind /\ "getBlockTime" # "getBlocks"
      /\ "getBlockTime" \notin TransactionKinds /\ "confirmed" \in Commitments
  BY DEF MemoryKinds, StatusKind, TransactionKinds, Commitments
<1> QED  BY <1>2, <1>6, <1>7, <1>8, <1>9 DEF Opens, AskedAs, Shows

\* The fields that do not change.
Same(p, q) ==
    /\ p.kind = q.kind /\ p.slot = q.slot /\ p.commit = q.commit /\ p.held = q.held
    /\ p.seen = q.seen /\ p.until = q.until /\ p.recent = q.recent /\ p.other = q.other
    /\ p.history = q.history

\* A request that is done with.
DoneAs(p, q, type, value) ==
    /\ IsRequest(p) /\ p.stage = "done" /\ p.result.type = type /\ p.result.value = value
    /\ Same(p, q) /\ p.inside = q.inside

LEMMA DoneIs ==
    ASSUME NEW q, IsRequest(q), NEW type, NEW value, NEW p,
           p = [q EXCEPT !.stage = "done", !.result = Result(type, value)]
    PROVE  DoneAs(p, q, type, value)
<1>1. PICK result : result = Result(type, value)  OBVIOUS
<1>2. result.type = type /\ result.value = value  BY <1>1 DEF Result
<1>3. p = [q EXCEPT !.stage = "done", !.result = result]  BY <1>1
<1>4. IsRequest(p) /\ p.stage = "done" /\ p.result = result
  BY <1>3 DEF IsRequest, RequestFields
<1>5. Same(p, q) /\ p.inside = q.inside
  BY <1>3 DEF IsRequest, RequestFields, Same
<1> QED  BY <1>2, <1>4, <1>5 DEF DoneAs

\* getBlock and /block compare the slot with the levels first.
LEMMA CheckOpens ==
    ASSUME ReadInv, Levels, NEW kind \in BlockKinds, NEW slot \in Slots, NEW c \in Commitments,
           NEW tip, tip = stored[c]
    PROVE  Opens(CheckSlot(Asked(kind, slot, c), tip))
<1>0. kind \in ReadKinds /\ kind \notin TransactionKinds  BY KindsApart
<1>1. PICK q : q = Asked(kind, slot, c)  OBVIOUS
<1>2. Opens(q)  BY <1>0, <1>1, AskedOpens
<1>3. AskedAs(q, kind, slot, c)  BY <1>1, AskedIs
<1>4. slot \in Int /\ tip \in Int /\ stored.first \in Int
  <2>1. tip \in Nat  BY DEF Levels, Commitments
  <2> QED  BY <2>1, LostBelow DEF Slots, ReadInv
<1>5. ASSUME NEW type, type \in {"not_available", "elsewhere"}, slot \in q.held => slot <= stored.first
      PROVE  Opens(Done(q, type))
  <2>1. PICK p : p = Done(q, type)  OBVIOUS
  <2>2. p = [q EXCEPT !.stage = "done", !.result = Result(type, None)]  BY <2>1 DEF Done
  <2>3. IsRequest(q)  BY <1>3 DEF AskedAs
  <2>4. DoneAs(p, q, type, None)  BY <2>2, <2>3, DoneIs
  <2>5. Opens(p)  BY <1>2, <1>3, <1>5, <2>4 DEF Opens, Same, DoneAs, AskedAs
  <2> QED  BY <2>1, <2>5
<1>6. q.slot = slot  BY <1>3 DEF AskedAs
<1>7. CASE slot > tip
  <2>1. slot \notin q.held  BY <1>3, <1>4, <1>7 DEF Held, AskedAs
  <2>2. CheckSlot(q, tip) = Done(q, "not_available")  BY <1>6, <1>7 DEF CheckSlot
  <2> QED  BY <1>1, <1>5, <2>1, <2>2
<1>8. CASE ~ slot > tip /\ slot <= stored.first
  <2>1. CheckSlot(q, tip) = Done(q, "elsewhere")  BY <1>6, <1>8 DEF CheckSlot, fetch_upstream
  <2> QED  BY <1>1, <1>5, <1>8, <2>1
<1>9. CASE ~ slot > tip /\ ~ slot <= stored.first
  <2>1. CheckSlot(q, tip) = q  BY <1>6, <1>9 DEF CheckSlot
  <2> QED  BY <1>1, <1>2, <2>1
<1> QED  BY <1>7, <1>8, <1>9

\* getBlocks and getBlocksWithLimit.
LEMMA BlocksOpen ==
    ASSUME IndexInv, Traced, Levels, NEW slot \in Slots, NEW c \in Commitments, NEW n \in Nat,
           NEW until, until = [end |-> n] \/ until = [limit |-> n],
           NEW q, q = AskedBlocks(slot, until, c)
    PROVE  /\ \A p \in process_blocks(q) : Opens(p)
           /\ Opens([q EXCEPT !.stage = "done", !.result = Result("blocks", {})])
<1>1. PICK p : p = AskedFromMemory("getBlocks", slot, c)  OBVIOUS
<1>2. AskedAs(p, "getBlocks", slot, c) /\ Shows(p.seen)  BY <1>1, FromMemory
<1>3. q = [p EXCEPT !.until = until]  BY <1>1 DEF AskedBlocks
<1>4. IsRequest(p) /\ ~ p.inside  BY <1>2 DEF AskedAs
<1>5. /\ IsRequest(q) /\ q.kind = p.kind /\ q.slot = p.slot /\ q.commit = p.commit /\ q.stage = p.stage
      /\ q.recent = p.recent /\ q.inside = p.inside /\ q.held = p.held /\ q.seen = p.seen
      /\ q.until = until
  BY <1>3, <1>4 DEF IsRequest, RequestFields
<1>6. ~ q.inside  BY <1>4, <1>5, Zenon
<1>7. "getBlocks" \in MemoryKinds /\ "getBlocks" # StatusKind /\ "getBlocks" \notin TransactionKinds
  BY DEF MemoryKinds, StatusKind, TransactionKinds
<1>8. q.kind = "getBlocks"  BY <1>2, <1>5 DEF AskedAs
<1>9. Opens(q)  BY <1>2, <1>5, <1>7 DEF Opens, AskedAs, Shows
<1>10. ASSUME NEW type \in {"blocks", "elsewhere"}, NEW value
       PROVE  Opens([q EXCEPT !.stage = "done", !.result = Result(type, value)])
  <2>1. PICK x : x = [q EXCEPT !.stage = "done", !.result = Result(type, value)]  OBVIOUS
  <2>2. DoneAs(x, q, type, value)  BY <1>5, <2>1, DoneIs
  <2>3. x.inside = q.inside  BY <2>2 DEF DoneAs
  <2>4. ~ x.inside  BY <1>6, <2>3, Zenon
  <2>5. Opens(x)  BY <1>8, <1>9, <2>2, <2>4 DEF Opens, Same, DoneAs
  <2> QED  BY <2>1, <2>5
<1>11. Opens(Done(q, "elsewhere"))  BY <1>10 DEF Done
<1> QED  BY <1>9, <1>10, <1>11 DEF process_blocks, fetch_upstream

\* isBlockhashValid.
LEMMA BlockhashOpens ==
    ASSUME IndexInv, Traced, Levels, NEW s \in Slots, NEW c \in Commitments, NEW p \in RpcRequestIsBlockhashValid(s, c)
    PROVE  Opens(p)
<1>1. PICK q : q = AskedFromMemory("isBlockhashValid", s, c)  OBVIOUS
<1>2. "isBlockhashValid" \in HeightKinds  BY DEF HeightKinds
<1>3. Opens(q)  BY <1>1, <1>2, MemoryOpens
<1>4. IsRequest(q) /\ q.kind = "isBlockhashValid" /\ q.stage = "queued"
  <2>1. AskedAs(q, "isBlockhashValid", s, c)  BY <1>1, FromMemory
  <2> QED  BY <2>1 DEF AskedAs
<1>5. PICK x : x = {t \in Slots : \A r \in Readers : t \in reader[r].recent}  OBVIOUS
<1>6. p = [q EXCEPT !.recent = x]  BY <1>1, <1>5 DEF RpcRequestIsBlockhashValid
<1>7. /\ IsRequest(p) /\ p.kind = q.kind /\ p.slot = q.slot /\ p.commit = q.commit /\ p.stage = q.stage
      /\ p.held = q.held /\ p.seen = q.seen /\ p.recent = x
  BY <1>4, <1>6 DEF IsRequest, RequestFields
<1>8. "isBlockhashValid" # StatusKind /\ "isBlockhashValid" # "getBlocks"
      /\ "isBlockhashValid" # "getBlockTime"
      /\ "isBlockhashValid" \notin TransactionKinds
  BY DEF StatusKind, TransactionKinds
<1> QED  BY <1>3, <1>4, <1>5, <1>7, <1>8 DEF Opens

\* getSignatureStatuses.
LEMMA StatusesOpen ==
    ASSUME NEW a \in LiveSlots, NEW b \in LiveSlots, NEW c \in Commitments, NEW history,
           NEW p \in RpcRequestSignatureStatuses(a, b, c, history)
    PROVE  Opens(p)
<1>0. a \in Slots /\ b \in Slots  BY DEF LiveSlots
<1>1. PICK q : q = Asked("getSignatureStatuses", a, c)  OBVIOUS
<1>2. /\ IsRequest(q) /\ q.kind = "getSignatureStatuses" /\ q.slot = a /\ q.commit = c
      /\ q.stage = "queued" /\ q.recent = {}
  <2>1. AskedAs(q, "getSignatureStatuses", a, c)  BY <1>0, <1>1, AskedIs
  <2> QED  BY <2>1 DEF AskedAs
<1>3. PICK x, y : /\ p = [q EXCEPT !.other = b, !.history = history, !.local = y, !.held = x]
                  /\ x = {s \in {a, b} : Held(s, c) /\ \A r \in Readers : s <= reader[r].finalized}
  BY <1>1 DEF RpcRequestSignatureStatuses
<1>4. /\ IsRequest(p) /\ p.kind = q.kind /\ p.slot = q.slot /\ p.commit = q.commit /\ p.stage = q.stage
      /\ p.recent = q.recent /\ p.other = b /\ p.held = x
  BY <1>2, <1>3 DEF IsRequest, RequestFields
<1>5. StatusKind \notin MemoryKinds /\ StatusKind # "getBlocks" /\ StatusKind = "getSignatureStatuses"
  BY KindsApart DEF StatusKind
<1>6. \A s \in x : s \in Slots /\ Held(s, c) /\ \A r \in Readers : s <= reader[r].finalized
  BY <1>0, <1>3
<1> QED  BY <1>0, <1>2, <1>4, <1>5, <1>6 DEF Opens

\* Whatever a client may ask.
LEMMA RequestsOpen ==
    ASSUME ReadInv, Traced, Levels
    PROVE  \A q \in Requests : Opens(q)
<1>0. LiveSlots \subseteq Slots /\ 1 \in Slots /\ "confirmed" \in Commitments /\ IndexInv
  BY BlockStoreAssumption DEF LiveSlots, Slots, Commitments, ReadInv
<1>1. \A c \in Commitments : stored[c] \in Nat  BY DEF Levels, Commitments
<1>2. ASSUME NEW s \in Slots, NEW e \in Slots, NEW c \in Commitments, NEW p \in RpcRequestBlocks(s, e, c)
      PROVE  Opens(p)
  <2>1. PICK end : end = IF e < stored[c] THEN e ELSE stored[c]  OBVIOUS
  <2>2. end \in Nat  BY <1>1, <2>1 DEF Slots
  <2>2a. PICK until : until = [end |-> end]  OBVIOUS
  <2>3. PICK q : q = AskedBlocks(s, until, c)  OBVIOUS
  <2>4. \/ p = [q EXCEPT !.stage = "done", !.result = Result("blocks", {})]
        \/ p \in process_blocks(q)
    BY <1>2, <2>1, <2>2a, <2>3 DEF RpcRequestBlocks
  <2>5. \A x \in process_blocks(q) : Opens(x)  BY <1>0, <2>2, <2>2a, <2>3, BlocksOpen
  <2>6. Opens([q EXCEPT !.stage = "done", !.result = Result("blocks", {})])
    BY <1>0, <2>2, <2>2a, <2>3, BlocksOpen
  <2> QED  BY <2>4, <2>5, <2>6
<1>3. ASSUME NEW s \in Slots, NEW n \in 1 .. 2, NEW c \in Commitments,
             NEW p \in RpcRequestBlocksWithLimit(s, n, c)
      PROVE  Opens(p)
  <2>1. PICK q : q = AskedBlocks(s, [limit |-> n], c)  OBVIOUS
  <2>2. p \in process_blocks(q) /\ n \in Nat  BY <1>3, <2>1 DEF RpcRequestBlocksWithLimit
  <2> QED  BY <1>0, <2>1, <2>2, BlocksOpen
<1> SUFFICES ASSUME NEW q \in Requests PROVE Opens(q)  OBVIOUS
<1>10. CASE \E s \in Slots, c \in Commitments : q \in RpcRequestBlock(s, c)
  <2>1. "getBlock" \in BlockKinds  BY DEF BlockKinds
  <2> QED  BY <1>10, <2>1, CheckOpens DEF RpcRequestBlock
<1>11. CASE \E s \in Slots : q \in process_block(s)
  <2>1. "/block" \in BlockKinds /\ stored.confirmed = stored["confirmed"]  BY DEF BlockKinds
  <2> QED  BY <1>0, <1>11, <2>1, CheckOpens DEF process_block
<1>12. CASE \E s \in Slots, e \in Slots, c \in Commitments : q \in RpcRequestBlocks(s, e, c)
  BY <1>2, <1>12
<1>13. CASE \E s \in Slots, n \in 1 .. 2, c \in Commitments : q \in RpcRequestBlocksWithLimit(s, n, c)
  BY <1>3, <1>13
<1>14. CASE \E c \in Commitments : q \in RpcRequestBlockHeight(c) \/ q \in RpcRequestLatestBlockhash(c)
  <2>1. "getBlockHeight" \in HeightKinds /\ "getLatestBlockhash" \in HeightKinds  BY DEF HeightKinds
  <2> QED  BY <1>0, <1>14, <2>1, MemoryOpens DEF RpcRequestBlockHeight, RpcRequestLatestBlockhash
<1>15. CASE \E s \in Slots : q \in RpcRequestBlockTime(s)
  BY <1>0, <1>15, BlockTimeOpens
<1>16. CASE \E s \in LiveSlots, c \in Commitments : q \in RpcRequestIsBlockhashValid(s, c)
  BY <1>0, <1>16, BlockhashOpens
<1>17. CASE \E s \in LiveSlots, c \in Commitments : q \in RpcRequestTransaction(s, c)
  <2>1. "getTransaction" \in ReadKinds  BY DEF ReadKinds, TransactionKinds
  <2> QED  BY <1>0, <1>17, <2>1, AskedOpens DEF RpcRequestTransaction
<1>18. CASE \E s \in LiveSlots : q \in process_transaction(s)
  <2>1. "/tx" \in ReadKinds  BY DEF ReadKinds, TransactionKinds
  <2> QED  BY <1>0, <1>18, <2>1, AskedOpens DEF process_transaction
<1>19. CASE \E c \in Commitments, h \in BOOLEAN, p \in {x \in LiveSlots \X LiveSlots : x[1] # x[2]} :
              q \in RpcRequestSignatureStatuses(p[1], p[2], c, h)
  <2>1. PICK c \in Commitments, h \in BOOLEAN, p \in {x \in LiveSlots \X LiveSlots : x[1] # x[2]} :
              q \in RpcRequestSignatureStatuses(p[1], p[2], c, h)
    BY <1>19
  <2>2. p[1] \in LiveSlots /\ p[2] \in LiveSlots  OBVIOUS
  <2> QED  BY <2>1, <2>2, StatusesOpen
<1>20. PICK Q : q \in Q /\ OneOf(Q)  BY RequestsAre
<1> QED
  BY <1>10, <1>11, <1>12, <1>13, <1>14, <1>15, <1>16, <1>17, <1>18, <1>19, <1>20 DEF OneOf

-----------------------------------------------------------------------------
(***************************************************************************)
(* The others move while a request is under way.                           *)
(***************************************************************************)

\* A reader goes on: what it could serve it can serve still, or it is lost.
GoesOn(r) ==
    /\ \A s \in DOMAIN reader[r].ring : s \in DOMAIN reader'[r].ring \/ Lost(s)'
    /\ reader[r].inproc # None =>
          reader[r].inproc \in DOMAIN reader'[r].ring \/ reader[r].inproc = reader'[r].inproc
    /\ \A x \in reader[r].recent :
          x \in reader'[r].recent \/ reader'[r].peak >= Height(x) + MaxRecent
    /\ \A s \in Nat : Reaches(reader[r], s) => Reaches(reader'[r], s)
    /\ reader[r].finalized <= reader'[r].finalized /\ reader[r].peak <= reader'[r].peak

Advance ==
    /\ \A s : Lost(s) => Lost(s)'
    /\ \A s, c : Agrees(s, c) => Agrees(s, c)'
    /\ stored.finalized <= stored'.finalized
    /\ \A r \in Readers : GoesOn(r)

\* A step of the writer.
LEMMA StorageAdvance ==
    ASSUME IndexInv, MemoryInv, Storage
    PROVE  Advance
<1>0. StoreInv /\ Progress /\ Levels /\ Types /\ Placed
  BY DEF IndexInv, MemoryInv, StoreInv, Progress
<1>1. Moves  BY <1>0, StorageMoves
<1>2. reader' = reader /\ stored'.finalized = stored.finalized  BY StorageQuiet
<1>3. \A s : Lost(s) => Lost(s)'  BY <1>0, <1>1, LostStays
<1>4. ASSUME NEW s, NEW c, Agrees(s, c) PROVE Agrees(s, c)'
  <2>1. Known(s)'  BY <1>1, <1>4 DEF Moves, Agrees
  <2> QED  BY <1>0, <1>1, <1>4, <2>1, AgreesKept DEF Moves, StoreInv
<1>5. ASSUME NEW r \in Readers PROVE GoesOn(r)
  <2>1. reader[r].finalized \in Nat /\ reader[r].peak \in Nat  BY <1>0 DEF Levels, ReaderLevels
  <2> QED  BY <1>2, <2>1 DEF GoesOn
<1>6. stored.finalized \in Nat  BY <1>0 DEF Levels
<1> QED  BY <1>2, <1>3, <1>4, <1>5, <1>6 DEF Advance

\* A reader that handles a message.
LEMMA HandleGoesOn ==
    ASSUME IndexInv, MemoryInv, NEW r \in Readers, receive(r), \A s : Lost(s) => Lost(s)'
    PROVE  GoesOn(r)
<1>0. Traced /\ Levels  BY DEF MemoryInv
<1>1. PICK m : m = inbox[r][1]  OBVIOUS
<1>2. /\ View(reader[r].ring, reader[r].inproc)
      /\ m.type = "BlockConfirmed" => reader[r].inproc = None
      /\ m.type = "PushFront" => reader[r].inproc = m.slot
      /\ m.type = "PopBack" =>
           /\ DOMAIN reader[r].ring # {} /\ Lost(Lowest(DOMAIN reader[r].ring))
  BY <1>0, <1>1, HandleView
<1>3. /\ m.type = "PushFront" => reader'[r].inproc = None
      /\ m.type \notin {"BlockConfirmed", "PushFront"} => reader'[r].inproc = reader[r].inproc
      /\ m.type \in {"PushFront", "PushBack"} =>
           reader'[r].ring = Put(reader[r].ring, m.slot, m.cell)
      /\ m.type = "PopBack" =>
           reader'[r].ring = Restrict(reader[r].ring,
                                      DOMAIN reader[r].ring \ {Lowest(DOMAIN reader[r].ring)})
      /\ m.type \in {"BlockConfirmed", "SlotFinalized"} => reader'[r].ring = reader[r].ring
  BY <1>1, HandleIs
<1>4. m.type \in {"PopBack", "PushFront", "PushBack", "BlockConfirmed", "SlotFinalized"}
  <2>1. m \in Messages  BY <1>1, HandleIs
  <2> QED  BY <2>1 DEF Messages
<1>5. \A s \in DOMAIN reader[r].ring : s \in DOMAIN reader'[r].ring \/ Lost(s)'
  BY <1>2, <1>3, <1>4 DEF Put, Restrict
<1>6. reader[r].inproc # None =>
          reader[r].inproc \in DOMAIN reader'[r].ring \/ reader[r].inproc = reader'[r].inproc
  BY <1>2, <1>3, <1>4 DEF Put
<1>7. /\ reader[r].finalized <= reader'[r].finalized /\ reader[r].peak <= reader'[r].peak
      /\ \A x \in reader[r].recent :
           x \in reader'[r].recent \/ reader'[r].peak >= Height(x) + MaxRecent
      /\ \A s \in Nat : Reaches(reader[r], s) => Reaches(reader'[r], s)
  BY <1>0, <1>1, HandleReader
<1> QED  BY <1>5, <1>6, <1>7 DEF GoesOn

LEMMA HandleAdvance ==
    ASSUME IndexInv, MemoryInv, NEW r \in Readers, receive(r)
    PROVE  Advance
<1>0. Traced /\ Levels  BY DEF MemoryInv
<1>1. /\ ring' = ring /\ next' = next /\ op' = op /\ next_back_slot' = next_back_slot
  BY DEF receive, writer
<1>2. \A s : Lost(s) => Lost(s)'  BY <1>1 DEF Lost, Known, Reached
<1>3. \A s, c : Agrees(s, c) => Agrees(s, c)'  BY <1>1 DEF Agrees, Known, Reached
<1>4. stored.finalized <= stored'.finalized  BY <1>0, HandleLevels
<1>5. GoesOn(r)  BY <1>2, HandleGoesOn
<1>6. ASSUME NEW q \in Readers \ {r} PROVE GoesOn(q)
  <2>1. reader'[q] = reader[q]  BY HandleIs
  <2>2. reader[q].finalized \in Nat /\ reader[q].peak \in Nat  BY <1>0 DEF Levels, ReaderLevels
  <2> QED  BY <2>1, <2>2 DEF GoesOn
<1>7. \A q \in Readers : GoesOn(q)  BY <1>5, <1>6
<1> QED  BY <1>2, <1>3, <1>4, <1>7 DEF Advance

\* What is said of a request stays true.
LEMMA SoundKept ==
    ASSUME Levels, Levels', Advance, NEW q, Sound(q)
    PROVE  Sound(q)'
<1>1. stored.finalized \in Nat /\ stored'.finalized \in Nat  BY DEF Levels
<1>2. ASSUME NEW s \in q.held
      PROVE  s \in Slots /\ (q.commit = "finalized" => s <= stored'.finalized)
  <2>1. s \in Slots /\ (q.commit = "finalized" => s <= stored.finalized)  BY DEF Sound
  <2>2. s \in Int  BY <2>1 DEF Slots
  <2> QED  BY <1>1, <2>1, <2>2 DEF Advance
<1> QED  BY <1>2 DEF Sound

LEMMA WaitsKept ==
    ASSUME Levels, Levels', Advance, NEW q, Sound(q), Waits(q)
    PROVE  Waits(q)'
<1>1. \A r \in Readers : \A s \in Nat : Reaches(reader[r], s) => Reaches(reader'[r], s)
  BY DEF Advance, GoesOn
<1>1a. ASSUME q.kind \in MemoryKinds, NEW r \in Readers PROVE Reaches(reader'[r], q.seen)
  BY <1>1, <1>1a DEF Sound, Waits
<1>1b. ASSUME q.kind = "getBlockTime", NEW s \in q.held, NEW r \in Readers PROVE Reaches(reader'[r], s)
  <2>1. s \in Nat  BY DEF Sound, Slots
  <2> QED  BY <1>1, <1>1b, <2>1 DEF Waits
<1>2. ASSUME NEW s \in q.held, NEW r \in Readers
      PROVE  s \in DOMAIN reader'[r].ring \/ s = reader'[r].inproc \/ Lost(s)'
  <2>1. s \in DOMAIN reader[r].ring \/ s = reader[r].inproc \/ Lost(s)  BY DEF Waits
  <2>2. s # None  BY SlotNotNone DEF Sound
  <2>3. GoesOn(r) /\ (Lost(s) => Lost(s)')  BY DEF Advance
  <2> QED  BY <2>1, <2>2, <2>3 DEF GoesOn
<1>3. ASSUME q.slot \in q.recent, NEW r \in Readers
      PROVE  q.slot \in reader'[r].recent \/ reader'[r].peak >= Height(q.slot) + MaxRecent
  <2>1. q.slot \in reader[r].recent \/ reader[r].peak >= Height(q.slot) + MaxRecent  BY <1>3 DEF Waits
  <2>2. CASE q.slot \in reader[r].recent  BY <2>2 DEF Advance, GoesOn
  <2>3. CASE reader[r].peak >= Height(q.slot) + MaxRecent
    <3>1. reader[r].peak <= reader'[r].peak  BY DEF Advance, GoesOn
    <3>2. reader[r].peak \in Nat /\ reader'[r].peak \in Nat  BY DEF Levels, ReaderLevels
    <3>3. Height(q.slot) + MaxRecent \in Nat  BY HeightNat, StorageReadAssumption
    <3> QED  BY <2>3, <3>1, <3>2, <3>3
  <2> QED  BY <2>1, <2>2, <2>3
<1>4. ASSUME q.kind = StatusKind, NEW s \in q.held, NEW r \in Readers PROVE s <= reader'[r].finalized
  <2>1. s <= reader[r].finalized  BY <1>4 DEF Waits
  <2>2. reader[r].finalized <= reader'[r].finalized  BY DEF Advance, GoesOn
  <2>3. reader[r].finalized \in Nat /\ reader'[r].finalized \in Nat  BY DEF Levels, ReaderLevels
  <2>4. s \in Int  BY DEF Sound, Slots
  <2> QED  BY <2>1, <2>2, <2>3, <2>4
<1> QED  BY <1>1a, <1>1b, <1>2, <1>3, <1>4 DEF Waits, Reaches, Top

LEMMA FindsKept ==
    ASSUME Advance, NEW q, Finds(q)
    PROVE  Finds(q)'
<1>1. ASSUME q.stage \in {"index", "found"}, q.slot \in q.held
      PROVE  q.reader \in Readers /\ (q.slot \in DOMAIN reader'[q.reader].ring \/ Lost(q.slot)')
  <2>1. q.reader \in Readers /\ (q.slot \in DOMAIN reader[q.reader].ring \/ Lost(q.slot))
    BY <1>1 DEF Finds
  <2>2. GoesOn(q.reader) /\ (Lost(q.slot) => Lost(q.slot)')  BY <2>1 DEF Advance
  <2> QED  BY <2>1, <2>2 DEF GoesOn
<1>2. Lost(q.slot) => Lost(q.slot)'  BY DEF Advance
<1>3. Good(q) => Good(q)'  BY DEF Good
<1> QED  BY <1>1, <1>2, <1>3 DEF Finds

LEMMA LooksKept ==
    ASSUME Advance, NEW q, q.stage # "result", Looks(q)
    PROVE  Looks(q)'
<1>1. ASSUME NEW i \in 1 .. 2, q.stage = "index"
      PROVE  /\ StatusOf(q, i, q.local[i])
             /\ Asks2(q, i) \in q.held => Asks2(q, i) <= q.finalized
             /\ q.local[i] = NoStatus /\ Asks2(q, i) \in q.held =>
                   Lost(Asks2(q, i)) \/ \E c \in Cells : Agrees(Asks2(q, i), c)
  BY <1>1 DEF Looks
<1>2. PICK A : A = [i \in 1 .. 2 |-> Asks2(q, i)]  OBVIOUS
<1>3. ASSUME NEW i \in 1 .. 2
      PROVE  Lost(A[i]) \/ (\E c \in Cells : Agrees(A[i], c))
               => Lost(A[i])' \/ \E c \in Cells : Agrees(A[i], c)'
  BY DEF Advance
<1>4. \A i \in 1 .. 2 : A[i] = Asks2(q, i)  BY <1>2
<1>5. q.stage = "index" => q.history  BY DEF Looks
<1> QED  BY <1>1, <1>3, <1>4, <1>5 DEF Looks, StatusOf, Asks2

\* The writer or a reader moves: the request is on its way still.
LEMMA WayKept ==
    ASSUME Levels, Levels', Advance, NEW q, OnItsWay(q), q.stage # "done",
           q.stage = "result" => q.kind \in ReadKinds
    PROVE  OnItsWay(q)'
<1>1. Sound(q)'  BY SoundKept DEF OnItsWay
<1>2. q.stage = "queued" => Waits(q)'  BY WaitsKept DEF OnItsWay
<1>3. q.kind \in ReadKinds => Finds(q)'  BY FindsKept DEF OnItsWay
<1>4. q.kind = StatusKind => Looks(q)'  BY LooksKept, KindsApart DEF OnItsWay
<1>5. q.kind \in MemoryKinds => q.stage \notin {"index", "found", "file", "result"}
  BY KindsApart DEF OnItsWay
<1> QED  BY <1>1, <1>2, <1>3, <1>4, <1>5 DEF OnItsWay

-----------------------------------------------------------------------------
(***************************************************************************)
(* The client.                                                             *)
(***************************************************************************)

\* Nothing but the request moves.
Still == UNCHANGED <<writer, inbox, reader, stored>>

LEMMA WaySame ==
    ASSUME Still, NEW q, OnItsWay(q)
    PROVE  OnItsWay(q)'
<1>1. /\ ring' = ring /\ next' = next /\ op' = op /\ next_back_slot' = next_back_slot
      /\ reader' = reader /\ stored' = stored
  BY DEF Still, writer
<1>2. ASSUME NEW s PROVE Lost(s)' <=> Lost(s)  BY <1>1 DEF Lost, Known, Reached
<1>3. ASSUME NEW s, NEW c PROVE Agrees(s, c)' <=> Agrees(s, c)  BY <1>1 DEF Agrees, Known, Reached
<1>4. Sound(q)' <=> Sound(q)  BY <1>1 DEF Sound
<1>5. Waits(q)' <=> Waits(q)  BY <1>1, <1>2 DEF Waits, Reaches, Top
<1>6. Finds(q)' <=> Finds(q)  BY <1>1, <1>2 DEF Finds, Good
<1>7. Looks(q) => Looks(q)'
  <2>1. PICK A : A = [i \in 1 .. 2 |-> Asks2(q, i)]  OBVIOUS
  <2>2. \A i \in 1 .. 2 : A[i] = Asks2(q, i) /\ A[i] = Asks2(q, i)'  BY <2>1 DEF Asks2
  <2>3. \A i \in 1 .. 2 : /\ Lost(A[i])' <=> Lost(A[i])
                          /\ \A c \in Cells : Agrees(A[i], c)' <=> Agrees(A[i], c)
    BY <1>2, <1>3
  <2> QED  BY <1>1, <2>2, <2>3 DEF Looks, StatusOf, Asks2
<1>8. Serves(q)' <=> Serves(q)  BY <1>1, <1>2 DEF Serves, Good
<1>9. /\ HeightOK(q)' <=> HeightOK(q)
      /\ FailsOK(q)' <=> FailsOK(q)
      /\ ListedOK(q)' <=> ListedOK(q)
  BY DEF HeightOK, FailsOK, ListedOK, Expected
<1>10. MissedOK(q)' <=> MissedOK(q)  BY <1>1 DEF MissedOK
<1>11. AlignedOK(q)' <=> AlignedOK(q)  BY <1>1 DEF AlignedOK, Asks2
<1>12. Answered(q)' <=> Answered(q)  BY <1>9, <1>10, <1>11 DEF Answered
<1> QED  BY <1>4, <1>5, <1>6, <1>7, <1>8, <1>9, <1>12 DEF OnItsWay

\* A request that is under way is on its way.
LEMMA Underway ==
    ASSUME ReadInv, RequestWay, req.stage # "none"
    PROVE  OnItsWay(req) /\ IsRequest(req)
<1>1. NoRequest.stage = "none"  BY DEF NoRequest
<1>2. req # NoRequest  BY <1>1
<1> QED  BY <1>2, UnderWay DEF RequestWay

\* The step's request is on its way.
LEMMA WayStep ==
    ASSUME Still, NEW q, req' = q, OnItsWay(q)
    PROVE  RequestWay'
<1>1. OnItsWay(q)'  BY WaySame
<1> QED  BY <1>1 DEF RequestWay

LEMMA SoundSame ==
    ASSUME NEW p, NEW q, Same(p, q), Sound(q)
    PROVE  Sound(p)
BY DEF Same, Sound

\* A request that is done with.
LEMMA DoneWay ==
    ASSUME NEW p, NEW q, OnItsWay(q), Same(p, q), p.stage = "done", Answered(p)
    PROVE  OnItsWay(p)
<1>1. Sound(p)  BY SoundSame DEF OnItsWay
<1>2. Finds(p)  BY DEF Finds
<1>3. Looks(p)  BY DEF Looks
<1> QED  BY <1>1, <1>2, <1>3 DEF OnItsWay

\* The result is passed on.
PassedAs(p, q) ==
    /\ IsRequest(p) /\ p.stage = "done" /\ p.result = q.result
    /\ Same(p, q) /\ p.inside = q.inside

LEMMA PassedIs ==
    ASSUME NEW q, IsRequest(q), NEW p, p = [q EXCEPT !.stage = "done"]
    PROVE  PassedAs(p, q)
BY DEF IsRequest, RequestFields, Same, PassedAs

LEMMA ListedSame ==
    ASSUME NEW p, NEW q, Same(p, q), p.inside = q.inside, p.result = q.result
    PROVE  /\ HeightOK(q) => HeightOK(p)
           /\ FailsOK(q) => FailsOK(p)
           /\ ListedOK(q) => ListedOK(p)
<1>1. HeightOK(q) => HeightOK(p)  BY DEF Same, HeightOK
<1>2. FailsOK(q) => FailsOK(p)  BY DEF Same, FailsOK, Expected
<1>3. ListedOK(q) => ListedOK(p)
  <2>1. p.inside => q.inside  BY Zenon
  <2> QED  BY <2>1 DEF Same, ListedOK
<1> QED  BY <1>1, <1>2, <1>3

\* The deadline passes.
LEMMA GiveUpWay == ReadInv /\ RequestWay /\ give_up => RequestWay'
<1> SUFFICES ASSUME ReadInv, RequestWay, give_up PROVE RequestWay'  OBVIOUS
<1>1. req.stage # "none" /\ req' = Done(req, "timeout") /\ Still  BY DEF give_up, Still
<1>2. PICK q : q = req  OBVIOUS
<1>3. OnItsWay(q) /\ IsRequest(q)  BY <1>1, <1>2, Underway
<1>4. PICK p : p = Done(q, "timeout")  OBVIOUS
<1>5. p = [q EXCEPT !.stage = "done", !.result = Result("timeout", None)]  BY <1>4 DEF Done
<1>6. DoneAs(p, q, "timeout", None)  BY <1>3, <1>5, DoneIs
<1>7. Answered(p)
  BY <1>6 DEF DoneAs, Answered, HeightOK, FailsOK, ListedOK, MissedOK, AlignedOK
<1>8. OnItsWay(p)  BY <1>3, <1>6, <1>7, DoneWay DEF DoneAs
<1>9. req' = p  BY <1>1, <1>2, <1>4
<1> QED  BY <1>1, <1>8, <1>9, WayStep

\* The client has its answer.
LEMMA FinishWay == finish => RequestWay'
BY DEF finish, RequestWay

\* The client asks.
LEMMA AskWay == ReadInv /\ MemoryInv /\ ask => RequestWay'
<1> SUFFICES ASSUME ReadInv, MemoryInv, ask PROVE RequestWay'  OBVIOUS
<1>1. PICK q : q = req'  OBVIOUS
<1>2. q \in Requests /\ Still  BY <1>1 DEF ask, Still
<1>3. OnItsWay(q)  BY <1>2, RequestsOpen, OpensWell DEF MemoryInv
<1> QED  BY <1>1, <1>2, <1>3, WayStep

\* What a block, a transaction or a time is answered with: only a slot above
\* first_available matters, and that is not lost.
LEMMA MissedDone ==
    ASSUME ReadInv, NEW q, OnItsWay(q), q.stage = "result",
           q.kind \in ReadKinds \union {"getBlockTime"},
           NEW p, Same(p, q), p.stage = "done",
           p.result.type # "failed" \/ (p.result = q.result /\ p.inside = q.inside),
           Good(q) /\ q.slot \in q.held /\ q.slot > stored.first =>
              p.result.type = IF q.slot \in Skipped THEN "skipped"
                              ELSE IF q.kind = "getBlockTime" THEN "time" ELSE "block"
    PROVE  OnItsWay(p)
<1>1. p.kind = q.kind /\ p.slot = q.slot /\ p.held = q.held  BY DEF Same
<1>2. q.kind \notin HeightKinds /\ q.kind # StatusKind /\ q.kind # "getBlocks"
  BY KindsApart DEF HeightKinds, StatusKind
<1>3. HeightOK(p) /\ ListedOK(p) /\ AlignedOK(p)  BY <1>1, <1>2 DEF HeightOK, ListedOK, AlignedOK
<1>4. q.kind \in MemoryKinds => Serves(q) /\ FailsOK(q)  BY DEF OnItsWay
<1>5. FailsOK(p)
  <2>1. CASE p.result.type # "failed"  BY <2>1 DEF FailsOK
  <2>2. CASE p.result = q.result /\ p.inside = q.inside
    <3>1. q.kind \notin MemoryKinds => FailsOK(p)  BY <1>1 DEF FailsOK
    <3> QED  BY <1>4, <2>2, <3>1, ListedSame
  <2> QED  BY <2>1, <2>2
<1>6. ASSUME q.slot \in q.held, q.slot > stored.first PROVE Good(q)
  <2>1. Good(q) \/ Lost(q.slot)
    <3>1. CASE q.kind \in ReadKinds  BY <1>6, <3>1 DEF OnItsWay, Finds
    <3>2. CASE q.kind = "getBlockTime"  BY <1>4, <1>6, <3>2, KindsApart DEF Serves
    <3> QED  BY <3>1, <3>2
  <2>2. ~ Lost(q.slot)
    <3>1. q.slot \in Int /\ stored.first \in Int  BY LostBelow DEF OnItsWay, Sound, Slots, ReadInv
    <3> QED  BY <1>6, <3>1, LostBelow DEF ReadInv
  <2> QED  BY <2>1, <2>2
<1>7. MissedOK(p)  BY <1>1, <1>2, <1>6 DEF MissedOK
<1> QED  BY <1>3, <1>5, <1>7, DoneWay DEF Answered

LEMMA DoneSame ==
    ASSUME NEW q, IsRequest(q), NEW type
    PROVE  /\ Same(Done(q, type), q) /\ Done(q, type).stage = "done"
           /\ Done(q, type).result.type = type
<1>1. PICK p : p = Done(q, type)  OBVIOUS
<1>2. p = [q EXCEPT !.stage = "done", !.result = Result(type, None)]  BY <1>1 DEF Done
<1>3. DoneAs(p, q, type, None)  BY <1>2, DoneIs
<1> QED  BY <1>1, <1>3 DEF DoneAs

LEMMA BlockAnswerWay ==
    ASSUME ReadInv, RequestWay, req.stage = "result", Still,
           \/ req.kind \in BlockKinds /\ req' = block_answer
           \/ req.kind = "getBlockTime" /\ req' = block_time_answer
    PROVE  RequestWay'
<1>1. PICK q : q = req  OBVIOUS
<1>2. OnItsWay(q) /\ IsRequest(q) /\ q.stage = "result"  BY <1>1, Underway
<1>3. q.kind \in ReadKinds \union {"getBlockTime"}  BY <1>1, KindsApart
<1>4. PICK p : p = req'  OBVIOUS
<1>5. PICK x : x = [q EXCEPT !.stage = "done"]  OBVIOUS
<1>6. PassedAs(x, q)  BY <1>2, <1>5, PassedIs
<1>7. \/ p = Done(q, "elsewhere") /\ q.result.type = "removed"
      \/ p = Done(q, "elsewhere") /\ ~ q.slot > stored.first
      \/ p = Done(q, "skipped") /\ q.result.type = "dead"
      \/ p = x /\ q.result.type # "dead"
  <2>1. CASE q.kind \in BlockKinds
    <3>1. p = block_answer  BY <1>1, <1>4, <2>1 DEF BlockKinds
    <3> QED  BY <1>1, <1>5, <3>1 DEF block_answer, fetch_upstream, PassedOn, StillStored
  <2>2. CASE q.kind = "getBlockTime"
    <3>1. p = block_time_answer  BY <1>1, <1>4, <2>2 DEF BlockKinds
    <3> QED  BY <1>1, <1>5, <3>1 DEF block_time_answer, fetch_upstream, PassedOn
  <2> QED  BY <1>1, <2>1, <2>2
<1>8. Same(p, q) /\ p.stage = "done"  BY <1>2, <1>6, <1>7, DoneSame DEF PassedAs
<1>9. p.result.type # "failed" \/ (p.result = q.result /\ p.inside = q.inside)
  BY <1>2, <1>6, <1>7, DoneSame DEF PassedAs
<1>10. Good(q) /\ q.slot \in q.held /\ q.slot > stored.first =>
              p.result.type = IF q.slot \in Skipped THEN "skipped"
                              ELSE IF q.kind = "getBlockTime" THEN "time" ELSE "block"
  BY <1>2, <1>6, <1>7, DoneSame DEF PassedAs, Good
<1>11. OnItsWay(p)  BY <1>2, <1>3, <1>8, <1>9, <1>10, MissedDone
<1> QED  BY <1>4, <1>11, WayStep

LEMMA TransactionAnswerWay ==
    ASSUME ReadInv, RequestWay, req.stage = "result", Still,
           req.kind \in TransactionKinds, req' = transaction_answer, Levels
    PROVE  RequestWay'
<1>1. PICK q : q = req  OBVIOUS
<1>2. OnItsWay(q) /\ IsRequest(q) /\ q.stage = "result"  BY <1>1, Underway
<1>3. q.kind \in ReadKinds /\ q.kind # "getBlockTime"  BY <1>1, KindsApart
<1>4. PICK p : p = req'  OBVIOUS
<1>5. PICK x : x = [q EXCEPT !.stage = "done"]  OBVIOUS
<1>6. PassedAs(x, q)  BY <1>2, <1>5, PassedIs
<1>7. \/ p = Done(q, "elsewhere") /\ q.result.type = "not_found"
      \/ p = Done(q, "null") /\ q.commit = "finalized" /\ stored.finalized < q.slot
      \/ p = Done(q, "elsewhere") /\ ~ q.slot > stored.first
      \/ p = x
  BY <1>1, <1>4, <1>5 DEF transaction_answer, fetch_upstream, PassedOn, StillStored
<1>8. Same(p, q) /\ p.stage = "done"  BY <1>2, <1>6, <1>7, DoneSame DEF PassedAs
<1>9. p.result.type # "failed" \/ (p.result = q.result /\ p.inside = q.inside)
  BY <1>2, <1>6, <1>7, DoneSame DEF PassedAs
<1>10. q.slot \in q.held /\ q.commit = "finalized" => ~ stored.finalized < q.slot
  <2>1. q.slot \in Int /\ stored.finalized \in Int
    BY <1>2 DEF OnItsWay, Sound, Slots, Levels
  <2> QED  BY <1>2, <2>1 DEF OnItsWay, Sound
<1>11. q.slot \notin Skipped  BY <1>1, <1>2 DEF OnItsWay, Sound, LiveSlots
<1>12. Good(q) /\ q.slot \in q.held /\ q.slot > stored.first => p.result.type = "block"
  BY <1>2, <1>3, <1>6, <1>7, <1>10, <1>11, DoneSame DEF PassedAs, Good
<1>13. OnItsWay(p)  BY <1>2, <1>3, <1>8, <1>9, <1>11, <1>12, MissedDone
<1> QED  BY <1>4, <1>13, WayStep

\* The answers from memory.
LEMMA MemoryAnswerWay ==
    ASSUME ReadInv, RequestWay, req.stage = "result", Still,
           \/ req.kind = "getBlocks" /\ req' = blocks_answer
           \/ req.kind \in HeightKinds /\ req' = PassedOn
    PROVE  RequestWay'
<1>1. PICK q : q = req  OBVIOUS
<1>2. OnItsWay(q) /\ IsRequest(q) /\ q.stage = "result"  BY <1>1, Underway
<1>3. q.kind \in MemoryKinds /\ q.kind # StatusKind /\ q.kind \notin ReadKinds /\ q.kind # "getBlockTime"
  BY <1>1, KindsApart
<1>4. Serves(q) /\ HeightOK(q) /\ FailsOK(q) /\ ListedOK(q)  BY <1>2, <1>3 DEF OnItsWay
<1>5. PICK p : p = req'  OBVIOUS
<1>6. PICK x : x = [q EXCEPT !.stage = "done"]  OBVIOUS
<1>7. PassedAs(x, q)  BY <1>2, <1>6, PassedIs
<1>8. \/ p = Done(q, "cleaned_up") /\ q.result.type = "removed" /\ q.kind = "getBlocks"
      \/ p = x /\ q.result.type # "removed"
      \/ p = x /\ q.kind # "getBlocks"
  BY <1>1, <1>5, <1>6 DEF blocks_answer, PassedOn, HeightKinds
<1>9. CASE p = Done(q, "cleaned_up") /\ q.result.type = "removed" /\ q.kind = "getBlocks"
  <2>1. Same(p, q) /\ p.stage = "done" /\ p.result.type = "cleaned_up"  BY <1>2, <1>9, DoneSame
  <2>2. q.slot \in q.held => ~ q.slot > stored.first
    <3>1. q.slot \in Int /\ stored.first \in Int  BY <1>2, LostBelow DEF OnItsWay, Sound, Slots, ReadInv
    <3> QED  BY <1>4, <1>9, <3>1 DEF Serves
  <2>3. Answered(p)
    BY <1>9, <2>1, <2>2 DEF Same, Answered, HeightOK, FailsOK, ListedOK, MissedOK, AlignedOK
  <2>4. OnItsWay(p)  BY <1>2, <2>1, <2>3, DoneWay
  <2> QED  BY <1>5, <2>4, WayStep
<1>10. CASE p = x
  <2>1. Same(p, q) /\ p.stage = "done" /\ p.result = q.result /\ p.inside = q.inside
    BY <1>7, <1>10 DEF PassedAs
  <2>2. HeightOK(p) /\ FailsOK(p) /\ ListedOK(p)  BY <1>4, <2>1, ListedSame
  <2>3. MissedOK(p)
    <3>1. p.kind = q.kind  BY <2>1 DEF Same
    <3>2. CASE q.kind = "getBlocks"
      <4>1. p.result.type = q.result.type  BY <2>1
      <4>2. q.result.type # "cleaned_up"  BY <1>4, <3>2 DEF Serves
      <4> QED  BY <3>1, <3>2, <4>1, <4>2 DEF MissedOK
    <3>3. CASE q.kind # "getBlocks"  BY <1>3, <3>1, <3>3 DEF MissedOK
    <3> QED  BY <3>2, <3>3
  <2>4. AlignedOK(p)  BY <1>3, <2>1 DEF Same, AlignedOK
  <2>5. Answered(p)  BY <2>2, <2>3, <2>4 DEF Answered
  <2>6. OnItsWay(p)  BY <1>2, <2>1, <2>5, DoneWay
  <2> QED  BY <1>5, <2>6, WayStep
<1> QED  BY <1>8, <1>9, <1>10

\* What an upstream is asked for, and where its answers go.
Missing(local) ==
    (IF local[1] = NoStatus THEN <<1>> ELSE <<>>) \o (IF local[2] = NoStatus THEN <<2>> ELSE <<>>)

Upstream(missing, S) == [i \in DOMAIN missing |-> [slot |-> S[missing[i]], level |-> "upstream"]]

LEMMA MergedIs ==
    ASSUME NEW local, NEW S, NEW i \in 1 .. 2, local[i] = NoStatus
    PROVE  Merged(local, Upstream(Missing(local), S))[i].slot = S[i]
<1>0. PICK missing, answers : missing = Missing(local) /\ answers = Upstream(missing, S)  OBVIOUS
<1>1. PICK C : C = {j \in 1 .. i : local[j] = NoStatus}  OBVIOUS
<1>2. Merged(local, answers)[i] = answers[Cardinality(C)]  BY <1>1 DEF Merged
<1>3. CASE i = 1
  <2>1. C = {1}  BY <1>1, <1>3
  <2>2. Cardinality(C) = 1  BY <2>1, FS_Singleton
  <2>3. 1 \in DOMAIN missing /\ missing[1] = 1  BY <1>0, <1>3 DEF Missing
  <2>4. answers[1].slot = S[1]  BY <1>0, <2>3 DEF Upstream
  <2> QED  BY <1>0, <1>2, <1>3, <2>2, <2>4
<1>4. CASE i = 2 /\ local[1] # NoStatus
  <2>1. C = {2}  BY <1>1, <1>4
  <2>2. Cardinality(C) = 1  BY <2>1, FS_Singleton
  <2>3. 1 \in DOMAIN missing /\ missing[1] = 2  BY <1>0, <1>4 DEF Missing
  <2>4. answers[1].slot = S[2]  BY <1>0, <2>3 DEF Upstream
  <2> QED  BY <1>0, <1>2, <1>4, <2>2, <2>4
<1>5. CASE i = 2 /\ local[1] = NoStatus
  <2>1. C = {1} \union {2} /\ 2 \notin {1}  BY <1>1, <1>5
  <2>2. Cardinality(C) = 2
    <3>1. IsFiniteSet({1}) /\ Cardinality({1}) = 1  BY FS_Singleton
    <3>2. Cardinality({1} \union {2}) = 1 + 1  BY <2>1, <3>1, FS_AddElement
    <3>3. 1 + 1 = 2  OBVIOUS
    <3> QED  BY <2>1, <3>2, <3>3, Zenon
  <2>3. 2 \in DOMAIN missing /\ missing[2] = 2  BY <1>0, <1>5 DEF Missing
  <2>4. answers[2].slot = S[2]  BY <1>0, <2>3 DEF Upstream
  <2> QED  BY <1>0, <1>2, <1>5, <2>2, <2>4
<1>6. i = 1 \/ i = 2  OBVIOUS
<1> QED  BY <1>0, <1>3, <1>4, <1>5, <1>6

\* The statuses are given.
LEMMA StatusesAnswerWay ==
    ASSUME ReadInv, RequestWay, req.stage = "result", Still,
           req.kind = StatusKind, req' \in statuses_answer
    PROVE  RequestWay'
<1>1. PICK q : q = req  OBVIOUS
<1>2. OnItsWay(q) /\ IsRequest(q) /\ q.stage = "result" /\ q.kind = StatusKind  BY <1>1, Underway
<1>3. PICK p : p = req'  OBVIOUS
<1>4. PICK local : local = [i \in 1 .. 2 |->
        IF q.commit = "finalized" /\ q.result.value[i].level = "confirmed"
        THEN NoStatus ELSE q.result.value[i]]
  OBVIOUS
<1>5. PICK S : S = Signatures  OBVIOUS
<1>6. PICK answers : answers = Upstream(Missing(local), S)  OBVIOUS
<1>7. \E x \in {local, Merged(local, answers)} :
        p = [q EXCEPT !.stage = "done", !.result = Result("statuses", x)]
  <2> DEFINE L == [i \in 1 .. 2 |->
                    IF req.commit = "finalized" /\ req.result.value[i].level = "confirmed"
                    THEN NoStatus ELSE req.result.value[i]]
             M == (IF L[1] = NoStatus THEN <<1>> ELSE <<>>) \o (IF L[2] = NoStatus THEN <<2>> ELSE <<>>)
             A == [i \in DOMAIN M |-> [slot |-> Signatures[M[i]], level |-> "upstream"]]
             Given(x) == [req EXCEPT !.stage = "done", !.result = Result("statuses", x)]
  <2>1. req' \in {Given(L)} \union IF req.history /\ M # <<>> THEN {Given(Merged(L, A))} ELSE {}
    BY Zenon DEF statuses_answer
  <2>2. L = local  BY <1>1, <1>4
  <2>3. A = answers  BY <1>5, <1>6, <2>2 DEF Upstream, Missing
  <2> HIDE DEF L, M, A, Given
  <2>4. req' = Given(L) \/ req' = Given(Merged(L, A))  BY <2>1
  <2>5. \A x : Given(x) = [q EXCEPT !.stage = "done", !.result = Result("statuses", x)]  BY <1>1 DEF Given
  <2> QED  BY <1>3, <2>2, <2>3, <2>4, <2>5
<1>8. PICK x \in {local, Merged(local, answers)} :
        p = [q EXCEPT !.stage = "done", !.result = Result("statuses", x)]
  BY <1>7
<1>9. DoneAs(p, q, "statuses", x)  BY <1>2, <1>8, DoneIs
<1>10. \A i \in 1 .. 2 : Signatures[i] = Asks2(q, i)  BY <1>1 DEF Signatures, Asks2
<1>11. NoStatus.slot = None /\ NoStatus.level # "confirmed"  BY DEF NoStatus
<1>12. ASSUME NEW i \in 1 .. 2
       PROVE  \/ local[i].slot = Asks2(q, i)
              \/ /\ local[i].slot = None /\ local[i] = NoStatus
                 /\ q.history /\ Asks2(q, i) \in q.held => Asks2(q, i) <= stored.first
  <2>1. /\ StatusOf(q, i, q.result.value[i])
        /\ q.result.value[i] = NoStatus /\ q.history /\ Asks2(q, i) \in q.held =>
              Asks2(q, i) <= stored.first
    BY <1>2 DEF OnItsWay, Looks
  <2>2. \/ local[i] = NoStatus /\ q.result.value[i].level = "confirmed"
        \/ local[i] = q.result.value[i]
    BY <1>4
  <2>3. CASE local[i] = NoStatus /\ q.result.value[i].level = "confirmed"
    <3>1. Asks2(q, i) \notin q.held  BY <1>11, <2>1, <2>3 DEF StatusOf
    <3> QED  BY <1>11, <2>3, <3>1
  <2>4. CASE local[i] = q.result.value[i] /\ local[i] = NoStatus  BY <1>11, <2>1, <2>4
  <2>5. CASE local[i] = q.result.value[i] /\ local[i] # NoStatus  BY <2>1, <2>5 DEF StatusOf
  <2> QED  BY <2>2, <2>3, <2>4, <2>5
<1>13. ASSUME NEW i \in 1 .. 2
       PROVE  \/ x[i].slot = Asks2(q, i)
              \/ /\ x[i].slot = None
                 /\ q.history /\ Asks2(q, i) \in q.held => Asks2(q, i) <= stored.first
  <2>1. CASE x = local  BY <1>12, <2>1
  <2>2. CASE x = Merged(local, answers) /\ local[i] # NoStatus
    <3>1. x[i] = local[i]  BY <2>2 DEF Merged
    <3> QED  BY <1>12, <2>2, <3>1
  <2>3. CASE x = Merged(local, answers) /\ local[i] = NoStatus
    <3>1. Merged(local, answers)[i].slot = S[i]  BY <1>6, <2>3, MergedIs
    <3> QED  BY <1>5, <1>10, <2>3, <3>1
  <2> QED  BY <1>8, <2>1, <2>2, <2>3
<1>14. \A i \in 1 .. 2 : Asks2(p, i) = Asks2(q, i)  BY <1>9 DEF DoneAs, Same, Asks2
<1>15. p.held = q.held /\ p.kind = q.kind /\ p.result.type = "statuses" /\ p.result.value = x
  BY <1>9 DEF DoneAs, Same
<1>16. p.history => q.history
  <2>1. p.history = q.history  BY <1>9 DEF DoneAs, Same
  <2> QED  BY <2>1, Zenon
<1>17. AlignedOK(p)  BY <1>13, <1>14, <1>15, <1>16 DEF AlignedOK
<1>18. q.kind \notin HeightKinds /\ q.kind \notin MemoryKinds /\ q.kind # "getBlocks"
       /\ q.kind \notin ReadKinds /\ q.kind # "getBlockTime"
  BY <1>2, KindsApart DEF StatusKind, HeightKinds
<1>19. Answered(p)
  BY <1>15, <1>17, <1>18 DEF Answered, HeightOK, FailsOK, ListedOK, MissedOK
<1>20. OnItsWay(p)  BY <1>2, <1>9, <1>19, DoneWay DEF DoneAs
<1> QED  BY <1>3, <1>20, WayStep

\* The client gets an answer.
LEMMA AnswerWay == ReadInv /\ Levels /\ RequestWay /\ answer => RequestWay'
<1> SUFFICES ASSUME ReadInv, Levels, RequestWay, answer PROVE RequestWay'  OBVIOUS
<1>1. req.stage = "result" /\ Still  BY DEF answer, Still
<1>2. OnItsWay(req)  BY <1>1, Underway
<1>3. req.kind \in ReadKinds \union MemoryKinds \union {StatusKind}  BY <1>2 DEF OnItsWay, Sound
<1>4. CASE req.kind \in BlockKinds
  <2>1. req' \in {block_answer}  BY <1>4 DEF answer, BlockKinds, HeightKinds
  <2>2. req' = block_answer  BY <2>1
  <2> QED  BY <1>1, <1>4, <2>2, BlockAnswerWay
<1>5. CASE req.kind \in TransactionKinds
  <2>1. req' \in {transaction_answer}  BY <1>5 DEF answer, TransactionKinds, HeightKinds
  <2>2. req' = transaction_answer  BY <2>1
  <2> QED  BY <1>1, <1>5, <2>2, TransactionAnswerWay
<1>6. CASE req.kind = "getBlocks"
  <2>1. req' \in {blocks_answer}  BY <1>6 DEF answer, HeightKinds
  <2>2. req' = blocks_answer  BY <2>1
  <2> QED  BY <1>1, <1>6, <2>2, MemoryAnswerWay
<1>7. CASE req.kind \in HeightKinds
  <2>1. req' \in {PassedOn}  BY <1>7 DEF answer, HeightKinds
  <2>2. req' = PassedOn  BY <2>1
  <2> QED  BY <1>1, <1>7, <2>2, MemoryAnswerWay
<1>8. CASE req.kind = "getBlockTime"
  <2>1. req' \in {block_time_answer}  BY <1>8 DEF answer, HeightKinds
  <2>2. req' = block_time_answer  BY <2>1
  <2> QED  BY <1>1, <1>8, <2>2, BlockAnswerWay
<1>9. CASE req.kind = StatusKind
  <2>1. req' \in statuses_answer  BY <1>9 DEF answer, HeightKinds, StatusKind
  <2> QED  BY <1>1, <1>9, <2>1, StatusesAnswerWay
<1> QED  BY <1>3, <1>4, <1>5, <1>6, <1>7, <1>8, <1>9 DEF ReadKinds, MemoryKinds

-----------------------------------------------------------------------------
(***************************************************************************)
(* A reader, and the disk.                                                 *)
(***************************************************************************)

\* A request that has a result.
GivenAs(p, q, x) ==
    /\ IsRequest(p) /\ p.stage = "result" /\ p.result = x
    /\ Same(p, q) /\ p.inside = q.inside

LEMMA GivenIs ==
    ASSUME NEW q, IsRequest(q), NEW x, NEW p, NEW r,
           NEW y, y = [q EXCEPT !.stage = "result", !.result = x],
           p = y \/ p = [y EXCEPT !.reader = r]
    PROVE  GivenAs(p, q, x)
<1>1. GivenAs(y, q, x)  BY DEF GivenAs, IsRequest, RequestFields, Same
<1>2. GivenAs(y, q, x) /\ p = [y EXCEPT !.reader = r] => GivenAs(p, q, x)
  BY DEF GivenAs, IsRequest, RequestFields, Same
<1> QED  BY <1>1, <1>2

LEMMA ResultWay ==
    ASSUME NEW q, OnItsWay(q), NEW p, Same(p, q), p.stage = "result",
           q.kind \in ReadKinds /\ q.slot \in q.held => Good(p) \/ Lost(q.slot),
           q.kind \in MemoryKinds => Serves(p) /\ HeightOK(p) /\ FailsOK(p) /\ ListedOK(p),
           q.kind = StatusKind => Looks(p)
    PROVE  OnItsWay(p)
<1>1. Sound(p)  BY SoundSame DEF OnItsWay
<1>2. p.kind = q.kind /\ p.slot = q.slot /\ p.held = q.held  BY DEF Same
<1>3. q.kind \in ReadKinds => Finds(p)  BY <1>2 DEF Finds
<1> QED  BY <1>1, <1>2, <1>3 DEF OnItsWay

\* A result for a block or a transaction.
LEMMA ReadResult ==
    ASSUME ReadInv, NEW q, OnItsWay(q), q.kind \in ReadKinds, NEW type, NEW value,
           NEW p, GivenAs(p, q, Result(type, value)),
           q.slot \in q.held =>
              Lost(q.slot) \/ type = IF q.slot \in Skipped THEN "dead" ELSE "block"
    PROVE  OnItsWay(p)
<1>1. Same(p, q) /\ p.stage = "result" /\ p.result.type = type  BY DEF GivenAs, Result
<1>2. q.kind \notin MemoryKinds /\ q.kind # StatusKind /\ q.kind # "getBlockTime"  BY KindsApart
<1>3. p.kind = q.kind /\ p.slot = q.slot  BY <1>1 DEF Same
<1>4. q.slot \in q.held => Good(p) \/ Lost(q.slot)  BY <1>1, <1>2, <1>3 DEF Good
<1> QED  BY <1>1, <1>2, <1>4, ResultWay

\* The bytes are read.
LEMMA ReadFileWay == ReadInv /\ RequestWay /\ read_file => RequestWay'
<1> SUFFICES ASSUME ReadInv, RequestWay, read_file PROVE RequestWay'  OBVIOUS
<1>1. PICK q : q = req  OBVIOUS
<1>2. req.stage = "file" /\ Still  BY DEF read_file, Still
<1>3. OnItsWay(q) /\ IsRequest(q)  BY <1>1, <1>2, Underway
<1>4. q.kind \in ReadKinds
  BY <1>1, <1>2, <1>3 DEF OnItsWay, Sound, Looks
<1>5. q.slot \notin Skipped  BY <1>1, <1>2, <1>3, <1>4 DEF OnItsWay, Finds
<1>6. PICK p : p = req'  OBVIOUS
<1>7. PICK v : v = bytes[q.cell]  OBVIOUS
<1>8. p = [q EXCEPT !.stage = "result", !.result = Result("block", v)]
  BY <1>1, <1>6, <1>7 DEF read_file, Answer
<1>9. GivenAs(p, q, Result("block", v))  BY <1>3, <1>8, GivenIs
<1>10. OnItsWay(p)  BY <1>3, <1>4, <1>5, <1>9, ReadResult
<1> QED  BY <1>2, <1>6, <1>10, WayStep

\* A reader's index has rows the writer's had once.
LEMMA ReaderAgrees ==
    ASSUME IndexInv, NEW r \in Readers, NEW s \in DOMAIN reader[r].ring
    PROVE  s \in Slots /\ Agrees(s, reader[r].ring[s]) /\ reader[r].ring[s] \in Cells \union {None}
<1>1. PICK h : FollowsBy(h, r)  BY DEF IndexInv, Follows
<1>2. Len(inbox[r]) \in Nat  BY DEF IndexInv, ReadersOK
<1>3. 1 \in 1 .. Len(inbox[r]) + 1  BY <1>2
<1>4. Past(reader[r].ring)  BY <1>1, <1>3 DEF FollowsBy
<1> QED  BY <1>4 DEF Past, IsRows

\* A block that was stored once has its index rows, or it is lost.
LEMMA StoredIndexed ==
    ASSUME IndexInv, Front, NEW s \in LiveSlots, NEW c, Agrees(s, c), s \notin indexed
    PROVE  Lost(s)
<1> SUFFICES ASSUME Reached(s) PROVE FALSE  BY DEF Lost, Agrees
<1>1. s \in DOMAIN ring  BY DEF Agrees
<1>2. ring[s] # None  BY <1>1 DEF Front, DeadOrLive, LiveSlots
<1>3. RowsFollow /\ ListedIndexed  BY DEF IndexInv, StoreInv, Progress
<1>4. s \in Live(basic)  BY <1>1, <1>2, <1>3 DEF RowsFollow, Live
<1> QED  BY <1>3, <1>4 DEF ListedIndexed

\* A transaction's rows are read.
LEMMA ReadRowsWay ==
    ASSUME ReadInv, Front, RequestWay, read_index, req.kind # StatusKind
    PROVE  RequestWay'
<1>1. PICK q : q = req  OBVIOUS
<1>2. req.stage = "index" /\ Still  BY DEF read_index, Still
<1>3. OnItsWay(q) /\ IsRequest(q) /\ q.stage = "index"  BY <1>1, <1>2, Underway
<1>4. q.kind \in ReadKinds  BY <1>1, <1>3 DEF OnItsWay, Sound
<1>5. Finds(q)  BY <1>3, <1>4 DEF OnItsWay
<1>6. q.slot \in LiveSlots  BY <1>3, <1>5 DEF OnItsWay, Finds, Sound
<1>7. PICK p : p = req'  OBVIOUS
<1>8. CASE q.slot \in indexed
  <2>1. p = [q EXCEPT !.stage = "found"]  BY <1>1, <1>7, <1>8 DEF read_index, StatusKind
  <2>2. IsRequest(p) /\ p.stage = "found" /\ p.reader = q.reader /\ Same(p, q)
    BY <1>3, <2>1 DEF IsRequest, RequestFields, Same
  <2>3. p.kind = q.kind /\ p.slot = q.slot /\ p.held = q.held  BY <2>2 DEF Same
  <2>4. Finds(p)  BY <1>3, <1>5, <2>2, <2>3 DEF Finds
  <2>5. Sound(p)  BY <1>3, <2>2, SoundSame DEF OnItsWay
  <2>6. q.kind \notin MemoryKinds /\ q.kind # StatusKind  BY <1>4, KindsApart
  <2>7. OnItsWay(p)  BY <2>2, <2>3, <2>4, <2>5, <2>6 DEF OnItsWay
  <2> QED  BY <1>2, <1>7, <2>7, WayStep
<1>9. CASE q.slot \notin indexed
  <2>1. p = [q EXCEPT !.stage = "result", !.result = Result("not_found", None)]
    BY <1>1, <1>7, <1>9 DEF read_index, StatusKind, Answer
  <2>2. GivenAs(p, q, Result("not_found", None))  BY <1>3, <2>1, GivenIs
  <2>3. ASSUME q.slot \in q.held PROVE Lost(q.slot)
    <3>1. q.reader \in Readers /\ (q.slot \in DOMAIN reader[q.reader].ring \/ Lost(q.slot))
      BY <1>3, <1>5, <2>3 DEF Finds
    <3>2. ASSUME q.slot \in DOMAIN reader[q.reader].ring PROVE Lost(q.slot)
      <4>1. Agrees(q.slot, reader[q.reader].ring[q.slot])  BY <3>1, <3>2, ReaderAgrees DEF ReadInv
      <4> QED  BY <1>6, <1>9, <4>1, StoredIndexed DEF ReadInv
    <3> QED  BY <3>1, <3>2
  <2>4. OnItsWay(p)  BY <1>3, <1>4, <2>2, <2>3, ReadResult
  <2> QED  BY <1>2, <1>7, <2>4, WayStep
<1> QED  BY <1>8, <1>9

\* The rows of the signatures are read.
LEMMA ReadStatusesWay ==
    ASSUME ReadInv, Front, RequestWay, read_index, req.kind = StatusKind
    PROVE  RequestWay'
<1>1. PICK q : q = req  OBVIOUS
<1>2. req.stage = "index" /\ Still  BY DEF read_index, Still
<1>3. OnItsWay(q) /\ IsRequest(q) /\ q.stage = "index" /\ q.kind = StatusKind
  BY <1>1, <1>2, Underway
<1>4. Sound(q) /\ Looks(q)  BY <1>3 DEF OnItsWay
<1>5. PICK p : p = req'  OBVIOUS
<1>6. PICK value : value = [i \in 1 .. 2 |->
                     IF q.local[i] = NoStatus /\ Asks2(q, i) \in indexed /\ Asks2(q, i) <= q.finalized
                     THEN [slot |-> Asks2(q, i), level |-> "finalized"]
                     ELSE q.local[i]]
  OBVIOUS
<1>7. \A i \in 1 .. 2 : Signatures[i] = Asks2(q, i)  BY <1>1 DEF Signatures, Asks2
<1>8. p = [q EXCEPT !.stage = "result", !.result = Result("statuses", value)]
  <2>1. value = [i \in 1 .. 2 |->
                     IF req.local[i] = NoStatus /\ Signatures[i] \in indexed
                        /\ Signatures[i] <= req.finalized
                     THEN [slot |-> Signatures[i], level |-> "finalized"]
                     ELSE req.local[i]]
    BY <1>1, <1>6, <1>7
  <2>2. p = Answer(Result("statuses", value))
    BY <1>5, <2>1 DEF read_index, StatusKind
  <2> QED  BY <1>1, <2>2 DEF Answer
<1>9. GivenAs(p, q, Result("statuses", value))  BY <1>3, <1>8, GivenIs
<1>10. ASSUME NEW i \in 1 .. 2
       PROVE  /\ StatusOf(q, i, value[i])
              /\ value[i] = NoStatus /\ Asks2(q, i) \in q.held => Asks2(q, i) <= stored.first
  <2>1. PICK s : s = Asks2(q, i)  OBVIOUS
  <2>2. s \in LiveSlots /\ s # None
    BY <1>3, <1>4, <2>1, KindsApart, SlotNotNone DEF Sound, Asks2, LiveSlots
  <2>3. /\ StatusOf(q, i, q.local[i])
        /\ s \in q.held => s <= q.finalized
        /\ q.local[i] = NoStatus /\ s \in q.held => Lost(s) \/ \E c \in Cells : Agrees(s, c)
    BY <1>3, <1>4, <2>1 DEF Looks
  <2>4. CASE q.local[i] = NoStatus /\ s \in indexed /\ s <= q.finalized
    <3>1. value[i] = [slot |-> s, level |-> "finalized"]  BY <1>6, <2>1, <2>4
    <3>2. value[i].slot = s /\ value[i].level = "finalized" /\ value[i] # NoStatus
      BY <2>2, <3>1 DEF NoStatus
    <3> QED  BY <2>1, <3>2 DEF StatusOf
  <2>5. CASE ~ (q.local[i] = NoStatus /\ s \in indexed /\ s <= q.finalized)
    <3>1. value[i] = q.local[i]  BY <1>6, <2>1, <2>5
    <3>2. ASSUME value[i] = NoStatus, s \in q.held PROVE s <= stored.first
      <4>1. s \notin indexed  BY <2>3, <2>5, <3>1, <3>2
      <4>2. Lost(s)  BY <2>2, <2>3, <3>1, <3>2, <4>1, StoredIndexed DEF ReadInv
      <4>3. s < stored.first /\ stored.first \in Nat  BY <4>2, LostBelow DEF ReadInv
      <4> QED  BY <2>2, <4>3 DEF LiveSlots, Slots
    <3> QED  BY <2>1, <2>3, <3>1, <3>2
  <2> QED  BY <2>4, <2>5
<1>11. /\ p.stage = "result" /\ p.result.type = "statuses" /\ p.result.value = value /\ Same(p, q)
  BY <1>9 DEF GivenAs, Result
<1>12. p.held = q.held /\ \A i \in 1 .. 2 : Asks2(p, i) = Asks2(q, i)
  BY <1>11 DEF Same, Asks2
<1>13. \A i \in 1 .. 2 : StatusOf(p, i, value[i])  BY <1>10, <1>12 DEF StatusOf
<1>14. Looks(p)  BY <1>10, <1>11, <1>12, <1>13 DEF Looks
<1>15. q.kind \notin MemoryKinds /\ q.kind \notin ReadKinds  BY <1>3, KindsApart
<1>16. OnItsWay(p)  BY <1>3, <1>11, <1>14, <1>15, ResultWay
<1> QED  BY <1>2, <1>5, <1>16, WayStep

LEMMA ReadIndexWay == ReadInv /\ Front /\ RequestWay /\ read_index => RequestWay'
BY ReadRowsWay, ReadStatusesWay

\* A slot of the index is found, or it is dead.
LEMMA LocationIs ==
    ASSUME NEW rows, NEW proc, View(rows, proc), NEW slot \in Slots
    PROVE  /\ slot \in DOMAIN rows =>
                get_block_location(rows, slot) = IF slot \in Skipped THEN "dead" ELSE "found"
           /\ get_block_location(rows, slot) = "found" => slot \in DOMAIN rows /\ slot \notin Skipped
           /\ slot \notin DOMAIN rows => get_block_location(rows, slot) \in {"removed", "not_available"}
<1>1. DOMAIN rows \subseteq Slots /\ DOMAIN rows \subseteq Int /\ Consecutive(DOMAIN rows) /\ DeadOrLive(rows)
  BY DEF View, IsRows, Slots
<1>2. CASE slot \in DOMAIN rows
  <2>1. Lowest(DOMAIN rows) <= slot /\ slot <= Highest(DOMAIN rows) /\ DOMAIN rows # {}
        /\ Lowest(DOMAIN rows) \in Int /\ Highest(DOMAIN rows) \in Int /\ slot \in Int
    BY <1>1, <1>2, LowestIn, HighestIn
  <2>2. get_block_location(rows, slot) = IF rows[slot] = None THEN "dead" ELSE "found"
    BY <2>1 DEF get_block_location
  <2>3. rows[slot] = None <=> slot \in Skipped  BY <1>1, <1>2 DEF DeadOrLive
  <2> QED  BY <1>2, <2>2, <2>3
<1>3. CASE slot \notin DOMAIN rows
  <2>1. CASE DOMAIN rows = {}  BY <1>3, <2>1 DEF get_block_location
  <2>2. CASE DOMAIN rows # {}
    <3>1. Lowest(DOMAIN rows) \in DOMAIN rows /\ Highest(DOMAIN rows) \in DOMAIN rows
      BY <1>1, <2>2, LowestIn, HighestIn
    <3>2. slot \notin Lowest(DOMAIN rows) .. Highest(DOMAIN rows)
      BY <1>1, <1>3, <3>1 DEF Consecutive
    <3>3. slot < Lowest(DOMAIN rows) \/ slot > Highest(DOMAIN rows)
      BY <1>1, <3>1, <3>2 DEF Slots
    <3>4. get_block_location(rows, slot) \in {"removed", "not_available"}
      BY <3>3 DEF get_block_location
    <3> QED  BY <1>3, <3>4
  <2> QED  BY <2>1, <2>2
<1> QED  BY <1>2, <1>3

\* A reader goes on with the file.
FileAs(p, q) == IsRequest(p) /\ p.stage = "file" /\ Same(p, q)

LEMMA FileIs ==
    ASSUME NEW q, IsRequest(q), NEW c, NEW r, NEW y, y = [q EXCEPT !.stage = "file", !.cell = c],
           NEW p, p = y \/ p = [y EXCEPT !.reader = r]
    PROVE  FileAs(p, q)
<1>1. FileAs(y, q)  BY DEF FileAs, IsRequest, RequestFields, Same
<1>2. FileAs(y, q) /\ p = [y EXCEPT !.reader = r] => FileAs(p, q)
  BY DEF FileAs, IsRequest, RequestFields, Same
<1> QED  BY <1>1, <1>2

LEMMA FileWay ==
    ASSUME NEW q, OnItsWay(q), q.kind \in ReadKinds, q.slot \notin Skipped, NEW p, FileAs(p, q)
    PROVE  OnItsWay(p)
<1>1. Same(p, q) /\ p.stage = "file"  BY DEF FileAs
<1>2. Sound(p)  BY <1>1, SoundSame DEF OnItsWay
<1>3. p.kind = q.kind /\ p.slot = q.slot  BY <1>1 DEF Same
<1>4. Finds(p)  BY <1>1, <1>3 DEF Finds
<1>5. q.kind \notin MemoryKinds /\ q.kind # StatusKind  BY KindsApart
<1> QED  BY <1>1, <1>2, <1>3, <1>4, <1>5 DEF OnItsWay

\* A reader takes a request for a block.
LEMMA TakeBlockWay ==
    ASSUME ReadInv, Traced, NEW q, q = req, OnItsWay(q), IsRequest(q), q.stage = "queued",
           q.kind \in BlockKinds, NEW r \in Readers,
           NEW y, y = Block(reader[r]), NEW p, p = [y EXCEPT !.reader = r]
    PROVE  OnItsWay(p)
<1>0. q.kind \in ReadKinds /\ q.slot \in Slots  BY KindsApart DEF OnItsWay, Sound
<1>1. View(reader[r].ring, reader[r].inproc)  BY ReaderView DEF ReadInv
<1>2. q.slot \in q.held => q.slot \in DOMAIN reader[r].ring \/ q.slot = reader[r].inproc \/ Lost(q.slot)
  BY DEF OnItsWay, Waits
<1>3. PICK l : l = get_block_location(reader[r].ring, q.slot)  OBVIOUS
<1>4. /\ q.slot \in DOMAIN reader[r].ring => l = IF q.slot \in Skipped THEN "dead" ELSE "found"
      /\ l = "found" => q.slot \notin Skipped
  BY <1>0, <1>1, <1>3, LocationIs
<1>5. CASE reader[r].inproc = q.slot
  <2>1. PICK type, v : /\ type = IF q.slot \in Skipped THEN "dead" ELSE "block"
                       /\ y = [q EXCEPT !.stage = "result", !.result = Result(type, v)]
    BY <1>5 DEF Block, Answer
  <2>2. GivenAs(p, q, Result(type, v))  BY <2>1, GivenIs
  <2> QED  BY <1>0, <2>1, <2>2, ReadResult
<1>6. CASE reader[r].inproc # q.slot /\ l = "found"
  <2>1. PICK c : y = [q EXCEPT !.stage = "file", !.cell = c]  BY <1>3, <1>6 DEF Block, ReadAt
  <2>2. FileAs(p, q)  BY <2>1, FileIs
  <2> QED  BY <1>0, <1>4, <1>6, <2>2, FileWay
<1>7. CASE reader[r].inproc # q.slot /\ l # "found"
  <2>1. y = [q EXCEPT !.stage = "result", !.result = Result(l, None)]  BY <1>3, <1>7 DEF Block, Answer
  <2>2. GivenAs(p, q, Result(l, None))  BY <2>1, GivenIs
  <2>3. q.slot \in q.held => Lost(q.slot) \/ l = IF q.slot \in Skipped THEN "dead" ELSE "block"
    BY <1>2, <1>4, <1>7
  <2> QED  BY <1>0, <2>2, <2>3, ReadResult
<1> QED  BY <1>5, <1>6, <1>7

\* A reader takes a request for a transaction.
LEMMA TakeTransactionWay ==
    ASSUME ReadInv, Traced, NEW q, q = req, OnItsWay(q), IsRequest(q), q.stage = "queued",
           q.kind \in TransactionKinds, NEW r \in Readers,
           NEW y, y = Transaction(reader[r]), NEW p, p = [y EXCEPT !.reader = r]
    PROVE  OnItsWay(p)
<1>0. q.kind \in ReadKinds /\ q.slot \in LiveSlots  BY KindsApart DEF OnItsWay, Sound
<1>1. q.slot \in q.held => q.slot \in DOMAIN reader[r].ring \/ q.slot = reader[r].inproc \/ Lost(q.slot)
  BY DEF OnItsWay, Waits
<1>2. q.slot \notin Skipped  BY <1>0 DEF LiveSlots
<1>3. CASE reader[r].inproc = q.slot
  <2>1. y = [q EXCEPT !.stage = "result", !.result = Result("block", q.slot)]
    BY <1>3 DEF Transaction, Answer
  <2>2. PICK v : v = q.slot  OBVIOUS
  <2>3. GivenAs(p, q, Result("block", v))  BY <2>1, <2>2, GivenIs
  <2> QED  BY <1>0, <1>2, <2>3, ReadResult
<1>4. CASE reader[r].inproc # q.slot
  <2>1. y = [q EXCEPT !.stage = "index"]  BY <1>4 DEF Transaction
  <2>2. p.stage = "index" /\ p.reader = r /\ Same(p, q)
    BY <2>1 DEF IsRequest, RequestFields, Same
  <2>3. p.kind = q.kind /\ p.slot = q.slot /\ p.held = q.held  BY <2>2 DEF Same
  <2>4. Finds(p)  BY <1>1, <1>4, <2>2, <2>3 DEF Finds
  <2>5. Sound(p)  BY <2>2, SoundSame DEF OnItsWay
  <2>6. q.kind \notin MemoryKinds /\ q.kind # StatusKind  BY <1>0, KindsApart
  <2> QED  BY <2>2, <2>3, <2>4, <2>5, <2>6 DEF OnItsWay
<1> QED  BY <1>3, <1>4

\* A reader goes on with a transaction whose rows were there.
LEMMA TakeTransaction2Way ==
    ASSUME ReadInv, Traced, NEW q, q = req, OnItsWay(q), IsRequest(q), q.stage = "found",
           NEW r \in Readers, q.reader = r, NEW p, p = Transaction2(reader[r])
    PROVE  OnItsWay(p)
<1>1. q.kind \in ReadKinds  BY DEF OnItsWay, Sound, Looks
<1>2. q.kind \in TransactionKinds /\ (q.slot \in q.held => q.slot \in DOMAIN reader[r].ring \/ Lost(q.slot))
  BY <1>1 DEF OnItsWay, Finds
<1>3. q.slot \in Slots /\ q.slot \notin Skipped  BY <1>2 DEF OnItsWay, Sound, LiveSlots
<1>4. View(reader[r].ring, reader[r].inproc)  BY ReaderView DEF ReadInv
<1>5. PICK l : l = get_block_location(reader[r].ring, q.slot)  OBVIOUS
<1>6. q.slot \in DOMAIN reader[r].ring => l = "found"  BY <1>3, <1>4, <1>5, LocationIs
<1>7. CASE l = "found"
  <2>1. PICK c : p = [q EXCEPT !.stage = "file", !.cell = c]  BY <1>5, <1>7 DEF Transaction2, ReadAt
  <2>2. FileAs(p, q)  BY <2>1, FileIs
  <2> QED  BY <1>1, <1>3, <2>2, FileWay
<1>8. CASE l # "found"
  <2>1. p = [q EXCEPT !.stage = "result", !.result = Result("not_found", None)]
    BY <1>5, <1>8 DEF Transaction2, Answer
  <2>2. GivenAs(p, q, Result("not_found", None))  BY <2>1, GivenIs
  <2>3. q.slot \in q.held => Lost(q.slot)  BY <1>2, <1>6, <1>8
  <2> QED  BY <1>1, <2>2, <2>3, ReadResult
<1> QED  BY <1>7, <1>8

-----------------------------------------------------------------------------
(***************************************************************************)
(* What is answered from memory.                                           *)
(***************************************************************************)

LEMMA MemoryResult ==
    ASSUME NEW q, OnItsWay(q), q.kind \in MemoryKinds, NEW p, Same(p, q), p.stage = "result",
           Serves(p), HeightOK(p), FailsOK(p), ListedOK(p)
    PROVE  OnItsWay(p)
<1>1. q.kind \notin ReadKinds /\ q.kind # StatusKind  BY KindsApart
<1> QED  BY <1>1, ResultWay

\* The start has taken back the slots from which a reader has its confirmed one.
Above(R) == R.told = 0 /\ \A s \in DOMAIN R.ring : s < R.confirmed

\* An error says what the reader had.
FailedAs(x, R) ==
    /\ x.inproc = R.inproc /\ x.confirmed = R.confirmed /\ x.peak = R.peak
    /\ x.live <=> Live(R.ring) # {}
    /\ x.above <=> Above(R)

LEMMA FailedIs ==
    ASSUME NEW R
    PROVE  \E x : Failed(R) = Result("failed", x) /\ FailedAs(x, R)
<1>1. PICK live : live = (Live(R.ring) # {})  BY Zenon
<1>2. PICK above : above = (R.told = 0 /\ \A s \in DOMAIN R.ring : s < R.confirmed)  BY Zenon
<1>3. PICK x : x = [inproc |-> R.inproc, confirmed |-> R.confirmed, peak |-> R.peak,
                    live |-> live, above |-> above]
  OBVIOUS
<1>4. Failed(R) = Result("failed", x)  BY <1>1, <1>2, <1>3, Zenon DEF Failed
<1>5. /\ x.inproc = R.inproc /\ x.confirmed = R.confirmed /\ x.peak = R.peak
      /\ x.live = live /\ x.above = above
  BY <1>3
<1>6. x.live <=> Live(R.ring) # {}  BY <1>1, <1>5, Zenon
<1>7. x.above <=> Above(R)  BY <1>2, <1>5, Zenon DEF Above
<1> QED  BY <1>4, <1>5, <1>6, <1>7 DEF FailedAs

\* A reader that takes a request reaches what was published when it came.
LEMMA ReaderAhead ==
    ASSUME ReadInv, MemoryInv, NEW r \in Readers, NEW q, OnItsWay(q), q.stage = "queued",
           q.kind \in MemoryKinds
    PROVE  /\ q.seen \in Nat /\ reader[r].confirmed \in Nat /\ q.seen <= reader[r].confirmed
           /\ q.seen > 0 => reader[r].confirmed \in Slots
           /\ q.seen > 0 /\ reader[r].told = 0 => StartLevel(reader[r])
           /\ reader[r].inproc # None => reader[r].confirmed = reader[r].inproc
           /\ View(reader[r].ring, reader[r].inproc) /\ RecentOK(reader[r])
           /\ ReaderLevels(reader[r]) /\ Top(reader[r]) \in Slots
<1>1. PICK R : R = reader[r]  OBVIOUS
<1>2. ReaderLevels(R) /\ RecentOK(R)  BY <1>1 DEF MemoryInv, Levels
<1>3. q.seen \in Nat /\ q.seen <= R.confirmed  BY <1>1 DEF OnItsWay, Sound, Waits, Reaches
<1>4. View(R.ring, R.inproc)  BY <1>1, ReaderView DEF MemoryInv, ReadInv
<1>5. Top(R) \in Slots  BY <1>4, TopIn
<1>6. R.confirmed \in Nat /\ R.told \in Nat /\ (R.inproc # None => R.confirmed = R.inproc)
  BY <1>2 DEF ReaderLevels
<1>7. R.told > 0 => R.confirmed \in Slots  BY <1>2, <1>5 DEF ReaderLevels
<1>8. q.seen > 0 /\ R.told = 0 => StartLevel(R) /\ R.confirmed \in Slots
  BY <1>2, <1>3, <1>6 DEF ReaderLevels, StartLevel, LiveSlots
<1> QED  BY <1>1, <1>2, <1>3, <1>4, <1>5, <1>6, <1>7, <1>8

\* The newest slot of a reader is in its index or in process.
LEMMA TopIs ==
    ASSUME NEW R, View(R.ring, R.inproc), NEW s \in Slots, s <= Top(R), s # R.inproc,
           DOMAIN R.ring # {}
    PROVE  s <= Highest(DOMAIN R.ring)
<1>1. /\ Highest(DOMAIN R.ring) \in DOMAIN R.ring
      /\ R.inproc # None => R.inproc = Highest(DOMAIN R.ring) + 1
  BY TopIn
<1>2. Highest(DOMAIN R.ring) \in Int /\ s \in Int  BY <1>1 DEF View, IsRows, Slots
<1> QED  BY <1>1, <1>2 DEF Top

\* A reader whose index ends below its confirmed slot, the one in process
\* aside, has that slot from the start.
LEMMA EndsBelow ==
    ASSUME NEW R, View(R.ring, R.inproc), ReaderLevels(R), DOMAIN R.ring # {},
           NEW s \in Int, s <= R.confirmed, s # R.inproc, Highest(DOMAIN R.ring) < s
    PROVE  Above(R)
<1>1. /\ Highest(DOMAIN R.ring) \in DOMAIN R.ring
      /\ \A t \in DOMAIN R.ring : t <= Highest(DOMAIN R.ring)
      /\ Top(R) \in Slots /\ DOMAIN R.ring \subseteq Slots
  BY TopIn DEF View, IsRows
<1>2. R.confirmed \in Nat /\ R.told \in Nat /\ (R.told > 0 => R.confirmed = Top(R))
  BY DEF ReaderLevels
<1>3. Highest(DOMAIN R.ring) \in Int /\ 0 < Highest(DOMAIN R.ring)  BY <1>1 DEF Slots
<1>4. ASSUME R.told > 0 PROVE FALSE
  <2>0. PICK t \in Slots : t = Top(R)  BY <1>1
  <2>1. s \in Slots /\ s <= Top(R)
    BY <1>2, <1>3, <1>4, <2>0, BlockStoreAssumption DEF Slots
  <2>2. s <= Highest(DOMAIN R.ring)  BY <2>1, TopIs
  <2> QED  BY <1>3, <2>2
<1>5. ASSUME NEW t \in DOMAIN R.ring PROVE t < R.confirmed
  <2>1. t \in Int /\ t <= Highest(DOMAIN R.ring)  BY <1>1 DEF Slots
  <2> QED  BY <1>2, <1>3, <2>1
<1>6. R.told = 0  BY <1>2, <1>4
<1> QED  BY <1>5, <1>6 DEF Above

\* getBlockTime.
LEMMA TakeTimeWay ==
    ASSUME ReadInv, MemoryInv, NEW q, q = req, OnItsWay(q), IsRequest(q), q.stage = "queued",
           q.kind = "getBlockTime", NEW r \in Readers, NEW x \in BlockTime(reader[r]),
           NEW y, y = Answer(x), NEW p, p = [y EXCEPT !.reader = r]
    PROVE  OnItsWay(p)
<1> DEFINE R == reader[r]
<1>0. q.kind \in MemoryKinds /\ q.slot \in Slots /\ q.kind \notin HeightKinds
  BY KindsApart DEF OnItsWay, Sound, HeightKinds
<1>1. /\ q.seen \in Nat /\ R.confirmed \in Nat /\ q.seen <= R.confirmed
      /\ View(R.ring, R.inproc) /\ ReaderLevels(R)
  BY <1>0, ReaderAhead
<1>2. q.slot \in q.held =>
         (q.slot \in DOMAIN R.ring \/ q.slot = R.inproc \/ Lost(q.slot)) /\ q.slot <= R.confirmed
  BY DEF OnItsWay, Waits, Reaches
<1>3. PICK l : l = get_block_location(R.ring, q.slot)  OBVIOUS
<1>4. /\ q.slot \in DOMAIN R.ring => l = IF q.slot \in Skipped THEN "dead" ELSE "found"
  BY <1>0, <1>1, <1>3, LocationIs
<1>5. l = "not_available" => DOMAIN R.ring # {} /\ q.slot > Highest(DOMAIN R.ring)
  BY <1>3 DEF get_block_location
<1>6. l \in {"removed", "not_available", "dead", "found"}  BY <1>3 DEF get_block_location
<1>7. \/ /\ R.inproc = q.slot
         /\ x = IF q.slot \in Skipped THEN Result("dead", None) ELSE Result("time", q.slot)
      \/ R.inproc # q.slot /\ q.slot > R.confirmed /\ x \in {Result("not_available", None), Result("time", q.slot)}
      \/ R.inproc # q.slot /\ ~ q.slot > R.confirmed /\ l = "found" /\ x = Result("time", q.slot)
      \/ R.inproc # q.slot /\ ~ q.slot > R.confirmed /\ l = "not_available" /\ x = Failed(R)
      \/ R.inproc # q.slot /\ ~ q.slot > R.confirmed /\ l \in {"dead", "removed"} /\ x = Result(l, None)
  BY <1>3, <1>6 DEF BlockTime
<1>8. y = [q EXCEPT !.stage = "result", !.result = x]  BY DEF Answer
<1>9. GivenAs(p, q, x)  BY <1>8, GivenIs
<1>10. p.stage = "result" /\ p.result = x /\ Same(p, q)  BY <1>9 DEF GivenAs
<1>11. /\ p.kind = q.kind /\ p.slot = q.slot /\ p.held = q.held /\ p.seen = q.seen
       /\ p.commit = q.commit
  BY <1>10 DEF Same
<1>12. q.slot \in Int /\ R.confirmed \in Int  BY <1>0, <1>1 DEF Slots
<1>13. \A t, v : Result(t, v).type = t  BY DEF Result
<1>14. PICK z : Failed(R) = Result("failed", z) /\ FailedAs(z, R)  BY FailedIs
<1> HIDE DEF R
<1>15. q.slot \in q.held => Good(p) \/ Lost(q.slot)
  <2> SUFFICES ASSUME q.slot \in q.held, ~ Lost(q.slot) PROVE Good(p)  OBVIOUS
  <2>1. (q.slot \in DOMAIN R.ring \/ q.slot = R.inproc) /\ ~ q.slot > R.confirmed  BY <1>2, <1>12
  <2>2. x.type = IF q.slot \in Skipped THEN "dead" ELSE "time"
    BY <1>4, <1>7, <1>13, <2>1
  <2> QED  BY <1>10, <1>11, <2>2 DEF Good
<1>16. ASSUME x.type = "failed" PROVE x.value.above
  <2>1. R.inproc # q.slot /\ ~ q.slot > R.confirmed /\ l = "not_available" /\ x = Failed(R)
    BY <1>7, <1>13, <1>16
  <2>2. Above(R)  BY <1>1, <1>5, <1>12, <2>1, EndsBelow
  <2>3. z.above  BY <1>14, <2>2, Zenon DEF FailedAs
  <2>4. x.value = z  BY <1>14, <2>1 DEF Result
  <2> QED  BY <2>3, <2>4, Zenon
<1>17. Serves(p)  BY <1>11, <1>15 DEF Serves
<1>18. FailsOK(p)
  <2>1. p.result.type = "failed" => p.result.value.above  BY <1>10, <1>16, Zenon
  <2>2. p.kind \in {"getBlocks", "getBlockTime"}  BY <1>11
  <2> QED  BY <2>1, <2>2, Zenon DEF FailsOK, Expected
<1>19. HeightOK(p) /\ ListedOK(p)  BY <1>0, <1>11 DEF HeightOK, ListedOK
<1> QED  BY <1>0, <1>10, <1>17, <1>18, <1>19, MemoryResult

\* What may be said of a height.
HeightGood(q, x) ==
    q.commit = "confirmed" =>
        /\ x.type = "height" => x.value >= Height(q.seen)
        /\ x.type = "valid" /\ Height(q.slot) + MaxAge <= Height(q.seen)
              => x.value.slot \in Skipped /\ x.value.height < Height(x.value.slot)
        /\ x.type = "failed" /\ q.seen > 0 => Expected(q, x.value)

\* The requests for a height: only the height or the error matters.
LEMMA HeightResult ==
    ASSUME NEW q, OnItsWay(q), IsRequest(q), q.kind \in HeightKinds, NEW x, NEW r,
           NEW y, y = [q EXCEPT !.stage = "result", !.result = x],
           NEW p, p = [y EXCEPT !.reader = r],
           HeightGood(q, x)
    PROVE  OnItsWay(p)
<1>1. GivenAs(p, q, x)  BY GivenIs
<1>2. p.stage = "result" /\ p.result = x /\ Same(p, q)  BY <1>1 DEF GivenAs
<1>3. /\ p.kind = q.kind /\ p.slot = q.slot /\ p.held = q.held /\ p.seen = q.seen
      /\ p.commit = q.commit /\ p.recent = q.recent
  BY <1>2 DEF Same
<1>4. q.kind \in MemoryKinds /\ q.kind # "getBlocks" /\ q.kind # "getBlockTime"  BY KindsApart
<1>5. Serves(p) /\ ListedOK(p)  BY <1>3, <1>4 DEF Serves, ListedOK
<1>6. HeightOK(p)  BY <1>2, <1>3 DEF HeightOK, HeightGood
<1>7. FailsOK(p)  BY <1>2, <1>3 DEF FailsOK, Expected, HeightGood
<1> QED  BY <1>2, <1>4, <1>5, <1>6, <1>7, MemoryResult

\* getLatestBlockhash.
LEMMA TakeLatestWay ==
    ASSUME ReadInv, MemoryInv, NEW q, q = req, OnItsWay(q), IsRequest(q), q.stage = "queued",
           q.kind = "getLatestBlockhash", NEW r \in Readers, NEW x \in LatestBlockhash(reader[r]),
           NEW y, y = Answer(x), NEW p, p = [y EXCEPT !.reader = r]
    PROVE  OnItsWay(p)
<1> DEFINE R == reader[r]
<1>0. q.kind \in HeightKinds /\ q.kind \in MemoryKinds  BY DEF HeightKinds, MemoryKinds
<1>1. /\ q.seen \in Nat /\ R.confirmed \in Nat /\ q.seen <= R.confirmed
      /\ q.seen > 0 => R.confirmed \in Slots
      /\ RecentOK(R)
  BY <1>0, ReaderAhead
<1>2. y = [q EXCEPT !.stage = "result", !.result = x]  BY DEF Answer
<1>3. PICK z : Failed(R) = Result("failed", z) /\ FailedAs(z, R)  BY FailedIs
<1>4. q.commit = "confirmed" =>
        \/ R.confirmed \in R.recent /\ x = Result("height", Height(R.confirmed))
        \/ R.confirmed \notin R.recent /\ x = Result("failed", z)
        \/ x = Result("fork", None)
  BY <1>3 DEF LatestBlockhash
<1> HIDE DEF R
<1>5. ASSUME q.commit = "confirmed" PROVE HeightGood(q, x)
  <2>1. CASE x = Result("height", Height(R.confirmed))
    <3>1. Height(q.seen) <= Height(R.confirmed)  BY <1>1, HeightOrder
    <3>2. Height(q.seen) \in Nat /\ Height(R.confirmed) \in Nat  BY HeightNat
    <3>3. x.type = "height" /\ x.value = Height(R.confirmed)  BY <2>1 DEF Result
    <3> QED  BY <3>1, <3>2, <3>3 DEF HeightGood
  <2>2. CASE R.confirmed \notin R.recent /\ x = Result("failed", z)
    <3>1. x.type = "failed" /\ x.value = z  BY <2>2 DEF Result
    <3>2. q.seen > 0 => R.confirmed \in Skipped  BY <1>1, <2>2 DEF RecentOK, LiveSlots
    <3>3. q.seen > 0 => Expected(q, z)  BY <1>3, <3>2 DEF Expected, FailedAs
    <3> QED  BY <3>1, <3>3 DEF HeightGood
  <2>3. CASE x = Result("fork", None)
    <3>1. x.type = "fork"  BY <2>3 DEF Result
    <3> QED  BY <3>1 DEF HeightGood
  <2> QED  BY <1>4, <1>5, <2>1, <2>2, <2>3
<1>11. HeightGood(q, x)  BY <1>5 DEF HeightGood
<1> QED  BY <1>0, <1>2, <1>11, HeightResult

\* isBlockhashValid.
LEMMA TakeValidWay ==
    ASSUME ReadInv, MemoryInv, NEW q, q = req, OnItsWay(q), IsRequest(q), q.stage = "queued",
           q.kind = "isBlockhashValid", NEW r \in Readers, NEW x, x = BlockhashValid(reader[r]),
           NEW y, y = Answer(x), NEW p, p = [y EXCEPT !.reader = r]
    PROVE  OnItsWay(p)
<1> DEFINE R == reader[r]
<1>0. q.kind \in HeightKinds /\ q.kind \in MemoryKinds  BY DEF HeightKinds, MemoryKinds
<1>1. /\ q.seen \in Nat /\ R.confirmed \in Nat /\ q.seen <= R.confirmed
      /\ ReaderLevels(R)
  BY <1>0, ReaderAhead
<1>2. y = [q EXCEPT !.stage = "result", !.result = x]  BY DEF Answer
<1>3. PICK z : Failed(R) = Result("failed", z) /\ FailedAs(z, R)  BY FailedIs
<1>4. q.slot \in q.recent => q.slot \in R.recent \/ R.peak >= Height(q.slot) + MaxRecent
  BY DEF OnItsWay, Waits
<1>5. PICK v : v = [slot |-> R.confirmed, height |-> R.height]  OBVIOUS
<1>6. ASSUME q.commit = "confirmed"
      PROVE  \/ q.slot \notin R.recent /\ x = Result("failed", z)
             \/ Height(q.slot) + MaxAge > R.height /\ x = Result("valid", v)
             \/ x = Result("expired", v)
  <2>1. LevelHeight(R) = R.height  BY <1>6 DEF LevelHeight
  <2> QED  BY <1>3, <1>5, <2>1 DEF BlockhashValid
<1> HIDE DEF R
<1>10. ASSUME q.commit = "confirmed" PROVE HeightGood(q, x)
  <2>1. CASE q.slot \notin R.recent /\ x = Result("failed", z)
    <3>1. x.type = "failed" /\ x.value = z  BY <2>1 DEF Result
    <3>2. z.peak = R.peak  BY <1>3 DEF FailedAs
    <3>3. Expected(q, z)  BY <1>4, <2>1, <3>2 DEF Expected
    <3> QED  BY <3>1, <3>3 DEF HeightGood
  <2>2. CASE Height(q.slot) + MaxAge > R.height /\ x = Result("valid", v)
    <3>1. x.type = "valid" /\ x.value.slot = R.confirmed /\ x.value.height = R.height
      BY <1>5, <2>2 DEF Result
    <3>2. Height(q.seen) <= Height(R.confirmed)  BY <1>1, HeightOrder
    <3>3. /\ Height(q.seen) \in Nat /\ Height(R.confirmed) \in Nat /\ Height(q.slot) \in Nat
          /\ MaxAge \in Nat /\ R.height \in Nat
      BY <1>1, HeightNat, StorageReadAssumption DEF ReaderLevels
    <3>4. Height(q.slot) + MaxAge <= Height(q.seen) => R.height < Height(R.confirmed)
      BY <2>2, <3>2, <3>3
    <3>5. R.height < Height(R.confirmed) => R.confirmed \in Skipped
      BY <1>1, <3>3 DEF ReaderLevels
    <3> QED  BY <3>1, <3>4, <3>5 DEF HeightGood
  <2>3. CASE x = Result("expired", v)
    <3>1. x.type = "expired"  BY <2>3 DEF Result
    <3> QED  BY <3>1 DEF HeightGood
  <2> QED  BY <1>6, <1>10, <2>1, <2>2, <2>3
<1>11. HeightGood(q, x)  BY <1>10 DEF HeightGood
<1> QED  BY <1>0, <1>2, <1>11, HeightResult

\* getBlockHeight.
LEMMA TakeHeightWay ==
    ASSUME ReadInv, MemoryInv, NEW q, q = req, OnItsWay(q), IsRequest(q), q.stage = "queued",
           q.kind = "getBlockHeight", NEW r \in Readers, NEW x, x = BlockHeight(reader[r]),
           NEW y, y = Answer(x), NEW p, p = [y EXCEPT !.reader = r]
    PROVE  OnItsWay(p)
<1> DEFINE R == reader[r]
<1>0. q.kind \in HeightKinds /\ q.kind \in MemoryKinds  BY DEF HeightKinds, MemoryKinds
<1>1. /\ q.seen \in Nat /\ R.confirmed \in Nat /\ q.seen <= R.confirmed
      /\ q.seen > 0 /\ R.told = 0 => StartLevel(R)
      /\ R.inproc # None => R.confirmed = R.inproc
      /\ View(R.ring, R.inproc) /\ ReaderLevels(R)
  BY <1>0, ReaderAhead
<1>2. y = [q EXCEPT !.stage = "result", !.result = x]  BY DEF Answer
<1>3. PICK z : Failed(R) = Result("failed", z) /\ FailedAs(z, R)  BY FailedIs
<1>4. PICK l : l = get_block_location(R.ring, R.confirmed)  OBVIOUS
<1>5. PICK below : below = {s \in Live(R.ring) : s <= R.confirmed}  OBVIOUS
<1>6. q.commit = "confirmed" =>
        \/ R.inproc # None /\ x = Result("height", Height(R.inproc))
        \/ /\ R.inproc = None \/ R.inproc \in Skipped
           /\ l \in {"removed", "not_available"} \/ below = {}
           /\ x = Result("failed", z)
        \/ l \notin {"removed", "not_available"} /\ below # {} /\ x = Result("height", Height(Highest(below)))
  BY <1>3, <1>4, <1>5 DEF BlockHeight, InProcess
<1> HIDE DEF R
<1>7. DOMAIN R.ring \subseteq Slots /\ Consecutive(DOMAIN R.ring) /\ DeadOrLive(R.ring)
  BY <1>1 DEF View, IsRows
<1>8. below \subseteq Slots /\ below \subseteq DOMAIN R.ring  BY <1>5, <1>7 DEF Live
<1>9. ASSUME q.commit = "confirmed" PROVE HeightGood(q, x)
  <2>0. ASSUME NEW t, x = Result("height", Height(t)), Height(q.seen) <= Height(t)
        PROVE  HeightGood(q, x)
    <3>1. x.type = "height" /\ x.value = Height(t)  BY <2>0 DEF Result
    <3>2. Height(q.seen) \in Nat /\ Height(t) \in Nat  BY HeightNat
    <3> QED  BY <2>0, <3>1, <3>2 DEF HeightGood
  <2>1. CASE R.inproc # None /\ x = Result("height", Height(R.inproc))
    <3>1. Height(q.seen) <= Height(R.inproc)  BY <1>1, <2>1, HeightOrder
    <3> QED  BY <2>0, <2>1, <3>1
  <2>2. CASE l \notin {"removed", "not_available"} /\ below # {} /\ x = Result("height", Height(Highest(below)))
    <3>1. /\ DOMAIN R.ring # {} /\ ~ R.confirmed < Lowest(DOMAIN R.ring)
          /\ ~ R.confirmed > Highest(DOMAIN R.ring)
      BY <1>4, <2>2 DEF get_block_location
    <3>2. /\ Lowest(DOMAIN R.ring) \in DOMAIN R.ring /\ Highest(DOMAIN R.ring) \in DOMAIN R.ring
          /\ \A t \in DOMAIN R.ring : Lowest(DOMAIN R.ring) <= t
      BY <1>7, <3>1, LowestIn, HighestIn
    <3>3. Highest(below) \in below /\ \A t \in below : t <= Highest(below)
      BY <1>8, <2>2, HighestIn
    <3>4. /\ Lowest(DOMAIN R.ring) \in Int /\ Highest(DOMAIN R.ring) \in Int /\ Highest(below) \in Int
          /\ Lowest(DOMAIN R.ring) <= Highest(below)
      BY <1>7, <1>8, <3>2, <3>3 DEF Slots
    <3>5. ASSUME NEW u \in LiveSlots, u <= q.seen PROVE u <= Highest(below)
      <4>1. u \in Int /\ u \notin Skipped  BY DEF LiveSlots, Slots
      <4>2. u <= R.confirmed  BY <1>1, <3>5, <4>1
      <4>3. CASE u < Lowest(DOMAIN R.ring)  BY <3>4, <4>1, <4>3
      <4>4. CASE ~ u < Lowest(DOMAIN R.ring)
        <5>1. u \in Lowest(DOMAIN R.ring) .. Highest(DOMAIN R.ring)
          BY <1>1, <3>1, <3>4, <4>1, <4>2, <4>4
        <5>2. u \in DOMAIN R.ring  BY <1>7, <3>2, <5>1 DEF Consecutive
        <5>3. u \in below  BY <1>5, <1>7, <4>1, <4>2, <5>2 DEF Live, DeadOrLive
        <5> QED  BY <3>3, <5>3
      <4> QED  BY <4>3, <4>4
    <3>6. Height(q.seen) <= Height(Highest(below))  BY <3>5, HeightLe
    <3>7. PICK t : t = Highest(below)  OBVIOUS
    <3> QED  BY <2>0, <2>2, <3>6, <3>7
  <2>3. CASE /\ R.inproc = None \/ R.inproc \in Skipped
             /\ l \in {"removed", "not_available"} \/ below = {}
             /\ x = Result("failed", z)
    <3>1. x.type = "failed" /\ x.value = z  BY <2>3 DEF Result
    <3>2. ASSUME q.seen > 0, R.inproc \notin Skipped, Live(R.ring) # {}, ~ Above(R) PROVE FALSE
      <4>1. R.inproc = None  BY <2>3, <3>2
      <4>2. PICK s \in DOMAIN R.ring : R.ring[s] # None  BY <3>2 DEF Live
      <4>3. Highest(DOMAIN R.ring) \in DOMAIN R.ring /\ \A t \in DOMAIN R.ring : t <= Highest(DOMAIN R.ring)
        BY <1>7, <4>2, HighestIn
      <4>4. Top(R) = Highest(DOMAIN R.ring)  BY <4>1 DEF Top
      <4>5. ~ Highest(DOMAIN R.ring) < R.confirmed
        <5>1. R.confirmed # R.inproc \/ ~ Highest(DOMAIN R.ring) < R.confirmed
          <6>1. Highest(DOMAIN R.ring) \in Nat  BY <1>7, <4>3 DEF Slots
          <6> QED  BY <4>1, <6>1, BlockStoreAssumption DEF None
        <5>2. R.confirmed \in Int  BY <1>1
        <5> QED  BY <1>1, <3>2, <4>2, <5>1, <5>2, EndsBelow
      <4>6. s <= R.confirmed
        <5>1. s \in LiveSlots /\ s <= Top(R)
          BY <1>7, <4>2, <4>3, <4>4 DEF DeadOrLive, LiveSlots
        <5>2. CASE R.told = 0  BY <1>1, <3>2, <5>1, <5>2 DEF StartLevel
        <5>3. CASE R.told # 0
          <6>1. R.confirmed = Top(R)  BY <1>1, <5>3 DEF ReaderLevels
          <6> QED  BY <5>1, <6>1
        <5> QED  BY <5>2, <5>3
      <4>7. below # {}  BY <1>5, <4>2, <4>6 DEF Live
      <4>8. l \notin {"removed", "not_available"}
        <5>1. Lowest(DOMAIN R.ring) <= s /\ Lowest(DOMAIN R.ring) \in DOMAIN R.ring  BY <1>7, <4>2, LowestIn
        <5>2. s \in Int /\ Lowest(DOMAIN R.ring) \in Int /\ Highest(DOMAIN R.ring) \in Int
          BY <1>7, <4>3, <5>1 DEF Slots
        <5>3. ~ R.confirmed < Lowest(DOMAIN R.ring)  BY <1>1, <4>6, <5>1, <5>2
        <5> QED  BY <1>1, <1>4, <4>2, <4>5, <5>2, <5>3 DEF get_block_location
      <4> QED  BY <2>3, <4>7, <4>8
    <3>3. q.seen > 0 => Expected(q, z)
      <4>1. z.inproc = R.inproc  BY <1>3 DEF FailedAs
      <4>2. q.seen > 0 /\ R.inproc \notin Skipped => ~ z.live \/ z.above
        BY <1>3, <3>2, Zenon DEF FailedAs
      <4> QED  BY <4>1, <4>2, Zenon DEF Expected
    <3> QED  BY <3>1, <3>3 DEF HeightGood
  <2> QED  BY <1>6, <1>9, <2>1, <2>2, <2>3
<1>11. HeightGood(q, x)  BY <1>9 DEF HeightGood
<1> QED  BY <1>0, <1>2, <1>11, HeightResult

\* What a reader says of a signature.
LEMMA StatusIs ==
    ASSUME ReadInv, MemoryInv, NEW r \in Readers, NEW q, OnItsWay(q), q.stage = "queued",
           q.kind = StatusKind, NEW i \in 1 .. 2, NEW x, x = Status(reader[r], Asks2(q, i))
    PROVE  /\ StatusOf(q, i, x)
           /\ Asks2(q, i) \in q.held => Asks2(q, i) <= reader[r].finalized
           /\ x = NoStatus /\ Asks2(q, i) \in q.held =>
                Lost(Asks2(q, i)) \/ \E c \in Cells : Agrees(Asks2(q, i), c)
<1> DEFINE R == reader[r]
<1>1. PICK s : s = Asks2(q, i)  OBVIOUS
<1>2. s \in LiveSlots /\ s \in Slots /\ s \notin Skipped /\ s # None
  BY <1>1, KindsApart, SlotNotNone DEF OnItsWay, Sound, Asks2, LiveSlots
<1>3. s \in q.held => s <= R.finalized /\ (s \in DOMAIN R.ring \/ s = R.inproc \/ Lost(s))
  BY DEF OnItsWay, Waits
<1>4. R.finalized \in Nat /\ (R.inproc # None => R.confirmed = R.inproc) /\ RecentOK(R)
  BY DEF MemoryInv, Levels, ReaderLevels
<1>5. View(R.ring, R.inproc)  BY ReaderView DEF MemoryInv, ReadInv
<1>6. s \in DOMAIN R.ring => Agrees(s, R.ring[s]) /\ R.ring[s] \in Cells \union {None}
  BY ReaderAgrees DEF ReadInv
<1>7. x = IF s \notin R.recent THEN NoStatus
          ELSE [slot |-> s, level |-> IF Height(R.finalized) < Height(s) /\ Height(s) <= R.height
                                      THEN "confirmed" ELSE "finalized"]
  BY <1>1 DEF Status
<1> HIDE DEF R
<1>8. StatusOf(q, i, x)
  <2>1. CASE s \notin R.recent
    <3>1. x = NoStatus  BY <1>7, <2>1
    <3> QED  BY <3>1 DEF StatusOf
  <2>2. CASE s \in R.recent
    <3>1. /\ x.slot = s
          /\ x.level = "confirmed" => Height(R.finalized) < Height(s)
      BY <1>7, <2>2
    <3>2. ASSUME s \in q.held PROVE x.level # "confirmed"
      <4>1. Height(s) <= Height(R.finalized)
        <5>1. s \in Int /\ R.finalized \in Int  BY <1>2, <1>4 DEF Slots
        <5> QED  BY <1>3, <3>2, <5>1, HeightOrder
      <4>2. Height(s) \in Nat /\ Height(R.finalized) \in Nat  BY HeightNat
      <4>3. ~ Height(R.finalized) < Height(s)  BY <4>1, <4>2
      <4> QED  BY <3>1, <4>3
    <3> QED  BY <1>1, <3>1, <3>2 DEF StatusOf
  <2> QED  BY <2>1, <2>2
<1>9. ASSUME x = NoStatus, s \in q.held PROVE Lost(s) \/ \E c \in Cells : Agrees(s, c)
  <2>1. s \notin R.recent
    <3>1. NoStatus.slot = None  BY DEF NoStatus
    <3>2. s \in R.recent => x.slot = s  BY <1>7
    <3> QED  BY <1>2, <1>9, <3>1, <3>2
  <2>2. s # R.inproc  BY <1>2, <1>4, <2>1 DEF RecentOK
  <2>3. s \in DOMAIN R.ring => R.ring[s] # None  BY <1>2, <1>5 DEF View, DeadOrLive
  <2> QED  BY <1>3, <1>6, <1>9, <2>2, <2>3
<1>10. s \in q.held => s <= R.finalized  BY <1>3
<1> QED  BY <1>1, <1>8, <1>9, <1>10 DEF R

\* getSignatureStatuses.
LEMMA TakeStatusesWay ==
    ASSUME ReadInv, MemoryInv, NEW q, q = req, OnItsWay(q), IsRequest(q), q.stage = "queued",
           q.kind = StatusKind, NEW r \in Readers,
           NEW y, y = SignatureStatuses(reader[r]), NEW p, p = [y EXCEPT !.reader = r]
    PROVE  OnItsWay(p)
<1> DEFINE R == reader[r]
<1>0. q.kind \notin MemoryKinds /\ q.kind \notin ReadKinds  BY KindsApart
<1>1. PICK local : local = [i \in 1 .. 2 |-> Status(R, Asks2(q, i))]  OBVIOUS
<1>2. local = [i \in 1 .. 2 |-> Status(R, Signatures[i])]
  <2>1. \A i \in 1 .. 2 : Signatures[i] = Asks2(q, i)  BY DEF Signatures, Asks2
  <2> QED  BY <1>1, <2>1
<1>3. \/ /\ q.history /\ \E i \in 1 .. 2 : local[i] = NoStatus
         /\ y = [q EXCEPT !.stage = "index", !.local = local, !.finalized = R.finalized]
      \/ /\ ~ (q.history /\ \E i \in 1 .. 2 : local[i] = NoStatus)
         /\ y = [q EXCEPT !.stage = "result", !.result = Result("statuses", local)]
  <2>1. y = IF req.history /\ \E i \in 1 .. 2 : local[i] = NoStatus
            THEN [req EXCEPT !.stage = "index", !.local = local, !.finalized = R.finalized]
            ELSE [req EXCEPT !.stage = "result", !.result = Result("statuses", local)]
    BY <1>2, Zenon DEF SignatureStatuses
  <2> QED  BY <2>1, Zenon
<1>4. ASSUME NEW i \in 1 .. 2
      PROVE  /\ StatusOf(q, i, local[i])
             /\ Asks2(q, i) \in q.held => Asks2(q, i) <= R.finalized
             /\ local[i] = NoStatus /\ Asks2(q, i) \in q.held =>
                   Lost(Asks2(q, i)) \/ \E c \in Cells : Agrees(Asks2(q, i), c)
  <2>1. PICK x : x = Status(R, Asks2(q, i))  OBVIOUS
  <2>2. local[i] = x  BY <1>1, <2>1
  <2> QED  BY <2>1, <2>2, StatusIs
<1>5. PICK f : f = R.finalized  OBVIOUS
<1> HIDE DEF R
<1>6. CASE /\ q.history /\ \E i \in 1 .. 2 : local[i] = NoStatus
           /\ y = [q EXCEPT !.stage = "index", !.local = local, !.finalized = R.finalized]
  <2>1. /\ p.stage = "index" /\ p.local = local /\ p.finalized = f /\ Same(p, q)
    BY <1>5, <1>6 DEF IsRequest, RequestFields, Same
  <2>2. /\ p.held = q.held /\ p.kind = q.kind /\ \A i \in 1 .. 2 : Asks2(p, i) = Asks2(q, i)
    BY <2>1 DEF Same, Asks2
  <2>3. p.history
    <3>1. p.history = q.history  BY <2>1 DEF Same
    <3> QED  BY <1>6, <3>1, Zenon
  <2>4. ASSUME NEW i \in 1 .. 2
        PROVE  /\ StatusOf(p, i, p.local[i])
               /\ Asks2(p, i) \in p.held => Asks2(p, i) <= p.finalized
               /\ p.local[i] = NoStatus /\ Asks2(p, i) \in p.held =>
                    Lost(Asks2(p, i)) \/ \E c \in Cells : Agrees(Asks2(p, i), c)
    <3>1. StatusOf(p, i, local[i])  BY <1>4, <2>2 DEF StatusOf
    <3> QED  BY <1>4, <1>5, <2>1, <2>2, <3>1
  <2>5. Looks(p)  BY <2>1, <2>3, <2>4 DEF Looks
  <2>6. Sound(p)  BY <2>1, SoundSame DEF OnItsWay
  <2> QED  BY <1>0, <2>1, <2>2, <2>5, <2>6 DEF OnItsWay
<1>7. CASE /\ ~ (q.history /\ \E i \in 1 .. 2 : local[i] = NoStatus)
           /\ y = [q EXCEPT !.stage = "result", !.result = Result("statuses", local)]
  <2>1. GivenAs(p, q, Result("statuses", local))  BY <1>7, GivenIs
  <2>2. p.stage = "result" /\ p.result.type = "statuses" /\ p.result.value = local /\ Same(p, q)
    BY <2>1 DEF GivenAs, Result
  <2>3. /\ p.held = q.held /\ p.kind = q.kind /\ \A i \in 1 .. 2 : Asks2(p, i) = Asks2(q, i)
    BY <2>2 DEF Same, Asks2
  <2>4. \A i \in 1 .. 2 : ~ (local[i] = NoStatus /\ p.history)
    <3>1. p.history = q.history  BY <2>2 DEF Same
    <3> QED  BY <1>7, <3>1, Zenon
  <2>5. \A i \in 1 .. 2 : StatusOf(p, i, local[i])  BY <1>4, <2>3 DEF StatusOf
  <2>6. Looks(p)  BY <2>2, <2>4, <2>5 DEF Looks
  <2> QED  BY <1>0, <2>2, <2>6, ResultWay
<1> QED  BY <1>3, <1>6, <1>7

-----------------------------------------------------------------------------
(***************************************************************************)
(* Lists of blocks.                                                        *)
(***************************************************************************)

\* The n lowest are not more than n.
LEMMA LeastAtMost ==
    ASSUME NEW n \in Nat, NEW F, F \subseteq Slots, NEW L, L = Least(n, F)
    PROVE  /\ IsFiniteSet(F) /\ IsFiniteSet(L) /\ L \subseteq F
           /\ Cardinality(L) \in Nat /\ Cardinality(L) <= n
<1>1. IsFiniteSet(Slots)
  <2>1. 1 \in Int /\ MaxSlot \in Int  BY BlockStoreAssumption
  <2> QED  BY <2>1, FS_Interval DEF Slots
<1>2. L \subseteq F  BY DEF Least
<1>3. IsFiniteSet(F) /\ IsFiniteSet(L)  BY <1>1, <1>2, FS_Subset
<1>4. Cardinality(L) \in Nat  BY <1>3, FS_CardinalityType
<1>5. Cardinality(L) <= n
  <2>1. CASE L = {}
    <3>1. Cardinality({}) = 0  BY FS_EmptySet
    <3>2. Cardinality(L) = 0  BY <2>1, <3>1, Zenon
    <3> QED  BY <3>2
  <2>2. CASE L # {}
    <3>1. L \subseteq Slots  BY <1>2
    <3>2. PICK m : m = Highest(L)  OBVIOUS
    <3>3. m \in L /\ \A t \in L : t <= m  BY <2>2, <3>1, <3>2, HighestIn
    <3>4. PICK B : B = {t \in F : t < m}  OBVIOUS
    <3>5. Cardinality(B) < n  BY <3>3, <3>4 DEF Least
    <3>6. IsFiniteSet(B) /\ Cardinality(B) \in Nat
      <4>1. B \subseteq F  BY <3>4
      <4>2. IsFiniteSet(B)  BY <1>3, <4>1, FS_Subset
      <4> QED  BY <4>2, FS_CardinalityType
    <3>7. m \in Int /\ m \notin B  BY <3>1, <3>3, <3>4 DEF Slots
    <3>8. IsFiniteSet(B \union {m}) /\ Cardinality(B \union {m}) = Cardinality(B) + 1
      BY <3>6, <3>7, FS_AddElement
    <3>9. L \subseteq B \union {m}
      <4> SUFFICES ASSUME NEW t \in L, t # m PROVE t \in B  OBVIOUS
      <4>1. t \in F /\ t <= m /\ t \in Int  BY <1>2, <3>1, <3>3 DEF Slots
      <4>2. t < m  BY <3>7, <4>1
      <4> QED  BY <3>4, <4>1, <4>2
    <3>10. Cardinality(L) <= Cardinality(B \union {m})  BY <3>8, <3>9, FS_Subset
    <3> QED  BY <1>4, <3>5, <3>6, <3>8, <3>10
  <2> QED  BY <2>1, <2>2
<1> QED  BY <1>2, <1>3, <1>4, <1>5

\* Less than n are all.
LEMMA LeastAll ==
    ASSUME NEW n \in Nat, NEW F, F \subseteq Slots, NEW L, L = Least(n, F), Cardinality(L) < n
    PROVE  L = F
<1>0. IsFiniteSet(F) /\ IsFiniteSet(L) /\ L \subseteq F /\ Cardinality(L) \in Nat  BY LeastAtMost
<1> SUFFICES ASSUME F \ L # {} PROVE FALSE  BY <1>0
<1>1. PICK s : s = Lowest(F \ L)  OBVIOUS
<1>2. F \ L \subseteq Slots  OBVIOUS
<1>3. s \in F \ L /\ \A t \in F \ L : s <= t  BY <1>1, <1>2, LowestIn
<1>4. PICK B : B = {t \in F : t < s}  OBVIOUS
<1>5. ~ Cardinality(B) < n  BY <1>3, <1>4 DEF Least
<1>6. B \subseteq L
  <2> SUFFICES ASSUME NEW t \in F, t < s, t \notin L PROVE FALSE  BY <1>4
  <2>1. s <= t  BY <1>3
  <2>2. s \in Int /\ t \in Int  BY <1>3 DEF Slots
  <2> QED  BY <2>1, <2>2
<1>7. IsFiniteSet(B) /\ Cardinality(B) <= Cardinality(L)  BY <1>0, <1>6, FS_Subset
<1>8. Cardinality(B) \in Nat  BY <1>7, FS_CardinalityType
<1> QED  BY <1>0, <1>5, <1>7, <1>8

\* What is left out of the n lowest is higher.
LEMMA LeastBelow ==
    ASSUME NEW n \in Nat, NEW F, F \subseteq Slots, NEW s \in F \ Least(n, F), NEW t \in Least(n, F)
    PROVE  t < s
<1>1. PICK A, B : A = {u \in F : u < s} /\ B = {u \in F : u < t}  OBVIOUS
<1>2. ~ Cardinality(A) < n /\ Cardinality(B) < n  BY <1>1 DEF Least
<1>3. s \in Int /\ t \in Int /\ t \in F  BY DEF Least, Slots
<1> SUFFICES ASSUME s <= t PROVE FALSE  BY <1>3
<1>4. A \subseteq B
  <2> SUFFICES ASSUME NEW u \in F, u < s PROVE u < t  BY <1>1
  <2>1. u \in Int  BY DEF Slots
  <2> QED  BY <1>3, <2>1
<1>5. IsFiniteSet(F)
  <2>1. PICK L : L = Least(n, F)  OBVIOUS
  <2> QED  BY <2>1, LeastAtMost
<1>6. IsFiniteSet(B)
  <2>1. B \subseteq F  BY <1>1
  <2> QED  BY <1>5, <2>1, FS_Subset
<1>7. IsFiniteSet(A) /\ Cardinality(A) <= Cardinality(B)  BY <1>4, <1>6, FS_Subset
<1>8. Cardinality(A) \in Nat /\ Cardinality(B) \in Nat  BY <1>6, <1>7, FS_CardinalityType
<1> QED  BY <1>2, <1>7, <1>8

\* A slot below the size of the ring is its own place.
LEMMA PlaceIs ==
    ASSUME NEW a \in Int, NEW b \in Int, a <= b, b - a < MaxBlocks
    PROVE  a + ((b - a) % MaxBlocks) = b
<1>1. MaxBlocks \in Nat \ {0}  BY BlockStoreAssumption
<1>2. b - a \in 0 .. MaxBlocks - 1  BY <1>1
<1>3. (b - a) % MaxBlocks = b - a  BY <1>1, <1>2
<1> QED  BY <1>3

\* What the index has from a slot in it up to another.
LEMMA GetBlocksIs ==
    ASSUME NEW rows, NEW proc, View(rows, proc), NEW slot \in Slots, DOMAIN rows # {},
           ~ slot < Lowest(DOMAIN rows), slot <= Highest(DOMAIN rows),
           NEW end \in Int, end <= Highest(DOMAIN rows),
           NEW n \in Nat, NEW until,
           NEW F, F = {s \in LiveSlots : slot <= s /\ s <= end}
    PROVE  /\ until = [end |-> n] => get_blocks(rows, slot, end, until) = {s \in F : s <= n}
           /\ until = [limit |-> n] => get_blocks(rows, slot, end, until) = Least(n, F)
<1>1. /\ DOMAIN rows \subseteq Slots /\ Consecutive(DOMAIN rows) /\ DeadOrLive(rows)
      /\ \A s, t \in DOMAIN rows : t - s < MaxBlocks
  BY DEF View, IsRows
<1>2. /\ Lowest(DOMAIN rows) \in DOMAIN rows /\ Highest(DOMAIN rows) \in DOMAIN rows
  BY <1>1, LowestIn, HighestIn
<1>3. /\ Lowest(DOMAIN rows) \in Int /\ Highest(DOMAIN rows) \in Int /\ slot \in Int
      /\ Lowest(DOMAIN rows) <= slot
  BY <1>1, <1>2 DEF Slots
<1>4. slot \in DOMAIN rows
  <2>1. slot \in Lowest(DOMAIN rows) .. Highest(DOMAIN rows)  BY <1>3
  <2> QED  BY <1>1, <1>2, <2>1 DEF Consecutive
<1>5. Lowest(DOMAIN rows) + ((slot - Lowest(DOMAIN rows)) % MaxBlocks) = slot
  BY <1>1, <1>2, <1>3, <1>4, PlaceIs
<1>6. ASSUME NEW last \in Int, last <= end
      PROVE  {s \in Live(rows) : slot <= s /\ s <= last} = {s \in LiveSlots : slot <= s /\ s <= last}
  <2>1. ASSUME NEW s \in Live(rows) PROVE s \in LiveSlots
    BY <1>1 DEF Live, DeadOrLive, LiveSlots
  <2>2. ASSUME NEW s \in LiveSlots, slot <= s, s <= last PROVE s \in Live(rows)
    <3>1. s \in Int /\ s \notin Skipped  BY DEF LiveSlots, Slots
    <3>2. s \in slot .. Highest(DOMAIN rows)  BY <1>3, <1>6, <2>2, <3>1
    <3>3. s \in DOMAIN rows  BY <1>1, <1>2, <1>4, <3>2 DEF Consecutive
    <3> QED  BY <1>1, <3>1, <3>3 DEF Live, DeadOrLive
  <2> QED  BY <2>1, <2>2
<1>7. ASSUME until = [end |-> n] PROVE get_blocks(rows, slot, end, until) = {s \in F : s <= n}
  <2>1. "end" \in DOMAIN until /\ until.end = n /\ "limit" \notin DOMAIN until  BY <1>7
  <2>2. PICK last : last = IF n < end THEN n ELSE end  OBVIOUS
  <2>3. last \in Int /\ last <= end  BY <2>2
  <2>4. get_blocks(rows, slot, end, until) = {s \in Live(rows) : slot <= s /\ s <= last}
    BY <1>5, <2>1, <2>2 DEF get_blocks
  <2>5. ASSUME NEW s \in LiveSlots PROVE s <= last <=> s <= end /\ s <= n
    BY <2>2 DEF LiveSlots, Slots
  <2>6. {s \in LiveSlots : slot <= s /\ s <= last} = {s \in F : s <= n}  BY <2>5
  <2> QED  BY <1>6, <2>3, <2>4, <2>6
<1>8. ASSUME until = [limit |-> n] PROVE get_blocks(rows, slot, end, until) = Least(n, F)
  <2>1. "end" \notin DOMAIN until /\ until.limit = n /\ "limit" \in DOMAIN until  BY <1>8
  <2>2. get_blocks(rows, slot, end, until) = Least(n, {s \in Live(rows) : slot <= s /\ s <= end})
    BY <1>5, <2>1 DEF get_blocks
  <2>3. {s \in Live(rows) : slot <= s /\ s <= end} = F  BY <1>6
  <2> QED  BY <2>2, <2>3
<1> QED  BY <1>7, <1>8

\* A list up to a slot, with the block after it or without, has no gaps; all
\* that was confirmed when the request came is in it.
ListSound(listed, slot, top) ==
    /\ listed \subseteq Wanted(slot, top)
    /\ \A s \in Wanted(slot, top) \ listed, t \in listed : t < s

\* What is found below a slot, with the slot after that or without.
ListGrown(listed, found, slot, end, top) ==
    LET F == {s \in LiveSlots : slot <= s /\ s <= end}
    IN  /\ found \subseteq F /\ found \subseteq Wanted(slot, top)
        /\ \A s \in F \ found : s <= top => \A t \in found : t < s
        /\ \/ listed = found
           \/ /\ listed = found \union {end + 1} /\ end + 1 \in LiveSlots
              /\ slot <= end + 1 /\ end + 1 <= top
              /\ \A s \in F : s <= top => s \in found

LEMMA NoGaps ==
    ASSUME NEW slot \in Slots, NEW end \in Int, NEW top \in Int, NEW found, NEW listed,
           ListGrown(listed, found, slot, end, top)
    PROVE  ListSound(listed, slot, top)
<1>1. PICK F : F = {s \in LiveSlots : slot <= s /\ s <= end}  OBVIOUS
<1>2. PICK proc : proc = end + 1  OBVIOUS
<1>3. /\ found \subseteq F /\ found \subseteq Wanted(slot, top)
      /\ \A s \in F \ found : s <= top => \A t \in found : t < s
      /\ \/ listed = found
         \/ /\ listed = found \union {proc} /\ proc \in LiveSlots
            /\ slot <= proc /\ proc <= top
            /\ \A s \in F : s <= top => s \in found
  BY <1>1, <1>2 DEF ListGrown
<1>4. listed \subseteq Wanted(slot, top)  BY <1>3 DEF Wanted
<1>5. ASSUME NEW s \in Wanted(slot, top) \ listed, NEW t \in listed PROVE t < s
  <2>1. s \in LiveSlots /\ s \in Int /\ slot <= s /\ s <= top /\ s \notin found
    BY <1>3 DEF Wanted, LiveSlots, Slots
  <2>2. t \in Int  BY <1>4 DEF Wanted, LiveSlots, Slots
  <2>3. CASE t \in found
    <3>1. t <= end  BY <1>1, <1>3, <2>3
    <3>2. CASE s <= end  BY <1>1, <1>3, <2>1, <2>3, <3>2
    <3>3. CASE ~ s <= end  BY <2>1, <2>2, <3>1, <3>3
    <3> QED  BY <3>2, <3>3
  <2>4. CASE t \notin found
    <3>1. listed = found \union {proc} /\ t = proc /\ proc = end + 1 /\ s # proc
      BY <1>2, <1>3, <2>4
    <3>2. ~ s <= end  BY <1>1, <1>3, <2>1, <2>4
    <3> QED  BY <2>1, <3>1, <3>2
  <2> QED  BY <2>3, <2>4
<1> QED  BY <1>4, <1>5 DEF ListSound

\* getBlocks, up to n.
EndGrown(listed, slot, end, n) ==
    LET F == {s \in LiveSlots : slot <= s /\ s <= end}
        found == {s \in F : s <= n}
    IN  \/ listed = found
        \/ /\ listed = found \union {end + 1} /\ end + 1 \in LiveSlots
           /\ slot <= end + 1 /\ end + 1 <= n

LEMMA EndList ==
    ASSUME NEW slot \in Slots, NEW end \in Int, NEW n \in Nat, NEW listed,
           EndGrown(listed, slot, end, n)
    PROVE  /\ ListSound(listed, slot, n)
           /\ \A seen \in Nat :
                seen <= end + 1 /\ (seen = end + 1 /\ seen \in LiveSlots /\ slot <= seen /\ seen <= n => seen \in listed)
                  => Wanted(slot, IF n < seen THEN n ELSE seen) \subseteq listed
<1>1. PICK F, found : F = {s \in LiveSlots : slot <= s /\ s <= end} /\ found = {s \in F : s <= n}
  OBVIOUS
<1>2. \/ listed = found
      \/ /\ listed = found \union {end + 1} /\ end + 1 \in LiveSlots
         /\ slot <= end + 1 /\ end + 1 <= n
  BY <1>1 DEF EndGrown
<1>3. found \subseteq F /\ found \subseteq Wanted(slot, n) /\ found \subseteq listed
  BY <1>1, <1>2 DEF Wanted
<1>4. \A s \in F : s <= n => s \in found  BY <1>1
<1>5. ListSound(listed, slot, n)
  <2>1. n \in Int  OBVIOUS
  <2>2. ListGrown(listed, found, slot, end, n)  BY <1>3, <1>4, <1>1, <1>2 DEF ListGrown
  <2> QED  BY <2>1, <2>2, NoGaps
<1>6. ASSUME NEW seen \in Nat, seen <= end + 1,
             seen = end + 1 /\ seen \in LiveSlots /\ slot <= seen /\ seen <= n => seen \in listed,
             NEW s \in Wanted(slot, IF n < seen THEN n ELSE seen)
      PROVE  s \in listed
  <2>1. s \in LiveSlots /\ s \in Int /\ slot <= s /\ s <= n /\ s <= seen
    BY DEF Wanted, LiveSlots, Slots
  <2>2. CASE s <= end  BY <1>3, <1>1, <2>1, <2>2
  <2>3. CASE ~ s <= end
    <3>1. s = end + 1 /\ seen = s  BY <1>6, <2>1, <2>3
    <3> QED  BY <1>6, <2>1, <3>1
  <2> QED  BY <2>2, <2>3
<1> QED  BY <1>5, <1>6

\* getBlocksWithLimit, n blocks.
LEMMA LimitList ==
    ASSUME NEW slot \in Slots, NEW end \in Int, NEW n \in Nat,
           NEW F, F = {s \in LiveSlots : slot <= s /\ s <= end},
           NEW found, found = Least(n, F), NEW proc, NEW listed,
           \/ listed = found
           \/ /\ listed = found \union {proc} /\ proc \in LiveSlots /\ proc = end + 1
              /\ slot <= proc /\ Cardinality(found) < n
    PROVE  /\ ListSound(listed, slot, MaxSlot)
           /\ Cardinality(listed) <= n
           /\ \A seen \in Nat :
                seen <= end + 1
                /\ (seen = end + 1 /\ seen \in LiveSlots /\ slot <= seen /\ Cardinality(found) < n => seen \in listed)
                  => \/ Wanted(slot, IF MaxSlot < seen THEN MaxSlot ELSE seen) \subseteq listed
                     \/ Cardinality(listed) = n
<1>0. MaxSlot \in Int /\ F \subseteq Slots  BY BlockStoreAssumption DEF LiveSlots
<1>1. /\ IsFiniteSet(found) /\ found \subseteq F /\ Cardinality(found) \in Nat /\ Cardinality(found) <= n
  BY <1>0, LeastAtMost
<1>2. found \subseteq Wanted(slot, MaxSlot) /\ found \subseteq listed
  <2>1. \A s \in Slots : s <= MaxSlot  BY DEF Slots
  <2>2. \A s \in found : s \in LiveSlots /\ slot <= s /\ s \in Slots  BY <1>0, <1>1
  <2> QED  BY <2>1, <2>2 DEF Wanted
<1>3. Cardinality(found) < n => found = F  BY <1>0, LeastAll
<1>4. \A s \in F \ found, t \in found : t < s  BY <1>0, LeastBelow
<1>5. ListSound(listed, slot, MaxSlot)
  <2>1. proc \in LiveSlots => proc <= MaxSlot  BY <1>0 DEF LiveSlots, Slots
  <2>2. ListGrown(listed, found, slot, end, MaxSlot)  BY <1>1, <1>2, <1>3, <1>4, <2>1 DEF ListGrown
  <2> QED  BY <1>0, <2>2, NoGaps
<1>6. Cardinality(listed) <= n
  <2>1. CASE listed = found  BY <1>1, <2>1
  <2>2. CASE listed # found
    <3>1. listed = found \union {proc} /\ proc \notin found /\ Cardinality(found) < n  BY <2>2
    <3>2. Cardinality(listed) = Cardinality(found) + 1  BY <1>1, <3>1, FS_AddElement
    <3> QED  BY <1>1, <3>1, <3>2
  <2> QED  BY <2>1, <2>2
<1>7. ASSUME NEW seen \in Nat, seen <= end + 1,
             seen = end + 1 /\ seen \in LiveSlots /\ slot <= seen /\ Cardinality(found) < n => seen \in listed,
             Cardinality(listed) # n,
             NEW s \in Wanted(slot, IF MaxSlot < seen THEN MaxSlot ELSE seen)
      PROVE  s \in listed
  <2>1. Cardinality(found) < n
    <3>1. CASE listed = found
      <4>1. Cardinality(found) # n  BY <1>7, <3>1
      <4> QED  BY <1>1, <4>1
    <3>2. CASE listed # found  BY <3>2
    <3> QED  BY <3>1, <3>2
  <2>2. s \in LiveSlots /\ s \in Int /\ slot <= s /\ s <= seen
    BY <1>0 DEF Wanted, LiveSlots, Slots
  <2>3. CASE s <= end  BY <1>2, <1>3, <2>1, <2>2, <2>3
  <2>4. CASE ~ s <= end
    <3>1. s = end + 1 /\ seen = s  BY <1>7, <2>2, <2>4
    <3> QED  BY <1>7, <2>1, <2>2, <3>1
  <2> QED  BY <2>3, <2>4
<1> QED  BY <1>5, <1>6, <1>7

\* What may be said of a list.
ListGood(q, listed) ==
    LET end == IF "end" \in DOMAIN q.until THEN q.until.end ELSE MaxSlot
        wanted == Wanted(q.slot, end)
    IN  /\ listed \subseteq wanted
        /\ \A s \in wanted \ listed, t \in listed : t < s
        /\ "limit" \in DOMAIN q.until => Cardinality(listed) <= q.until.limit
        /\ q.commit = "confirmed" =>
             \/ Wanted(q.slot, IF end < q.seen THEN end ELSE q.seen) \subseteq listed
             \/ "limit" \in DOMAIN q.until /\ Cardinality(listed) = q.until.limit

\* The last slot that is looked for in the index.
ListEnd(q, R) ==
    IF q.commit = "finalized" THEN R.finalized
    ELSE IF q.commit = "confirmed" /\ R.inproc # None THEN R.confirmed - 1 ELSE R.confirmed

\* The block in process is added.
ListMore(q, R, found) ==
    /\ q.commit = "confirmed" /\ R.inproc # None /\ R.inproc \notin Skipped /\ R.inproc >= q.slot
    /\ IF "end" \in DOMAIN q.until THEN R.inproc <= q.until.end
       ELSE Cardinality(found) < q.until.limit

\* A list that a reader gives is good.
LEMMA ListIsGood ==
    ASSUME NEW q, q.commit \in Commitments, q.slot \in Slots, q.seen \in Nat,
           NEW n \in Nat, q.until = [end |-> n] \/ q.until = [limit |-> n],
           NEW R, View(R.ring, R.inproc), R.confirmed \in Nat, R.finalized \in Nat,
           R.inproc # None => R.confirmed = R.inproc, q.seen <= R.confirmed,
           DOMAIN R.ring # {}, ~ q.slot < Lowest(DOMAIN R.ring), q.slot <= Highest(DOMAIN R.ring),
           NEW end, end = ListEnd(q, R), ~ Highest(DOMAIN R.ring) < end,
           NEW found, found = get_blocks(R.ring, q.slot, end, q.until), NEW listed,
           \/ listed = found /\ ~ ListMore(q, R, found)
           \/ listed = found \union {R.inproc} /\ ListMore(q, R, found)
    PROVE  ListGood(q, listed)
<1>1. end \in Int  BY DEF ListEnd
<1>2. end <= Highest(DOMAIN R.ring)
  <2>1. DOMAIN R.ring \subseteq Slots  BY DEF View, IsRows
  <2>2. Highest(DOMAIN R.ring) \in Int  BY <2>1, HighestIn DEF Slots
  <2> QED  BY <1>1, <2>2
<1>3. PICK F : F = {s \in LiveSlots : q.slot <= s /\ s <= end}  OBVIOUS
<1>4. PICK slot \in Slots : slot = q.slot  OBVIOUS
<1>5. PICK until : until = q.until  OBVIOUS
<1>6. PICK rows, proc : rows = R.ring /\ proc = R.inproc  OBVIOUS
<1>7. /\ until = [end |-> n] => get_blocks(rows, slot, end, until) = {s \in F : s <= n}
      /\ until = [limit |-> n] => get_blocks(rows, slot, end, until) = Least(n, F)
  <2>1. View(rows, proc) /\ DOMAIN rows # {} /\ ~ slot < Lowest(DOMAIN rows)
        /\ slot <= Highest(DOMAIN rows) /\ end <= Highest(DOMAIN rows)
        /\ F = {s \in LiveSlots : slot <= s /\ s <= end}
    BY <1>2, <1>3, <1>4, <1>6
  <2> QED  BY <1>1, <2>1, GetBlocksIs
<1>8. found = get_blocks(rows, slot, end, until)  BY <1>4, <1>5, <1>6
<1>9. F = {s \in LiveSlots : slot <= s /\ s <= end}  BY <1>3, <1>4
<1>10. PICK seen \in Nat : seen = q.seen  OBVIOUS
<1>11. ASSUME q.commit = "confirmed"
       PROVE  /\ seen <= end + 1
              /\ seen = end + 1 => R.inproc # None /\ seen = proc
  BY <1>6, <1>10, <1>11 DEF ListEnd
<1>12. ListMore(q, R, found) =>
         q.commit = "confirmed" /\ proc \in LiveSlots /\ proc = end + 1 /\ slot <= proc
  <2>1. ListMore(q, R, found) =>
          q.commit = "confirmed" /\ R.inproc # None /\ proc \notin Skipped /\ proc >= slot
    BY <1>4, <1>6 DEF ListMore
  <2>2. R.inproc # None => proc \in Slots /\ proc = R.confirmed  BY <1>6 DEF View
  <2> QED  BY <1>4, <1>6, <2>1, <2>2 DEF LiveSlots, ListEnd, Slots
<1>13. CASE until = [end |-> n]
  <2>1. found = {s \in F : s <= n}  BY <1>7, <1>8, <1>13
  <2>2. "end" \in DOMAIN until /\ until.end = n /\ "limit" \notin DOMAIN until  BY <1>13
  <2>3. \/ listed = found
        \/ /\ listed = found \union {proc} /\ proc \in LiveSlots /\ proc = end + 1
           /\ slot <= proc /\ proc <= n
    BY <1>5, <1>6, <1>12, <2>2 DEF ListMore
  <2>4. EndGrown(listed, slot, end, n)  BY <1>9, <2>1, <2>3 DEF EndGrown
  <2>5. /\ ListSound(listed, slot, n)
        /\ seen <= end + 1 /\ (seen = end + 1 /\ seen \in LiveSlots /\ slot <= seen /\ seen <= n => seen \in listed)
             => Wanted(slot, IF n < seen THEN n ELSE seen) \subseteq listed
    BY <1>1, <2>4, EndList
  <2>6. ASSUME q.commit = "confirmed" PROVE Wanted(slot, IF n < seen THEN n ELSE seen) \subseteq listed
    <3>1. ASSUME seen = end + 1, seen \in LiveSlots, slot <= seen, seen <= n PROVE seen \in listed
      <4>1. R.inproc # None /\ seen = proc  BY <1>11, <2>6, <3>1
      <4>2. ListMore(q, R, found)
        <5>1. proc \notin Skipped /\ proc >= slot
          BY <1>10, <3>1, <4>1 DEF LiveSlots, Slots
        <5> QED  BY <1>4, <1>5, <1>6, <2>2, <2>6, <3>1, <4>1, <5>1 DEF ListMore
      <4> QED  BY <1>6, <4>1, <4>2
    <3> QED  BY <1>11, <2>5, <2>6, <3>1
  <2> QED  BY <1>4, <1>5, <1>10, <2>2, <2>5, <2>6 DEF ListGood, ListSound
<1>14. CASE until = [limit |-> n]
  <2>1. found = Least(n, F)  BY <1>7, <1>8, <1>14
  <2>2. "limit" \in DOMAIN until /\ until.limit = n /\ "end" \notin DOMAIN until  BY <1>14
  <2>3. \/ listed = found
        \/ /\ listed = found \union {proc} /\ proc \in LiveSlots /\ proc = end + 1
           /\ slot <= proc /\ Cardinality(found) < n
    BY <1>5, <1>6, <1>12, <2>2 DEF ListMore
  <2>4. /\ ListSound(listed, slot, MaxSlot) /\ Cardinality(listed) <= n
        /\ seen <= end + 1
           /\ (seen = end + 1 /\ seen \in LiveSlots /\ slot <= seen /\ Cardinality(found) < n => seen \in listed)
             => \/ Wanted(slot, IF MaxSlot < seen THEN MaxSlot ELSE seen) \subseteq listed
                \/ Cardinality(listed) = n
    BY <1>1, <1>9, <2>1, <2>3, LimitList
  <2>5. ASSUME q.commit = "confirmed"
        PROVE  \/ Wanted(slot, IF MaxSlot < seen THEN MaxSlot ELSE seen) \subseteq listed
               \/ Cardinality(listed) = n
    <3>1. ASSUME seen = end + 1, seen \in LiveSlots, slot <= seen, Cardinality(found) < n
          PROVE  seen \in listed
      <4>1. R.inproc # None /\ seen = proc  BY <1>11, <2>5, <3>1
      <4>2. ListMore(q, R, found)
        <5>1. proc \notin Skipped /\ proc >= slot
          BY <1>10, <3>1, <4>1 DEF LiveSlots, Slots
        <5> QED  BY <1>4, <1>5, <1>6, <2>2, <2>5, <3>1, <4>1, <5>1 DEF ListMore
      <4> QED  BY <1>6, <4>1, <4>2
    <3> QED  BY <1>11, <2>4, <2>5, <3>1
  <2> QED  BY <1>4, <1>5, <1>10, <2>2, <2>4, <2>5 DEF ListGood, ListSound
<1> QED  BY <1>5, <1>13, <1>14

\* Where the reader's index reaches is noted with the result.
NotedAs(p, q, x, b) ==
    /\ p.stage = "result" /\ p.result = x /\ Same(p, q) /\ p.inside = b

LEMMA NotedIs ==
    ASSUME NEW q, IsRequest(q), NEW x, NEW b, NEW r,
           NEW y, y = [q EXCEPT !.stage = "result", !.result = x],
           NEW z, z = [y EXCEPT !.inside = b], NEW p, p = [z EXCEPT !.reader = r]
    PROVE  NotedAs(p, q, x, b)
<1>1. GivenAs(y, q, x)  BY GivenIs
<1> QED  BY <1>1 DEF NotedAs, GivenAs, IsRequest, RequestFields, Same

\* getBlocks and getBlocksWithLimit: what a reader says.
BlocksAs(q, R, x, end, found) ==
    \/ (DOMAIN R.ring = {} \/ q.slot < Lowest(DOMAIN R.ring)) /\ x = Result("removed", None)
    \/ /\ DOMAIN R.ring # {} /\ ~ q.slot < Lowest(DOMAIN R.ring)
       /\ Highest(DOMAIN R.ring) < end /\ x = Failed(R)
    \/ /\ DOMAIN R.ring # {} /\ ~ q.slot < Lowest(DOMAIN R.ring)
       /\ ~ Highest(DOMAIN R.ring) < end
       /\ \E listed : /\ x = Result("blocks", listed)
                      /\ \/ listed = found /\ ~ ListMore(q, R, found)
                         \/ listed = found \union {R.inproc} /\ ListMore(q, R, found)

LEMMA BlocksIs ==
    ASSUME NEW q, q = req, NEW R, NEW x, x = Blocks(R),
           NEW end, end = ListEnd(q, R), NEW found, found = get_blocks(R.ring, q.slot, end, q.until)
    PROVE  BlocksAs(q, R, x, end, found)
<1>1. PICK listed : listed = found \union (IF ListMore(q, R, found) THEN {R.inproc} ELSE {})  OBVIOUS
<1>2. \/ listed = found /\ ~ ListMore(q, R, found)
      \/ listed = found \union {R.inproc} /\ ListMore(q, R, found)
  BY <1>1
<1>3. x = IF DOMAIN R.ring = {} \/ q.slot < Lowest(DOMAIN R.ring) THEN Result("removed", None)
          ELSE IF Highest(DOMAIN R.ring) < end THEN Failed(R) ELSE Result("blocks", listed)
  BY <1>1 DEF Blocks, ListEnd, ListMore, InProcess
<1> QED  BY <1>2, <1>3 DEF BlocksAs

LEMMA TakeBlocksWay ==
    ASSUME ReadInv, MemoryInv, NEW q, q = req, OnItsWay(q), IsRequest(q), q.stage = "queued",
           q.kind = "getBlocks", NEW r \in Readers, NEW x, x = Blocks(reader[r]),
           NEW y, y = Answer(x), NEW b,
           b = (DOMAIN reader[r].ring # {} /\ q.slot <= Highest(DOMAIN reader[r].ring)),
           NEW z, z = [y EXCEPT !.inside = b], NEW p, p = [z EXCEPT !.reader = r]
    PROVE  OnItsWay(p)
<1>1. PICK R : R = reader[r]  OBVIOUS
<1>2. /\ q.kind \in MemoryKinds /\ q.slot \in Slots /\ q.kind \notin HeightKinds
      /\ q.commit \in Commitments
      /\ \A s \in q.held : s \in DOMAIN R.ring \/ s = R.inproc \/ Lost(s)
  BY <1>1, KindsApart DEF OnItsWay, Sound, Waits, HeightKinds
<1>3. /\ q.seen \in Nat /\ R.confirmed \in Nat /\ q.seen <= R.confirmed
      /\ R.inproc # None => R.confirmed = R.inproc
      /\ View(R.ring, R.inproc) /\ ReaderLevels(R)
  BY <1>1, <1>2, ReaderAhead
<1>4. R.finalized \in Nat  BY <1>1 DEF MemoryInv, Levels, ReaderLevels
<1>5. PICK n \in Nat : q.until = [end |-> n] \/ q.until = [limit |-> n]  BY DEF OnItsWay, Sound
<1>6. PICK end : end = ListEnd(q, R)  OBVIOUS
<1>7. PICK found : found = get_blocks(R.ring, q.slot, end, q.until)  OBVIOUS
<1>8. y = [q EXCEPT !.stage = "result", !.result = x]  BY DEF Answer
<1>9. NotedAs(p, q, x, b)  BY <1>8, NotedIs
<1>10. p.stage = "result" /\ p.result = x /\ Same(p, q) /\ p.inside = b  BY <1>9 DEF NotedAs
<1>11. /\ p.kind = q.kind /\ p.slot = q.slot /\ p.held = q.held /\ p.seen = q.seen
       /\ p.commit = q.commit /\ p.until = q.until
  BY <1>10 DEF Same
<1>12. p.inside => q.slot <= Highest(DOMAIN R.ring)  BY <1>1, <1>10, Zenon
<1>13. \A t, v : Result(t, v).type = t /\ Result(t, v).value = v  BY DEF Result
<1>14. PICK e : Failed(R) = Result("failed", e) /\ FailedAs(e, R)  BY FailedIs
<1>15. DOMAIN R.ring \subseteq Slots /\ q.slot \in Int  BY <1>2, <1>3 DEF View, IsRows, Slots
<1>16. DOMAIN R.ring # {} =>
         /\ Lowest(DOMAIN R.ring) \in DOMAIN R.ring /\ Highest(DOMAIN R.ring) \in DOMAIN R.ring
         /\ Lowest(DOMAIN R.ring) \in Int /\ Highest(DOMAIN R.ring) \in Int
         /\ Lowest(DOMAIN R.ring) <= Highest(DOMAIN R.ring)
         /\ \A s \in DOMAIN R.ring : Lowest(DOMAIN R.ring) <= s
         /\ R.inproc # None => R.inproc = Highest(DOMAIN R.ring) + 1
  BY <1>3, <1>15, LowestIn, HighestIn DEF View, Slots
<1>17. HeightOK(p)  BY <1>2, <1>11 DEF HeightOK
<1>18. CASE (DOMAIN R.ring = {} \/ q.slot < Lowest(DOMAIN R.ring)) /\ x = Result("removed", None)
  <2>1. x.type = "removed"  BY <1>13, <1>18
  <2>2. ASSUME q.slot \in q.held PROVE q.slot <= stored.first
    <3>1. q.slot \in DOMAIN R.ring \/ q.slot = R.inproc \/ Lost(q.slot)  BY <1>2, <2>2
    <3>2. q.slot \notin DOMAIN R.ring  BY <1>15, <1>16, <1>18
    <3>3. CASE q.slot = R.inproc
      <4>1. R.inproc # None  BY <1>2, <3>3, SlotNotNone
      <4>2. DOMAIN R.ring = {}  BY <1>15, <1>16, <1>18, <3>3, <4>1
      <4>3. Lost(q.slot - 1)  BY <1>3, <3>3, <4>1, <4>2 DEF View
      <4> QED  BY <1>2, <4>3, LostBelow DEF ReadInv
    <3>4. CASE Lost(q.slot)
      <4>1. q.slot < stored.first /\ stored.first \in Nat  BY <3>4, LostBelow DEF ReadInv
      <4> QED  BY <1>15, <4>1
    <3> QED  BY <3>1, <3>2, <3>3, <3>4
  <2>3. Serves(p)  BY <1>10, <1>11, <2>1, <2>2 DEF Serves
  <2>4. FailsOK(p) /\ ListedOK(p)  BY <1>10, <2>1 DEF FailsOK, ListedOK
  <2> QED  BY <1>2, <1>10, <1>17, <2>3, <2>4, MemoryResult
<1>19. CASE /\ DOMAIN R.ring # {} /\ ~ q.slot < Lowest(DOMAIN R.ring)
            /\ Highest(DOMAIN R.ring) < end /\ x = Failed(R)
  <2>1. x.type = "failed" /\ x.value = e  BY <1>13, <1>14, <1>19
  <2>2. ASSUME q.commit = "confirmed" PROVE Above(R)
    <3>1. CASE R.inproc # None
      <4>1. end = R.inproc - 1  BY <1>3, <1>6, <2>2, <3>1 DEF ListEnd
      <4> QED  BY <1>16, <1>19, <3>1, <4>1
    <3>2. CASE R.inproc = None
      <4>1. end = R.confirmed  BY <1>6, <2>2, <3>2 DEF ListEnd
      <4>2. PICK c \in Int : c = R.confirmed  BY <1>3
      <4>3. Highest(DOMAIN R.ring) < c  BY <1>19, <4>1, <4>2
      <4>4. 0 < Highest(DOMAIN R.ring)  BY <1>15, <1>16, <1>19 DEF Slots
      <4>5. c # R.inproc /\ c <= R.confirmed  BY <1>16, <1>19, <3>2, <4>2, <4>3, <4>4 DEF None
      <4> QED  BY <1>3, <1>19, <4>3, <4>5, EndsBelow
    <3> QED  BY <3>1, <3>2
  <2>3. Serves(p)  BY <1>10, <1>11, <2>1 DEF Serves
  <2>4. FailsOK(p)
    <3>1. p.commit = "confirmed" => p.result.value.above
      <4>1. p.result.value = e  BY <1>10, <2>1
      <4>2. q.commit = "confirmed" => e.above  BY <1>14, <2>2, Zenon DEF FailedAs
      <4> QED  BY <1>11, <4>1, <4>2, Zenon
    <3>2. p.kind \in {"getBlocks", "getBlockTime"}  BY <1>11
    <3> QED  BY <3>1, <3>2, Zenon DEF FailsOK, Expected
  <2>5. ListedOK(p)  BY <1>10, <2>1 DEF ListedOK
  <2> QED  BY <1>2, <1>10, <1>17, <2>3, <2>4, <2>5, MemoryResult
<1>20. CASE /\ DOMAIN R.ring # {} /\ ~ q.slot < Lowest(DOMAIN R.ring)
            /\ ~ Highest(DOMAIN R.ring) < end
            /\ \E listed : /\ x = Result("blocks", listed)
                           /\ \/ listed = found /\ ~ ListMore(q, R, found)
                              \/ listed = found \union {R.inproc} /\ ListMore(q, R, found)
  <2>1. PICK listed : /\ x = Result("blocks", listed)
                      /\ \/ listed = found /\ ~ ListMore(q, R, found)
                         \/ listed = found \union {R.inproc} /\ ListMore(q, R, found)
    BY <1>20
  <2>2. x.type = "blocks" /\ x.value = listed  BY <1>13, <2>1
  <2>3. p.inside => ListGood(q, listed)
    <3>1. ASSUME q.slot <= Highest(DOMAIN R.ring) PROVE ListGood(q, listed)
      BY <1>2, <1>3, <1>4, <1>5, <1>6, <1>7, <1>20, <2>1, <3>1, ListIsGood
    <3> QED  BY <1>12, <3>1
  <2>4. ListedOK(p)  BY <1>10, <1>11, <2>2, <2>3 DEF ListedOK, ListGood
  <2>5. Serves(p)  BY <1>10, <1>11, <2>2 DEF Serves
  <2>6. FailsOK(p)  BY <1>10, <2>2 DEF FailsOK
  <2> QED  BY <1>2, <1>10, <1>17, <2>4, <2>5, <2>6, MemoryResult
<1>21. BlocksAs(q, R, x, end, found)
  <2>1. x = Blocks(R)  BY <1>1
  <2> QED  BY <1>6, <1>7, <2>1, BlocksIs
<1> QED  BY <1>18, <1>19, <1>20, <1>21 DEF BlocksAs

\* A reader takes the request.
LEMMA QueuedWay ==
    ASSUME ReadInv, MemoryInv, NEW q, q = req, OnItsWay(q), IsRequest(q), q.stage = "queued",
           NEW r \in Readers, NEW z \in process(r, reader[r]), NEW p, p = [z EXCEPT !.reader = r]
    PROVE  OnItsWay(p)
<1>0. Traced  BY DEF MemoryInv
<1>1. PICK R : R = reader[r]  OBVIOUS
<1>2. /\ q.kind \in BlockKinds \/ q.kind \in TransactionKinds \/ q.kind = "getBlocks"
         \/ q.kind = "getBlockHeight" \/ q.kind = "getBlockTime" \/ q.kind = "getLatestBlockhash"
         \/ q.kind = "isBlockhashValid" \/ q.kind = StatusKind
  BY DEF OnItsWay, Sound, ReadKinds, MemoryKinds, HeightKinds, BlockKinds, TransactionKinds
<1>3. CASE q.kind \in BlockKinds
  <2>1. z = Block(R)  BY <1>1, <1>3 DEF process, BlockKinds
  <2> QED  BY <1>0, <1>1, <1>3, <2>1, TakeBlockWay
<1>4. CASE q.kind \in TransactionKinds
  <2>1. z = Transaction(R)  BY <1>1, <1>4 DEF process, TransactionKinds
  <2> QED  BY <1>0, <1>1, <1>4, <2>1, TakeTransactionWay
<1>5. CASE q.kind = "getBlocks"
  <2>1. PICK b : b = (DOMAIN R.ring # {} /\ q.slot <= Highest(DOMAIN R.ring))  BY Zenon
  <2>2. PICK x, y : x = Blocks(R) /\ y = Answer(x)  OBVIOUS
  <2>3. z \in {[Answer(Blocks(R)) EXCEPT !.inside = (DOMAIN R.ring # {} /\ req.slot <= Highest(DOMAIN R.ring))]}
    <3>1. process(r, R) = {[Answer(Blocks(R)) EXCEPT !.inside = (DOMAIN R.ring # {} /\ req.slot <= Highest(DOMAIN R.ring))]}
      BY <1>5 DEF process
    <3> QED  BY <1>1, <3>1, Zenon
  <2>4. z = [y EXCEPT !.inside = b]  BY <2>1, <2>2, <2>3, Zenon
  <2>5. b = (DOMAIN reader[r].ring # {} /\ q.slot <= Highest(DOMAIN reader[r].ring))
    BY <1>1, <2>1, Zenon
  <2>6. x = Blocks(reader[r])  BY <1>1, <2>2
  <2> HIDE <1>1, <2>1
  <2> QED  BY <1>5, <2>2, <2>4, <2>5, <2>6, TakeBlocksWay
<1>6. CASE q.kind = "getBlockHeight"
  <2>1. PICK x : x = BlockHeight(R)  OBVIOUS
  <2>2. z = Answer(x)  BY <1>1, <1>6, <2>1 DEF process
  <2> QED  BY <1>1, <1>6, <2>1, <2>2, TakeHeightWay
<1>7. CASE q.kind = "getBlockTime"
  <2>1. PICK x \in BlockTime(R) : z = Answer(x)  BY <1>1, <1>7 DEF process
  <2> QED  BY <1>1, <1>7, <2>1, TakeTimeWay
<1>8. CASE q.kind = "getLatestBlockhash"
  <2>1. PICK x \in LatestBlockhash(R) : z = Answer(x)  BY <1>1, <1>8 DEF process
  <2> QED  BY <1>1, <1>8, <2>1, TakeLatestWay
<1>9. CASE q.kind = "isBlockhashValid"
  <2>1. PICK x : x = BlockhashValid(R)  OBVIOUS
  <2>2. z = Answer(x)  BY <1>1, <1>9, <2>1 DEF process
  <2> QED  BY <1>1, <1>9, <2>1, <2>2, TakeValidWay
<1>10. CASE q.kind = StatusKind
  <2>1. z = SignatureStatuses(R)  BY <1>1, <1>10 DEF process, StatusKind
  <2> QED  BY <1>1, <1>10, <2>1, TakeStatusesWay
<1> QED  BY <1>2, <1>3, <1>4, <1>5, <1>6, <1>7, <1>8, <1>9, <1>10

LEMMA TakeWay ==
    ASSUME ReadInv, MemoryInv, RequestWay, Behind = {}, NEW r \in Readers, take(r)
    PROVE  RequestWay'
<1>1. req.stage \in {"queued", "found"} /\ Still  BY DEF take, Still
<1>2. PICK q : q = req  OBVIOUS
<1>3. OnItsWay(q) /\ IsRequest(q)  BY <1>1, <1>2, Underway
<1>4. PICK p : p = req'  OBVIOUS
<1>0. Copy(reader[r]) = reader[r]  BY CopyIs DEF ReadInv
<1>5. CASE req.stage = "queued"
  <2>1. PICK z \in process(r, reader[r]) : req' = [z EXCEPT !.reader = r]
    BY <1>0, <1>5 DEF take
  <2>2. p = [z EXCEPT !.reader = r]  BY <1>4, <2>1
  <2>3. OnItsWay(p)  BY <1>2, <1>3, <1>5, <2>2, QueuedWay
  <2> QED  BY <1>1, <1>4, <2>3, WayStep
<1>6. CASE req.stage = "found"
  <2>1. req.reader = r /\ p = Transaction2(reader[r])  BY <1>0, <1>4, <1>6 DEF take
  <2>2. Traced  BY DEF MemoryInv
  <2>3. OnItsWay(p)  BY <1>2, <1>3, <1>6, <2>1, <2>2, TakeTransaction2Way
  <2> QED  BY <1>1, <1>4, <2>3, WayStep
<1> QED  BY <1>1, <1>5, <1>6

\* While an answer is not settled the others may move.
LEMMA OthersWay ==
    ASSUME ReadInv, MemoryInv, MemoryInv', RequestWay, Advance, ~ Settled, req' = req
    PROVE  RequestWay'
<1>1. CASE req = NoRequest  BY <1>1 DEF RequestWay
<1>2. CASE req # NoRequest
  <2>1. PICK q : q = req  OBVIOUS
  <2>2. OnItsWay(q)  BY <1>2, <2>1 DEF RequestWay
  <2>3. q.stage # "done" /\ (q.stage = "result" => q.kind \in ReadKinds)
    BY <2>1 DEF Settled, BlockKinds, TransactionKinds, ReadKinds
  <2>4. Levels /\ Levels'  BY DEF MemoryInv
  <2>5. OnItsWay(q)'  BY <2>2, <2>3, <2>4, WayKept
  <2> QED  BY <2>1, <2>5 DEF RequestWay
<1> QED  BY <1>1, <1>2

LEMMA WayNext ==
    ASSUME ReadInv, MemoryInv, RequestWay, req = NoRequest \/ Behind = {}, ReadNext
    PROVE  RequestWay'
<1>1. MemoryInv'  BY MemoryNext
<1>2. CASE ~ Settled /\ Storage
  <2>1. Advance /\ req' = req  BY <1>2, StorageAdvance, StorageQuiet DEF ReadInv
  <2> QED  BY <1>1, <1>2, <2>1, OthersWay
<1>3. ASSUME ~ Settled, NEW r \in Readers, handle(r) PROVE RequestWay'
  <2>1. req' = req  BY <1>3 DEF handle, receive, pop_block_front
  <2>2. CASE req = NoRequest  BY <2>1, <2>2 DEF RequestWay
  <2>3. CASE Behind = {}
    <3>1. receive(r)  BY <1>3, <2>3, HandleFollows DEF ReadInv
    <3>2. Advance  BY <3>1, HandleAdvance DEF ReadInv
    <3> QED  BY <1>1, <1>3, <2>1, <3>2, OthersWay
  <2> QED  BY <2>2, <2>3
<1>4. ASSUME NEW r \in Readers, take(r) PROVE RequestWay'
  <2>1. req # NoRequest  BY <1>4 DEF take, NoRequest
  <2> QED  BY <1>4, <2>1, TakeWay
<1>5. CASE read_index  BY <1>5, ReadIndexWay DEF MemoryInv
<1>6. CASE read_file  BY <1>6, ReadFileWay
<1>7. CASE Client
  BY <1>7, AskWay, AnswerWay, GiveUpWay, FinishWay DEF Client, MemoryInv
<1> QED  BY <1>2, <1>3, <1>4, <1>5, <1>6, <1>7 DEF ReadNext, Reading

\* A request that came too early stays one.
LEMMA BehindNext ==
    ASSUME ReadInv, req # NoRequest, req.behind # {}, ReadNext
    PROVE  req' = NoRequest \/ req'.behind # {}
<1>1. CASE Storage  BY <1>1, StorageQuiet DEF ReadInv
<1>2. ASSUME NEW r \in Readers, handle(r) PROVE req' = req
  BY <1>2 DEF handle, receive, pop_block_front
<1>3. ASSUME (\E r \in Readers : take(r)) \/ read_index \/ read_file \/ answer \/ give_up
      PROVE  req'.behind # {}
  <2>1. req.stage # "none"
    BY <1>3 DEF take, read_index, read_file, answer, give_up
  <2>2. IsRequest(req)  BY <2>1, UnderWay
  <2>3. CASE \E r \in Readers : take(r)  BY <2>2, <2>3, KeepsBehind
  <2>4. CASE read_index \/ read_file \/ answer \/ give_up  BY <2>2, <2>4, KeepsBehind
  <2> QED  BY <1>3, <2>3, <2>4
<1>4. CASE ask  BY <1>4 DEF ask
<1>5. CASE finish  BY <1>5 DEF finish
<1> QED  BY <1>1, <1>2, <1>3, <1>4, <1>5 DEF ReadNext, Reading, Client

LEMMA RequestNext == ReadInv /\ MemoryInv /\ RequestInv /\ [ReadNext]_readvars => RequestInv'
<1> SUFFICES ASSUME ReadInv, MemoryInv, RequestInv, [ReadNext]_readvars PROVE RequestInv'  OBVIOUS
<1>1. CASE UNCHANGED readvars
  <2>1. Still /\ req' = req  BY <1>1 DEF readvars, writer, Still
  <2>2. CASE req = NoRequest \/ req.behind # {}  BY <2>1, <2>2 DEF RequestInv, RequestWay
  <2>3. CASE OnItsWay(req)
    <3>1. PICK q : q = req  OBVIOUS
    <3>2. OnItsWay(q) /\ req' = q  BY <2>1, <2>3, <3>1
    <3>3. RequestWay'  BY <2>1, <3>2, WayStep
    <3> QED  BY <3>3 DEF RequestInv
  <2> QED  BY <2>2, <2>3 DEF RequestInv, RequestWay
<1>2. CASE ReadNext /\ req # NoRequest /\ req.behind # {}
  BY <1>2, BehindNext DEF RequestInv, RequestWay
<1>3. CASE ReadNext /\ (req = NoRequest \/ req.behind = {})
  <2>1. RequestWay  BY <1>3 DEF RequestInv, RequestWay
  <2>2. ASSUME req # NoRequest PROVE Behind = {}
    BY <1>3, <2>2 DEF ReadInv, RequestOK
  <2>3. RequestWay'  BY <1>3, <2>1, <2>2, WayNext
  <2> QED  BY <2>3 DEF RequestInv
<1> QED  BY <1>1, <1>2, <1>3

-----------------------------------------------------------------------------
(***************************************************************************)
(* Theorems about the requests.                                            *)
(***************************************************************************)

\* From the moment it is asked to the moment it is answered: what every reader
\* could serve when the request came can be served by the one that takes it,
\* or it was pruned and is no longer published; and the result at hand, if
\* there is one, is right for what the readers had published when the request
\* came, or, while only the slot from disk is published, for what each of them
\* takes for confirmed.  Left out are the requests that came while a reader had
\* slots the start has taken back.
THEOREM RequestInvariant == ReadSpec => []RequestInv
<1>1. ReadInit => RequestInv  BY DEF ReadInit, RequestInv, RequestWay
<1>2. (ReadInv /\ MemoryInv /\ RequestInv) /\ [ReadNext]_readvars
        => (ReadInv /\ MemoryInv /\ RequestInv)'
  BY ReadNextInv, MemoryNext, RequestNext
<1>3. ReadInit => ReadInv /\ MemoryInv  BY ReadInitInv, MemoryStart DEF ReadInit
<1> QED  BY <1>1, <1>2, <1>3, PTL DEF ReadSpec

\* An answer that was given.
LEMMA AnswerIs ==
    ASSUME RequestInv, req.stage = "done", req.behind = {}
    PROVE  HeightOK(req) /\ FailsOK(req) /\ ListedOK(req) /\ MissedOK(req) /\ AlignedOK(req)
<1>1. NoRequest.stage = "none"  BY DEF NoRequest
<1>2. OnItsWay(req)  BY <1>1 DEF RequestInv, RequestWay
<1> QED  BY <1>2 DEF OnItsWay, Answered

\* What every reader could serve when the request came, and what is published
\* as available still when it is answered, is found: for any number of
\* readers, of messages they have still to handle and of slots in the index,
\* from any database the start may find, whatever the writer prunes, stores and
\* backfills meanwhile.
THEOREM NothingMissedAlways == ReadSpec => []NothingMissed
<1>1. RequestInv => NothingMissed
  <2> SUFFICES ASSUME RequestInv, req.stage = "done", req.behind = {} PROVE NothingMissed
    BY DEF NothingMissed, IsDone
  <2>1. MissedOK(req)  BY AnswerIs
  <2> QED  BY <2>1 DEF NothingMissed, IsDone, MissedOK, ReadKinds
<1> QED  BY <1>1, RequestInvariant, PTL

\* getBlocks and getBlocksWithLimit list the blocks asked for without a gap,
\* no more than asked for, and all up to the confirmed slot the readers had
\* published, or took for confirmed after a start, when the request came, with
\* a block in process or without.
THEOREM BlocksListedAlways == ReadSpec => []BlocksListed
<1>1. RequestInv => BlocksListed
  <2> SUFFICES ASSUME RequestInv, req.stage = "done", req.behind = {} PROVE BlocksListed
    BY DEF BlocksListed, IsDone
  <2>1. ListedOK(req)  BY AnswerIs
  <2> QED  BY <2>1 DEF BlocksListed, IsDone, ListedOK
<1> QED  BY <1>1, RequestInvariant, PTL

\* Heights and blockhashes are judged by a reader that has handled the
\* confirmed slot the readers had published when the request came; an expired
\* blockhash passes only with the height of a fork's block at a skipped slot.
THEOREM HeightFreshAlways == ReadSpec => []HeightFresh
<1>1. RequestInv => HeightFresh
  <2> SUFFICES ASSUME RequestInv, req.stage = "done", req.behind = {} PROVE HeightFresh
    BY DEF HeightFresh, IsDone
  <2>1. HeightOK(req)  BY AnswerIs
  <2> QED  BY <2>1 DEF HeightFresh, IsDone, HeightOK
<1> QED  BY <1>1, RequestInvariant, PTL

\* No reader ever stops with "expected confirmed before push", and a request
\* fails only in the cases that FailureExpected lists, after a start with any
\* database too.
THEOREM FailsOnlyOnSkippedAlways == ReadSpec => []FailsOnlyOnSkipped
<1>1. MemoryInv /\ RequestInv => FailsOnlyOnSkipped
  <2> SUFFICES ASSUME MemoryInv, RequestInv PROVE FailsOnlyOnSkipped  OBVIOUS
  <2>1. \A r \in Readers : ~ reader[r].failed  BY DEF MemoryInv, Levels, ReaderLevels
  <2>2. ASSUME req.stage = "done", req.behind = {},
               req.kind \in HeightKinds \union {"getBlocks", "getBlockTime"},
               req.result.type = "failed", req.commit = "confirmed", req.seen > 0
        PROVE  FailureExpected(req.kind, req.result.value)
    <3>1. FailsOK(req)  BY <2>2, AnswerIs
    <3>2. Expected(req, req.result.value)  BY <2>2, <3>1 DEF FailsOK, MemoryKinds
    <3> QED  BY <3>2, Zenon DEF Expected, FailureExpected
  <2> QED  BY <2>1, <2>2 DEF FailsOnlyOnSkipped, IsDone
<1> QED  BY <1>1, MemoryInvariant, RequestInvariant, PTL

\* Every status stands at the position of its signature, and what was
\* finalized and stored for every reader is reported as long as it is stored.
THEOREM StatusesAlignedAlways == ReadSpec => []StatusesAligned
<1>1. RequestInv => StatusesAligned
  <2> SUFFICES ASSUME RequestInv, req.stage = "done", req.behind = {} PROVE StatusesAligned
    BY DEF StatusesAligned, IsDone
  <2>1. AlignedOK(req)  BY AnswerIs
  <2>2. \A i \in 1 .. 2 : Signatures[i] = Asks2(req, i)  BY DEF Signatures, Asks2
  <2> QED  BY <2>1, <2>2 DEF StatusesAligned, IsDone, AlignedOK, StatusKind
<1> QED  BY <1>1, RequestInvariant, PTL
=============================================================================
