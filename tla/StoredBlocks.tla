---------------------------- MODULE StoredBlocks ----------------------------
(***************************************************************************)
(* The slot index of src/storage/blocks.rs: a ring of Max entries, one per *)
(* slot, owned by the storage writer, and a replica of it in every reader  *)
(* thread, kept up to date through the broadcast channel sync_tx.          *)
(*                                                                         *)
(* An entry keeps its slot, whether the slot is dead, and the block time;  *)
(* where the block lies in the files is the subject of StorageFiles.       *)
(***************************************************************************)
EXTENDS Integers, Sequences

CONSTANTS
    Max,        \* config.storage.blocks.max
    Slots,      \* slots of the chain
    SlotMax,    \* u64::MAX, "no slot"
    Times,      \* block times
    Readers,    \* reader threads
    Capacity    \* capacity of the broadcast channel

None == -1

Index == 0 .. Max - 1

ASSUME StoredBlocksAssumption ==
    /\ Max \in Nat \ {0}
    /\ SlotMax \in Nat
    /\ Slots \subseteq 0 .. SlotMax - 1
    /\ Times \subseteq Nat
    /\ Capacity \in Nat \ {0}

VARIABLES
    ring,               \* StoredBlocksWrite: blocks, tail, head
    first_available,    \* StoredSlots.first_available
    sync,               \* sync[r]: messages reader r has not received yet
    replica,            \* replica[r]: StoredBlocksRead of reader r
    status,             \* "starting", "running", or how the process stopped
    emptied             \* history: the index became empty since it was loaded

vars == <<ring, first_available, sync, replica, status, emptied>>

(***************************************************************************)
(* StoredBlock and its constructors new_noexists, new_dead, new_confirmed. *)
(***************************************************************************)
StoredBlock == [exists : BOOLEAN, dead : BOOLEAN, slot : Nat,
                time : Times \union {None}]

new_noexists == [exists |-> FALSE, dead |-> FALSE, slot |-> 0, time |-> None]

new_dead(slot) == [exists |-> TRUE, dead |-> TRUE, slot |-> slot, time |-> None]

new_confirmed(slot, time) ==
    [exists |-> TRUE, dead |-> FALSE, slot |-> slot, time |-> time]

NewBlocks ==
    {new_dead(s) : s \in Slots}
        \union {new_confirmed(s, t) : s \in Slots, t \in Times \union {None}}

(***************************************************************************)
(* Ring arithmetic: (i + 1) % len and checked_sub(1).unwrap_or(len - 1).   *)
(***************************************************************************)
Succ(i) == (i + 1) % Max

Pred(i) == IF i = 0 THEN Max - 1 ELSE i - 1

Ring == [blocks : [Index -> StoredBlock], tail : Index, head : Index]

PushedBack(R, b) ==
    [R EXCEPT !.tail = Pred(R.tail), !.blocks[Pred(R.tail)] = b]

PushedFront(R, b) ==
    [R EXCEPT !.head = Succ(R.head), !.blocks[Succ(R.head)] = b]

PoppedBack(R) ==
    [R EXCEPT !.tail = Succ(R.tail), !.blocks[R.tail] = new_noexists]

\* Mutant: the entry is left in place.
PoppedFrontKeeps(R) == [R EXCEPT !.head = Pred(R.head)]

PoppedFront(R) ==
    [R EXCEPT !.head = Pred(R.head), !.blocks[R.head] = new_noexists]

is_full == ring.blocks[Succ(ring.head)].exists

(***************************************************************************)
(* get_back_slot and get_front_slot; SlotMax stands for None, as it does   *)
(* in first_available_store.                                               *)
(***************************************************************************)
get_back_slot(R) ==
    IF R.blocks[R.tail].exists /\ R.blocks[R.head].exists
    THEN R.blocks[R.tail].slot ELSE SlotMax

get_front_slot(R) ==
    IF R.blocks[R.head].exists THEN R.blocks[R.head].slot ELSE SlotMax

(***************************************************************************)
(* The replica also indexes the live blocks by block time.                 *)
(***************************************************************************)
TimeEntry(b) ==
    IF b.exists /\ ~ b.dead /\ b.time # None THEN {<<b.time, b.slot>>} ELSE {}

TimeEntries(R) == UNION {TimeEntry(R.blocks[i]) : i \in Index}

Replica == [ring : Ring, index : SUBSET (Times \X Nat)]

to_read(R) == [ring |-> R, index |-> TimeEntries(R)]

(***************************************************************************)
(* The four sync messages of this component, and what StoredBlocksRead     *)
(* does with them.                                                         *)
(***************************************************************************)
Messages ==
    [op : {"PopBack", "PopFront"}]
        \union [op : {"PushBack", "PushFront"}, block : NewBlocks]

RingAfter(R, m) ==
    CASE m.op = "PushBack"  -> PushedBack(R, m.block)
      [] m.op = "PushFront" -> PushedFront(R, m.block)
      [] m.op = "PopBack"   -> PoppedBack(R)
      [] m.op = "PopFront"  -> PoppedFront(R)

IndexAfter(P, m) ==
    CASE m.op \in {"PushBack", "PushFront"} -> P.index \union TimeEntry(m.block)
      [] m.op = "PopBack"  -> P.index \ TimeEntry(P.ring.blocks[P.ring.tail])
      [] m.op = "PopFront" -> P.index \ TimeEntry(P.ring.blocks[P.ring.head])

Received(P, m) == [ring |-> RingAfter(P.ring, m), index |-> IndexAfter(P, m)]

send(m) == sync' = [r \in Readers |-> Append(sync[r], m)]

(***************************************************************************)
(* sync_tx never blocks.  A reader more than Capacity messages behind has  *)
(* lost one: it can only stop the process (lag), so what the writer would  *)
(* still send before that is left out.                                     *)
(***************************************************************************)
NobodyLags == \A r \in Readers : Len(sync[r]) <= Capacity

(***************************************************************************)
(* push_block_back2 and push_block_front2, called by push_block_back and   *)
(* push_block_front of the database writer only with the slot next to the  *)
(* window, and only when is_full said there is room; backfilling starts    *)
(* from a stored slot, so never in an empty ring.  The entry they move to  *)
(* must not be in use, which at the front is what is_full just tested.     *)
(* first_available follows a push at the back, or the first push into a    *)
(* ring that starts at 0.                                                  *)
(***************************************************************************)
push_block_back(b) ==
    /\ status = "running"
    /\ NobodyLags
    /\ get_back_slot(ring) # SlotMax
    /\ b.slot = get_back_slot(ring) - 1
    /\ ~ is_full
    /\ IF ring.blocks[Pred(ring.tail)].exists
       THEN /\ ring' = [ring EXCEPT !.tail = Pred(ring.tail)]
            /\ status' = "no free slot"
            /\ UNCHANGED <<first_available, sync>>
       ELSE /\ ring' = PushedBack(ring, b)
            /\ first_available' = get_back_slot(ring')
            /\ send([op |-> "PushBack", block |-> b])
            /\ UNCHANGED status
    /\ UNCHANGED <<replica, emptied>>

\* Mutant: any slot is accepted.
PushAnySlot(b) ==
    /\ status = "running"
    /\ NobodyLags
    /\ ~ is_full
    /\ ring' = PushedFront(ring, b)
    /\ first_available' = get_back_slot(ring')
    /\ send([op |-> "PushFront", block |-> b])
    /\ UNCHANGED <<replica, status, emptied>>

push_block_front(b) ==
    /\ status = "running"
    /\ NobodyLags
    /\ get_front_slot(ring) # SlotMax => b.slot = get_front_slot(ring) + 1
    /\ ~ is_full
    /\ ring' = PushedFront(ring, b)
    /\ first_available' = IF ring'.tail = 0 /\ ring'.head = 0
                          THEN get_back_slot(ring') ELSE first_available
    /\ send([op |-> "PushFront", block |-> b])
    /\ UNCHANGED <<replica, status, emptied>>

(***************************************************************************)
(* pop_block_back: pruning, when the ring or the files are full, or on     *)
(* request at start-up.  pop_block_front: on request at start-up.  The     *)
(* message to the readers is the one pop_block sends.                      *)
(***************************************************************************)
\* Mutant: first_available is not moved.
PopBackStale ==
    /\ status \in {"starting", "running"}
    /\ NobodyLags
    /\ ring.blocks[ring.tail].exists
    /\ ring' = PoppedBack(ring)
    /\ send([op |-> "PopBack"])
    /\ emptied' = (emptied \/ get_back_slot(ring') = SlotMax)
    /\ UNCHANGED <<first_available, replica, status>>

pop_block_back ==
    /\ status \in {"starting", "running"}
    /\ NobodyLags
    /\ ring.blocks[ring.tail].exists
    /\ ring' = PoppedBack(ring)
    /\ first_available' = get_back_slot(ring')
    /\ send([op |-> "PopBack"])
    /\ emptied' = (emptied \/ get_back_slot(ring') = SlotMax)
    /\ UNCHANGED <<replica, status>>

\* Mutant: the readers are not told.
PopFrontSilent ==
    /\ status = "starting"
    /\ ring.blocks[ring.head].exists
    /\ ring' = PoppedFront(ring)
    /\ emptied' = (emptied \/ get_back_slot(ring') = SlotMax)
    /\ UNCHANGED <<first_available, sync, replica, status>>

pop_block_front ==
    /\ status = "starting"
    /\ NobodyLags
    /\ ring.blocks[ring.head].exists
    /\ ring' = PoppedFront(ring)
    /\ send([op |-> "PopFront"])
    /\ emptied' = (emptied \/ get_back_slot(ring') = SlotMax)
    /\ UNCHANGED <<first_available, replica, status>>

begin ==
    /\ status = "starting"
    /\ status' = "running"
    /\ UNCHANGED <<ring, first_available, sync, replica, emptied>>

(***************************************************************************)
(* A reader receives the next message; the biased select gives messages    *)
(* precedence over requests, but not over what the writer does meanwhile.  *)
(***************************************************************************)
receive(r) ==
    /\ Len(sync[r]) \in 1 .. Capacity
    /\ replica' = [replica EXCEPT ![r] = Received(replica[r], sync[r][1])]
    /\ sync' = [sync EXCEPT ![r] = Tail(sync[r])]
    /\ UNCHANGED <<ring, first_available, status, emptied>>

(***************************************************************************)
(* A reader more than Capacity messages behind gets RecvError::Lagged and  *)
(* stops the process with "read runtime lagged".                           *)
(***************************************************************************)
lag(r) ==
    /\ Len(sync[r]) > Capacity
    /\ status \in {"starting", "running"}
    /\ status' = "read runtime lagged"
    /\ UNCHANGED <<ring, first_available, sync, replica, emptied>>

(***************************************************************************)
(* StoredBlocksWrite::new on a restart.  spawn_slots reads the rows of the *)
(* database in slot order and refuses a hole; they fill the ring from      *)
(* entry 0 on, tail and head are the entries of the lowest and the highest *)
(* slot.  The readers start from a copy.                                   *)
(***************************************************************************)
Rows(R) == {R.blocks[i] : i \in {j \in Index : R.blocks[j].exists}}

LowestSlot(rows) == (CHOOSE b \in rows : \A c \in rows : b.slot <= c.slot).slot

HighestSlot(rows) == (CHOOSE b \in rows : \A c \in rows : c.slot <= b.slot).slot

RowAt(rows, slot) ==
    IF \E b \in rows : b.slot = slot
    THEN CHOOSE b \in rows : b.slot = slot ELSE new_noexists

Hole(rows) ==
    \E s \in LowestSlot(rows) .. HighestSlot(rows) : \A b \in rows : b.slot # s

Empty == [blocks |-> [i \in Index |-> new_noexists], tail |-> 0, head |-> Max - 1]

Loaded(rows) ==
    IF rows = {} THEN Empty
    ELSE [blocks |-> [i \in Index |-> RowAt(rows, LowestSlot(rows) + i)],
          tail |-> 0,
          head |-> HighestSlot(rows) - LowestSlot(rows)]

new ==
    /\ Rows(ring) # {} => ~ Hole(Rows(ring))
    /\ ring' = Loaded(Rows(ring))
    /\ first_available' = get_back_slot(ring')
    /\ replica' = [r \in Readers |-> to_read(ring')]
    /\ sync' = [r \in Readers |-> <<>>]
    /\ status' = "starting"
    /\ emptied' = FALSE

Init ==
    /\ ring = Empty
    /\ first_available = SlotMax
    /\ sync = [r \in Readers |-> <<>>]
    /\ replica = [r \in Readers |-> to_read(Empty)]
    /\ status = "starting"
    /\ emptied = FALSE

Next ==
    \/ \E b \in NewBlocks : push_block_back(b)
    \/ \E b \in NewBlocks : push_block_front(b)
    \/ pop_block_back
    \/ pop_block_front
    \/ begin
    \/ \E r \in Readers : receive(r) \/ lag(r)
    \/ new

Spec == Init /\ [][Next]_vars

-----------------------------------------------------------------------------
(***************************************************************************)
(* Every variable has its type.                                            *)
(***************************************************************************)
TypeOK ==
    /\ ring \in Ring
    /\ first_available \in Nat
    /\ sync \in [Readers -> Seq(Messages)]
    /\ replica \in [Readers -> Replica]
    /\ status \in {"starting", "running", "no free slot", "read runtime lagged"}
    /\ emptied \in BOOLEAN

(***************************************************************************)
(* The ring holds consecutive slots from tail to head and nothing else,    *)
(* through pushes and pops at both ends, wrap-around, emptying and         *)
(* reloading.  get_block_location computes the entry of a slot from this.  *)
(***************************************************************************)
Distance(R, i) == IF i >= R.tail THEN i - R.tail ELSE i - R.tail + Max

Contiguous(R) ==
    \/ /\ \A i \in Index : ~ R.blocks[i].exists
       /\ R.tail = Succ(R.head)
    \/ \A i \in Index :
          /\ R.blocks[i].exists <=> Distance(R, i) <= Distance(R, R.head)
          /\ R.blocks[i].exists =>
                R.blocks[i].slot = R.blocks[R.tail].slot + Distance(R, i)

RingContiguous == Contiguous(ring)

(***************************************************************************)
(* "no free slot" is never reported: is_full looks at the entry after      *)
(* head, yet it also protects the entry before tail that a push at the     *)
(* back takes.                                                             *)
(***************************************************************************)
PushFindsRoom == status # "no free slot"

(***************************************************************************)
(* A reader that catches up holds exactly what the writer holds, time      *)
(* index included, however far behind it is now.                           *)
(***************************************************************************)
CaughtUp(P, msgs) ==
    LET after[n \in 0 .. Len(msgs)] ==
            IF n = 0 THEN P ELSE Received(after[n - 1], msgs[n])
    IN  after[Len(msgs)]

ReplicasFollow ==
    \A r \in Readers : CaughtUp(replica[r], sync[r]) = to_read(ring)

(***************************************************************************)
(* first_available, which RPC requests and is_ready consult, is the lowest *)
(* stored slot, as long as the index has not been emptied.                 *)
(***************************************************************************)
FirstAvailableFollows ==
    ~ emptied => first_available = get_back_slot(ring)

-----------------------------------------------------------------------------
(***************************************************************************)
(* The ring implements the window of SlotWindow.                           *)
(***************************************************************************)
Count(R) ==
    IF R.blocks[R.tail].exists THEN Distance(R, R.head) + 1 ELSE 0

Window ==
    [d \in 1 .. Count(ring) |-> ring.blocks[(ring.tail + d - 1) % Max]]

W == INSTANCE SlotWindow WITH window <- Window, Entries <- NewBlocks

(***************************************************************************)
(* Every step of the index grows or shrinks the window of slots at one end *)
(* by the next slot, or leaves it alone; a restart leaves it alone.        *)
(***************************************************************************)
ImplementsWindow == W!Spec
=============================================================================
