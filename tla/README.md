# Alpamayo in TLA+

Alpamayo keeps a window of recent Solana blocks: it follows a gRPC stream,
fills gaps and history over RPC, stores blocks in files of fixed size with an
index in RocksDB, and answers JSON-RPC requests from several reader threads.
This directory models the parts in which its correctness is decided, checks
them with TLC on small instances, and proves the main invariants with TLAPS for
every instance. Paths below are relative to the repository; `storage/x.rs`
stands for `src/src/storage/x.rs`.

## 1. The system

Threads and tasks, and how they talk:

    node --gRPC--> stream source --channel--> storage writer --broadcast--> readers --> RPC api
    node <--RPC--- source task  <--requests-- storage writer                   |
                       ^--------Notify------- storage writer                   v
                                              files + RocksDB         published slot levels

| Part | State | Operations | What makes it correct |
|---|---|---|---|
| block files (`storage/files.rs`) | tail, head and free space of each file; round-robin cursor | push front/back, pop front/back, open | live blocks never share bytes; positions can be rebuilt at start-up |
| slot index (`storage/blocks.rs`) | ring of slots, tail, head; a replica with a time index per reader | push/pop at both ends, load, queries | one window of consecutive slots; replicas converge; queries exact |
| commitment levels (`storage/slots.rs`) | three maps slot -> readers behind mutexes; four atomics; readiness counter | set_processed, set_confirmed, set_finalized, set_ready | a level is published only when every reader knows the slot; it does not go back |
| stream memory (`storage/memory.rs`) | deque of recent slots, newest confirmed | add_processed, set_dead, set_confirmed, pop_confirmed | forks are told from the confirmed branch with incomplete data; nothing skipped |
| processed view (`storage/read.rs`, StorageProcessed) | recent blocks, signature statuses, heights by hash, levels with heights | add, mark dead, confirm, finalize, status query | maps in step; landed transactions reported with the right status |
| stream source (`source/stream.rs`) | parts of every slot received so far | one handler per gRPC update | a block passed on is complete; statuses in a sound order |
| reconnecting source (`storage/source.rs`) | slot to resume from, attempts | connect, forward, give up, ask for catch-up | a lost slot is given up; no slot skipped; no deadlock with the writer |
| storage writer (`storage/write.rs`) | next slot, two queues, requests in progress, backfill position, catch-up | one branch per input, save, backfill | no hole at the front; catch-up ends; history reaches sync_to |
| database (`storage/rocksdb.rs`) | columns for slots, transactions, addresses, rewards | add indexes, add slot, remove slot, scans | order of writes survives a crash; scans page exactly |
| read requests (`storage/read.rs`) | requests in progress, the block in process, semaphore | one per RPC method, in up to three stages with a disk access between them | the answer is the block asked for although its bytes may be reused; what is stored is found by whichever reader takes the request |
| RPC api (`rpc/api_jsonrpc.rs`, `rpc/api_httpget.rs`) | the request | compare with the published levels, ask a reader, compare again, fall back upstream | lists without gaps or repetitions across memory, index and upstream; pages that add up |
| upstream client, servers (`src/src/rpc/*`) | one cache | forward | - |

Hard behaviours, each listed with its line under `hazards` in PROJECT.json:
rings (of bytes and of slots) at wrap-around and when full to the last byte;
positions rebuilt after a restart; readers that lag behind the writer; handlers
that release a lock between two steps of one update; forks, and updates that
come late, twice or not at all; the hand-over between stream, catch-up and live
stream; responses of three kinds of requests mixed in one queue; a crash between
the writes that make a block durable; a location that is stale when it is read;
a request whose stages see different states of the storage.

## 2. Modules

| Module | Models | State | Actions |
|---|---|---|---|
| StorageFiles | StorageFilesWrite | `files`, `next_file` as in the code; `stored` = the ranges the slot index remembers; `status` = how the thread ended | push_block_front, push_block_back, pop_block_back, pop_block_front, begin (end of the start-up pops), open |
| SlotWindow | abstract specification of the slot index: a bounded window of consecutive slots | `window` | grow and shrink at both ends |
| StoredBlocks | StoredBlocksWrite, StoredBlocksRead and the broadcast channel between them | `ring`, `first_available`, `sync[r]`, `replica[r]` | pushes, pops, receive, lag, new (restart) |
| StoredBlocksQueries | get_block_location, get_blocks, block_time_to_slot_* | none (operators) | - |
| StoredSlots | StoredSlots, StoredSlotsRead | `log` and `pos[r]` (broadcast), `todo[r]` (the handler a reader is in), `maps`, the atomics | one per lock or atomic access |
| StorageMemory | StorageMemory and the loop of the writer that drains it | `blocks`, `confirmed`, `gen_next_slot` | add_processed, set_dead, set_confirmed, Start, pop_confirmed, pop_none |
| StorageProcessed | StorageProcessed of one reader | `blocks`, `index` (three maps), `processed`, `confirmed`, `finalized` | one per sync message, and loading from disk |
| StreamSource | StreamSource::poll_next and the node that feeds it | `slots`, `first_processed`; node variables marked external | one per gRPC update, connect, failure |
| StreamResume | start_stream composed with the writer's handling of Start and CatchupRequired, over channel, Notify and published slot | program positions of both tasks and their locals | one per await or handler |
| StorageWrite | the loop of start2 | record `w`: database window, next slot, queues, requests, backfill position | one per branch of select!, each with the save and backfill steps that end every pass |
| BlockStore | push_block_front, push_block_back and pop_block of RocksdbWrite, the thread that writes to RocksDB, crash and start-up | on disk `bytes`, `indexed`, `basic`; in memory `ring`, `used`, `queue`, and `op` = where the push or pop is | one per stretch between two awaits, one per request to RocksDB, crash, start |
| StorageRead | the read threads (start of read.rs, ReadRequest::process) on top of BlockStore as the writer | BlockStore's variables; `next`, `announced`, `next_back_slot` of the writer; `inbox[r]`, `reader[r]` (`ring` and `extra`: its replica, with the rows the start takes back from the front; `inproc`: the block in process; `confirmed`, `height`, `finalized`, `recent` of its StorageProcessed; `told`, `heard`: the last BlockConfirmed and SlotFinalized); `stored` (published levels, and whether the confirmed one comes from disk or from the readers); `req` | confirm, store, backfill, go_on, finalize; handle of a reader (receive: block_confirmed, slot_finalized, replica_update; or pop_block_front); take; read_index, read_file |
| RpcRequests | the JSON-RPC methods getBlock, getBlocks, getBlocksWithLimit, getBlockHeight, getBlockTime, getLatestBlockhash, isBlockhashValid, getTransaction, getSignatureStatuses, and /block and /tx | `req` | ask, answer, give_up, finish |
| AddressRequests | getSignaturesForAddress and getTransactionsForAddress with their scans of the address index | `req` with lists, cursor, page and token | ask_address, take_address, read_tx_index, resolve_signature_position, the two scans, answer_address, next_page, finish_address |

RpcRequests and AddressRequests both extend StorageRead, which extends
BlockStore: one composition of writer, disk, channel, readers and client.

*Proofs modules hold the theorems of section 4: one per component, each extending
the component's module. StreamProofs covers StreamResume and StreamSource, and
StorageReadProofs extends RpcRequests and so covers
BlockStore, StorageRead and RpcRequests; AddressProofs, about AddressRequests,
builds on it. StorageWriteProofs covers StorageFiles and StorageWrite. MC* modules only add the values of
constants. Variables marked external are the
cluster and the node: they are modelled from how the code uses what they send.
The database rows are part of StoredBlocks (`Rows`), since `spawn_slots` rebuilds
the ring from them.

Abstractions. A block is its range (StorageFiles), its parent (StorageMemory),
its transactions (StorageProcessed, StreamSource) or just its slot
(StreamResume, StorageWrite). In StorageWrite and StreamResume a slot that is
dead or skipped is a slot like any other: it is stored as a dead entry. In
StorageWrite `MaxBlocks` stands for the room in the files too: both end in
pruning at the front and in "not added" at the back. An RPC request is answered
or fails for good; the retries in between take no shared state. StreamSource
takes the node to send each transaction of a block once on one connection, and a
parent with every created bank. In BlockStore a file is a set of cells, one
block each; where StorageFiles puts a block is any free cell, and a file may
refuse at any time (space in pieces too short). A request to RocksDB is one
atomic batch, as `db.write` is; the bytes of a cell are neither block while they
are written. In StorageMemory and StorageProcessed the
cluster confirms one branch, and its slots in ascending order; the chain (parent,
height and branch of every slot) is chosen in Init and never changes. pop_confirmed
follows parents from the first confirmed slot of the deque while the deque holds
them (Walk) and judges the front of the deque by the oldest it reaches (Oldest).

Abstractions of the read modules. One request is under way at a time: requests
share nothing but the permits for file reads. A transaction is known by its slot
and its index in the block, which stand for its signature; a block time is its
slot; the height of a block is the number of blocks up to it. A reader may take
a request with messages pending: the select is biased towards messages, but one
can arrive between two polls. Between `BlockConfirmed` and the push the block is
in process. Unconfirmed blocks and commitment "processed" are left to
StorageProcessed; where one could show up in an answer (a block time above the
confirmed slot, the latest blockhash at a slot without a block) it is a
nondeterministic choice. An upstream is external: it may be absent, has the
whole chain, and is not behind this node. Filters by transaction status and by
token account are a set of transactions that pass (`match`); the two reads that
find the position of a signature are one step. Once nothing but the request
itself can change an answer (Settled, SettledAddress), the other threads wait
until it is given: this removes interleavings that no property can tell apart.
StoredBlocksQueries shows what get_block_location and get_blocks return for a
ring; StorageRead uses those results.

The read modules begin with a start (`Loaded(a, lo, hi, b)`). On disk are the
slots a to b. The newest, b, is published as confirmed before any reader knows
anything (write.rs:99; `stored.source` is "disk" until the readers publish a slot
of their own, `Seeded`). Each reader gets the recent blocks, which leave out the one
at the tail (blocks.rs:71), and takes the newest of them for confirmed, or 0 if there
is none. Then the writer pops slots off the back and off the front, if the
command line says so, until lo to hi are left. When the model begins the writer has
done this. The readers have handled the pops off the back, which come first, and
handle those off the front one by one, while requests are served (`extra`,
pop_block_front, `Behind`).

The height of a reader is a variable: confirming a slot without a block leaves it,
or takes the height of a fork's block known at that slot (ConfirmedHeights,
read.rs:329), which may be lower. `Forks` is the set of such heights. Blockhashes
and statuses are judged by it. `peak`, the highest it was, is there for the
properties: it bounds what has left the recent blocks.

## 3. Runs

Passing runs (constants in the cfg of the same module):

| Run | Instance | Shows |
|---|---|---|
| files | files of 3 and 7 bytes, blocks of 1 to 3 bytes, at most 4 blocks | BlocksDisjoint, Layout. Small enough for every mix of sizes to wrap, to fill a file exactly and to skip the small file in round robin |
| blocks | ring of 3, slots 0..4, two block times, one reader, channel of 1 | RingContiguous, ReplicasFollow, FirstAvailableFollows, QueriesExact, and that it implements SlotWindow. More slots than entries, so the ring wraps; the reader lags |
| slots | 2 readers, 2 slots, 3 messages | PublishedKnown, NothingLost, ConfirmedMonotone, with handlers interleaved at each lock; readers are symmetric (nothing orders them) |
| memory | every tree over 4 slots, every confirmed branch | VerdictsSound, NoPanic, ReportedUpToConfirmed; DrainEnds under weak fairness of the inner loop |
| processed | every tree over 4 slots, a transaction shared by two forks, 2 recent blocks | IndexesInStep, ConfirmedExact, LandedReported |
| stream | 3 slots with 1, 2 and 0 transactions | BlocksExact, StatusesSound, RejectsOnlyUnknown, SeenIsBuilt |
| resume | 5 slots, 2 attempts, channel of 1, all failures | PushesInOrder; GivesUp, StoredInTheEnd |
| write | 7 slots, 5 blocks, 2 concurrent requests, one catch-up; database empty, short, nearly full | NothingForgotten, CatchupNeverHangs, BackfillReaches; BackfillEnds |
| blockstore | 5 slots, one without a block, 3 cells, at most 3 blocks, any number of crashes | ListedIntact, ListedIndexed, and that what is durable implements SlotWindow (DurableWindow). As many cells as blocks, so that both limits are met, in either order |
| read | 4 slots, slot 4 without a block and a fork's block of height 2 there, 2 cells, at most 2 blocks, 2 readers up to 2 messages behind, 2 recent blockhashes, blockhashes valid for 1 block, margin 1; at the start slot 3 is stored alone, or slot 2 with slot 1 popped off the back, or slots 3 and 4 with the newest dead, or slot 1 with slot 2 taken back from the front | AnswerRight, NothingMissed, BlocksListed, HeightFresh, FailsOnlyOnSkipped, StatusesAligned, for each request of RpcRequests at both commitments. With room for 2 blocks each new one reuses bytes and ring entries, so a location is stale within one request; the starts are the ones in which published level, readers' level and ring disagree |
| address | slots 1, 2 and 4 with 5 transactions of the address, slot 3 skipped, at most 3 slots, room for 2 blocks, one reader, limits 1 and 2, both orders, 5 filters; at the start slot 1 or slot 2 is stored, or slot 1 with slot 2 taken back | SignaturesExact, PagesOrdered, PagesComplete. The index in the block of slot 2 is higher than those around it, so a cursor's index meets rows of other slots; limits below the rows of one slot, so that pages split a block |

What the properties of read and address leave out:
- they are about requests that came when no reader had slots left that the start
  has taken back (`behind = {}`). Before that a reader may serve a block that
  the writer has removed, whose bytes may be overwritten;
- until the readers publish a slot of their own, the published one is no promise:
  what a request saw (`seen`) is then the newest slot each reader takes for
  confirmed and can serve (Shown), and NothingMissed speaks of the time of a
  block only for slots that each reader takes for confirmed;
- HeightFresh allows a reader whose confirmed slot is skipped, and whose height is
  the lower one of a fork there, to call an expired blockhash valid;
- FailsOnlyOnSkipped speaks of requests with `seen > 0`, and besides skipped slots
  it allows the failure of a reader whose confirmed slot the start has taken back
  and which was told of no slot since (`above`);
- PagesOrdered says that pages hold nothing the filters exclude but for the filter
  by slot, whose lower bound is not applied to the block in process.

The type invariants of all modules with proofs, PushFindsRoom and ProcessedLeads
are proved (section 4) and no run repeats them.

Five slots are needed for a catch-up to start at all (it stops three slots
before the node); seven for one to run while history is being fetched.

Fairness, and why the code gives it:
- memory: the drain is a synchronous loop of the writer; weak fairness of
  `pop_confirmed \/ pop_none`.
- resume: both tasks are polled by the runtime while the process runs; weak
  fairness of each task's steps together with the failures they may meet
  instead. Nothing assumes that a connection succeeds: StoredInTheEnd allows for a
  stream that keeps failing. The chain is bounded, so a live stream that the
  bound has silenced (AtTheBound) is exempt.
- write: every request is a spawned task that answers or fails, so responses
  are weakly fair (those waited for at the back, at the front, those of no use,
  those of a catch-up); the stream goes on to send something. No fairness is
  assumed for catch-ups or for confirmations.

CHECK_DEADLOCK FALSE is set where the model really stops: the process ended, or
the bounded chain is used up (resume, stream, write).

read and address have safety properties only: that an answer comes at all is
left to the deadline (give_up), which the code has on every stage.

Violation: what the code does against what it says of itself. The finding in
PROJECT.json quotes both sides.
- processed_unconfirmed (UnconfirmedIsProcessed): a transaction above the
  confirmed height is reported as finalized; the arm for "processed" is dead.

Other observations made while modelling, visible in the models but not the
subject of a run:
- free_space cannot tell a full file from an empty one (files.rs:286): a block
  that ends exactly at `tail` lets the next one overwrite a block the index
  lists, where config.yml:55 says that old blocks are pruned. BlocksDisjoint is stated up
  to that point.
- a catch-up takes responses the backfill waits for, drops them, and nobody asks
  again (write.rs:383): backfilling stalls until a restart. BackfillEnds allows
  for it.
- getBlocksWithLimit does not compare the start slot with the newest stored one
  (blocks.rs:422, api_jsonrpc.rs:953): a start past it wraps round the ring and
  older slots are listed. The same happens to getBlocks with the slot in process
  as start on a full ring. BlocksListed is stated for a start inside the index.
- getBlockHeight at confirmed fails while a slot without a block is in process,
  getLatestBlockhash at confirmed while the newest confirmed slot has none
  (FailsOnlyOnSkipped names both cases); should a fork's block be known at that
  slot, its blockhash is given instead (read.rs:1006).
- confirming a slot without a block takes the height of a fork's block known there
  (read.rs:330), and confirmed_height may go down. Until the next block is
  confirmed isBlockhashValid calls an expired blockhash valid (read.rs:1894), and the
  status of a confirmed transaction above that height is given as finalized
  (read.rs:384).
- after a restart the newest slot on disk is published as confirmed (write.rs:99),
  but until the first BlockConfirmed the readers go by their recent blocks. With
  one slot stored there are none (blocks.rs:76): the time of its block is "not
  available", getBlocks from it to it is empty, and getBlockHeight fails. With the
  newest stored slot dead, its block time is "not available" and not "skipped".
  With slots taken back from the front, readers whose confirmed slot is one of
  those fail getBlocks, getBlockHeight and getBlockTime until a slot is confirmed.
  A reader that has not handled those pops gives the bytes of a slot taken back,
  though others may be there: the comparison with first_available
  (api_jsonrpc.rs:578) does not see slots removed at the front.
- at finalized, getBlocks and getBlockHeight fail or list too little while
  storage is behind finality; getSignaturesForAddress leaves the newest entries
  out and lists older ones (SignaturesExact: `ahead`).
- isBlockhashValid ends one block before the lastValidBlockHeight that
  getLatestBlockhash gave (read.rs:1894).
- `slot <= first_available` sends requests for the lowest stored slot upstream.
- `first_available + 32` overflows while first_available is u64::MAX
  (api_jsonrpc.rs:888).
- getSignatureStatuses with one signature twice gives null for the second.
- getSignaturesForAddress with `before` found but nothing stored after it asks
  the upstream without `before`, and paging restarts from the tip
  (SignaturesExact: `restarted`).
- getTransactionsForAddress (PagesComplete: `cut`): a token in a block that is
  in process, or whose slot was pruned, keeps its index and hides rows of other
  slots (rocksdb.rs:1667); a read whose rows are pruned before their block times
  are added ends the pages; so does a signature of the filter that is pruned
  between pages. The lower slot bound is not applied to the block in process,
  `eq` on slots overrides the other comparisons, and an upper bound on time
  hides the block in process.
- a crash between index rows and slot row, or a file without room for a block of
  the history, leaves index rows of a slot that is not listed; nothing removes
  them unless the slot is stored again (rocksdb.rs:1087).
- `pop_block` of files.rs refuses head == size, which write_front and open
  accept: pruning can stop the process (status "pop overflow").
- after a file was filled exactly, write_front may write past its end and the
  next start refuses the file (status "write overflow", "invalid file size").
- first_available stays at u64::MAX when an index emptied by start-up pops gets
  its first block (FirstAvailableFollows is stated up to that point).
- should the node send a transaction twice, the count of a block is reached with
  another one missing (stream.rs:132).
- the status of a transaction that two recent blocks hold is lost with either.
- catching up with database and node level stops with "node is outdated"
  (write.rs:326), and the subtraction logged before underflows.
- backfilling ends one slot above sync_to if it starts there (write.rs:557).
- config.yml:47 advises `sync_to: 0`; write.rs:247 refuses any sync_to below
  the node's first available block.
- a stream that finishes without an error before its first message is not
  counted as a failed resume (source.rs:225).
- `partitions.len() >= partition_index` (rocksdb.rs:980) admits an index one
  past the end.

## 4. Proofs

Each theorem is proved for every value of the constants. The theorems that
state a property of a run carry its name; "type" theorems and the inductive
invariants themselves are stated too, since later proofs build on them.

| Module | Theorems | Argument |
|---|---|---|
| StoredBlocksProofs | ContiguousCorrect, PushCorrect, FirstAvailableCorrect, StoredBlocksTypes, ReplicasCorrect, WindowCorrect, QueriesCorrect | Inv == Good(ring) /\ PushFindsRoom, where Good adds the types of the ring and that slots come from the chain. A ring is vacant or a run; each push and pop takes one shape to another; loading gives a run again. FirstInv adds that a vacant ring that was never emptied has tail 0. Replicas: ReplicasInv says that there is a function that starts at the replica, follows the pending messages one by one and ends at the ring; sending extends it at the end, receiving cuts it at the start; that a function so built is the one of CaughtUp is FoldUnique. A pop names no slot, so that it removes the same entry from both needs the slots of a run to be distinct. Refinement: Window lists the ring from tail; one lemma per operation gives the new list (WindowPushFront, ...). Queries: Follows also says that every replica on the way to the ring is a copy of a good ring (Copy), so a reader that is behind still answers from a ring that existed. In a run the position computed from tail is the one that holds the slot. The turns of get_blocks that push are those of the live entries up to `last`, or those of rank below `limit`: the count is compared with the limit for equality, and since each turn adds one it cannot jump over it. The time index is ordered by (time, slot); where times do not decrease along the slots (TimesInOrder), the ends of a range of times are the ends in slot order |
| StoredSlotsProofs | TypeCorrect, KnownCorrect, MonotoneCorrect, LeadsCorrect, LostCorrect | Inv adds to TypeOK that confirmed messages ascend in the log, that an entry in a map means the reader has received the message (EntriesKnown), and that a handler between its lock and its store holds a slot all readers know (PendingKnown). Monotonicity of a plain store made outside the lock needs all of them. LossInv says what has become of every message that was not outdated when sent: some reader has yet to receive it and the others are entered in its map, or the level has reached it or a handler is on its way to raise it; and that a handler that prunes does so for a slot every reader knows as finalized |
| StorageMemoryProofs | MemoryInvariant, VerdictsSoundAlways, NoPanicAlways, ReportedUpToConfirmedAlways, ReportsFinal | MemoryInv: what the deque holds of a slot agrees with the chain, the deque is consecutive and starts at gen_next_slot or above, the newest confirmed slot stays in it until reported, reports end at gen_next_slot. A slot below the first the walk reaches is off the branch because the walk stays on it: parents of branch slots are branch slots. ReportsFinal is an action property: a verdict is never taken back |
| StorageProcessedProofs | ProcessedInvariant, IndexesInStepAlways, ConfirmedExactAlways, LandedReportedAlways | ConfirmedExact is not inductive: set_confirmed finds the block only if add_signatures has entered it, which it does only for slots not in `blocks`. Held says that a block of the branch held as unconfirmed is in recent_blocks until it is confirmed, Near that pruning cannot reach one still to be confirmed. That heights grow along the branch (HeightsGrow) is shown by a least counterexample |
| StreamProofs | ResumeInvariant, PushesInOrderAlways, AttemptsBounded, LockstepAlways, NoLostWakeupAlways; SourceInvariant, StreamTypes, BlocksExactAlways, StatusesSoundAlways, RejectsOnlyUnknownAlways, SeenIsBuiltAlways | StreamResume: PushesInOrder needs to know what may be in the channel: nothing before the first Start (Fresh), at most one CatchupRequired, and that only while the source waits (OneRequest). Lockstep and NoLostWakeup are the two halves of the hand-over through Notify; together they say that source and writer never wait for each other. StreamSource: SourceInv is stated slot by slot: a slot not seen is untouched, what is held of one was sent (Gathered), a slot that was built has nothing left to come (BuiltOnce), statuses are passed on in their order (Judged, ToldOf), and of a bank created after the first one everything sent is held until a later slot is finalized (SeenOf). The code compares the number of transactions held with the number announced; this is enough because those held are distinct and among those of the block (CountIsEnough, AllOfThem). That sorting distinct indexes from 1 to n puts each at its place is shown by a least counterexample (Ascending) |
| StorageWriteProofs | FilesTypes, LayoutCorrect, DisjointCorrect; WriteInvariant, WriteTypes, NothingForgottenAlways, CatchupNeverHangsAlways, BackfillReachesAlways | First part, about StorageFiles: BlocksDisjoint is not inductive: that a write misses all live blocks depends on where they lie. Layout says that blocks lie between tail and head (or outside the gap from head to tail) in slot order; FilesTypeOK /\ Layout is inductive and implies disjointness. The geometry of one push, pop and rebuild is in lemmas about two or three numbers (Geometry*), the rest is bookkeeping on sequences. Second part, about StorageWrite: every branch of select! ends in save and backfill; these are functions on the record `w`, and one lemma per function says what it keeps of Good (types, window, backfill position) and of Coming (a range of slots is queued or requested). In a catch-up the range starts after the database and not at `next`, which is the target. NothingForgotten holds since the front, `next` and the queue move together |
| StorageReadProofs | StoreInvariant, ListedIntactAlways, ListedIndexedAlways, StartNeverFails, DurableWindowAlways, ReadInvariant, AnswerRightAlways, FoundAgreesAlways; MemoryInvariant, RequestInvariant, NothingMissedAlways, BlocksListedAlways, HeightFreshAlways, FailsOnlyOnSkippedAlways, StatusesAlignedAlways | First part, about BlockStore: SlotBasicIndex is the ring but for the slot that comes or leaves (RowsFollow), no cell of a listed slot is given away (CellsKept), and the slot that comes is next to the ring with room for it (Placed); a crash drops ring and queue, and the rows alone satisfy Durable, so a start succeeds and implements SlotWindow. Second part, about readers and RpcRequests: a slot that was in the writer's index is there still with the same cell, or is below it for ever (Agrees). This holds of each row of each replica, after each pending message (Follows), so of each location a request holds; bytes change only when the slot is below the index, and then the second comparison with first_available refuses the answer. Third part, about what is found: MemoryInv follows a reader's index together with its block in process through the messages it has still to handle (Traced), so that at any moment the two are a gapless view the writer had once (View): the block in process is the slot after the index, and no push finds another one. Its other half orders the levels (Levels): what the readers publish is at most what every one of them was told of (the slot seeded from disk is not: ~ Seeded); a reader that was told of a slot has it for confirmed, and it is the newest of its view; one that was told of none has the newest block of its view or a higher one for confirmed, or nothing (StartLevel); the confirmed block is recent and, unless the confirmed slot is skipped, its height is the confirmed height. RequestInv follows one request (OnItsWay) that came with no reader behind: what every reader could serve when it came is, for whichever reader takes it, in the index or in process, or it was pruned and is below first_available for ever (Waits, Finds, Lost); what the request saw is reached by that reader, by its confirmed slot and by its view (Reaches), which is kept although a reader above its ring may get a lower confirmed slot with its first message; and each result at hand is already good (Serves, HeightOK, FailsOK, ListedOK, Looks). A step of the writer or of a reader that is not behind keeps all of this (Advance, WayKept); each kind of request has one lemma for the step of its reader (Take...Way). That a list has no gap where the block in process is added to it is NoGaps, with the n lowest of a set counted in LeastAtMost and LeastAll |
| AddressProofs | PagesInvariant, PagesOrderedAlways, WholeInvariant, PagesCompleteAlways; SignaturesExactAlways | The invariant of storage and readers without a request (IndexInv) holds for both specifications, since both make the same storage steps. A list is given by its positions (Part), and the rank of a position is the number of those below it, so that what a scan gives is known position by position. PagesInv: what was given is in order, what is at hand is in order and comes after it, and cursor, slot and token separate both from what is still to be read; a cursor's index that is also met in the row of another slot skips nothing more, since that row comes after it. WholeInv: a transaction that was stored for every reader when the first page was asked for and is stored still is given, at hand or ahead of the read; it can fall out only in the cases `cut` names. WholeInv and SignaturesInv are about requests that came with no reader behind; the level such a request relies on is one each reader attains with its view (Attained). A step of the writer leaves its row in the index as long as its slot is in the ring; a page that is full breaks off with its last transaction as token, and one that is not full has read to the end. Second part, getSignaturesForAddress: RowsOK says that of what a reader lists, or has yet to be told of, rows are in the address index only as long as the slot is in the ring or about to leave it; what is in the ring has its rows (RingRows), and the lowest leaves first, so rows are missing only below others (BelowHole). SignaturesInv follows the list through its stages (AtIndex, AtScan, Scanned, Ended): it holds transactions of the address (Listed), leaves none out between its first and its last (Gapless), and stops short of its limit only where it may (EndsWell). Of what the scan gave, a slot pruned since then was the lowest, so it is dropped from the end, and upstream goes on after the last that is left. All of it is relative to the slot the list begins with (Tops); EndedExact turns it into positions in the history |

The theorems hold for any number and size of files, any block sizes, any ring
size, any chain, any number of readers, messages, attempts and requests, under
the named assumptions on the constants in the modules: sizes and bounds
positive, readers a non-empty finite set, slots below u64::MAX, finitely many
cells (a file has a size). Two assumptions are about the environment and not
about types, both in StorageProcessed and both found by the proof of
ConfirmedExact, which fails without them. No fork gets MAX_RECENT_BLOCKHASHES
(300) blocks ahead of the confirmed branch (IsChain), and fewer than that many
blocks are popped from the front at a start (FewPopped, argument
`pop_slots_front`). Otherwise a late BlockNew enters a block that the
next confirmed slot without a block prunes from recent_blocks while it stays in
`blocks`; when it is confirmed add_signatures does not enter it again and
confirmed_height stays what it was. The small instance of the run never popped
or forked that far.

Induction over data is out of reach of the provers, so sums and lists are
reasoned about in three ways that are not induction in form: by existence of a
history (a function from positions to states, extended or cut by a step); by
the least element of a set of counterexamples; and by pointwise lemmas on the
list after one operation.

Only model-checked, and why:
- liveness (DrainEnds, GivesUp, StoredInTheEnd, BackfillEnds): ENABLED and
  fairness are outside the prover.

## 5. Not modelled

- Contents of blocks and their encodings (`source/block.rs`, `transaction.rs`,
  `sfa.rs`, `fees.rs`), keys and values of the database: pure conversions, where
  what counts is every byte and not an order of steps.
- getInflationReward, getRecentPrioritizationFees, getLeaderSchedule: arithmetic
  on the contents of blocks and of upstream answers, with a column of rewards
  that is only ever added to. getSlot, getVersion, getFirstAvailableBlock and the
  like read one value or forward.
- full transactions by address (build_full_entry): each entry is one more
  Transaction2, without the re-check of the level; an entry pruned meanwhile
  fails the whole request.
- minContextSlot: one comparison with a published level before the request.
- the upstream client, the servers and the pool of encoding workers, the RPC
  client of the source: I/O. Their outcomes are inputs of the models.
- commitment "processed" in the read modules: unconfirmed blocks come and go by
  forks, which StorageProcessed models for one reader.
- in the read modules, requests served while the writer itself still pops slots at
  a start, and a start that pops the whole ring (StorageFiles and StoredBlocks
  have these pops as actions).
- signals and the drain at shutdown: a process may end at any point of any
  behaviour, and what survives is what open and new rebuild.
- configuration, logging, metrics and the developer tools.

## 6. What is left

Modelling is done as far as section 5 says, and every safety invariant and
action property a run checks is proved; only the liveness properties rest on TLC
alone.
