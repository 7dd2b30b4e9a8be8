----------------------------- MODULE RpcRequests -----------------------------
(***************************************************************************)
(* The calls of src/rpc/api_jsonrpc.rs and src/rpc/api_httpget.rs that are *)
(* answered by the read threads: what is checked before the request is     *)
(* sent, and what becomes of the result.                                   *)
(***************************************************************************)
EXTENDS StorageRead

(***************************************************************************)
(* The client.  held: which of the slots asked for every reader could      *)
(* serve when the request came, at the commitment asked for.  seen: the    *)
(* confirmed slot the readers had published by then; before they publish   *)
(* one, the newest slot that each of them takes for confirmed and can      *)
(* serve.  behind: the readers that had slots the start has taken back.    *)
(* The other fields are for one kind of request each.                      *)
(***************************************************************************)
Held(slot, c) ==
    /\ slot <= stored[c] /\ slot <= stored.confirmed
    /\ \A r \in Readers : slot \in DOMAIN reader[r].ring \/ slot = reader[r].inproc

Shown == Lowest(UNION {{reader[r].confirmed, Highest({reader[r].inproc} \union DOMAIN reader[r].ring)} :
                          r \in Readers})

NoRequest == [stage |-> "none"]

Asked(kind, slot, c) ==
    [kind |-> kind, slot |-> slot, commit |-> c, stage |-> "queued", reader |-> None,
     cell |-> None, result |-> Result("none", None),
     held |-> IF Held(slot, c) THEN {slot} ELSE {}, seen |-> None, behind |-> Behind,
     until |-> <<>>, inside |-> FALSE, recent |-> {},
     other |-> None, history |-> FALSE, local |-> <<>>, finalized |-> None]

AskedFromMemory(kind, slot, c) ==
    [Asked(kind, slot, c) EXCEPT !.seen = IF Seeded THEN Shown ELSE stored.confirmed]

Done(q, type) == [q EXCEPT !.stage = "done", !.result = Result(type, None)]

\* fetch_upstream: the upstream's answer, null or an error, as configured.
fetch_upstream(q) == Done(q, "elsewhere")

CheckSlot(q, tip) ==
    IF q.slot > tip THEN Done(q, "not_available")
    ELSE IF q.slot <= stored.first THEN fetch_upstream(q)
    ELSE q

RpcRequestBlock(slot, c) == {CheckSlot(Asked("getBlock", slot, c), stored[c])}

process_block(slot) == {CheckSlot(Asked("/block", slot, "confirmed"), stored.confirmed)}

\* getBlocks and getBlocksWithLimit: a start slot that may be pruned soon is
\* left to an upstream, if there is one.
process_blocks(q) ==
    {q} \union IF stored.first # Never /\ q.slot < stored.first + Margin
               THEN {fetch_upstream(q)} ELSE {}

AskedBlocks(start_slot, until, c) ==
    [AskedFromMemory("getBlocks", start_slot, c) EXCEPT !.until = until]

\* The end asked for is cut at the tip.
RpcRequestBlocks(start_slot, end_slot, c) ==
    LET end == IF end_slot < stored[c] THEN end_slot ELSE stored[c]
        q == AskedBlocks(start_slot, [end |-> end], c)
    IN  IF end < start_slot
        THEN {[q EXCEPT !.stage = "done", !.result = Result("blocks", {})]}
        ELSE process_blocks(q)

RpcRequestBlocksWithLimit(start_slot, limit, c) ==
    process_blocks(AskedBlocks(start_slot, [limit |-> limit], c))

RpcRequestBlockHeight(c) == {AskedFromMemory("getBlockHeight", 1, c)}

\* The call compares the slot with no level, the reader with its own.
RpcRequestBlockTime(slot) ==
    {[AskedFromMemory("getBlockTime", slot, "confirmed")
        EXCEPT !.held = {s \in @ : Seeded => \A r \in Readers : s <= reader[r].confirmed}]}

RpcRequestLatestBlockhash(c) == {AskedFromMemory("getLatestBlockhash", 1, c)}

\* recent: the blocks whose hash every reader knows.
RpcRequestIsBlockhashValid(slot, c) ==
    {[AskedFromMemory("isBlockhashValid", slot, c)
        EXCEPT !.recent = {s \in Slots : \A r \in Readers : s \in reader[r].recent}]}

RpcRequestTransaction(slot, c) == {Asked("getTransaction", slot, c)}

process_transaction(slot) == {Asked("/tx", slot, "confirmed")}

RpcRequestSignatureStatuses(a, b, c, history) ==
    {[Asked("getSignatureStatuses", a, c)
        EXCEPT !.other = b, !.history = history, !.local = <<NoStatus, NoStatus>>,
               !.held = {s \in {a, b} :
                   Held(s, c) /\ \A r \in Readers : s <= reader[r].finalized}]}

Requests ==
    UNION (
      {RpcRequestBlock(s, c) : s \in Slots, c \in Commitments}
      \union {process_block(s) : s \in Slots}
      \union {RpcRequestBlocks(s, e, c) : s \in Slots, e \in Slots, c \in Commitments}
      \union {RpcRequestBlocksWithLimit(s, n, c) : s \in Slots, n \in 1 .. 2, c \in Commitments}
      \union {RpcRequestBlockHeight(c) : c \in Commitments}
      \union {RpcRequestBlockTime(s) : s \in Slots}
      \union {RpcRequestLatestBlockhash(c) : c \in Commitments}
      \union {RpcRequestIsBlockhashValid(s, c) : s \in LiveSlots, c \in Commitments}
      \union {RpcRequestTransaction(s, c) : s \in LiveSlots, c \in Commitments}
      \union {process_transaction(s) : s \in LiveSlots}
      \union {RpcRequestSignatureStatuses(p[1], p[2], c, h) : c \in Commitments, h \in BOOLEAN,
                   p \in {q \in LiveSlots \X LiveSlots : q[1] # q[2]}})

ask ==
    /\ req = NoRequest
    /\ req' \in Requests
    /\ UNCHANGED <<writer, inbox, reader, stored>>

(***************************************************************************)
(* The reader's result, and the levels once more.                          *)
(***************************************************************************)
\* Mutant: what was read is taken for the block asked for.
StillStoredAlways(slot) == TRUE

\* "verify that we still have data for that block"
StillStored(slot) == slot > stored.first

\* The result as it is.
PassedOn == [req EXCEPT !.stage = "done"]

block_answer ==
    CASE req.result.type = "removed" -> fetch_upstream(req)
      [] req.result.type = "dead"    -> Done(req, "skipped")
      [] req.result.type = "block" /\ ~ StillStored(req.slot) -> fetch_upstream(req)
      [] OTHER -> PassedOn

transaction_answer ==
    IF req.result.type = "not_found" THEN fetch_upstream(req)
    ELSE IF req.kind = "getTransaction" /\ req.commit = "finalized" /\ stored.finalized < req.slot
    THEN Done(req, "null")
    ELSE IF ~ StillStored(req.slot) THEN fetch_upstream(req) ELSE PassedOn

blocks_answer ==
    IF req.result.type = "removed" THEN Done(req, "cleaned_up") ELSE PassedOn

block_time_answer ==
    CASE req.result.type = "removed" -> fetch_upstream(req)
      [] req.result.type = "dead"    -> Done(req, "skipped")
      [] OTHER -> PassedOn

(***************************************************************************)
(* Statuses below the commitment are hidden; what is missing then is asked *)
(* of an upstream, whose answers come in the order of the questions.       *)
(***************************************************************************)
\* Mutant: the index of the upstream's answers is not moved on.
MergedFirst(local, answers) ==
    [i \in 1 .. 2 |-> IF local[i] # NoStatus THEN local[i] ELSE answers[1]]

Merged(local, answers) ==
    [i \in 1 .. 2 |-> IF local[i] # NoStatus THEN local[i]
                      ELSE answers[Cardinality({j \in 1 .. i : local[j] = NoStatus})]]

statuses_answer ==
    LET local == [i \in 1 .. 2 |->
                    LET found == req.result.value[i]
                    IN  IF req.commit = "finalized" /\ found.level = "confirmed"
                        THEN NoStatus ELSE found]
        missing == (IF local[1] = NoStatus THEN <<1>> ELSE <<>>)
                   \o (IF local[2] = NoStatus THEN <<2>> ELSE <<>>)
        answers == [i \in DOMAIN missing |->
                      [slot |-> Signatures[missing[i]], level |-> "upstream"]]
        Given(statuses) == [req EXCEPT !.stage = "done", !.result = Result("statuses", statuses)]
    IN  {Given(local)} \union
        IF req.history /\ missing # <<>> THEN {Given(Merged(local, answers))}
        ELSE {}

HeightKinds == {"getBlockHeight", "getLatestBlockhash", "isBlockhashValid"}

answer ==
    /\ req.stage = "result"
    /\ req' \in CASE req.kind \in {"getBlock", "/block"}    -> {block_answer}
                  [] req.kind \in {"getTransaction", "/tx"} -> {transaction_answer}
                  [] req.kind = "getBlocks"                 -> {blocks_answer}
                  [] req.kind \in HeightKinds               -> {PassedOn}
                  [] req.kind = "getBlockTime"              -> {block_time_answer}
                  [] OTHER                                  -> statuses_answer
    /\ UNCHANGED <<writer, inbox, reader, stored>>

\* The deadline passes, or a read fails.
give_up ==
    /\ req.stage \in {"queued", "index", "found", "file"}
    /\ req' = Done(req, "timeout")
    /\ UNCHANGED <<writer, inbox, reader, stored>>

\* The next request.
finish ==
    /\ req.stage = "done"
    /\ req' = NoRequest
    /\ UNCHANGED <<writer, inbox, reader, stored>>

BlockKinds == {"getBlock", "/block"}
TransactionKinds == {"getTransaction", "/tx"}

(***************************************************************************)
(* The answer depends on nothing but the request any more, so the others   *)
(* need not move before it is given.                                       *)
(***************************************************************************)
Settled ==
    \/ req.stage = "done"
    \/ req.stage = "result" /\ req.kind \notin BlockKinds \union TransactionKinds

ReadInit == Start /\ req = NoRequest

Client == ask \/ answer \/ give_up \/ finish

Reading == \E r \in Readers : handle(r) \/ take(r)

ReadNext ==
    \/ ~ Settled /\ (Storage \/ Reading)
    \/ read_index \/ read_file
    \/ Client

ReadSpec == ReadInit /\ [][ReadNext]_readvars

-----------------------------------------------------------------------------
(***************************************************************************)
(* Properties.                                                             *)
(***************************************************************************)
\* A request that came after the readers had handled what the start took back.
IsDone(kinds) == req.stage = "done" /\ req.kind \in kinds /\ req.behind = {}

\* A block or a transaction that is answered is the one asked for, though the
\* reader looks up the location first and reads the bytes later, when the
\* writer may have pruned the block and put another one there.
AnswerRight ==
    IsDone(BlockKinds \union TransactionKinds) /\ req.result.type = "block"
        => req.result.value = req.slot

\* What every reader could serve when the request came, and what is still
\* above first_available when it is answered, is found: it is not called
\* unavailable, cleaned up or skipped, nor fetched from elsewhere, whichever
\* reader takes the request and whatever is pushed, pruned or in process.
\* Until the readers publish a slot of their own, this holds of a block time
\* only for slots that each of them takes for confirmed.
NothingMissed ==
    IsDone(BlockKinds \union TransactionKinds \union {"getBlockTime", "getBlocks"})
    /\ req.slot \in req.held /\ req.slot > stored.first
        => \/ req.result.type = "timeout"
           \/ req.kind = "getBlocks" /\ req.result.type # "cleaned_up"
           \/ req.kind # "getBlocks"
              /\ req.result.type \in IF req.slot \in Skipped THEN {"skipped"} ELSE {"block", "time"}

Wanted(from, end) == {s \in LiveSlots : from <= s /\ s <= end}

\* getBlocks lists exactly the blocks from the start to the end asked for,
\* getBlocksWithLimit the first ones from the start, none left out below the
\* confirmed slot the readers had published when the request came (see seen):
\* with the block in process or without, for every start slot the reader's
\* index reaches.
BlocksListed ==
    IsDone({"getBlocks"}) /\ req.result.type = "blocks" /\ req.inside =>
        LET listed == req.result.value
            end == IF "end" \in DOMAIN req.until THEN req.until.end ELSE MaxSlot
            wanted == Wanted(req.slot, end)
        IN  /\ listed \subseteq wanted
            /\ \A s \in wanted \ listed, t \in listed : t < s
            /\ "limit" \in DOMAIN req.until => Cardinality(listed) <= req.until.limit
            /\ req.commit = "confirmed" =>
                 \/ Wanted(req.slot, IF end < req.seen THEN end ELSE req.seen) \subseteq listed
                 \/ "limit" \in DOMAIN req.until /\ Cardinality(listed) = req.until.limit

\* A height at commitment confirmed, on its own or with the latest blockhash,
\* is never older than the confirmed slot the readers had published when the
\* request came (see seen): whichever reader answers has handled that slot.
\* And a blockhash that had expired by then is called valid only while the
\* reader's confirmed slot is a skipped one and it has the lower height of a
\* fork's block there for its confirmed height.
HeightFresh ==
    IsDone(HeightKinds) /\ req.commit = "confirmed" =>
        /\ req.result.type = "height" => req.result.value >= Height(req.seen)
        /\ req.result.type = "valid" /\ Height(req.slot) + MaxAge <= Height(req.seen)
              => /\ req.result.value.slot \in Skipped
                 /\ req.result.value.height < Height(req.result.value.slot)

FailureExpected(kind, R) ==
    CASE kind = "getBlockHeight"     -> R.inproc \in Skipped \/ ~ R.live \/ R.above
      [] kind = "getLatestBlockhash" -> R.confirmed \in Skipped
      [] kind = "isBlockhashValid"   -> req.slot \notin req.recent
                                        \/ R.peak >= Height(req.slot) + MaxRecent
      [] OTHER                       -> R.above

\* Once the readers take a slot for confirmed, a request at that commitment
\* fails (an internal error to the client) only for the height while a skipped
\* slot is in process, or with no block stored at all; for the latest
\* blockhash while the confirmed slot is a skipped one; for a blockhash some
\* reader did not know, or MaxRecent blocks below a height the reader has had
\* for confirmed; and for height, blocks and block time when the start took
\* the reader's confirmed slot back and none is confirmed since.  No reader
\* stops with "expected confirmed before push".
FailsOnlyOnSkipped ==
    /\ \A r \in Readers : ~ reader[r].failed
    /\ IsDone(HeightKinds \union {"getBlocks", "getBlockTime"})
       /\ req.result.type = "failed" /\ req.commit = "confirmed"
       /\ req.seen > 0
        => FailureExpected(req.kind, req.result.value)

\* Every status stands at the position of its signature, the upstream's in
\* between too; and with the history a transaction that was finalized and
\* stored for every reader is reported as long as it stays stored, though it
\* leaves the recent statuses and is looked up later.
StatusesAligned ==
    IsDone({"getSignatureStatuses"}) /\ req.result.type = "statuses" =>
        \A i \in 1 .. 2 :
            LET given == req.result.value[i].slot
            IN  \/ given = Signatures[i]
                \/ /\ given = None
                   /\ req.history /\ Signatures[i] \in req.held => Signatures[i] <= stored.first
=============================================================================
