--------------------------- MODULE AddressRequests ---------------------------
(***************************************************************************)
(* getSignaturesForAddress and getTransactionsForAddress: the transactions *)
(* of one address, newest first, from the block in process, the address    *)
(* index of RocksDB and an upstream; page by page for the second method.   *)
(* Requests of src/storage/read.rs, scans of src/storage/rocksdb.rs, calls *)
(* of src/rpc/api_jsonrpc.rs.                                              *)
(*                                                                         *)
(* The stages of a request are separate steps, and storage moves on        *)
(* between them (StorageRead).  A transaction is its slot and its index in *)
(* the block, and stands for its signature.  A block time is its slot.     *)
(***************************************************************************)
EXTENDS StorageRead

CONSTANTS
    Txs,            \* the transactions of the address, newest first
    Limits,         \* limits clients give
    Befores,        \* before and until of getSignaturesForAddress
    Untils,
    BatchLimit,     \* gtfa_limit_signatures
    Filters         \* filters of getTransactionsForAddress, see Filter

NoTx == <<0, 0>>

Newer(a, b) == a[1] > b[1] \/ (a[1] = b[1] /\ a[2] > b[2])

TxSet == {Txs[i] : i \in DOMAIN Txs}

(***************************************************************************)
(* slot, time and signature map comparisons (gte, gt, lte, lt, eq) to a    *)
(* bound.  match: the transactions the filters by status and by token      *)
(* account let through.  some: whether the client gives filters at all.    *)
(***************************************************************************)
Filter(f) ==
    /\ DOMAIN f = {"some", "slot", "time", "signature", "match"}
    /\ f.some \in BOOLEAN /\ f.match \subseteq TxSet
    /\ DOMAIN f.slot \union DOMAIN f.time \subseteq {"gte", "gt", "lte", "lt", "eq"}
    /\ DOMAIN f.signature \subseteq {"gte", "gt", "lte", "lt"}
    /\ \A o \in DOMAIN f.slot : f.slot[o] \in Nat
    /\ \A o \in DOMAIN f.time : f.time[o] \in Nat
    /\ \A o \in DOMAIN f.signature : f.signature[o] \in LiveSlots \X (Nat \ {0})

ASSUME AddressRequestsAssumption ==
    /\ Txs \in Seq(LiveSlots \X (Nat \ {0}))
    /\ \A i, j \in DOMAIN Txs : i < j => Newer(Txs[i], Txs[j])
    /\ Limits \subseteq Nat \ {0}
    /\ Befores \union Untils \subseteq TxSet \union {NoTx}
    /\ BatchLimit \in Nat \ {0}
    /\ \A f \in Filters : Filter(f)

Lesser(a, b) == IF a < b THEN a ELSE b

Greater(a, b) == IF a < b THEN b ELSE a

FirstOf(list, n) == SubSeq(list, 1, Lesser(n, Len(list)))

LastOf(list) == list[Len(list)]

\* The lowest of some positions, 0 if there is none.
FirstAt(at) == IF at = {} THEN 0 ELSE Lowest(at)

PositionOf(list, tx) == FirstAt({i \in DOMAIN list : list[i] = tx})

\* The part of a list that is at some positions.
Nth(at, n) == CHOOSE i \in at : Cardinality({j \in at : j < i}) = n - 1

Part(list, at) == [n \in 1 .. Cardinality(at) |-> list[Nth(at, n)]]

InSlots(S) == Part(Txs, {i \in DOMAIN Txs : Txs[i][1] \in S})

\* What follows a transaction in a list, nothing if it is not there.
After(list, tx) ==
    LET at == PositionOf(list, tx)
    IN  IF at = 0 THEN <<>> ELSE SubSeq(list, at + 1, Len(list))

Level(R) == IF req.commit = "confirmed" THEN R.confirmed ELSE R.finalized

\* The address's transactions of the block in process, if they count.
Own(R) == IF req.commit = "confirmed" THEN InSlots({R.inproc}) ELSE <<>>

-----------------------------------------------------------------------------
(***************************************************************************)
(* getSignaturesForAddress.                                                *)
(***************************************************************************)

\* What both loops over signatures do: stop at until, or when there is no
\* room for more.
Upto(list, until, room) ==
    LET at == PositionOf(list, until)
        rest == IF at = 0 THEN list ELSE SubSeq(list, 1, at - 1)
    IN  [txs |-> FirstOf(rest, room), finished |-> at # 0 \/ Len(rest) >= room]

\* The slots whose transactions a reader can list at a commitment.
CanList(R, c) ==
    {0} \union DOMAIN R.ring \union IF c = "confirmed" THEN {R.inproc} ELSE {}

highest_slot(R) == IF Own(R) # <<>> THEN R.confirmed - 1 ELSE Level(R)

SignaturesForAddress(R) ==
    LET own == Own(R)
        here == req.before \in {own[i] : i \in DOMAIN own}
        part == Upto(IF req.before = NoTx THEN own ELSE After(own, req.before),
                     req.until, req.limit)
        q == [req EXCEPT !.got = part.txs, !.own = Len(part.txs),
                         !.slot = highest_slot(R),
                         !.ahead = Level(R) \notin CanList(R, req.commit),
                         !.after = IF here THEN NoTx ELSE req.before]
    IN  IF part.finished THEN [q EXCEPT !.stage = "result", !.finished = TRUE]
        ELSE [q EXCEPT !.stage = IF q.after = NoTx THEN "scan" ELSE "index"]

\* The slot of before, if it has a row.
read_tx_index ==
    /\ req.stage = "index"
    /\ req' = IF req.after[1] \notin indexed \/ req.after[1] > req.slot
              THEN [req EXCEPT !.stage = "result", !.finished = req.after[1] \in indexed]
              ELSE [req EXCEPT !.stage = "scan", !.slot = req.after[1]]
    /\ UNCHANGED <<writer, inbox, reader, stored>>

\* The rows of the address index that are there now.
spawn_signatires_for_address ==
    LET rows == InSlots({s \in indexed : s <= req.slot})
        part == Upto(IF req.after = NoTx THEN rows ELSE After(rows, req.after),
                     req.until, req.limit - Len(req.got))
    IN  [req EXCEPT !.stage = "scanned", !.after = NoTx,
                    !.got = req.got \o part.txs, !.finished = part.finished]

SignaturesForAddress2 ==
    /\ req.stage = "scan" /\ req.kind = "getSignaturesForAddress"
    /\ req' = spawn_signatires_for_address
    /\ UNCHANGED <<writer, inbox, reader, stored>>

(***************************************************************************)
(* The block times.  What is no longer listed is dropped, and the result   *)
(* is not finished then.                                                   *)
(***************************************************************************)
AddBlockTimes(R) ==
    LET known(i) == i <= req.own \/ get_block_location(R.ring, req.got[i][1]) = "found"
        at == {i \in DOMAIN req.got : known(i)}
    IN  [req EXCEPT !.stage = "result", !.got = Part(req.got, at),
                    !.finished = req.finished /\ at = DOMAIN req.got]

SignaturesForAddress3(R) == AddBlockTimes(R)

\* The upstream has the whole chain, up to a slot no older than ours.
get_signatures_for_address(before, limit) ==
    LET from(tip) == IF before = NoTx THEN InSlots(1 .. tip) ELSE After(Txs, before)
    IN  {Upto(from(tip), req.until, limit).txs : tip \in req.seen .. MaxSlot}

\* Mutant: the upstream is asked for what follows the client's before.
UpstreamBeforeGiven == req.before

UpstreamBefore == IF req.got # <<>> THEN LastOf(req.got) ELSE req.after

\* The rest, from an upstream if there is one.
RpcRequestSignaturesForAddress ==
    LET room == req.limit - Len(req.got)
    IN  {[req EXCEPT !.stage = "done"]} \union
        IF req.finished \/ room = 0 THEN {}
        ELSE {[req EXCEPT !.stage = "done", !.got = req.got \o more, !.asked = TRUE,
                          !.restarted = req.before # NoTx /\ UpstreamBefore = NoTx] :
                 more \in get_signatures_for_address(UpstreamBefore, room)}

\* What every reader could list from its index.
Kept(c) == {tx \in TxSet : \A r \in Readers : tx[1] \in DOMAIN reader[r].ring
                                             /\ tx[1] <= reader[r][c]}

\* seen: the newest slot at the commitment that every reader could list.
AskedSignatures(before, until, limit, c) ==
    [kind |-> "getSignaturesForAddress", stage |-> "queued", commit |-> c,
     before |-> before, until |-> until, limit |-> limit, reader |-> None,
     slot |-> None, after |-> NoTx, got |-> <<>>, own |-> 0, finished |-> FALSE,
     asked |-> FALSE, restarted |-> FALSE, ahead |-> FALSE, kept |-> Kept(c), behind |-> Behind,
     seen |-> Lowest(UNION {{reader[r][c], Highest(CanList(reader[r], c))} : r \in Readers})]

-----------------------------------------------------------------------------
(***************************************************************************)
(* getTransactionsForAddress.  Absent bounds are 0 below and Never above.  *)
(***************************************************************************)
Given(c, names) == {c[o] : o \in names \intersect DOMAIN c}

lower_bound(c) ==
    IF "eq" \in DOMAIN c THEN c.eq
    ELSE Highest({0} \union Given(c, {"gte"}) \union {b + 1 : b \in Given(c, {"gt"})})

upper_bound(c) ==
    IF "eq" \in DOMAIN c THEN c.eq
    ELSE Lowest({Never} \union Given(c, {"lte"}) \union {b - 1 : b \in Given(c, {"lt"})})

\* GtfaComparison::matches.
Matches(c, v) ==
    \A o \in DOMAIN c : CASE o = "gte" -> v >= c[o] [] o = "gt" -> v > c[o]
                          [] o = "lte" -> v <= c[o] [] o = "lt" -> v < c[o]
                          [] OTHER -> v = c[o]

\* GtfaSignaturePositionFilter::matches.
PositionMatches(c, tx) ==
    \A o \in DOMAIN c : CASE o = "gte" -> ~ Newer(c[o], tx) [] o = "gt" -> Newer(tx, c[o])
                          [] o = "lte" -> ~ Newer(tx, c[o]) [] OTHER -> Newer(c[o], tx)

lower_slot(c) == Highest({0} \union {tx[1] : tx \in Given(c, {"gte", "gt"})})

upper_slot(c) == Lowest({Never} \union {tx[1] : tx \in Given(c, {"lte", "lt"})})

\* What the call itself checks of a transaction; the slot is left to the scan.
Passes(f, tx) ==
    tx \in f.match /\ Matches(f.time, tx[1]) /\ PositionMatches(f.signature, tx)

(***************************************************************************)
(* A page is asked for: signatures in the filter are looked up first, and  *)
(* without a row for one of them the page is empty and the last.           *)
(***************************************************************************)
resolve_signature_position ==
    /\ req.stage = "resolve"
    /\ req' = IF \A tx \in Given(req.filter.signature, DOMAIN req.filter.signature) :
                    tx[1] \in indexed
              THEN [req EXCEPT !.stage = "queued"]
              ELSE [req EXCEPT !.stage = "page", !.token = NoTx, !.cut = @ \union {"unresolved"}]
    /\ UNCHANGED <<writer, inbox, reader, stored>>

\* A read asks for more than is missing when some of it may be filtered out.
request_limit ==
    LET remaining == req.limit - Len(req.page)
    IN  IF req.filter.some THEN Greater(remaining, Lesser(4 * remaining, BatchLimit))
        ELSE remaining

\* block_time_to_slot_lower and block_time_to_slot_upper of the reader's index.
TimeLower(R) ==
    LET bound == lower_bound(req.filter.time)
        slots == {s \in Live(R.ring) : s >= bound}
    IN  IF bound = 0 \/ slots = {} THEN 0 ELSE Lowest(slots)

TimeUpper(R) ==
    LET bound == upper_bound(req.filter.time)
        slots == {s \in Live(R.ring) : s <= bound}
    IN  IF bound = Never \/ slots = {} THEN Never ELSE Highest(slots)

TransactionsForAddress(R) ==
    LET f == req.filter
        lower == Highest({lower_bound(f.slot), lower_slot(f.signature), TimeLower(R)})
        upper == Lowest({upper_bound(f.slot), upper_slot(f.signature), TimeUpper(R)})
        top == Lesser(upper, Level(R))
        back == IF DOMAIN R.ring = {} THEN 0 ELSE Lowest(DOMAIN R.ring)
        from == IF req.cursor # NoTx THEN req.cursor[1]
                ELSE IF req.desc THEN top ELSE Greater(lower, back)
        fast == req.desc /\ req.cursor = NoTx /\ R.inproc <= from /\ Own(R) # <<>>
        own == IF fast THEN FirstOf(Own(R), request_limit) ELSE <<>>
        q == [req EXCEPT !.got = own, !.own = Len(own), !.room = request_limit,
                         !.slot = IF fast THEN R.inproc - 1 ELSE from,
                         !.stop = IF req.desc THEN lower ELSE top,
                         !.cut = IF req.cursor # NoTx /\ req.cursor[1] \notin DOMAIN R.ring
                                 THEN @ \union {"token"} ELSE @]
    IN  IF Len(own) = request_limit
        THEN [q EXCEPT !.stage = "result", !.finished = FALSE]
        ELSE [q EXCEPT !.stage = "scan"]

\* Mutant: the transaction of the cursor is given again.
SkippedAgain(list, i, at) == ~ (at # 0 /\ i >= at) /\ req.cursor # NoTx
    /\ IF req.desc THEN list[i][2] >= req.cursor[2] ELSE list[i][2] <= req.cursor[2]

\* Skipped on account of the cursor's index, until that index is met (at).
SkippedByCursor(list, i, at) ==
    /\ req.cursor # NoTx
    /\ at = 0 \/ i <= at
    /\ IF req.desc THEN list[i][2] >= req.cursor[2] ELSE list[i][2] <= req.cursor[2]

\* Oldest first, as the scan goes when it is not desc.
Backwards(list) == [i \in DOMAIN list |-> list[Len(list) + 1 - i]]

spawn_transactions_for_address ==
    LET slots == {s \in indexed : IF req.desc THEN s <= req.slot /\ s >= req.stop
                                  ELSE s >= req.slot /\ s <= req.stop}
        rows == IF req.desc THEN InSlots(slots) ELSE Backwards(InSlots(slots))
        at == FirstAt({i \in DOMAIN rows : rows[i][2] = req.cursor[2]})
        left == Part(rows, {i \in DOMAIN rows : ~ SkippedByCursor(rows, i, at)})
        room == req.room - Len(req.got)
        more == FirstOf(left, room)
    IN  [req EXCEPT !.stage = "scanned", !.got = req.got \o more,
                    !.finished = Len(more) < room,
                    !.cut = IF req.cursor # NoTx /\ req.cursor[1] \notin indexed
                            THEN @ \union {"token"} ELSE @]

TransactionsForAddress2 ==
    /\ req.stage = "scan" /\ req.kind = "getTransactionsForAddress"
    /\ req' = spawn_transactions_for_address
    /\ UNCHANGED <<writer, inbox, reader, stored>>

TransactionsForAddress3(R) == AddBlockTimes(R)

\* Mutant: the page goes on from the last transaction that was read.
NextTokenRead(got, page, reached) ==
    IF (req.finished /\ ~ reached) \/ got = <<>> THEN NoTx ELSE LastOf(got)

\* The token of a page: its last transaction.
NextToken(got, page, reached) ==
    IF (req.finished /\ ~ reached) \/ page = <<>> THEN NoTx ELSE LastOf(page)

(***************************************************************************)
(* The loop of process: filter what was read, read on or end the page.     *)
(***************************************************************************)
RpcRequestTransactionsForAddress ==
    LET passed == Part(req.got, {i \in DOMAIN req.got : Passes(req.filter, req.got[i])})
        page == req.page \o FirstOf(passed, req.limit - Len(req.page))
        reached == Len(page) = req.limit
        q == [req EXCEPT !.page = page, !.got = <<>>, !.own = 0]
    IN  IF reached \/ req.finished \/ req.got = <<>>
        THEN [q EXCEPT !.stage = "page", !.token = NextToken(req.got, page, reached),
                       !.cut = IF req.finished \/ reached THEN @ ELSE @ \union {"emptied"}]
        ELSE [q EXCEPT !.stage = "queued", !.cursor = LastOf(req.got)]

\* The client asks for the next page, as long as there is a token.
next_page ==
    /\ req.stage = "page"
    /\ req' = LET q == [req EXCEPT !.listed = @ \o req.page, !.page = <<>>]
              IN  IF req.token = NoTx THEN [q EXCEPT !.stage = "done"]
                  ELSE [q EXCEPT !.stage = "resolve", !.cursor = req.token]
    /\ UNCHANGED <<writer, inbox, reader, stored>>

AskedTransactions(desc, limit, f, c) ==
    [kind |-> "getTransactionsForAddress", stage |-> "resolve", commit |-> c,
     desc |-> desc, limit |-> limit, filter |-> f, reader |-> None,
     cursor |-> NoTx, slot |-> None, stop |-> None, room |-> 0,
     got |-> <<>>, own |-> 0, finished |-> FALSE,
     page |-> <<>>, token |-> NoTx, listed |-> <<>>, cut |-> {},
     kept |-> Kept(c), behind |-> Behind]

-----------------------------------------------------------------------------
ask_address ==
    /\ req.stage = "none"
    /\ \/ \E before \in Befores, until \in Untils, limit \in Limits, c \in Commitments :
             req' = AskedSignatures(before, until, limit, c)
       \/ \E desc \in BOOLEAN, limit \in Limits, f \in Filters, c \in Commitments :
             req' = AskedTransactions(desc, limit, f, c)
    /\ UNCHANGED <<writer, inbox, reader, stored>>

\* A reader takes a request, or goes on with one it has scanned for.
take_address(r) ==
    LET R == Copy(reader[r])
        signatures == req.kind = "getSignaturesForAddress"
    IN  /\ ~ R.failed
        /\ \/ /\ req.stage = "queued"
              /\ req' = [IF signatures THEN SignaturesForAddress(R) ELSE TransactionsForAddress(R)
                         EXCEPT !.reader = r]
           \/ /\ req.stage = "scanned" /\ req.reader = r
              /\ req' = IF signatures THEN SignaturesForAddress3(R) ELSE TransactionsForAddress3(R)
        /\ UNCHANGED <<writer, inbox, reader, stored>>

answer_address ==
    /\ req.stage = "result"
    /\ IF req.kind = "getSignaturesForAddress"
       THEN req' \in RpcRequestSignaturesForAddress
       ELSE req' = RpcRequestTransactionsForAddress
    /\ UNCHANGED <<writer, inbox, reader, stored>>

finish_address ==
    /\ req.stage = "done"
    /\ req' = [stage |-> "none"]
    /\ UNCHANGED <<writer, inbox, reader, stored>>

\* The call goes on with what it has; nothing else needs to move before.
SettledAddress == req.stage \in {"result", "page", "done"}

AddressInit == Start /\ req = [stage |-> "none"]

AddressNext ==
    \/ ~ SettledAddress /\ (Storage \/ \E r \in Readers : handle(r) \/ take_address(r))
    \/ read_tx_index \/ SignaturesForAddress2 \/ TransactionsForAddress2 \/ resolve_signature_position
    \/ ask_address \/ answer_address \/ next_page \/ finish_address

AddressSpec == AddressInit /\ [][AddressNext]_readvars

-----------------------------------------------------------------------------
(***************************************************************************)
(* Properties.                                                             *)
(***************************************************************************)
\* Requests that came after the readers had handled what the start took back.
SignaturesDone == req.stage = "done" /\ req.kind = "getSignaturesForAddress" /\ req.behind = {}

PagesDone == req.stage = "done" /\ req.kind = "getTransactionsForAddress" /\ req.behind = {}

\* Position of a transaction in the list of the address.
At(tx) == PositionOf(Txs, tx)

\* The list getSignaturesForAddress gives, from the block in process, the
\* index and an upstream together, is one piece of the address's list, without
\* a gap, a repetition or until in it; it begins right after before, or with
\* nothing confirmed left out; and when it is shorter than the limit, it ends
\* at until, with the oldest transaction, or (no upstream) with the oldest one
\* stored.  Two cases are left out: before is found but nothing after it (see
\* restarted), and a level the reader does not have in its index (see ahead):
\* a finalized slot that is not stored yet, a confirmed one the start took back.
SignaturesExact ==
    SignaturesDone /\ ~ req.restarted /\ ~ req.ahead =>
        LET got == req.got
            next_at == IF got # <<>> THEN At(LastOf(got)) + 1
                       ELSE IF req.before # NoTx THEN At(req.before) + 1 ELSE 1
        IN  /\ \A i \in 2 .. Len(got) : At(got[i]) = At(got[i - 1]) + 1
            /\ \A i \in DOMAIN got : got[i] # req.until
            /\ got # <<>> => IF req.before # NoTx THEN At(got[1]) = At(req.before) + 1
                             ELSE \A i \in 1 .. At(got[1]) - 1 : Txs[i][1] > req.seen
            /\ Len(got) <= req.limit
            /\ Len(got) < req.limit /\ next_at \in DOMAIN Txs =>
                  \/ Txs[next_at] = req.until
                  \/ Txs[next_at][1] > req.seen \/ req.before[1] > req.seen
                  \/ ~ req.asked /\ (Txs[next_at] \notin req.kept \/ Txs[next_at][1] \notin DOMAIN ring)

Ordered(list, desc) ==
    \A i \in 2 .. Len(list) : IF desc THEN Newer(list[i - 1], list[i]) ELSE Newer(list[i], list[i - 1])

\* The pages of getTransactionsForAddress, one after the other, are in order
\* without a repetition, whatever is confirmed, stored or pruned between them,
\* and hold nothing that the filters by status, token account, time and
\* signature exclude.  The filter by slot is left out (see Passes): the scan
\* keeps to it, but the block in process is not compared with its lower bound
\* and is listed even when it lies below.
PagesOrdered ==
    PagesDone =>
        /\ Ordered(req.listed, req.desc)
        /\ \A i \in DOMAIN req.listed : Passes(req.filter, req.listed[i])

\* When the last page has no token, everything is listed that was stored for
\* every reader when the first one was asked for and is stored still; but for
\* a token whose slot has no row (see cut), a read whose result was pruned
\* altogether, and a signature in the filter that was pruned.
PagesComplete ==
    PagesDone /\ req.cut = {} =>
        \A tx \in req.kept :
            tx[1] \in DOMAIN ring /\ Passes(req.filter, tx) /\ Matches(req.filter.slot, tx[1])
                => \E i \in DOMAIN req.listed : req.listed[i] = tx
=============================================================================
