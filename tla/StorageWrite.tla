---------------------------- MODULE StorageWrite ----------------------------
(***************************************************************************)
(* The loop of the storage writer (start2 of src/storage/write.rs): slots  *)
(* come from the stream, from RPC and, on request, from a catch-up; they   *)
(* are pushed at the front of the database as they become consecutive,     *)
(* while history is fetched over RPC and pushed at the back.               *)
(*                                                                         *)
(* The database is the window back .. front of its slots, both 0 if it is  *)
(* empty.  Of the stream only confirmed slots are looked at (the rest is   *)
(* in StorageMemory), of the source only that it may ask for a catch-up    *)
(* (the rest is in StreamResume).                                          *)
(***************************************************************************)
EXTENDS Integers, FiniteSets, FiniteSetsExt

CONSTANTS
    MaxSlot,        \* bound on the slots of the chain
    MaxBlocks,      \* storage.blocks.max
    Concurrency,    \* concurrency of HttpBlocks
    SyncTo,         \* backfilling.sync_to
    Catchups,       \* bound on the catch-ups the source asks for
    Databases       \* databases to start with, <<back, front>> each

ASSUME StorageWriteAssumption ==
    /\ MaxSlot \in Nat /\ MaxBlocks \in Nat \ {0}
    /\ Concurrency \in Nat \ {0}
    /\ SyncTo \in Nat \ {0}
    /\ Catchups \in Nat
    /\ \A d \in Databases :
        \/ d = <<0, 0>>
        \/ d[1] \in 1 .. d[2] /\ d[2] \in 1 .. MaxSlot /\ d[2] - d[1] < MaxBlocks

Slots == 1 .. MaxSlot

None == -1

Unset == MaxSlot + 1    \* Slot::MAX of next_back_request_slot

VARIABLES
    node,       \* external: newest confirmed slot of the node
    mode,       \* "run", "catching_up" or "ended"
    w,          \* what the loop keeps, see Writer
    catchup,    \* next_request_slot of a catch-up
    asked,      \* catch-ups asked for so far
    newest      \* history: newest slot the stream has confirmed

vars == <<node, mode, w, catchup, asked, newest>>

(***************************************************************************)
(* back, front: the database.  next: next_confirmed_slot.  upto:           *)
(* backfill_upto.  back_slot: next_back_slot.  request: the field          *)
(* next_back_request_slot.  busy: HttpBlocks.inprogress.  qback, qfront:   *)
(* the slots of queued_slots_back and queued_slots_front.                  *)
(***************************************************************************)
Writer == [back : 0 .. MaxSlot, front : 0 .. MaxSlot, next : 1 .. MaxSlot + 1,
           upto : {SyncTo, None}, back_slot : 0 .. MaxSlot \union {None},
           request : 0 .. Unset, busy : SUBSET Slots,
           qback : SUBSET Slots, qfront : SUBSET Slots]

is_full(x) == x.front # 0 /\ x.front - x.back + 1 >= MaxBlocks

(***************************************************************************)
(* Requests for the slots from a in the direction of b, until b is reached *)
(* or HttpBlocks is full; fetch ignores a slot that is in progress.        *)
(***************************************************************************)
RequestsDown(x, a, b) ==
    {s \in b .. a : Cardinality(x.busy \union (s + 1 .. a)) < Concurrency}

RequestsUp(x, a, b) ==
    {s \in a .. b : Cardinality(x.busy \union (a .. s - 1)) < Concurrency}

(***************************************************************************)
(* Saving: what is queued at the front without a gap is pushed, and old    *)
(* slots are pruned to make room.  MaxBlocks stands for the room in the    *)
(* files too.                                                              *)
(***************************************************************************)
Run(x) == {s \in x.qfront : x.next <= s /\ x.next .. s \subseteq x.qfront}

Saved(x) ==
    LET last == Max(Run(x))
        first == IF x.front = 0 THEN x.next ELSE x.back
    IN  [x EXCEPT !.front = last, !.back = Max({first, last - MaxBlocks + 1}),
                  !.next = last + 1, !.qfront = @ \ Run(x)]

SavedIfAny(x) == IF Run(x) = {} THEN x ELSE Saved(x)

(***************************************************************************)
(* The backfill step.                                                      *)
(***************************************************************************)
Finished(x) == [x EXCEPT !.upto = None, !.qback = {}]

Requested(x) ==
    LET from == IF x.request = Unset THEN x.back_slot ELSE x.request
        new == RequestsDown(x, from, x.upto)
    IN  [x EXCEPT !.busy = @ \union new, !.request = from - Cardinality(new)]

\* Mutant: a slot is compared with the lowest stored one.
PushedBackOffByOne(x) ==
    LET added == x.back = x.back_slot /\ ~ is_full(x)
        y == [x EXCEPT !.back_slot = @ - 1, !.qback = @ \ {x.back_slot},
                       !.back = IF added THEN x.back_slot ELSE @]
    IN  IF x.back_slot \notin x.qback THEN x
        ELSE IF ~ added \/ x.back_slot = x.upto THEN Finished(y)
        ELSE y

PushedBack(x) ==
    LET added == x.back - 1 = x.back_slot /\ ~ is_full(x)
        y == [x EXCEPT !.back_slot = @ - 1, !.qback = @ \ {x.back_slot},
                       !.back = IF added THEN x.back_slot ELSE @]
    IN  IF x.back_slot \notin x.qback THEN x
        ELSE IF ~ added \/ x.back_slot = x.upto THEN Finished(y)
        ELSE y

Begun(x) ==
    IF x.front = 0 THEN x
    ELSE IF x.back - 1 > x.upto THEN [x EXCEPT !.back_slot = x.back - 1]
    ELSE Finished(x)

Backfilled(x) ==
    IF x.upto = None THEN x
    ELSE IF x.back_slot = None THEN Begun(x)
    ELSE PushedBack(Requested(x))

-----------------------------------------------------------------------------
(***************************************************************************)
(* The end of every pass of the loop: save, then backfill, unless blocks   *)
(* were saved and backfilling is under way.                                *)
(***************************************************************************)
pass(x) ==
    \E before \in {x} : \E saved \in {SavedIfAny(before)} :
        w' = IF Run(before) # {} /\ saved.request # Unset THEN saved ELSE Backfilled(saved)

running ==
    /\ mode = "run"
    /\ UNCHANGED <<node, mode, catchup, asked>>

\* Mutant: the slot the backfill waits for is not taken.
ReceivedStrict(s) ==
    LET x == [w EXCEPT !.busy = @ \ {s}] IN
    IF s >= w.next THEN [x EXCEPT !.qfront = @ \union {s}]
    ELSE IF w.back_slot # None /\ s < w.back_slot /\ w.upto # None
    THEN [x EXCEPT !.qback = @ \union {s}]
    ELSE x

\* http_blocks.next() is ready: what is above the database is for the front,
\* what is below it may be for the back.
Received(s) ==
    LET x == [w EXCEPT !.busy = @ \ {s}] IN
    IF s >= w.next THEN [x EXCEPT !.qfront = @ \union {s}]
    ELSE IF w.back_slot # None /\ s <= w.back_slot /\ w.upto # None
    THEN [x EXCEPT !.qback = @ \union {s}]
    ELSE x

response(s) ==
    /\ running
    /\ s \in w.busy
    /\ pass(Received(s))
    /\ UNCHANGED newest

\* Mutant: the slots before it are not requested.
ConfirmedAlone(s) == [w EXCEPT !.qfront = @ \union {s}]

\* A confirmed slot, and requests for the slots missing before it.
Confirmed(s) ==
    [w EXCEPT !.busy = @ \union (w.next .. s - 1 \ w.qfront), !.qfront = @ \union {s}]

\* Missed: the stream has no block for the slot, it is requested too.
Missed(s) ==
    [w EXCEPT !.busy = @ \union (w.next .. s - 1 \ w.qfront) \union {s}]

\* The stream confirms a slot; a new connection repeats slots or skips some.
stream ==
    /\ running
    /\ \E s \in w.next .. node :
        /\ newest' = Max({s, newest})
        /\ pass(Confirmed(s)) \/ pass(Missed(s))

\* A message that confirms nothing, or a slot below next_confirmed_slot.  Start
\* is one: next_confirmed_slot follows a database that is not empty anyway.
stream_other ==
    /\ running
    /\ pass(w)
    /\ UNCHANGED newest

\* back_slot_ready_future.
back_slot_ready ==
    /\ running
    /\ w.back_slot \in w.qback
    /\ pass(w)
    /\ UNCHANGED newest

(***************************************************************************)
(* CatchupRequired.  The loop inside handles responses by itself, with one *)
(* queue only.                                                             *)
(***************************************************************************)
CloseEnough(x, target) == x.front + 3 >= target

\* The top of the inner loop up to http_blocks.next().await.
catchup_loop(x, from) ==
    \E target \in {x.next, node} :
        IF CloseEnough(x, target)
        THEN /\ mode' = "run"
             /\ UNCHANGED catchup
             /\ pass([x EXCEPT !.next = x.front + 1])
        ELSE /\ mode' = "catching_up"
             /\ LET new == RequestsUp(x, from, target) IN
                  /\ catchup' = from + Cardinality(new)
                  /\ w' = [x EXCEPT !.next = target, !.busy = @ \union new]

catchup_required ==
    /\ mode = "run"
    /\ w.front # 0
    /\ asked < Catchups
    /\ asked' = asked + 1
    /\ IF w.front + 1 <= node
       THEN catchup_loop([w EXCEPT !.next = node], w.front + 1)
       ELSE mode' = "ended" /\ UNCHANGED <<w, catchup>>
    /\ UNCHANGED <<node, newest>>

\* Mutant: blocks fetched before are forgotten.
TakenAlone(s) ==
    IF s > w.front THEN [w EXCEPT !.busy = @ \ {s}, !.qfront = {s}]
    ELSE [w EXCEPT !.busy = @ \ {s}]

Taken(s) ==
    IF s > w.front THEN [w EXCEPT !.busy = @ \ {s}, !.qfront = @ \union {s}]
    ELSE [w EXCEPT !.busy = @ \ {s}]

catchup_response(s) ==
    /\ mode = "catching_up"
    /\ s \in w.busy
    /\ LET x == SavedIfAny([Taken(s) EXCEPT !.next = w.front + 1]) IN
       catchup_loop([x EXCEPT !.next = w.next], catchup)
    /\ UNCHANGED <<node, asked, newest>>

\* A request has failed for good: start2 returns the error.
http_fails ==
    /\ mode # "ended"
    /\ w.busy # {}
    /\ mode' = "ended"
    /\ UNCHANGED <<node, w, catchup, asked, newest>>

\* external: the node confirms another slot.
produce ==
    /\ node < MaxSlot
    /\ node' = node + 1
    /\ UNCHANGED <<mode, w, catchup, asked, newest>>

-----------------------------------------------------------------------------
\* The stream has been started: next_confirmed_slot follows the database, or
\* is the node's slot if the database is empty.
Started(d) ==
    [back |-> d[1], front |-> d[2], next |-> IF d[2] = 0 THEN node ELSE d[2] + 1,
     upto |-> SyncTo, back_slot |-> None, request |-> Unset,
     busy |-> {}, qback |-> {}, qfront |-> {}]

Init ==
    /\ node \in Slots
    /\ mode = "run"
    /\ w \in {Started(d) : d \in Databases}
    /\ catchup = 0 /\ asked = 0 /\ newest = 0

Next ==
    \/ produce
    \/ \E s \in Slots : response(s) \/ catchup_response(s)
    \/ stream
    \/ stream_other
    \/ back_slot_ready
    \/ catchup_required
    \/ http_fails

\* Every request is a task of its own, answered or failed in the end (needed
\* for those the back or the front waits for and for those of no use), and the
\* stream goes on to say something.
Fairness ==
    /\ WF_vars(\E s \in Slots : s = w.back_slot /\ response(s))
    /\ WF_vars(\E s \in Slots : s = w.next /\ response(s))
    /\ WF_vars(\E s \in Slots : w.back_slot < s /\ s < w.next /\ response(s))
    /\ WF_vars(\E s \in Slots : catchup_response(s))
    /\ WF_vars(stream_other)

Spec == Init /\ [][Next]_vars /\ Fairness

-----------------------------------------------------------------------------
(***************************************************************************)
(* Properties.                                                             *)
(***************************************************************************)

\* Types of the variables, and the database holds at most MaxBlocks slots.
TypeOK ==
    /\ node \in Slots /\ newest \in 0 .. MaxSlot
    /\ mode \in {"run", "catching_up", "ended"}
    /\ w \in Writer
    /\ w.front # 0 => w.back \in 1 .. w.front /\ w.front - w.back < MaxBlocks
    /\ catchup \in 0 .. MaxSlot + 1 /\ asked \in 0 .. Catchups

\* Every slot up to the newest confirmed one that is not in the database is
\* on its way: queued or requested.  No order of stream messages, responses
\* and catch-ups leaves a hole that would stop the front for ever.
NothingForgotten ==
    (IF mode = "catching_up" THEN w.front + 1 ELSE w.next) .. newest \subseteq w.busy \union w.qfront

\* HttpBlocks::poll_next returns Pending without a waker when there are no
\* requests: a catch-up must never wait then.
CatchupNeverHangs == mode = "catching_up" => w.busy # {}

\* Backfilling is called finished only when the database reaches sync_to or
\* is full.  (It also stops one slot before sync_to if it starts there.)
BackfillReaches ==
    w.upto = None => w.back <= SyncTo + 1 \/ is_full(w)

\* Backfilling ends, unless the source has asked for a catch-up meanwhile.
BackfillEnds == (w.front # 0) ~> (w.upto = None \/ mode = "ended" \/ asked > 0)
=============================================================================
