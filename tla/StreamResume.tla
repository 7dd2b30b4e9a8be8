---------------------------- MODULE StreamResume ----------------------------
(***************************************************************************)
(* How the stream is resumed: the source task (start_stream of             *)
(* src/storage/source.rs) and the storage writer (start2 of                *)
(* src/storage/write.rs) with the channel and the Notify between them.     *)
(*                                                                         *)
(* The source reconnects from the slot after the published confirmed one.  *)
(* When that keeps failing it asks the writer to catch up over RPC, waits  *)
(* for it, and connects live.  Of the stream only the confirmed slots are  *)
(* looked at; what comes before a slot is confirmed is in StorageMemory.   *)
(* A request over RPC is answered in the end or stops the process.         *)
(***************************************************************************)
EXTENDS Integers, Sequences, FiniteSetsExt

CONSTANTS
    MaxSlot,        \* bound on the slots of the chain
    MaxAttempts,    \* reconnect.from_slot_max_attempts
    Reconnect,      \* whether reconnecting is configured
    Capacity,       \* capacity of the channel stream_tx
    Failures        \* what may fail: "connect", "error", "finish", "http"

ASSUME StreamResumeAssumption ==
    /\ MaxSlot \in Nat \ {0}
    /\ MaxAttempts \in Nat
    /\ Reconnect \in BOOLEAN
    /\ Capacity \in Nat \ {0}
    /\ Failures \subseteq {"connect", "error", "finish", "http"}

Slots == 1 .. MaxSlot

VARIABLES
    node,           \* external: newest confirmed slot of the node
    source,         \* where the source task is
    from_slot,      \* from_slot of the current attempt, 0 for None
    attempts,       \* from_slot_attempts
    received,       \* received_message
    next,           \* external: the slot the connected stream sends next
    chan,           \* messages between stream_tx and stream_rx
    permit,         \* the permit of the Notify stream_start
    writer,         \* where the writer is
    front,          \* newest slot of the database, 0 if it is empty
    ncs,            \* next_confirmed_slot
    wanted,         \* newest slot queued or requested to be stored
    reported,       \* newest of the slots stored that the readers have published
    confirmed       \* the published confirmed slot

sourceVars == <<source, from_slot, attempts, received, next>>

writerVars == <<writer, front, ncs, wanted, reported>>

vars == <<node, source, from_slot, attempts, received, next, chan, permit,
          writer, front, ncs, wanted, reported, confirmed>>

\* Message(type, slot): "Slot" stands for the messages that confirm a slot.
Message(type, slot) == [type |-> type, slot |-> slot]

Start == Message("Start", 0)

CatchupRequired == Message("CatchupRequired", 0)

Messages == {Start, CatchupRequired} \union {Message("Slot", s) : s \in Slots}

\* The process is up: neither task has returned.
Running == source # "stopped" /\ writer \notin {"node_is_outdated", "http_failed"}

(***************************************************************************)
(* external: the node confirms another slot.                               *)
(***************************************************************************)
produce ==
    /\ node < MaxSlot
    /\ node' = node + 1
    /\ UNCHANGED <<sourceVars, chan, permit, writerVars, confirmed>>

-----------------------------------------------------------------------------
(***************************************************************************)
(* start_stream.                                                           *)
(***************************************************************************)
send(m) ==
    /\ Len(chan) < Capacity
    /\ chan' = Append(chan, m)

notified(at) ==
    /\ source = at /\ permit
    /\ permit' = FALSE

started ==
    /\ notified("wait_start")
    /\ source' = "outer"
    /\ UNCHANGED <<node, from_slot, attempts, received, next, chan, writerVars, confirmed>>

(***************************************************************************)
(* The top of the outer loop: resume after the published confirmed slot,   *)
(* unless there is none or that has failed too often.                      *)
(***************************************************************************)
outer ==
    /\ source = "outer"
    /\ IF confirmed # 0 /\ attempts >= MaxAttempts
       THEN from_slot' = 0 /\ source' = "send_catchup"
       ELSE /\ from_slot' = IF confirmed # 0 THEN confirmed + 1 ELSE 0
            /\ source' = "connect"
    /\ received' = FALSE
    /\ UNCHANGED <<node, attempts, next, chan, permit, writerVars, confirmed>>

send_catchup ==
    /\ source = "send_catchup"
    /\ send(CatchupRequired)
    /\ source' = "wait_catchup"
    /\ UNCHANGED <<node, from_slot, attempts, received, next, permit, writerVars, confirmed>>

caught_up ==
    /\ notified("wait_catchup")
    /\ attempts' = 0
    /\ source' = "connect"
    /\ UNCHANGED <<node, from_slot, received, next, chan, writerVars, confirmed>>

(***************************************************************************)
(* StreamSource::new and the retries around it.                            *)
(***************************************************************************)
Attempts(failed) == IF failed THEN attempts + 1 ELSE attempts

connect_fails ==
    /\ source = "connect"
    /\ "connect" \in Failures
    /\ attempts' = Attempts(from_slot # 0)
    /\ source' = IF ~ Reconnect THEN "stopped"
                 ELSE IF from_slot # 0 /\ attempts' >= MaxAttempts THEN "outer"
                 ELSE "connect"
    /\ UNCHANGED <<node, from_slot, received, next, chan, permit, writerVars, confirmed>>

\* A live stream begins after what the node has confirmed.
connect ==
    /\ source = "connect"
    /\ next' = IF from_slot # 0 THEN from_slot ELSE node + 1
    /\ source' = "send_start"
    /\ UNCHANGED <<node, from_slot, attempts, received, chan, permit, writerVars, confirmed>>

send_start ==
    /\ source = "send_start"
    /\ send(Start)
    /\ source' = "receive"
    /\ UNCHANGED <<node, from_slot, attempts, received, next, permit, writerVars, confirmed>>

(***************************************************************************)
(* The inner loop.  An error before the first message counts as a failed   *)
(* attempt to resume, the end of the stream does not.                      *)
(***************************************************************************)
forward ==
    /\ source = "receive"
    /\ next <= node
    /\ send(Message("Slot", next))
    /\ next' = next + 1
    /\ received' = TRUE
    /\ attempts' = 0
    /\ UNCHANGED <<node, source, from_slot, permit, writerVars, confirmed>>

\* The first message that confirms nothing; the writer's part is StorageMemory.
forward_other ==
    /\ source = "receive"
    /\ ~ received
    /\ received' = TRUE
    /\ attempts' = 0
    /\ UNCHANGED <<node, source, from_slot, next, chan, permit, writerVars, confirmed>>

\* Mutant: only failed connects are counted.
StreamEndsUncounted(how) ==
    /\ source = "receive"
    /\ how \in Failures
    /\ source' = IF Reconnect THEN "outer" ELSE "stopped"
    /\ UNCHANGED <<node, from_slot, attempts, received, next, chan, permit, writerVars, confirmed>>

stream_ends(how) ==
    /\ source = "receive"
    /\ how \in Failures
    /\ attempts' = Attempts(how = "error" /\ from_slot # 0 /\ ~ received)
    /\ source' = IF Reconnect THEN "outer" ELSE "stopped"
    /\ UNCHANGED <<node, from_slot, received, next, chan, permit, writerVars, confirmed>>

-----------------------------------------------------------------------------
(***************************************************************************)
(* start2 of the writer.  Slots ncs .. wanted are queued or requested.     *)
(***************************************************************************)
notify_one ==
    /\ writer = "starting"
    /\ permit' = TRUE
    /\ writer' = "loading"
    /\ UNCHANGED <<node, sourceVars, chan, front, ncs, wanted, reported, confirmed>>

load_confirmed_slot ==
    /\ writer = "loading"
    /\ ncs' = node
    /\ writer' = "idle"
    /\ UNCHANGED <<node, sourceVars, chan, permit, front, wanted, reported, confirmed>>

receive(m) ==
    /\ writer = "idle"
    /\ chan # <<>> /\ Head(chan) = m
    /\ chan' = Tail(chan)

\* Mutant: the confirmed slot of the node is kept.
StartKeepsSlot ==
    /\ receive(Start)
    /\ UNCHANGED <<ncs, node, sourceVars, permit, writer, front, wanted, reported, confirmed>>

on_start ==
    /\ receive(Start)
    /\ ncs' = IF front # 0 THEN front + 1 ELSE ncs
    /\ UNCHANGED <<node, sourceVars, permit, writer, front, wanted, reported, confirmed>>

on_catchup_required ==
    /\ receive(CatchupRequired)
    /\ IF front # 0
       THEN writer' = "loading_target" /\ UNCHANGED permit
       ELSE permit' = TRUE /\ UNCHANGED writer
    /\ UNCHANGED <<node, sourceVars, front, ncs, wanted, reported, confirmed>>

\* A confirmed slot, queued; the slots before it are requested over RPC.
on_slot(s) ==
    /\ receive(Message("Slot", s))
    /\ wanted' = IF s >= ncs THEN Max({s, wanted}) ELSE wanted
    /\ UNCHANGED <<node, sourceVars, permit, writer, front, ncs, reported, confirmed>>

store ==
    /\ writer = "idle"
    /\ ncs <= wanted
    /\ front' = ncs
    /\ reported' = IF front = 0 THEN ncs - 1 ELSE reported
    /\ ncs' = ncs + 1
    /\ UNCHANGED <<node, sourceVars, chan, permit, writer, wanted, confirmed>>

(***************************************************************************)
(* Catching up.  The target is read again every 2 s.  Each pass requests   *)
(* slots up to the target, as many as the concurrency allows, and stores   *)
(* what has been answered without a gap.  What is requested and not stored *)
(* when the writer is close enough stays queued.                           *)
(***************************************************************************)
load_target ==
    /\ writer = "loading_target"
    /\ ncs' = node
    /\ writer' = IF front + 1 <= node THEN "catching_up" ELSE "node_is_outdated"
    /\ UNCHANGED <<node, sourceVars, chan, permit, front, wanted, reported, confirmed>>

CloseEnough(target) == front + 3 >= target

catch_up ==
    /\ writer = "catching_up"
    /\ \E target \in {ncs, node} :
        /\ ~ CloseEnough(target)
        /\ ncs' = target
        /\ \E w \in front + 1 .. target :
            /\ wanted' = Max({w, wanted})
            /\ front' \in front + 1 .. wanted'
    /\ UNCHANGED <<node, sourceVars, chan, permit, writer, reported, confirmed>>

\* Mutant: the source is not woken.
CatchUpDoneSilent ==
    /\ writer = "catching_up"
    /\ \E target \in {ncs, node} : CloseEnough(target)
    /\ ncs' = front + 1
    /\ writer' = "idle"
    /\ UNCHANGED <<node, sourceVars, chan, permit, front, wanted, reported, confirmed>>

catch_up_done ==
    /\ writer = "catching_up"
    /\ \E target \in {ncs, node} : CloseEnough(target)
    /\ ncs' = front + 1
    /\ permit' = TRUE
    /\ writer' = "idle"
    /\ UNCHANGED <<node, sourceVars, chan, front, wanted, reported, confirmed>>

\* A request over RPC has failed for good: start2 returns the error.
http_fails ==
    /\ "http" \in Failures
    /\ \/ writer \in {"loading", "loading_target", "catching_up"}
       \/ writer = "idle" /\ ncs <= wanted
    /\ writer' = "http_failed"
    /\ UNCHANGED <<node, sourceVars, chan, permit, front, ncs, wanted, reported, confirmed>>

(***************************************************************************)
(* The readers publish, behind the writer.                                 *)
(***************************************************************************)
publish ==
    /\ \E s \in reported + 1 .. front : reported' = s /\ confirmed' = s
    /\ UNCHANGED <<node, sourceVars, chan, permit, writer, front, ncs, wanted>>

-----------------------------------------------------------------------------
(***************************************************************************)
(* The published slot is seeded with the newest stored slot, before the    *)
(* slots the operator asks for are popped from the front.                  *)
(***************************************************************************)
Init ==
    /\ node \in Slots
    /\ confirmed \in 0 .. MaxSlot
    /\ front \in 0 .. confirmed
    /\ reported = front
    /\ source = "wait_start" /\ from_slot = 0 /\ attempts = 0
    /\ received = FALSE /\ next = 0
    /\ chan = <<>> /\ permit = FALSE
    /\ writer = "starting" /\ ncs = 0 /\ wanted = 0

SourceSteps ==
    \/ started
    \/ outer
    \/ send_catchup
    \/ caught_up
    \/ connect
    \/ send_start
    \/ forward
    \/ forward_other

WriterSteps ==
    \/ notify_one
    \/ load_confirmed_slot
    \/ on_start
    \/ on_catchup_required
    \/ \E s \in Slots : on_slot(s)
    \/ store
    \/ load_target
    \/ catch_up
    \/ catch_up_done

StreamFails == connect_fails \/ stream_ends("error") \/ stream_ends("finish")

Next ==
    /\ Running
    /\ \/ produce
       \/ SourceSteps
       \/ StreamFails
       \/ WriterSteps
       \/ http_fails
       \/ publish

\* Both tasks are polled when they can go on, as long as the process is up.
Fairness ==
    /\ WF_vars(Running /\ (SourceSteps \/ StreamFails))
    /\ WF_vars(Running /\ WriterSteps)
    /\ WF_vars(Running /\ publish)

Spec == Init /\ [][Next]_vars /\ Fairness

-----------------------------------------------------------------------------
(***************************************************************************)
(* Properties.                                                             *)
(***************************************************************************)

\* Types of the variables; from_slot_attempts stays within the maximum, so
\* that the u8 of start_stream does not overflow.
TypeOK ==
    /\ node \in Slots /\ confirmed \in 0 .. MaxSlot /\ front \in 0 .. MaxSlot
    /\ wanted \in 0 .. MaxSlot /\ reported \in 0 .. MaxSlot
    /\ ncs \in 0 .. MaxSlot + 1
    /\ from_slot \in 0 .. MaxSlot + 1 /\ next \in 0 .. MaxSlot + 1
    /\ attempts \in 0 .. MaxAttempts
    /\ received \in BOOLEAN /\ permit \in BOOLEAN
    /\ source \in {"wait_start", "outer", "send_catchup", "wait_catchup",
                   "connect", "send_start", "receive", "stopped"}
    /\ writer \in {"starting", "loading", "idle", "loading_target", "catching_up",
                   "node_is_outdated", "http_failed"}
    /\ chan \in Seq(Messages) /\ Len(chan) <= Capacity

\* What the writer stores next continues the database (push_block_front
\* refuses a gap), whatever the order in which the stream is resumed, slots
\* are repeated and the node's confirmed slot is loaded.
PushesInOrder ==
    writer = "idle" /\ ncs <= wanted /\ front # 0 => ncs = front + 1

\* Comment in start_stream: a from_slot that keeps failing is given up on,
\* not retried forever.
GivesUp == []<><<connect_fails \/ stream_ends("error")>>_vars => []<>(from_slot = 0 \/ received)

\* A live stream that the bound on the chain keeps silent.
AtTheBound == source = "receive" /\ next > MaxSlot /\ chan = <<>> /\ wanted < MaxSlot

\* Unless the stream keeps failing, every slot the node confirms gets into
\* the database: resuming, catching up and connecting live leave no hole
\* and nobody waits for ever.
StoredInTheEnd ==
    []<><<StreamFails>>_vars
    \/ \A s \in Slots : (node >= s) ~> (front >= s \/ AtTheBound \/ ~ Running)
=============================================================================
