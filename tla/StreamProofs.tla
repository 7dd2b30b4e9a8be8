---------------------------- MODULE StreamProofs ----------------------------
(***************************************************************************)
(* Proofs about the stream.                                                *)
(*                                                                         *)
(* Resuming it, for any chain, number of attempts, capacity of the channel *)
(* and choice of failures: blocks are pushed in order, and the source and  *)
(* the writer catch up in lockstep.                                        *)
(*                                                                         *)
(* One connection, for any number of slots and transactions and any order  *)
(* of the node's updates: a block passed on is the whole block, statuses   *)
(* come in a sound order, only what is unknown is rejected, and what was   *)
(* seen is built.                                                          *)
(***************************************************************************)
EXTENDS StreamResume, StreamSource, SequenceTheorems, FiniteSetTheorems, WellFoundedInduction, TLAPS

-----------------------------------------------------------------------------
(***************************************************************************)
(* The invariant.                                                          *)
(***************************************************************************)
In(m) == \E i \in 1 .. Len(chan) : chan[i] = m

\* The counter of failed attempts is below the maximum while resuming.
Counting ==
    /\ source \in {"connect", "send_start", "receive"} /\ from_slot # 0 => attempts < MaxAttempts
    /\ source \in {"send_catchup", "wait_catchup"} => from_slot = 0

\* The slot the stream sends next and the one the writer stores next are set.
Cursors ==
    /\ source \in {"send_start", "receive"} => next >= 1
    /\ writer \in {"idle", "loading_target", "catching_up"} => ncs >= 1
    /\ writer = "catching_up" => ncs <= MaxSlot
    /\ writer \in {"loading_target", "catching_up"} => front # 0

\* Who waits for whom: a permit is there only for a source that waits for
\* it, and while the writer catches up the source waits and has no permit.
Lockstep ==
    /\ permit => source \in {"wait_start", "wait_catchup"}
    /\ writer = "starting" => source = "wait_start" /\ ~ permit
    /\ writer \in {"loading_target", "catching_up"} => source = "wait_catchup" /\ ~ permit

\* The source does not wait for a wakeup that has been lost: the permit is
\* there or the writer is going to give it.
NoLostWakeup ==
    Running =>
        /\ source = "wait_start" => permit \/ writer = "starting"
        /\ source = "wait_catchup" =>
               \/ permit
               \/ In(CatchupRequired)
               \/ writer \in {"loading_target", "catching_up"}

\* At most one request to catch up is under way.
OneRequest ==
    /\ source = "wait_start" => chan = <<>>
    /\ In(CatchupRequired) => /\ source = "wait_catchup" /\ ~ permit
                              /\ writer \notin {"loading_target", "catching_up"}
    /\ \A i, j \in 1 .. Len(chan) :
           chan[i] = CatchupRequired /\ chan[j] = CatchupRequired => i = j

\* The writer has not been told to start and no slot is queued.
Fresh ==
    /\ wanted = 0
    /\ \A i \in 1 .. Len(chan) : chan[i].type = "Slot" => \E j \in 1 .. i - 1 : chan[j] = Start
    /\ source = "receive" => In(Start)

\* Until the first Start next_confirmed_slot is that of the node; from then
\* on it continues the database.
Continues ==
    /\ writer \in {"starting", "loading"} => Fresh
    /\ writer = "idle" /\ front # 0 => ncs = front + 1 \/ Fresh

ResumeInv ==
    /\ TypeOK
    /\ Counting
    /\ Cursors
    /\ Lockstep
    /\ NoLostWakeup
    /\ OneRequest
    /\ Continues

-----------------------------------------------------------------------------
(***************************************************************************)
(* Helpers.                                                                *)
(***************************************************************************)

\* The constants and the numbers.
LEMMA Typed ==
    ASSUME ResumeInv
    PROVE  /\ MaxSlot \in Nat /\ MaxSlot > 0 /\ MaxAttempts \in Nat /\ Capacity \in Nat
           /\ node \in Nat /\ node >= 1 /\ node <= MaxSlot
           /\ confirmed \in Nat /\ confirmed <= MaxSlot /\ front \in Nat /\ front <= MaxSlot
           /\ wanted \in Nat /\ wanted <= MaxSlot /\ reported \in Nat /\ reported <= MaxSlot
           /\ ncs \in Nat /\ ncs <= MaxSlot + 1 /\ next \in Nat /\ next <= MaxSlot + 1
           /\ from_slot \in Nat /\ from_slot <= MaxSlot + 1
           /\ attempts \in Nat /\ attempts <= MaxAttempts
<1>1. MaxSlot \in Nat /\ MaxSlot > 0 /\ MaxAttempts \in Nat /\ Capacity \in Nat
  BY StreamResumeAssumption
<1>2. /\ node \in 1 .. MaxSlot /\ confirmed \in 0 .. MaxSlot /\ front \in 0 .. MaxSlot
      /\ wanted \in 0 .. MaxSlot /\ reported \in 0 .. MaxSlot /\ ncs \in 0 .. MaxSlot + 1
      /\ from_slot \in 0 .. MaxSlot + 1 /\ next \in 0 .. MaxSlot + 1 /\ attempts \in 0 .. MaxAttempts
  BY DEF ResumeInv, TypeOK, Slots
<1> QED  BY <1>1, <1>2

\* The greater of two numbers.
LEMMA MaxOfTwo ==
    ASSUME NEW a \in Nat, NEW b \in Nat
    PROVE  Max({a, b}) \in {a, b} /\ a <= Max({a, b}) /\ b <= Max({a, b})
<1>1. \E x \in {a, b} : \A y \in {a, b} : x >= y  OBVIOUS
<1>2. Max({a, b}) \in {a, b} /\ \A y \in {a, b} : Max({a, b}) >= y  BY <1>1, Zenon DEF Max
<1> QED  BY <1>2

-----------------------------------------------------------------------------
(***************************************************************************)
(* Steps that leave the channel alone.                                     *)
(***************************************************************************)

\* The node confirms another slot.
LEMMA ProduceStep ==
    ASSUME ResumeInv, Running, produce
    PROVE  ResumeInv'
<1> USE Typed DEF produce, sourceVars, writerVars
<1>1. TypeOK'  BY DEF ResumeInv, TypeOK, Slots, Counting, Cursors
<1>2. Counting' /\ Cursors'  BY DEF ResumeInv, Counting, Cursors
<1>3. Lockstep' /\ NoLostWakeup'
  BY DEF ResumeInv, Lockstep, NoLostWakeup, OneRequest, Running, In
<1>4. OneRequest'  BY DEF ResumeInv, Lockstep, OneRequest, In
<1>5. Continues'  BY DEF ResumeInv, Continues, Fresh, In
<1> QED  BY <1>1, <1>2, <1>3, <1>4, <1>5 DEF ResumeInv

\* The first permit is taken.
LEMMA StartedStep ==
    ASSUME ResumeInv, Running, started
    PROVE  ResumeInv'
<1> USE Typed DEF started, sourceVars, writerVars, notified
<1>1. TypeOK'  BY DEF ResumeInv, TypeOK, Slots, Counting, Cursors
<1>2. Counting' /\ Cursors'  BY DEF ResumeInv, Counting, Cursors
<1>3. Lockstep' /\ NoLostWakeup'
  BY DEF ResumeInv, Lockstep, NoLostWakeup, OneRequest, Running, In
<1>4. OneRequest'  BY DEF ResumeInv, Lockstep, OneRequest, In
<1>5. Continues'  BY DEF ResumeInv, Continues, Fresh, In
<1> QED  BY <1>1, <1>2, <1>3, <1>4, <1>5 DEF ResumeInv

\* The next attempt: resuming only below the maximum.
LEMMA OuterStep ==
    ASSUME ResumeInv, Running, outer
    PROVE  ResumeInv'
<1> USE Typed DEF outer, sourceVars, writerVars
<1>1. TypeOK'
  <2>1. from_slot' \in 0 .. MaxSlot + 1  OBVIOUS
  <2>2. source' \in {"send_catchup", "connect"} /\ received' \in BOOLEAN  OBVIOUS
  <2> QED  BY <2>1, <2>2 DEF ResumeInv, TypeOK
<1>2. Counting' /\ Cursors'  BY DEF ResumeInv, Counting, Cursors
<1>3. Lockstep' /\ NoLostWakeup'
  BY DEF ResumeInv, Lockstep, NoLostWakeup, OneRequest, Running, In
<1>4. OneRequest'  BY DEF ResumeInv, Lockstep, OneRequest, In
<1>5. Continues'  BY DEF ResumeInv, Continues, Fresh, In
<1> QED  BY <1>1, <1>2, <1>3, <1>4, <1>5 DEF ResumeInv

\* The permit of a catch-up is taken; from_slot is None.
LEMMA CaughtUpStep ==
    ASSUME ResumeInv, Running, caught_up
    PROVE  ResumeInv'
<1> USE Typed DEF caught_up, sourceVars, writerVars, notified
<1>1. TypeOK'
  <2>1. attempts' \in 0 .. MaxAttempts  OBVIOUS
  <2>2. permit' \in BOOLEAN  BY Zenon
  <2> QED  BY <2>1, <2>2 DEF ResumeInv, TypeOK
<1>2. Counting' /\ Cursors'  BY DEF ResumeInv, Counting, Cursors
<1>3. Lockstep' /\ NoLostWakeup'
  BY DEF ResumeInv, Lockstep, NoLostWakeup, OneRequest, Running, In
<1>4. OneRequest'  BY DEF ResumeInv, Lockstep, OneRequest, In
<1>5. Continues'  BY DEF ResumeInv, Continues, Fresh, In
<1> QED  BY <1>1, <1>2, <1>3, <1>4, <1>5 DEF ResumeInv

\* A failed attempt to resume is counted.
LEMMA ConnectFailsStep ==
    ASSUME ResumeInv, Running, connect_fails
    PROVE  ResumeInv'
<1> USE Typed DEF connect_fails, sourceVars, writerVars, Attempts
<1>1. TypeOK'  BY DEF ResumeInv, TypeOK, Slots, Counting, Cursors
<1>2. Counting' /\ Cursors'  BY DEF ResumeInv, Counting, Cursors
<1>3. Lockstep' /\ NoLostWakeup'
  BY DEF ResumeInv, Lockstep, NoLostWakeup, OneRequest, Running, In
<1>4. OneRequest'  BY DEF ResumeInv, Lockstep, OneRequest, In
<1>5. Continues'  BY DEF ResumeInv, Continues, Fresh, In
<1> QED  BY <1>1, <1>2, <1>3, <1>4, <1>5 DEF ResumeInv

\* The stream is there.
LEMMA ConnectStep ==
    ASSUME ResumeInv, Running, connect
    PROVE  ResumeInv'
<1> USE Typed DEF connect, sourceVars, writerVars
<1>1. TypeOK'  BY DEF ResumeInv, TypeOK, Slots, Counting, Cursors
<1>2. Counting' /\ Cursors'  BY DEF ResumeInv, Counting, Cursors
<1>3. Lockstep' /\ NoLostWakeup'
  BY DEF ResumeInv, Lockstep, NoLostWakeup, OneRequest, Running, In
<1>4. OneRequest'  BY DEF ResumeInv, Lockstep, OneRequest, In
<1>5. Continues'  BY DEF ResumeInv, Continues, Fresh, In
<1> QED  BY <1>1, <1>2, <1>3, <1>4, <1>5 DEF ResumeInv

\* A message that confirms nothing.
LEMMA ForwardOtherStep ==
    ASSUME ResumeInv, Running, forward_other
    PROVE  ResumeInv'
<1> USE Typed DEF forward_other, sourceVars, writerVars
<1>1. TypeOK'  BY DEF ResumeInv, TypeOK, Slots, Counting, Cursors
<1>2. Counting' /\ Cursors'  BY DEF ResumeInv, Counting, Cursors
<1>3. Lockstep' /\ NoLostWakeup'
  BY DEF ResumeInv, Lockstep, NoLostWakeup, OneRequest, Running, In
<1>4. OneRequest'  BY DEF ResumeInv, Lockstep, OneRequest, In
<1>5. Continues'  BY DEF ResumeInv, Continues, Fresh, In
<1> QED  BY <1>1, <1>2, <1>3, <1>4, <1>5 DEF ResumeInv

\* The stream ends, with an error or without.
LEMMA StreamEndsStep ==
    ASSUME ResumeInv, Running, NEW how, stream_ends(how)
    PROVE  ResumeInv'
<1> USE Typed DEF stream_ends, sourceVars, writerVars, Attempts
<1>1. TypeOK'  BY DEF ResumeInv, TypeOK, Slots, Counting, Cursors
<1>2. Counting' /\ Cursors'  BY DEF ResumeInv, Counting, Cursors
<1>3. Lockstep' /\ NoLostWakeup'
  BY DEF ResumeInv, Lockstep, NoLostWakeup, OneRequest, Running, In
<1>4. OneRequest'  BY DEF ResumeInv, Lockstep, OneRequest, In
<1>5. Continues'  BY DEF ResumeInv, Continues, Fresh, In
<1> QED  BY <1>1, <1>2, <1>3, <1>4, <1>5 DEF ResumeInv

\* The permit to start.
LEMMA NotifyOneStep ==
    ASSUME ResumeInv, Running, notify_one
    PROVE  ResumeInv'
<1> USE Typed DEF notify_one, sourceVars, writerVars
<1>1. TypeOK'  BY DEF ResumeInv, TypeOK, Slots, Counting, Cursors
<1>2. Counting' /\ Cursors'  BY DEF ResumeInv, Counting, Cursors
<1>3. Lockstep' /\ NoLostWakeup'
  BY DEF ResumeInv, Lockstep, NoLostWakeup, OneRequest, Running, In
<1>4. OneRequest'  BY DEF ResumeInv, Lockstep, OneRequest, In
<1>5. Continues'  BY DEF ResumeInv, Continues, Fresh, In
<1> QED  BY <1>1, <1>2, <1>3, <1>4, <1>5 DEF ResumeInv

\* The confirmed slot of the node, before any slot is queued.
LEMMA LoadConfirmedStep ==
    ASSUME ResumeInv, Running, load_confirmed_slot
    PROVE  ResumeInv'
<1> USE Typed DEF load_confirmed_slot, sourceVars, writerVars
<1>1. TypeOK'  BY DEF ResumeInv, TypeOK, Slots, Counting, Cursors
<1>2. Counting' /\ Cursors'  BY DEF ResumeInv, Counting, Cursors
<1>3. Lockstep' /\ NoLostWakeup'
  BY DEF ResumeInv, Lockstep, NoLostWakeup, OneRequest, Running, In
<1>4. OneRequest'  BY DEF ResumeInv, Lockstep, OneRequest, In
<1>5. Continues'  BY DEF ResumeInv, Continues, Fresh, In
<1> QED  BY <1>1, <1>2, <1>3, <1>4, <1>5 DEF ResumeInv

\* The next slot is stored.
LEMMA StoreStep ==
    ASSUME ResumeInv, Running, store
    PROVE  ResumeInv'
<1> USE Typed DEF store, sourceVars, writerVars
<1>1. TypeOK'  BY DEF ResumeInv, TypeOK, Slots, Counting, Cursors
<1>2. Counting' /\ Cursors'  BY DEF ResumeInv, Counting, Cursors
<1>3. Lockstep' /\ NoLostWakeup'
  BY DEF ResumeInv, Lockstep, NoLostWakeup, OneRequest, Running, In
<1>4. OneRequest'  BY DEF ResumeInv, Lockstep, OneRequest, In
<1>5. Continues'  BY DEF ResumeInv, Continues, Fresh, In
<1> QED  BY <1>1, <1>2, <1>3, <1>4, <1>5 DEF ResumeInv

\* What to catch up to.
LEMMA LoadTargetStep ==
    ASSUME ResumeInv, Running, load_target
    PROVE  ResumeInv'
<1> USE Typed DEF load_target, sourceVars, writerVars
<1>1. TypeOK'  BY DEF ResumeInv, TypeOK, Slots, Counting, Cursors
<1>2. Counting' /\ Cursors'  BY DEF ResumeInv, Counting, Cursors
<1>3. Lockstep' /\ NoLostWakeup'
  BY DEF ResumeInv, Lockstep, NoLostWakeup, OneRequest, Running, In
<1>4. OneRequest'  BY DEF ResumeInv, Lockstep, OneRequest, In
<1>5. Continues'  BY DEF ResumeInv, Continues, Fresh, In
<1> QED  BY <1>1, <1>2, <1>3, <1>4, <1>5 DEF ResumeInv

\* A pass of the catch-up.
LEMMA CatchUpStep ==
    ASSUME ResumeInv, Running, catch_up
    PROVE  ResumeInv'
<1> USE Typed DEF catch_up, sourceVars, writerVars, CloseEnough
<1>1. TypeOK'
  <2>1. ncs <= MaxSlot  BY DEF ResumeInv, Cursors
  <2>2. PICK target \in {ncs, node} :
          /\ ncs' = target
          /\ \E w \in front + 1 .. target :
              /\ wanted' = Max({w, wanted})
              /\ front' \in front + 1 .. wanted'
    OBVIOUS
  <2>3. PICK w \in front + 1 .. target : wanted' = Max({w, wanted}) /\ front' \in front + 1 .. wanted'
    BY <2>2
  <2>4. w \in Nat /\ w <= MaxSlot  BY <2>1
  <2>5. wanted' \in {w, wanted}  BY <2>3, <2>4, MaxOfTwo
  <2>6. wanted' \in 0 .. MaxSlot /\ front' \in 0 .. MaxSlot /\ ncs' \in 0 .. MaxSlot + 1
    BY <2>1, <2>2, <2>3, <2>4, <2>5
  <2> QED  BY <2>6 DEF ResumeInv, TypeOK
<1>2. Counting' /\ Cursors'  BY DEF ResumeInv, Counting, Cursors
<1>3. Lockstep' /\ NoLostWakeup'
  BY DEF ResumeInv, Lockstep, NoLostWakeup, OneRequest, Running, In
<1>4. OneRequest'  BY DEF ResumeInv, Lockstep, OneRequest, In
<1>5. Continues'  BY DEF ResumeInv, Continues, Fresh, In
<1> QED  BY <1>1, <1>2, <1>3, <1>4, <1>5 DEF ResumeInv

\* The catch-up ends where the database ends.
LEMMA CatchUpDoneStep ==
    ASSUME ResumeInv, Running, catch_up_done
    PROVE  ResumeInv'
<1> USE Typed DEF catch_up_done, sourceVars, writerVars, CloseEnough
<1>1. TypeOK'  BY DEF ResumeInv, TypeOK, Slots, Counting, Cursors
<1>2. Counting' /\ Cursors'  BY DEF ResumeInv, Counting, Cursors
<1>3. Lockstep' /\ NoLostWakeup'
  BY DEF ResumeInv, Lockstep, NoLostWakeup, OneRequest, Running, In
<1>4. OneRequest'  BY DEF ResumeInv, Lockstep, OneRequest, In
<1>5. Continues'  BY DEF ResumeInv, Continues, Fresh, In
<1> QED  BY <1>1, <1>2, <1>3, <1>4, <1>5 DEF ResumeInv

\* The writer returns with an error.
LEMMA HttpFailsStep ==
    ASSUME ResumeInv, Running, http_fails
    PROVE  ResumeInv'
<1> USE Typed DEF http_fails, sourceVars, writerVars
<1>1. TypeOK'  BY DEF ResumeInv, TypeOK, Slots, Counting, Cursors
<1>2. Counting' /\ Cursors'  BY DEF ResumeInv, Counting, Cursors
<1>3. Lockstep' /\ NoLostWakeup'
  BY DEF ResumeInv, Lockstep, NoLostWakeup, OneRequest, Running, In
<1>4. OneRequest'  BY DEF ResumeInv, Lockstep, OneRequest, In
<1>5. Continues'  BY DEF ResumeInv, Continues, Fresh, In
<1> QED  BY <1>1, <1>2, <1>3, <1>4, <1>5 DEF ResumeInv

\* A reader publishes.
LEMMA PublishStep ==
    ASSUME ResumeInv, Running, publish
    PROVE  ResumeInv'
<1> USE Typed DEF publish, sourceVars, writerVars
<1>1. TypeOK'  BY DEF ResumeInv, TypeOK, Slots, Counting, Cursors
<1>2. Counting' /\ Cursors'  BY DEF ResumeInv, Counting, Cursors
<1>3. Lockstep' /\ NoLostWakeup'
  BY DEF ResumeInv, Lockstep, NoLostWakeup, OneRequest, Running, In
<1>4. OneRequest'  BY DEF ResumeInv, Lockstep, OneRequest, In
<1>5. Continues'  BY DEF ResumeInv, Continues, Fresh, In
<1> QED  BY <1>1, <1>2, <1>3, <1>4, <1>5 DEF ResumeInv

-----------------------------------------------------------------------------
(***************************************************************************)
(* The channel.                                                            *)
(***************************************************************************)

\* A message is sent.
LEMMA Sent ==
    ASSUME ResumeInv, NEW m \in Messages, send(m)
    PROVE  /\ chan' \in Seq(Messages) /\ Len(chan') <= Capacity
           /\ Len(chan) \in Nat /\ Len(chan') = Len(chan) + 1 /\ chan'[Len(chan) + 1] = m
           /\ \A i \in 1 .. Len(chan) : chan'[i] = chan[i]
           /\ 1 .. Len(chan') = 1 .. Len(chan) \union {Len(chan) + 1}
<1>1. chan \in Seq(Messages) /\ chan' = Append(chan, m) /\ Len(chan) < Capacity
  BY DEF ResumeInv, TypeOK, send
<1>2. Len(chan) \in Nat /\ Len(chan') = Len(chan) + 1  BY <1>1
<1>3. chan' \in Seq(Messages) /\ chan'[Len(chan) + 1] = m  BY <1>1
<1>4. \A i \in 1 .. Len(chan) : chan'[i] = chan[i]  BY <1>1
<1>5. Capacity \in Nat  BY Typed
<1>6. 1 .. Len(chan') = 1 .. Len(chan) \union {Len(chan) + 1}  BY <1>2
<1> QED  BY <1>1, <1>2, <1>3, <1>4, <1>5, <1>6

\* The first message is received.
LEMMA Received ==
    ASSUME ResumeInv, NEW m, receive(m)
    PROVE  /\ chan' \in Seq(Messages) /\ Len(chan') <= Capacity
           /\ Len(chan) \in Nat /\ Len(chan) >= 1 /\ Len(chan') = Len(chan) - 1
           /\ chan[1] = m /\ \A i \in 1 .. Len(chan') : chan'[i] = chan[i + 1]
<1>1. chan \in Seq(Messages) /\ chan' = Tail(chan) /\ chan # <<>> /\ Head(chan) = m /\ Len(chan) <= Capacity
  BY DEF ResumeInv, TypeOK, receive
<1>2. Len(chan) \in Nat /\ Len(chan) >= 1  BY <1>1
<1>3. chan' \in Seq(Messages) /\ Len(chan') = Len(chan) - 1  BY <1>1, <1>2
<1>4. chan[1] = m  BY <1>1, <1>2
<1>5. \A i \in 1 .. Len(chan') : chan'[i] = chan[i + 1]  BY <1>1, <1>2, <1>3
<1>6. Capacity \in Nat  BY Typed
<1> QED  BY <1>1, <1>2, <1>3, <1>4, <1>5, <1>6

\* The messages are different.
LEMMA Different ==
    /\ Start \in Messages /\ CatchupRequired \in Messages /\ Start # CatchupRequired
    /\ Start.type # "Slot" /\ CatchupRequired.type # "Slot"
    /\ \A s \in Slots : /\ Message("Slot", s) \in Messages /\ Message("Slot", s).type = "Slot"
                        /\ Message("Slot", s) # Start /\ Message("Slot", s) # CatchupRequired
<1>1. Start \in Messages /\ CatchupRequired \in Messages  BY DEF Messages
<1>2. /\ Start.type = "Start" /\ CatchupRequired.type = "CatchupRequired"
  BY DEF Start, CatchupRequired, Message
<1>3. \A s \in Slots : Message("Slot", s).type = "Slot"  BY DEF Message
<1>4. \A s \in Slots : Message("Slot", s) \in Messages  BY DEF Messages
<1> QED  BY <1>1, <1>2, <1>3, <1>4

\* What is in the channel after a message is sent.
LEMMA InSent ==
    ASSUME ResumeInv, NEW m \in Messages, send(m), NEW x
    PROVE  In(x)' <=> In(x) \/ x = m
  BY Sent DEF In

\* What is in the channel after a message is received.
LEMMA InReceived ==
    ASSUME ResumeInv, NEW m, receive(m), NEW x
    PROVE  /\ In(m)
           /\ In(x)' => \E i \in 2 .. Len(chan) : chan[i] = x
           /\ In(x) => x = m \/ In(x)'
<1>1. In(m)  BY Received DEF In
<1>2. In(x)' => \E i \in 2 .. Len(chan) : chan[i] = x
  <2> SUFFICES ASSUME In(x)' PROVE \E i \in 2 .. Len(chan) : chan[i] = x  OBVIOUS
  <2>1. PICK i \in 1 .. Len(chan') : chan'[i] = x  BY DEF In
  <2>2. i + 1 \in 2 .. Len(chan) /\ chan[i + 1] = x  BY <2>1, Received
  <2> QED  BY <2>2
<1>3. In(x) => x = m \/ In(x)'
  <2> SUFFICES ASSUME In(x), x # m PROVE In(x)'  OBVIOUS
  <2>1. PICK i \in 1 .. Len(chan) : chan[i] = x  BY DEF In
  <2>2. i # 1  BY <2>1, Received
  <2>3. i - 1 \in 1 .. Len(chan') /\ chan'[i - 1] = x  BY <2>1, <2>2, Received
  <2> QED  BY <2>3 DEF In
<1> QED  BY <1>1, <1>2, <1>3

\* A message that is not a slot, or comes after a Start, leaves the writer
\* fresh.
LEMMA FreshSent ==
    ASSUME ResumeInv, Fresh, NEW m \in Messages, send(m), UNCHANGED wanted,
           m.type = "Slot" => In(Start), source' = "receive" => In(Start)'
    PROVE  Fresh'
<1> SUFFICES ASSUME NEW i \in 1 .. Len(chan'), chan'[i].type = "Slot"
             PROVE  \E j \in 1 .. i - 1 : chan'[j] = Start
  BY DEF Fresh
<1>1. CASE i \in 1 .. Len(chan)
  <2>1. PICK j \in 1 .. i - 1 : chan[j] = Start  BY <1>1, Sent DEF Fresh
  <2>2. j \in 1 .. Len(chan)  BY <1>1, Sent
  <2> QED  BY <2>1, <2>2, Sent
<1>2. CASE i = Len(chan) + 1
  <2>1. In(Start)  BY <1>2, Sent
  <2>2. PICK j \in 1 .. Len(chan) : chan[j] = Start  BY <2>1 DEF In
  <2>3. j \in 1 .. i - 1  BY <1>2, Sent
  <2> QED  BY <2>2, <2>3, Sent
<1> QED  BY <1>1, <1>2, Sent

\* A request to catch up is sent when none is under way, and waited for.
LEMMA SendCatchupStep ==
    ASSUME ResumeInv, Running, send_catchup
    PROVE  ResumeInv'
<1> USE Typed, Different DEF send_catchup, writerVars
<1>1. TypeOK'  BY Sent DEF ResumeInv, TypeOK
<1>2. Counting' /\ Cursors'  BY DEF ResumeInv, Counting, Cursors
<1>3. ~ In(CatchupRequired) /\ ~ permit /\ writer \notin {"starting", "loading_target", "catching_up"}
  BY DEF ResumeInv, Lockstep, OneRequest
<1>4. In(CatchupRequired)'  BY InSent
<1>5. Lockstep' /\ NoLostWakeup'  BY <1>3, <1>4 DEF Lockstep, NoLostWakeup
<1>6. OneRequest'
  <2>1. \A i, j \in 1 .. Len(chan') :
            chan'[i] = CatchupRequired /\ chan'[j] = CatchupRequired => i = j
    BY <1>3, Sent DEF In
  <2> QED  BY <1>3, <2>1 DEF OneRequest
<1>7. Continues'
  <2>1. Fresh => Fresh'  BY FreshSent
  <2> QED  BY <2>1 DEF ResumeInv, Continues
<1> QED  BY <1>1, <1>2, <1>5, <1>6, <1>7 DEF ResumeInv

\* Start, before the slots of the stream.
LEMMA SendStartStep ==
    ASSUME ResumeInv, Running, send_start
    PROVE  ResumeInv'
<1> USE Typed, Different DEF send_start, writerVars
<1>1. TypeOK'  BY Sent DEF ResumeInv, TypeOK
<1>2. Counting' /\ Cursors'  BY DEF ResumeInv, Counting, Cursors
<1>3. ~ In(CatchupRequired) /\ ~ permit /\ writer \notin {"starting", "loading_target", "catching_up"}
  BY DEF ResumeInv, Lockstep, OneRequest
<1>4. ~ In(CatchupRequired)' /\ In(Start)'  BY <1>3, InSent
<1>5. Lockstep' /\ NoLostWakeup'  BY <1>3 DEF Lockstep, NoLostWakeup
<1>6. OneRequest'  BY <1>4 DEF OneRequest, In
<1>7. Continues'
  <2>1. Fresh => Fresh'  BY <1>4, FreshSent
  <2> QED  BY <2>1 DEF ResumeInv, Continues
<1> QED  BY <1>1, <1>2, <1>5, <1>6, <1>7 DEF ResumeInv

\* A slot of the stream.
LEMMA ForwardStep ==
    ASSUME ResumeInv, Running, forward
    PROVE  ResumeInv'
<1> USE Typed DEF forward, writerVars
<1>0. next \in Slots /\ next <= MaxSlot  BY DEF ResumeInv, Cursors, Slots
<1> DEFINE m == Message("Slot", next)
<1>1. m \in Messages /\ m.type = "Slot" /\ m # CatchupRequired /\ m # Start /\ send(m)
  BY <1>0, Different
<1> HIDE DEF m
<1>2. TypeOK'
  <2>1. chan' \in Seq(Messages) /\ Len(chan') <= Capacity  BY <1>1, Sent
  <2>2. next' \in 0 .. MaxSlot + 1 /\ attempts' \in 0 .. MaxAttempts  BY <1>0
  <2>3. received' \in BOOLEAN  BY Zenon
  <2> QED  BY <2>1, <2>2, <2>3 DEF ResumeInv, TypeOK
<1>3. Counting' /\ Cursors'  BY <1>0 DEF ResumeInv, Counting, Cursors
<1>4. ~ In(CatchupRequired) /\ ~ permit /\ writer \notin {"starting", "loading_target", "catching_up"}
  BY DEF ResumeInv, Lockstep, OneRequest
<1>5. ~ In(CatchupRequired)'  BY <1>1, <1>4, InSent
<1>6. Lockstep' /\ NoLostWakeup'  BY <1>4 DEF Lockstep, NoLostWakeup
<1>7. OneRequest'  BY <1>5 DEF OneRequest, In
<1>8. Continues'
  <2>1. Fresh => Fresh'
    <3> SUFFICES ASSUME Fresh PROVE Fresh'  OBVIOUS
    <3>1. In(Start)  BY DEF Fresh
    <3>2. In(Start)'  BY <1>1, <3>1, InSent
    <3> QED  BY <1>1, <3>1, <3>2, FreshSent
  <2> QED  BY <2>1 DEF ResumeInv, Continues
<1> QED  BY <1>2, <1>3, <1>6, <1>7, <1>8 DEF ResumeInv

\* A request to catch up behind the message received stays the only one.
LEMMA OneRequestReceived ==
    ASSUME ResumeInv, NEW m, receive(m)
    PROVE  /\ source # "wait_start"
           /\ m # CatchupRequired => (In(CatchupRequired)' <=> In(CatchupRequired))
           /\ m = CatchupRequired => ~ In(CatchupRequired)'
           /\ \A i, j \in 1 .. Len(chan') :
                  chan'[i] = CatchupRequired /\ chan'[j] = CatchupRequired => i = j
<1> USE Typed, Received
<1>1. source # "wait_start"  BY DEF ResumeInv, OneRequest, receive
<1>2. m # CatchupRequired => (In(CatchupRequired)' <=> In(CatchupRequired))
  <2>1. In(CatchupRequired)' => In(CatchupRequired)
    <3>1. In(CatchupRequired)' => \E i \in 2 .. Len(chan) : chan[i] = CatchupRequired  BY InReceived
    <3> QED  BY <3>1 DEF In
  <2>2. In(CatchupRequired) => CatchupRequired = m \/ In(CatchupRequired)'  BY InReceived
  <2> QED  BY <2>1, <2>2
<1>3. m = CatchupRequired => ~ In(CatchupRequired)'
  <2> SUFFICES ASSUME m = CatchupRequired, In(CatchupRequired)' PROVE FALSE  OBVIOUS
  <2>1. PICK i \in 2 .. Len(chan) : chan[i] = CatchupRequired  BY InReceived
  <2>2. i \in 1 .. Len(chan) /\ 1 \in 1 .. Len(chan) /\ i # 1 /\ chan[1] = CatchupRequired
    BY <2>1
  <2> QED  BY <2>1, <2>2 DEF ResumeInv, OneRequest
<1>4. \A i, j \in 1 .. Len(chan') :
          chan'[i] = CatchupRequired /\ chan'[j] = CatchupRequired => i = j
  <2> TAKE i, j \in 1 .. Len(chan')
  <2>0. Len(chan) \in Nat /\ Len(chan') \in Nat /\ Len(chan') = Len(chan) - 1  OBVIOUS
  <2>1. i + 1 \in 1 .. Len(chan) /\ j + 1 \in 1 .. Len(chan)  BY <2>0
  <2>2. chan'[i] = chan[i + 1] /\ chan'[j] = chan[j + 1]  OBVIOUS
  <2>3. chan[i + 1] = CatchupRequired /\ chan[j + 1] = CatchupRequired => i + 1 = j + 1
    BY <2>1 DEF ResumeInv, OneRequest
  <2> QED  BY <2>2, <2>3
<1> QED  BY <1>1, <1>2, <1>3, <1>4

\* Start: next_confirmed_slot continues the database.
LEMMA OnStartStep ==
    ASSUME ResumeInv, Running, on_start
    PROVE  ResumeInv'
<1> USE Typed, Different DEF on_start, sourceVars
<1>0. writer = "idle" /\ receive(Start)  BY DEF receive
<1>1. TypeOK'
  <2>1. chan' \in Seq(Messages) /\ Len(chan') <= Capacity  BY Received
  <2>2. ncs' \in 0 .. MaxSlot + 1  OBVIOUS
  <2> QED  BY <2>1, <2>2 DEF ResumeInv, TypeOK
<1>2. Counting' /\ Cursors'  BY <1>0 DEF ResumeInv, Counting, Cursors
<1>3. In(CatchupRequired)' <=> In(CatchupRequired)  BY <1>0, OneRequestReceived
<1>4. Lockstep' /\ NoLostWakeup'
  BY <1>0, <1>3 DEF ResumeInv, Lockstep, NoLostWakeup, Running
<1>5. OneRequest'
  BY <1>0, <1>3, OneRequestReceived DEF ResumeInv, OneRequest
<1>6. Continues'  BY <1>0 DEF Continues
<1> QED  BY <1>1, <1>2, <1>4, <1>5, <1>6 DEF ResumeInv

\* CatchupRequired: the writer catches up, or has nothing to start from and
\* wakes the source at once.
LEMMA OnCatchupRequiredStep ==
    ASSUME ResumeInv, Running, on_catchup_required
    PROVE  ResumeInv'
<1> USE Typed, Different DEF on_catchup_required, sourceVars
<1>0. writer = "idle" /\ receive(CatchupRequired)  BY DEF receive
<1>1. TypeOK'
  <2>1. chan' \in Seq(Messages) /\ Len(chan') <= Capacity  BY Received
  <2>2. permit' \in BOOLEAN
    <3>1. permit \in BOOLEAN  BY DEF ResumeInv, TypeOK
    <3> QED  BY <3>1, Zenon
  <2>3. writer' \in {"idle", "loading_target"}  BY <1>0
  <2> QED  BY <2>1, <2>2, <2>3 DEF ResumeInv, TypeOK
<1>2. Counting' /\ Cursors'  BY <1>0 DEF ResumeInv, Counting, Cursors
<1>3. source = "wait_catchup" /\ ~ permit
  BY <1>0, InReceived DEF ResumeInv, OneRequest
<1>4. ~ In(CatchupRequired)'  BY <1>0, OneRequestReceived
<1>5. Lockstep' /\ NoLostWakeup'  BY <1>0, <1>3 DEF Lockstep, NoLostWakeup
<1>6. OneRequest'  BY <1>3, <1>4, OneRequestReceived DEF OneRequest
<1>7. Continues'  BY <1>0 DEF Continues
<1> QED  BY <1>1, <1>2, <1>5, <1>6, <1>7 DEF ResumeInv

\* A slot is queued: not before the writer was told to start.
LEMMA OnSlotStep ==
    ASSUME ResumeInv, Running, NEW s \in Slots, on_slot(s)
    PROVE  ResumeInv'
<1> USE Typed DEF on_slot, sourceVars
<1> DEFINE m == Message("Slot", s)
<1>0. writer = "idle" /\ receive(m) /\ m.type = "Slot" /\ m # CatchupRequired
  BY Different DEF receive
<1> HIDE DEF m
<1>1. TypeOK'
  <2>1. chan' \in Seq(Messages) /\ Len(chan') <= Capacity  BY <1>0, Received
  <2>2. s \in Nat /\ s <= MaxSlot  BY DEF Slots
  <2>3. Max({s, wanted}) \in {s, wanted}  BY <2>2, MaxOfTwo
  <2>4. wanted' \in 0 .. MaxSlot  BY <2>2, <2>3
  <2> QED  BY <2>1, <2>4 DEF ResumeInv, TypeOK
<1>2. Counting' /\ Cursors'  BY <1>0 DEF ResumeInv, Counting, Cursors
<1>3. In(CatchupRequired)' <=> In(CatchupRequired)  BY <1>0, OneRequestReceived
<1>4. Lockstep' /\ NoLostWakeup'
  BY <1>0, <1>3 DEF ResumeInv, Lockstep, NoLostWakeup, Running
<1>5. OneRequest'
  BY <1>0, <1>3, OneRequestReceived DEF ResumeInv, OneRequest
<1>6. Continues'
  <2>1. ~ Fresh
    <3>1. 1 \in 1 .. Len(chan) /\ chan[1].type = "Slot"  BY <1>0, Received
    <3> QED  BY <3>1 DEF Fresh
  <2> QED  BY <1>0, <2>1 DEF ResumeInv, Continues
<1> QED  BY <1>1, <1>2, <1>4, <1>5, <1>6 DEF ResumeInv

-----------------------------------------------------------------------------
(***************************************************************************)
(* The theorems.                                                           *)
(***************************************************************************)

\* Nothing is sent or queued at first.
LEMMA InitResume == Init => ResumeInv
<1> SUFFICES ASSUME Init PROVE ResumeInv  OBVIOUS
<1>0. MaxSlot \in Nat /\ MaxSlot > 0 /\ MaxAttempts \in Nat /\ Capacity \in Nat
  BY StreamResumeAssumption
<1>1. chan = <<>> /\ chan \in Seq(Messages) /\ Len(chan) = 0  BY DEF Init
<1>2. TypeOK
  <2>1. /\ node \in Slots /\ confirmed \in 0 .. MaxSlot /\ front \in 0 .. MaxSlot
        /\ wanted \in 0 .. MaxSlot /\ reported \in 0 .. MaxSlot /\ ncs \in 0 .. MaxSlot + 1
        /\ from_slot \in 0 .. MaxSlot + 1 /\ next \in 0 .. MaxSlot + 1
        /\ attempts \in 0 .. MaxAttempts
    BY <1>0 DEF Init
  <2>2. received \in BOOLEAN /\ permit \in BOOLEAN  BY Zenon DEF Init
  <2> QED  BY <1>0, <1>1, <2>1, <2>2 DEF Init, TypeOK
<1>3. Counting /\ Cursors  BY DEF Init, Counting, Cursors
<1>4. Lockstep /\ NoLostWakeup  BY DEF Init, Lockstep, NoLostWakeup
<1>5. OneRequest /\ Continues  BY <1>1 DEF Init, OneRequest, Continues, Fresh, In
<1> QED  BY <1>2, <1>3, <1>4, <1>5 DEF ResumeInv

\* The invariant holds of every state, for any length of the chain, number of
\* attempts, capacity of the channel and choice of failures.
THEOREM ResumeInvariant == Spec => []ResumeInv
<1>1. ResumeInv /\ [Next]_vars => ResumeInv'
  <2> SUFFICES ASSUME ResumeInv, [Next]_vars PROVE ResumeInv'  OBVIOUS
  <2>1. CASE UNCHANGED vars
    <3> USE <2>1 DEF vars
    <3>1. TypeOK' /\ Counting' /\ Cursors'  BY DEF ResumeInv, TypeOK, Counting, Cursors
    <3>2. Lockstep' /\ NoLostWakeup' /\ OneRequest'
      BY DEF ResumeInv, Lockstep, NoLostWakeup, OneRequest, Running, In
    <3>3. Continues'  BY DEF ResumeInv, Continues, Fresh, In
    <3> QED  BY <3>1, <3>2, <3>3 DEF ResumeInv
  <2>2. CASE Next
    <3>1. Running  BY <2>2 DEF Next
    <3>2. CASE SourceSteps
      BY <3>1, <3>2, StartedStep, OuterStep, SendCatchupStep, CaughtUpStep, ConnectStep,
         SendStartStep, ForwardStep, ForwardOtherStep DEF SourceSteps
    <3>3. CASE WriterSteps
      BY <3>1, <3>3, NotifyOneStep, LoadConfirmedStep, OnStartStep, OnCatchupRequiredStep,
         OnSlotStep, StoreStep, LoadTargetStep, CatchUpStep, CatchUpDoneStep DEF WriterSteps
    <3>4. CASE StreamFails  BY <3>1, <3>4, ConnectFailsStep, StreamEndsStep DEF StreamFails
    <3>5. CASE produce \/ http_fails \/ publish
      BY <3>1, <3>5, ProduceStep, HttpFailsStep, PublishStep
    <3> QED  BY <2>2, <3>2, <3>3, <3>4, <3>5 DEF Next
  <2> QED  BY <2>1, <2>2
<1> QED  BY <1>1, InitResume, PTL DEF Spec

\* push_block_front never sees a gap: what the writer stores next continues
\* the database, however the stream is resumed.
THEOREM PushesInOrderAlways == Spec => []PushesInOrder
<1>1. ResumeInv => PushesInOrder
  <2> SUFFICES ASSUME ResumeInv, writer = "idle", ncs <= wanted, front # 0
               PROVE  ncs = front + 1
    BY DEF PushesInOrder
  <2>1. ncs >= 1  BY DEF ResumeInv, Cursors
  <2>2. ~ Fresh  BY <2>1, Typed DEF Fresh
  <2> QED  BY <2>2 DEF ResumeInv, Continues
<1> QED  BY <1>1, ResumeInvariant, PTL

\* from_slot_attempts stays within from_slot_max_attempts, whatever fails: the
\* u8 of start_stream does not overflow.
THEOREM AttemptsBounded == Spec => [](attempts \in 0 .. MaxAttempts)
<1>1. ResumeInv => attempts \in 0 .. MaxAttempts  BY DEF ResumeInv, TypeOK
<1> QED  BY <1>1, ResumeInvariant, PTL

\* start_stream and start2 catch up in lockstep: the source has no permit left
\* over from before, and waits until the writer is done.
THEOREM LockstepAlways == Spec => []Lockstep
<1>1. ResumeInv => Lockstep  BY DEF ResumeInv
<1> QED  BY <1>1, ResumeInvariant, PTL

\* No wakeup is lost between notify_one and notified.
THEOREM NoLostWakeupAlways == Spec => []NoLostWakeup
<1>1. ResumeInv => NoLostWakeup  BY DEF ResumeInv
<1> QED  BY <1>1, ResumeInvariant, PTL

-----------------------------------------------------------------------------
(***************************************************************************)
(* The invariant, slot by slot.                                            *)
(***************************************************************************)
\* Nothing comes before the bank is created.
Untouched(s) ==
    bank[s] = "none" => /\ txs[s] = {} /\ s \notin meta /\ verdict[s] = "none"
                        /\ told[s] = <<>> /\ built[s] = <<>> /\ s \notin DOMAIN slots

\* What is held of a slot was sent, and each transaction is held once.
Gathered(s) ==
    s \in DOMAIN slots => /\ slots[s].transactions \in Seq(txs[s])
                          /\ IsInjective(slots[s].transactions)
                          /\ slots[s].block_meta => s \in meta

Whole(s) == [i \in Indexes(s) |-> i]

\* After a block was built there is nothing left to send of its slot.
BuiltOnce(s) ==
    /\ built[s] \in {<<>>, <<Whole(s)>>}
    /\ built[s] # <<>> => txs[s] = Indexes(s) /\ s \in meta
    /\ s \in DOMAIN slots /\ slots[s].sealed => built[s] # <<>>

\* The parent is known of banks seen only; from then on the status follows
\* the node's verdict.
Judged(s) ==
    state \in {"none", "open"} /\ s \in DOMAIN slots /\ slots[s].parent =>
        /\ bank[s] = "seen" /\ first_processed # 0 /\ first_processed < s
        /\ verdict[s] = "none" => slots[s].status = "CreatedBank"
        /\ verdict[s] = "confirmed" => slots[s].status = "Confirmed"
        /\ verdict[s] = "dead" => slots[s].status = "Dead"

ToldOf(s) ==
    /\ verdict[s] = "none" => told[s] = <<>>
    /\ verdict[s] = "dead" => told[s] \in {<<>>, <<"Dead">>}
    /\ verdict[s] = "confirmed" =>
          \/ told[s] \in {<<>>, <<"Confirmed">>}
          \/ told[s] \in {<<"Finalized">>, <<"Confirmed", "Finalized">>} /\ s <= root

\* Of a bank seen, after the first one, all that was sent is held until it is
\* built, unless a later slot was finalized.
Known(s) ==
    /\ s \in DOMAIN slots /\ slots[s].parent
    /\ built[s] = <<>> => /\ Range(slots[s].transactions) = txs[s]
                          /\ slots[s].block_meta <=> s \in meta
                          /\ ~ (txs[s] = Indexes(s) /\ s \in meta)

SeenOf(s) ==
    bank[s] = "seen" =>
        /\ state # "none" /\ first_processed # 0
        /\ state = "open" /\ first_processed < s /\ root <= s => Known(s)

SlotOK(s) ==
    /\ Untouched(s)
    /\ Gathered(s)
    /\ BuiltOnce(s)
    /\ Judged(s)
    /\ ToldOf(s)
    /\ SeenOf(s)

SourceInv ==
    /\ SourceTypeOK
    /\ \A s \in BankSlots : SlotOK(s)
    /\ RejectsOnlyUnknown

-----------------------------------------------------------------------------
(***************************************************************************)
(* Lists of transactions.                                                  *)
(***************************************************************************)

\* A nonempty set of naturals has a least element.
LEMMA NatMin ==
    ASSUME NEW T, T \subseteq Nat, T # {}
    PROVE  \E x \in T : \A y \in T : x <= y
<1> DEFINE R == OpToRel(<, Nat)
<1>1. IsWellFoundedOn(R, Nat)  BY NatLessThanWellFounded
<1>2. \A x, y \in Nat : y < x => <<y, x>> \in R  BY DEF OpToRel
<1> HIDE DEF R
<1>3. PICK x \in T : \A y \in T : ~ (<<y, x>> \in R)  BY <1>1, WFMin, Zenon
<1>4. \A y \in T : y \in Nat /\ x \in Nat /\ ~ (y < x)  BY <1>2, <1>3
<1>5. \A y \in T : x <= y  BY <1>4
<1> QED  BY <1>5

\* An injection of 1 .. m into 1 .. n hits every number just when m = n.
LEMMA CountIsEnough ==
    ASSUME NEW m \in Nat, NEW n \in Nat, NEW f \in Injection(1 .. m, 1 .. n)
    PROVE  m = n <=> f \in Surjection(1 .. m, 1 .. n)
<1>1. IsFiniteSet(1 .. n) /\ Cardinality(1 .. n) = n  BY FS_Interval
<1>2. Cardinality(1 .. m) = m  BY FS_Interval
<1>3. Cardinality(1 .. m) = Cardinality(1 .. n) <=> f \in Surjection(1 .. m, 1 .. n)
  BY <1>1, FS_Injection
<1> QED  BY <1>1, <1>2, <1>3

\* As many different transactions as the block has are all of them.
LEMMA AllOfThem ==
    ASSUME NEW n \in Nat, NEW t \in Seq(1 .. n), IsInjective(t)
    PROVE  Len(t) = n <=> Range(t) = 1 .. n
<1>1. DOMAIN t = 1 .. Len(t) /\ Len(t) \in Nat /\ t \in [1 .. Len(t) -> 1 .. n]
  OBVIOUS
<1>2. t \in Injection(1 .. Len(t), 1 .. n)  BY <1>1 DEF Injection
<1>3. Len(t) = n <=> t \in Surjection(1 .. Len(t), 1 .. n)  BY <1>1, <1>2, CountIsEnough
<1>4. t \in Surjection(1 .. Len(t), 1 .. n) <=> Range(t) = 1 .. n
  BY <1>1 DEF Surjection, Range
<1> QED  BY <1>3, <1>4

\* An ascending arrangement of 1 .. n is the identity.
LEMMA Ascending ==
    ASSUME NEW n \in Nat, NEW q \in Injection(1 .. n, 1 .. n),
           \A i, j \in 1 .. n : i < j => q[i] <= q[j]
    PROVE  \A i \in 1 .. n : q[i] = i
<1> DEFINE Bad == {i \in 1 .. n : q[i] # i}
<1> SUFFICES ASSUME Bad # {} PROVE FALSE  OBVIOUS
<1>1. PICK m \in Bad : \A i \in Bad : m <= i
  <2>1. Bad \subseteq Nat  OBVIOUS
  <2> QED  BY <2>1, NatMin, Zenon
<1>2. /\ q \in [1 .. n -> 1 .. n]
      /\ \A i, j \in 1 .. n : q[i] = q[j] => i = j
  BY DEF Injection, IsInjective
<1>3. \A x \in 1 .. n : \E i \in 1 .. n : q[i] = x
  <2>1. q \in Surjection(1 .. n, 1 .. n)  BY CountIsEnough
  <2> QED  BY <2>1 DEF Surjection
<1>4. m \in 1 .. n /\ q[m] # m /\ q[m] \in 1 .. n  BY <1>1, <1>2
<1>5. \A i \in 1 .. n : i < m => q[i] = i  BY <1>1, <1>4
<1>6. PICK k \in 1 .. n : q[k] = m  BY <1>3, <1>4
<1>7. ~ (k < m) /\ k # m  BY <1>4, <1>5, <1>6
<1>8. m < k  BY <1>4, <1>7
<1>9. q[m] <= m  BY <1>4, <1>6, <1>8
<1>10. q[m] < m  BY <1>4, <1>9
<1>11. q[q[m]] = q[m]  BY <1>4, <1>5, <1>10
<1> QED  BY <1>2, <1>4, <1>11

\* All transactions, sorted by index.
LEMMA SortedWhole ==
    ASSUME NEW n \in Nat, NEW t \in Seq(1 .. n), IsInjective(t), Len(t) = n
    PROVE  Sorted(t) = [i \in 1 .. n |-> i]
<1>1. DOMAIN t = 1 .. n /\ t \in [1 .. n -> 1 .. n]  OBVIOUS
<1>2. t \in Injection(1 .. n, 1 .. n)  BY <1>1 DEF Injection
<1>3. \A x \in 1 .. n : \E i \in 1 .. n : t[i] = x  BY <1>2, CountIsEnough DEF Surjection
<1> DEFINE Fits(p) == \A i, j \in DOMAIN t : i < j => t[p[i]] <= t[p[j]]
           at == [x \in 1 .. n |-> CHOOSE i \in 1 .. n : t[i] = x]
           order == CHOOSE p \in Injection(DOMAIN t, DOMAIN t) : Fits(p)
<1>4. at \in Injection(DOMAIN t, DOMAIN t) /\ Fits(at)
  <2>1. \A x \in 1 .. n : at[x] \in 1 .. n /\ t[at[x]] = x  BY <1>3
  <2>2. at \in [1 .. n -> 1 .. n]  BY <2>1
  <2> HIDE DEF at
  <2>3. \A x, y \in 1 .. n : at[x] = at[y] => x = y  BY <2>1
  <2>4. at \in Injection(DOMAIN t, DOMAIN t)  BY <1>1, <2>2, <2>3 DEF Injection, IsInjective
  <2> QED  BY <1>1, <2>1, <2>4
<1> HIDE DEF at
<1>5. order \in Injection(DOMAIN t, DOMAIN t) /\ Fits(order)
  <2> HIDE DEF Fits
  <2> QED  BY <1>4
<1>6. Sorted(t) = [i \in DOMAIN t |-> t[order[i]]]  BY DEF Sorted
<1> HIDE DEF order
<1> DEFINE q == [i \in 1 .. n |-> t[order[i]]]
<1>7. order \in [1 .. n -> 1 .. n] /\ \A i, j \in 1 .. n : order[i] = order[j] => i = j
  BY <1>1, <1>5 DEF Injection, IsInjective
<1>8. \A i, j \in 1 .. n : t[i] = t[j] => i = j  BY <1>1 DEF IsInjective
<1>9. q \in [1 .. n -> 1 .. n]  BY <1>1, <1>7
<1>10. \A i, j \in 1 .. n : q[i] = q[j] => i = j  BY <1>7, <1>8
<1>11. \A i, j \in 1 .. n : i < j => q[i] <= q[j]  BY <1>1, <1>5
<1>12. Sorted(t) = q  BY <1>1, <1>6
<1> HIDE DEF q
<1>13. q \in Injection(1 .. n, 1 .. n)  BY <1>9, <1>10 DEF Injection, IsInjective
<1>14. \A i \in 1 .. n : q[i] = i  BY <1>11, <1>13, Ascending
<1> QED  BY <1>9, <1>12, <1>14

-----------------------------------------------------------------------------
(***************************************************************************)
(* Each update is about one slot; what is known of the others stays true.  *)
(***************************************************************************)

\* Nothing of slot t changes.
Same(t) ==
    /\ bank'[t] = bank[t] /\ txs'[t] = txs[t] /\ (t \in meta' <=> t \in meta)
    /\ verdict'[t] = verdict[t] /\ told'[t] = told[t] /\ built'[t] = built[t]
    /\ t \in DOMAIN slots' <=> t \in DOMAIN slots
    /\ t \in DOMAIN slots => slots'[t] = slots[t]

\* The connection goes on or ends; the first slot is found once.
Onward ==
    /\ state' = "open" => state = "open"
    /\ state # "none" => state' # "none"
    /\ first_processed = 0 \/ first_processed' = first_processed

LEMMA OtherSlots ==
    ASSUME NEW t \in BankSlots, SlotOK(t), Same(t), Onward, root' = root
    PROVE  SlotOK(t)'
<1>1. Untouched(t)' /\ Gathered(t)'  BY DEF SlotOK, Same, Untouched, Gathered
<1>2. BuiltOnce(t)'  BY DEF SlotOK, Same, BuiltOnce, Whole, Indexes
<1>3. Judged(t)' /\ ToldOf(t)'  BY DEF SlotOK, Same, Onward, Judged, ToldOf
<1>4. SeenOf(t)'  BY DEF SlotOK, Same, Onward, SeenOf, Known, Indexes
<1> QED  BY <1>1, <1>2, <1>3, <1>4 DEF SlotOK

LEMMA InfoType ==
    ASSUME SourceTypeOK, NEW s \in BankSlots
    PROVE  Info(s) \in SlotInfo
<1>1. new_info \in SlotInfo  BY DEF new_info, SlotInfo
<1> QED  BY <1>1 DEF Info, SourceTypeOK

LEMMA CountNat == N \in Nat /\ \A s \in BankSlots : Count[s] \in Nat /\ s \in Nat /\ s # 0
BY StreamSourceAssumption DEF BankSlots

(***************************************************************************)
(* A transaction or a meta comes: the parts of a block.                    *)
(***************************************************************************)
\* What an update of the parts of slot s may do.
Part(s, info) ==
    /\ bank[s] # "none" /\ built[s] = <<>> /\ state = "open"
    /\ info \in SlotInfo /\ ~ info.sealed
    /\ info.transactions \in Seq(txs'[s]) /\ IsInjective(info.transactions)
    /\ info.block_meta => s \in meta'
    /\ info.parent = Info(s).parent /\ info.status = Info(s).status
    /\ Range(Info(s).transactions) = txs[s] => Range(info.transactions) = txs'[s]
    /\ (Info(s).block_meta <=> s \in meta) => (info.block_meta <=> s \in meta')
    /\ txs'[s] \subseteq Indexes(s)

LEMMA PartsTyped ==
    ASSUME SourceTypeOK, NEW s \in BankSlots, NEW info, Part(s, info), assemble(s, info)
    PROVE  /\ DOMAIN slots' = DOMAIN slots \union {s} /\ DOMAIN slots' \subseteq BankSlots
           /\ \A t \in DOMAIN slots : t # s => slots'[t] = slots[t]
           /\ \A t \in DOMAIN slots' :
                 /\ slots'[t] \in SlotInfo
                 /\ slots'[t].sealed => slots'[t].transactions = <<>> /\ ~ slots'[t].block_meta
           /\ built' \in [BankSlots -> Seq(Seq(Nat))]
           /\ \A t \in BankSlots : t # s => built'[t] = built[t]
<1>1. info \in SlotInfo /\ ~ info.sealed  BY DEF Part
<1>2. BuiltInfo(info) \in SlotInfo
  <2>1. <<>> \in Seq(Nat)  OBVIOUS
  <2> QED  BY <1>1, <2>1 DEF BuiltInfo, SlotInfo
<1>3. BuiltInfo(info).transactions = <<>> /\ ~ BuiltInfo(info).block_meta
  BY <1>1 DEF BuiltInfo, SlotInfo
<1>4. PICK i \in {info, BuiltInfo(info)} : slots' = With(s, i)  BY DEF assemble
<1>5. /\ i \in SlotInfo
      /\ i.sealed => i.transactions = <<>> /\ ~ i.block_meta
  BY <1>1, <1>2, <1>3
<1>6. /\ DOMAIN slots' = DOMAIN slots \union {s}
      /\ \A t \in DOMAIN slots' : slots'[t] = IF t = s THEN i ELSE slots[t]
  BY <1>4 DEF With
<1>7. DOMAIN slots \subseteq BankSlots /\ \A t \in DOMAIN slots :
          /\ slots[t] \in SlotInfo
          /\ slots[t].sealed => slots[t].transactions = <<>> /\ ~ slots[t].block_meta
  BY DEF SourceTypeOK
<1>8. built' \in [BankSlots -> Seq(Seq(Nat))] /\ \A t \in BankSlots : t # s => built'[t] = built[t]
  <2>1. built \in [BankSlots -> Seq(Seq(Nat))]  BY DEF SourceTypeOK
  <2>2. CASE ~ Ignored(s) /\ Complete(s, info)
    <3>1. info.transactions \in Seq(Indexes(s)) /\ IsInjective(info.transactions)
      BY DEF Part
    <3>2. Count[s] \in Nat /\ Indexes(s) = 1 .. Count[s]  BY CountNat DEF Indexes
    <3>3. Len(info.transactions) = Count[s]  BY <2>2 DEF Complete
    <3>4. BlockOf(info) = [k \in 1 .. Count[s] |-> k]
      BY <3>1, <3>2, <3>3, SortedWhole DEF BlockOf
    <3>5. BlockOf(info) \in Seq(Nat)  BY <3>2, <3>4
    <3>6. built' = [built EXCEPT ![s] = Append(@, BlockOf(info))]  BY <2>2 DEF assemble
    <3> HIDE DEF BlockOf
    <3> QED  BY <2>1, <3>5, <3>6
  <2>3. CASE ~ (~ Ignored(s) /\ Complete(s, info))  BY <2>1, <2>3 DEF assemble
  <2> QED  BY <2>2, <2>3
<1> QED  BY <1>5, <1>6, <1>7, <1>8

LEMMA Assembled ==
    ASSUME SourceTypeOK, NEW s \in BankSlots, SlotOK(s), NEW info, Part(s, info), assemble(s, info),
           bank'[s] = bank[s], verdict'[s] = verdict[s], root' = root
    PROVE  SlotOK(s)'
<1> DEFINE n == Count[s]
<1>0. n \in Nat /\ Indexes(s) = 1 .. n  BY CountNat DEF Indexes
<1>1. /\ info \in SlotInfo /\ ~ info.sealed
      /\ info.transactions \in Seq(1 .. n) /\ IsInjective(info.transactions)
  BY <1>0 DEF Part
<1>2. Len(info.transactions) = n <=> Range(info.transactions) = 1 .. n
  BY <1>0, <1>1, AllOfThem
<1>3. told' = told /\ state' = state /\ first_processed' = first_processed
  BY DEF assemble
<1>4. bank[s] # "none" /\ built[s] = <<>> /\ built[s] \in Seq(Seq(Nat)) /\ state = "open"
  BY DEF Part, SourceTypeOK
<1>5. Judged(s) /\ SeenOf(s) /\ ToldOf(s) /\ BuiltOnce(s) /\ Gathered(s)  BY DEF SlotOK
<1>6. s \in DOMAIN slots => Info(s) = slots[s]  BY DEF Info
<1>7. s \notin DOMAIN slots => ~ Info(s).parent  BY DEF Info, new_info
<1>8. Untouched(s)'  BY <1>4 DEF Untouched
<1>9. ToldOf(s)'  BY <1>3, <1>5 DEF ToldOf
<1>10. CASE ~ Ignored(s) /\ Complete(s, info)
  <2>1. slots' = With(s, BuiltInfo(info)) /\ built' = [built EXCEPT ![s] = Append(@, BlockOf(info))]
    BY <1>10 DEF assemble
  <2>2. BlockOf(info) = Whole(s)
    BY <1>0, <1>1, <1>10, SortedWhole DEF BlockOf, Whole, Complete
  <2>3. built'[s] = <<Whole(s)>>
    <3>1. built'[s] = Append(<<>>, BlockOf(info))  BY <1>4, <2>1 DEF SourceTypeOK
    <3> HIDE DEF BlockOf, Whole
    <3> QED  BY <2>2, <3>1
  <2>4. txs'[s] = Indexes(s) /\ s \in meta'
    <3>1. Range(info.transactions) = 1 .. n  BY <1>2, <1>10 DEF Complete
    <3>2. Range(info.transactions) \subseteq txs'[s]  BY DEF Part, Range
    <3> QED  BY <1>0, <1>10, <3>1, <3>2 DEF Part, Complete
  <2>5. /\ s \in DOMAIN slots' /\ slots'[s] = BuiltInfo(info)
        /\ slots'[s].transactions = <<>> /\ ~ slots'[s].block_meta
        /\ slots'[s].parent = info.parent /\ slots'[s].status = info.status
    BY <1>1, <2>1 DEF With, BuiltInfo, SlotInfo
  <2>6. Gathered(s)'
    <3>1. <<>> \in Seq(txs'[s]) /\ IsInjective(<<>>)  BY DEF IsInjective
    <3> QED  BY <2>5, <3>1 DEF Gathered
  <2>7. BuiltOnce(s)'
    <3>1. Whole(s)' = Whole(s) /\ Indexes(s)' = Indexes(s)  BY DEF Whole, Indexes
    <3>2. built'[s] # <<>>  BY <2>3
    <3> QED  BY <2>3, <2>4, <3>1, <3>2 DEF BuiltOnce
  <2>8. Judged(s)'  BY <1>3, <1>5, <1>6, <1>7, <2>5 DEF Judged, Part
  <2>9. SeenOf(s)'
    <3>1. built'[s] # <<>>  BY <2>3
    <3>2. bank[s] = "seen" /\ first_processed < s /\ root <= s => Info(s).parent
      BY <1>4, <1>5, <1>6 DEF SeenOf, Known
    <3> QED  BY <1>3, <1>4, <1>5, <2>5, <3>1, <3>2 DEF SeenOf, Known, Part
  <2> QED  BY <1>8, <1>9, <2>6, <2>7, <2>8, <2>9 DEF SlotOK
<1>11. CASE ~ (~ Ignored(s) /\ Complete(s, info))
  <2>1. slots' = With(s, info) /\ built' = built  BY <1>11 DEF assemble
  <2>2. s \in DOMAIN slots' /\ slots'[s] = info  BY <2>1 DEF With
  <2>3. Gathered(s)'  BY <2>2 DEF Gathered, Part
  <2>4. BuiltOnce(s)'  BY <1>1, <1>4, <2>1, <2>2 DEF BuiltOnce
  <2>5. Judged(s)'  BY <1>3, <1>5, <1>6, <1>7, <2>2 DEF Judged, Part
  <2>6. SeenOf(s)'
    <3> SUFFICES ASSUME bank[s] = "seen", first_processed < s, root <= s PROVE Known(s)'
      BY <1>3, <1>4, <1>5 DEF SeenOf
    <3>1. Known(s) /\ first_processed # 0  BY <1>4, <1>5 DEF SeenOf
    <3>2. /\ info.parent /\ Range(info.transactions) = txs'[s]
          /\ info.block_meta <=> s \in meta'
      BY <1>4, <1>6, <3>1 DEF Known, Part
    <3>3. ~ Ignored(s)
      <4>1. first_processed \in Nat /\ s \in Nat  BY CountNat DEF SourceTypeOK
      <4> QED  BY <4>1 DEF Ignored
    <3>4. ~ (txs'[s] = Indexes(s) /\ s \in meta')
      BY <1>0, <1>1, <1>2, <1>11, <3>2, <3>3 DEF Complete
    <3> QED  BY <2>2, <3>2, <3>4 DEF Known, Indexes
  <2> QED  BY <1>8, <1>9, <2>3, <2>4, <2>5, <2>6 DEF SlotOK
<1> QED  BY <1>10, <1>11

LEMMA AppendNew ==
    ASSUME NEW T, NEW t \in Seq(T), IsInjective(t), NEW i, i \notin T
    PROVE  /\ Append(t, i) \in Seq(T \union {i}) /\ IsInjective(Append(t, i))
           /\ Range(Append(t, i)) = Range(t) \union {i}
<1> DEFINE u == Append(t, i)  n == Len(t)
<1>1. n \in Nat /\ DOMAIN t = 1 .. n /\ \A k \in 1 .. n : t[k] \in T  OBVIOUS
<1>2. t \in Seq(T \union {i}) /\ i \in T \union {i}
  <2>1. t \in [1 .. n -> T \union {i}]  BY <1>1
  <2> QED  BY <1>1, <2>1
<1>3. u \in Seq(T \union {i}) /\ Len(u) = n + 1  BY <1>2
<1>4. DOMAIN u = 1 .. n + 1 /\ u[n + 1] = i /\ \A k \in 1 .. n : u[k] = t[k]
  BY <1>1, <1>2, <1>3
<1> HIDE DEF u
<1>5. \A k \in 1 .. n + 1 : k \in 1 .. n \/ k = n + 1  BY <1>1
<1>6. n + 1 \in 1 .. n + 1 /\ \A k \in 1 .. n : k \in 1 .. n + 1  BY <1>1
<1>7. IsInjective(u)
  <2>1. \A a, b \in 1 .. n : t[a] = t[b] => a = b  BY <1>1 DEF IsInjective
  <2>2. \A a, b \in 1 .. n + 1 : u[a] = u[b] => a = b  BY <1>1, <1>4, <1>5, <2>1
  <2> QED  BY <1>4, <2>2 DEF IsInjective
<1>8. Range(u) = Range(t) \union {i}  BY <1>1, <1>4, <1>5, <1>6 DEF Range
<1> QED  BY <1>3, <1>7, <1>8 DEF u

\* What is held of a slot before an update: the empty info when nothing is.
LEMMA Held ==
    ASSUME SourceInv, NEW s \in BankSlots
    PROVE  /\ Info(s).transactions \in Seq(txs[s]) /\ IsInjective(Info(s).transactions)
           /\ Info(s).block_meta => s \in meta
           /\ Info(s).sealed => built[s] # <<>>
           /\ Info(s).parent => s \in DOMAIN slots /\ Info(s) = slots[s]
<1>1. Gathered(s) /\ BuiltOnce(s)  BY DEF SourceInv, SlotOK
<1>2. CASE s \in DOMAIN slots  BY <1>1, <1>2 DEF Info, Gathered, BuiltOnce
<1>3. CASE s \notin DOMAIN slots
  <2>1. <<>> \in Seq(txs[s]) /\ IsInjective(<<>>)  BY DEF IsInjective
  <2> QED  BY <1>3, <2>1 DEF Info, new_info
<1> QED  BY <1>2, <1>3

-----------------------------------------------------------------------------
(***************************************************************************)
(* The steps.                                                              *)
(***************************************************************************)
LEMMA SlotsApart ==
    ASSUME SourceInv, NEW s \in BankSlots, \A t \in BankSlots : t # s => Same(t), Onward,
           root' = root, SlotOK(s)'
    PROVE  \A t \in BankSlots : SlotOK(t)'
<1> SUFFICES ASSUME NEW t \in BankSlots, t # s PROVE SlotOK(t)'  OBVIOUS
<1> QED  BY OtherSlots DEF SourceInv

LEMMA TransactStep ==
    ASSUME SourceInv, NEW s \in BankSlots, transact(s), state \in {"none", "open"}
    PROVE  SourceInv'
<1>0. SourceTypeOK /\ SlotOK(s)  BY DEF SourceInv
<1>1. PICK i \in Indexes(s) \ txs[s] :
        /\ txs' = [txs EXCEPT ![s] = @ \union {i}]
        /\ Notify(on_transaction(s, i))
  BY DEF transact
<1>2. bank' = bank /\ meta' = meta /\ verdict' = verdict /\ root' = root /\ bank[s] # "none"
  BY DEF transact
<1>3. /\ DOMAIN txs' = BankSlots /\ txs'[s] = txs[s] \union {i}
      /\ \A t \in BankSlots : t # s => txs'[t] = txs[t]
      /\ \A t \in BankSlots : txs[t] \subseteq Indexes(t)
  BY <1>0, <1>1 DEF SourceTypeOK
<1>4. DOMAIN txs' = BankSlots /\ \A t \in BankSlots : txs'[t] \subseteq Indexes(t)  BY <1>1, <1>3
<1>5. built[s] = <<>>  BY <1>0, <1>1 DEF SlotOK, BuiltOnce
<1>6. CASE state = "open"
  <2> DEFINE info == [Info(s) EXCEPT !.transactions = Append(@, i)]
  <2>1. assemble(s, info)  BY <1>1, <1>6 DEF Notify, on_transaction
  <2>2. Info(s) \in SlotInfo  BY <1>0, InfoType
  <2>3. /\ info.transactions = Append(Info(s).transactions, i)
        /\ info.sealed = Info(s).sealed /\ info.parent = Info(s).parent
        /\ info.status = Info(s).status /\ info.block_meta = Info(s).block_meta
    BY <2>2 DEF SlotInfo
  <2>4. info \in SlotInfo
    <3>1. i \in Nat  BY <1>1, CountNat DEF Indexes
    <3>2. Append(Info(s).transactions, i) \in Seq(Nat)  BY <2>2, <3>1 DEF SlotInfo
    <3> QED  BY <2>2, <3>2 DEF SlotInfo
  <2> HIDE DEF info
  <2>5. /\ info.transactions \in Seq(txs'[s]) /\ IsInjective(info.transactions)
        /\ Range(info.transactions) = Range(Info(s).transactions) \union {i}
    <3>1. Info(s).transactions \in Seq(txs[s]) /\ IsInjective(Info(s).transactions)  BY Held
    <3>2. i \notin txs[s]  BY <1>1
    <3> DEFINE held == Info(s).transactions  sent == txs[s]
    <3>3. /\ Append(held, i) \in Seq(sent \union {i}) /\ IsInjective(Append(held, i))
          /\ Range(Append(held, i)) = Range(held) \union {i}
      <4> HIDE DEF held, sent
      <4>1. held \in Seq(sent) /\ IsInjective(held) /\ i \notin sent  BY <3>1, <3>2 DEF held, sent
      <4> QED  BY <4>1, AppendNew
    <3>4. info.transactions = Append(held, i) /\ txs'[s] = sent \union {i}  BY <1>3, <2>3
    <3> HIDE DEF held, sent
    <3>5. /\ info.transactions \in Seq(txs'[s]) /\ IsInjective(info.transactions)
          /\ Range(info.transactions) = Range(held) \union {i}
      BY <3>3, <3>4
    <3> QED  BY <3>5 DEF held
  <2>6. Part(s, info)
    BY <1>2, <1>3, <1>4, <1>5, <1>6, <2>3, <2>4, <2>5, Held DEF Part
  <2>7. SlotOK(s)'  BY <1>0, <1>2, <2>1, <2>6, Assembled
  <2>8. UNCHANGED <<state, first_processed, told, culprit>>  BY <2>1 DEF assemble
  <2>9. /\ DOMAIN slots' = DOMAIN slots \union {s} /\ DOMAIN slots' \subseteq BankSlots
        /\ \A t \in DOMAIN slots : t # s => slots'[t] = slots[t]
        /\ \A t \in DOMAIN slots' :
              /\ slots'[t] \in SlotInfo
              /\ slots'[t].sealed => slots'[t].transactions = <<>> /\ ~ slots'[t].block_meta
        /\ built' \in [BankSlots -> Seq(Seq(Nat))]
        /\ \A t \in BankSlots : t # s => built'[t] = built[t]
    BY <1>0, <2>1, <2>6, PartsTyped
  <2>10. \A t \in BankSlots : t # s => Same(t)  BY <1>2, <1>3, <2>8, <2>9 DEF Same
  <2>11. \A t \in BankSlots : SlotOK(t)'
    BY <1>2, <2>7, <2>8, <2>10, SlotsApart DEF Onward
  <2>12. SourceTypeOK'
    BY <1>0, <1>2, <1>4, <2>8, <2>9 DEF SourceTypeOK, Indexes
  <2>13. RejectsOnlyUnknown'  BY <1>6, <2>8 DEF RejectsOnlyUnknown
  <2> QED  BY <2>11, <2>12, <2>13 DEF SourceInv
<1>7. CASE state = "none"
  <2>1. UNCHANGED streamVars  BY <1>1, <1>7 DEF Notify
  <2>2. \A t \in BankSlots : t # s => Same(t)  BY <1>2, <1>3, <2>1 DEF Same, streamVars
  <2>3. SlotOK(s)'
    <3>1. Untouched(s)' /\ ToldOf(s)' /\ Judged(s)'
      BY <1>0, <1>2, <2>1 DEF SlotOK, Untouched, ToldOf, Judged, streamVars
    <3>2. Gathered(s)'
      <4>1. s \in DOMAIN slots => slots[s].transactions \in Seq(txs[s] \union {i})
        BY <1>0 DEF SlotOK, Gathered
      <4> QED  BY <1>0, <1>2, <1>3, <2>1, <4>1 DEF SlotOK, Gathered, streamVars
    <3>3. BuiltOnce(s)'  BY <1>0, <1>5, <2>1 DEF SlotOK, BuiltOnce, streamVars
    <3>4. SeenOf(s)'  BY <1>0, <1>2, <1>7, <2>1 DEF SlotOK, SeenOf, streamVars
    <3> QED  BY <3>1, <3>2, <3>3, <3>4 DEF SlotOK
  <2>4. \A t \in BankSlots : SlotOK(t)'
    BY <1>2, <2>1, <2>2, <2>3, SlotsApart DEF Onward, streamVars
  <2>5. SourceTypeOK'  BY <1>0, <1>2, <1>4, <2>1 DEF SourceTypeOK, Indexes, streamVars
  <2>6. RejectsOnlyUnknown'  BY <1>7, <2>1 DEF RejectsOnlyUnknown, streamVars
  <2> QED  BY <2>4, <2>5, <2>6 DEF SourceInv
<1> QED  BY <1>6, <1>7

LEMMA FreezeStep ==
    ASSUME SourceInv, NEW s \in BankSlots, freeze(s), state \in {"none", "open"}
    PROVE  SourceInv'
<1>0. SourceTypeOK /\ SlotOK(s)  BY DEF SourceInv
<1>1. /\ bank' = bank /\ txs' = txs /\ verdict' = verdict /\ root' = root
      /\ bank[s] # "none" /\ s \notin meta /\ meta' = meta \union {s}
      /\ Notify(on_block_meta(s))
  BY DEF freeze
<1>2. meta' \subseteq BankSlots  BY <1>0, <1>1 DEF SourceTypeOK
<1>3. built[s] = <<>>  BY <1>0, <1>1 DEF SlotOK, BuiltOnce
<1>4. CASE state = "open"
  <2> DEFINE info == [Info(s) EXCEPT !.block_meta = TRUE]
  <2>1. assemble(s, info)  BY <1>1, <1>4 DEF Notify, on_block_meta
  <2>2. Info(s) \in SlotInfo  BY <1>0, InfoType
  <2>3. /\ info.transactions = Info(s).transactions
        /\ info.sealed = Info(s).sealed /\ info.parent = Info(s).parent
        /\ info.status = Info(s).status /\ info.block_meta = TRUE
        /\ info \in SlotInfo
    BY <2>2 DEF SlotInfo
  <2> HIDE DEF info
  <2>4. txs[s] \subseteq Indexes(s)  BY <1>0 DEF SourceTypeOK
  <2>5. Part(s, info)
    BY <1>1, <1>3, <1>4, <2>3, <2>4, Held DEF Part
  <2>6. SlotOK(s)'  BY <1>0, <1>1, <2>1, <2>5, Assembled
  <2>7. UNCHANGED <<state, first_processed, told, culprit>>  BY <2>1 DEF assemble
  <2>8. /\ DOMAIN slots' = DOMAIN slots \union {s} /\ DOMAIN slots' \subseteq BankSlots
        /\ \A t \in DOMAIN slots : t # s => slots'[t] = slots[t]
        /\ \A t \in DOMAIN slots' :
              /\ slots'[t] \in SlotInfo
              /\ slots'[t].sealed => slots'[t].transactions = <<>> /\ ~ slots'[t].block_meta
        /\ built' \in [BankSlots -> Seq(Seq(Nat))]
        /\ \A t \in BankSlots : t # s => built'[t] = built[t]
    BY <1>0, <2>1, <2>5, PartsTyped
  <2>9. \A t \in BankSlots : t # s => Same(t)  BY <1>1, <2>7, <2>8 DEF Same
  <2>10. \A t \in BankSlots : SlotOK(t)'
    BY <1>1, <2>6, <2>7, <2>9, SlotsApart DEF Onward
  <2>11. SourceTypeOK'  BY <1>0, <1>1, <1>2, <2>7, <2>8 DEF SourceTypeOK, Indexes
  <2>12. RejectsOnlyUnknown'  BY <1>4, <2>7 DEF RejectsOnlyUnknown
  <2> QED  BY <2>10, <2>11, <2>12 DEF SourceInv
<1>5. CASE state = "none"
  <2>1. UNCHANGED streamVars  BY <1>1, <1>5 DEF Notify
  <2>2. \A t \in BankSlots : t # s => Same(t)  BY <1>1, <2>1 DEF Same, streamVars
  <2>3. SlotOK(s)'
    <3>1. Untouched(s)' /\ ToldOf(s)' /\ Judged(s)'
      BY <1>0, <1>1, <2>1 DEF SlotOK, Untouched, ToldOf, Judged, streamVars
    <3>2. Gathered(s)' /\ BuiltOnce(s)'
      BY <1>0, <1>1, <1>3, <2>1 DEF SlotOK, Gathered, BuiltOnce, streamVars
    <3>3. SeenOf(s)'  BY <1>0, <1>1, <1>5, <2>1 DEF SlotOK, SeenOf, streamVars
    <3> QED  BY <3>1, <3>2, <3>3 DEF SlotOK
  <2>4. \A t \in BankSlots : SlotOK(t)'
    BY <1>1, <2>1, <2>2, <2>3, SlotsApart DEF Onward, streamVars
  <2>5. SourceTypeOK'  BY <1>0, <1>1, <1>2, <2>1 DEF SourceTypeOK, Indexes, streamVars
  <2>6. RejectsOnlyUnknown'  BY <1>5, <2>1 DEF RejectsOnlyUnknown, streamVars
  <2> QED  BY <2>4, <2>5, <2>6 DEF SourceInv
<1> QED  BY <1>4, <1>5

LEMMA CreateStep ==
    ASSUME SourceInv, NEW s \in BankSlots, create(s), state \in {"none", "open"}
    PROVE  SourceInv'
<1>0. SourceTypeOK /\ SlotOK(s) /\ N \in Nat /\ s \in Nat /\ s # 0  BY CountNat DEF SourceInv
<1>1. /\ txs' = txs /\ meta' = meta /\ verdict' = verdict /\ root' = root
      /\ bank[s] = "none" /\ Notify(on_created_bank(s))
      /\ bank' = [bank EXCEPT ![s] = IF state = "open" THEN "seen" ELSE "missed"]
  BY DEF create
<1>2. /\ bank' \in [BankSlots -> {"none", "missed", "seen"}]
      /\ bank'[s] = IF state = "open" THEN "seen" ELSE "missed"
      /\ \A t \in BankSlots : t # s => bank'[t] = bank[t]
  BY <1>0, <1>1 DEF SourceTypeOK
<1>3. /\ txs[s] = {} /\ s \notin meta /\ verdict[s] = "none"
      /\ told[s] = <<>> /\ built[s] = <<>> /\ s \notin DOMAIN slots
  BY <1>0, <1>1 DEF SlotOK, Untouched
<1>4. Info(s) = new_info  BY <1>3 DEF Info
<1>5. CASE state = "open"
  <2> DEFINE info == [new_info EXCEPT !.parent = TRUE]
  <2>1. on_created_bank(s)  BY <1>1, <1>5 DEF Notify
  <2>2. info \in SlotInfo
    <3>1. <<>> \in Seq(Nat)  OBVIOUS
    <3> QED  BY <3>1 DEF new_info, SlotInfo
  <2>3. /\ info.parent /\ info.status = "CreatedBank" /\ info.transactions = <<>>
        /\ ~ info.block_meta /\ ~ info.sealed
    BY DEF new_info
  <2>4. /\ UNCHANGED <<state, culprit, built, told>>
        /\ first_processed' = IF first_processed = 0 THEN s ELSE first_processed
        /\ slots' = IF s <= first_processed' THEN slots ELSE With(s, info)
    BY <1>4, <2>1 DEF on_created_bank, new_info
  <2> HIDE DEF info
  <2>5. first_processed \in 0 .. N /\ first_processed' \in 1 .. N
    BY <1>0, <2>4 DEF SourceTypeOK, BankSlots
  <2>6. /\ DOMAIN slots' \subseteq BankSlots
        /\ \A t \in BankSlots : t # s => (t \in DOMAIN slots' <=> t \in DOMAIN slots)
        /\ \A t \in DOMAIN slots : t # s => slots'[t] = slots[t]
        /\ s \in DOMAIN slots' => slots'[s] = info /\ first_processed' < s
        /\ first_processed' < s => s \in DOMAIN slots'
    <3>1. CASE s <= first_processed'  BY <1>0, <1>3, <2>4, <2>5, <3>1 DEF SourceTypeOK
    <3>2. CASE ~ (s <= first_processed')
      <4>1. slots' = With(s, info) /\ first_processed' < s  BY <1>0, <2>4, <2>5, <3>2
      <4> QED  BY <1>0, <4>1 DEF With, SourceTypeOK
    <3> QED  BY <3>1, <3>2
  <2>7. \A t \in BankSlots : t # s => Same(t)  BY <1>1, <1>2, <2>4, <2>6 DEF Same
  <2>8. Onward  BY <2>4 DEF Onward
  <2>9. SlotOK(s)'
    <3>1. Untouched(s)' /\ ToldOf(s)'
      BY <1>1, <1>2, <1>3, <1>5, <2>4 DEF Untouched, ToldOf
    <3>2. Gathered(s)'
      <4>1. <<>> \in Seq(txs'[s]) /\ IsInjective(<<>>)  BY DEF IsInjective
      <4> QED  BY <2>3, <2>6, <4>1 DEF Gathered
    <3>3. BuiltOnce(s)'  BY <1>3, <2>3, <2>4, <2>6 DEF BuiltOnce
    <3>4. Judged(s)'
      BY <1>1, <1>2, <1>3, <1>5, <2>3, <2>5, <2>6 DEF Judged
    <3>5. SeenOf(s)'
      <4>1. Range(<<>>) = {}  BY DEF Range
      <4> QED  BY <1>1, <1>3, <1>5, <2>3, <2>4, <2>5, <2>6, <4>1 DEF SeenOf, Known
    <3> QED  BY <3>1, <3>2, <3>3, <3>4, <3>5 DEF SlotOK
  <2>10. \A t \in BankSlots : SlotOK(t)'  BY <1>1, <2>7, <2>8, <2>9, SlotsApart
  <2>11. \A t \in DOMAIN slots' :
              /\ slots'[t] \in SlotInfo
              /\ slots'[t].sealed => slots'[t].transactions = <<>> /\ ~ slots'[t].block_meta
    BY <1>0, <2>2, <2>3, <2>6 DEF SourceTypeOK
  <2>12. SourceTypeOK'
    <3>1. first_processed' \in 0 .. N  BY <1>0, <2>5
    <3> QED  BY <1>0, <1>1, <1>2, <2>4, <2>6, <2>11, <3>1 DEF SourceTypeOK, Indexes
  <2>13. RejectsOnlyUnknown'  BY <1>5, <2>4 DEF RejectsOnlyUnknown
  <2> QED  BY <2>10, <2>12, <2>13 DEF SourceInv
<1>6. CASE state = "none"
  <2>1. UNCHANGED streamVars  BY <1>1, <1>6 DEF Notify
  <2>2. \A t \in BankSlots : t # s => Same(t)  BY <1>1, <1>2, <2>1 DEF Same, streamVars
  <2>3. SlotOK(s)'
    <3>1. bank'[s] = "missed"  BY <1>2, <1>6
    <3>2. Untouched(s)' /\ SeenOf(s)'  BY <3>1 DEF Untouched, SeenOf
    <3>3. Gathered(s)' /\ BuiltOnce(s)' /\ Judged(s)' /\ ToldOf(s)'
      BY <1>1, <1>3, <2>1 DEF Gathered, BuiltOnce, Judged, ToldOf, streamVars
    <3> QED  BY <3>2, <3>3 DEF SlotOK
  <2>4. \A t \in BankSlots : SlotOK(t)'
    BY <1>1, <2>1, <2>2, <2>3, SlotsApart DEF Onward, streamVars
  <2>5. SourceTypeOK'  BY <1>0, <1>1, <1>2, <2>1 DEF SourceTypeOK, Indexes, streamVars
  <2>6. RejectsOnlyUnknown'  BY <1>6, <2>1 DEF RejectsOnlyUnknown, streamVars
  <2> QED  BY <2>4, <2>5, <2>6 DEF SourceInv
<1> QED  BY <1>5, <1>6

\* Dead and confirmed: the status v of the node reaches the stream as w.
LEMMA StatusStep ==
    ASSUME SourceInv, NEW s \in BankSlots, state \in {"none", "open"}, bank[s] # "none",
           NEW v, NEW w,
           (v = "dead" /\ w = "Dead") \/ (v = "confirmed" /\ w = "Confirmed"),
           verdict[s] \in {"none", v}, v = "dead" => verdict[s] = "none",
           verdict' = [verdict EXCEPT ![s] = v], Notify(on_status(s, w)),
           UNCHANGED <<bank, txs, meta, root>>
    PROVE  SourceInv'
<1>0. SourceTypeOK /\ SlotOK(s) /\ N \in Nat /\ s \in Nat /\ s # 0  BY CountNat DEF SourceInv
<1>1. /\ (v = "dead" /\ w = "Dead") \/ (v = "confirmed" /\ w = "Confirmed")
      /\ w \in {"Dead", "Confirmed"} /\ v \in {"dead", "confirmed"}
  OBVIOUS
<1>2. /\ verdict' \in [BankSlots -> {"none", "dead", "confirmed"}] /\ verdict'[s] = v
      /\ \A t \in BankSlots : t # s => verdict'[t] = verdict[t]
  BY <1>0, <1>1 DEF SourceTypeOK
<1>3. CASE state = "none"
  <2>1. UNCHANGED streamVars  BY <1>3 DEF Notify
  <2>2. \A t \in BankSlots : t # s => Same(t)  BY <1>2, <2>1 DEF Same, streamVars
  <2>3. SlotOK(s)'
    <3>1. Untouched(s)'  BY DEF Untouched
    <3>2. Gathered(s)' /\ BuiltOnce(s)'
      BY <1>0, <2>1 DEF SlotOK, Gathered, BuiltOnce, Whole, Indexes, streamVars
    <3>3. Judged(s)' /\ SeenOf(s)'
      BY <1>0, <1>3, <2>1 DEF SlotOK, Judged, SeenOf, streamVars
    <3>4. ToldOf(s)'  BY <1>0, <1>1, <1>2, <2>1 DEF SlotOK, ToldOf, streamVars
    <3> QED  BY <3>1, <3>2, <3>3, <3>4 DEF SlotOK
  <2>4. \A t \in BankSlots : SlotOK(t)'
    BY <2>1, <2>2, <2>3, SlotsApart DEF Onward, streamVars
  <2>5. SourceTypeOK'  BY <1>0, <1>2, <2>1 DEF SourceTypeOK, Indexes, streamVars
  <2>6. RejectsOnlyUnknown'  BY <1>3, <2>1 DEF RejectsOnlyUnknown, streamVars
  <2> QED  BY <2>4, <2>5, <2>6 DEF SourceInv
<1>4. CASE state = "open"
  <2>1. on_status(s, w)  BY <1>4 DEF Notify
  <2>2. first_processed' = first_processed /\ built' = built  BY <2>1 DEF on_status
  <2>3. first_processed \in 0 .. N /\ root \in 0 .. N  BY <1>0 DEF SourceTypeOK
  <2>4. Info(s) \in SlotInfo  BY <1>0, InfoType
  <2>5. Info(s).parent =>
          /\ s \in DOMAIN slots /\ Info(s) = slots[s]
          /\ verdict[s] = "none" => Info(s).status = "CreatedBank"
          /\ verdict[s] = "confirmed" => Info(s).status = "Confirmed"
    BY <1>0, <1>4, Held DEF SlotOK, Judged
  <2>6. \A t \in BankSlots : told'[t] = told[t] => told'[t] \in Seq({"Dead", "Confirmed", "Finalized"})
    BY <1>0 DEF SourceTypeOK
  <2>7. CASE Dropped(s)
    <3>1. UNCHANGED streamVars  BY <2>1, <2>7 DEF on_status, streamVars
    <3>2. first_processed = 0 \/ ~ (first_processed < s)  BY <1>0, <2>3, <2>7 DEF Dropped
    <3>3. \A t \in BankSlots : t # s => Same(t)  BY <1>2, <3>1 DEF Same, streamVars
    <3>4. SlotOK(s)'
      <4>1. Untouched(s)'  BY DEF Untouched
      <4>2. Gathered(s)' /\ BuiltOnce(s)'
        BY <1>0, <3>1 DEF SlotOK, Gathered, BuiltOnce, Whole, Indexes, streamVars
      <4>3. Judged(s)' /\ SeenOf(s)'
        BY <1>0, <1>4, <3>1, <3>2 DEF SlotOK, Judged, SeenOf, streamVars
      <4>4. ToldOf(s)'  BY <1>0, <1>1, <1>2, <3>1 DEF SlotOK, ToldOf, streamVars
      <4> QED  BY <4>1, <4>2, <4>3, <4>4 DEF SlotOK
    <3>5. \A t \in BankSlots : SlotOK(t)'
      BY <3>1, <3>3, <3>4, SlotsApart DEF Onward, streamVars
    <3>6. SourceTypeOK'  BY <1>0, <1>2, <3>1 DEF SourceTypeOK, Indexes, streamVars
    <3>7. RejectsOnlyUnknown'  BY <1>4, <3>1 DEF RejectsOnlyUnknown, streamVars
    <3> QED  BY <3>5, <3>6, <3>7 DEF SourceInv
  <2>8. CASE ~ Dropped(s) /\ Info(s).parent /\ Info(s).status = "CreatedBank"
    <3> DEFINE info == [Info(s) EXCEPT !.status = w]
    <3>1. /\ slots' = With(s, info) /\ told' = [told EXCEPT ![s] = Append(@, w)]
          /\ state' = state /\ culprit' = culprit
      BY <2>1, <2>8 DEF on_status
    <3>2. /\ info \in SlotInfo /\ info.status = w /\ info.parent = Info(s).parent
          /\ info.transactions = Info(s).transactions
          /\ info.block_meta = Info(s).block_meta /\ info.sealed = Info(s).sealed
      BY <1>1, <2>4 DEF SlotInfo
    <3> HIDE DEF info
    <3>3. s \in DOMAIN slots /\ Info(s) = slots[s] /\ verdict[s] = "none"
      BY <1>1, <2>5, <2>8
    <3>4. DOMAIN slots' = DOMAIN slots /\ slots'[s] = info
          /\ \A t \in DOMAIN slots : t # s => slots'[t] = slots[t]
      BY <3>1, <3>3 DEF With
    <3>5. told[s] = <<>>  BY <1>0, <3>3 DEF SlotOK, ToldOf
    <3>6. /\ told' \in [BankSlots -> Seq({"Dead", "Confirmed", "Finalized"})]
          /\ told'[s] = <<w>> /\ \A t \in BankSlots : t # s => told'[t] = told[t]
      BY <1>0, <1>1, <3>1, <3>5 DEF SourceTypeOK
    <3>7. \A t \in BankSlots : t # s => Same(t)  BY <1>2, <2>2, <3>4, <3>6 DEF Same
    <3>8. SlotOK(s)'
      <4>1. Untouched(s)'  BY DEF Untouched
      <4>2. Gathered(s)'  BY <1>0, <3>2, <3>3, <3>4 DEF SlotOK, Gathered
      <4>3. BuiltOnce(s)'
        BY <1>0, <2>2, <3>2, <3>3, <3>4 DEF SlotOK, BuiltOnce, Whole, Indexes
      <4>4. Judged(s)'
        BY <1>0, <1>1, <1>2, <1>4, <2>2, <3>1, <3>2, <3>3, <3>4 DEF SlotOK, Judged
      <4>5. ToldOf(s)'  BY <1>1, <1>2, <3>6 DEF ToldOf
      <4>6. SeenOf(s)'
        BY <1>0, <1>4, <2>2, <3>1, <3>2, <3>3, <3>4 DEF SlotOK, SeenOf, Known, Indexes
      <4> QED  BY <4>1, <4>2, <4>3, <4>4, <4>5, <4>6 DEF SlotOK
    <3>9. \A t \in BankSlots : SlotOK(t)'
      BY <2>2, <3>1, <3>7, <3>8, SlotsApart DEF Onward
    <3>10. \A t \in DOMAIN slots' :
              /\ slots'[t] \in SlotInfo
              /\ slots'[t].sealed => slots'[t].transactions = <<>> /\ ~ slots'[t].block_meta
      BY <1>0, <3>2, <3>3, <3>4 DEF SourceTypeOK
    <3>11. SourceTypeOK'  BY <1>0, <1>2, <2>2, <3>1, <3>4, <3>6, <3>10 DEF SourceTypeOK, Indexes
    <3>12. RejectsOnlyUnknown'  BY <1>4, <3>1 DEF RejectsOnlyUnknown
    <3> QED  BY <3>9, <3>11, <3>12 DEF SourceInv
  <2>9. CASE /\ ~ Dropped(s) /\ Info(s).parent /\ Info(s).status = "Confirmed"
             /\ w = "Confirmed"
    <3>1. UNCHANGED streamVars
      <4>1. Info(s).status # "CreatedBank"  BY <2>9
      <4> QED  BY <2>1, <2>9, <4>1 DEF on_status, streamVars
    <3>2. verdict[s] = v
      <4>1. verdict[s] # "none"  BY <2>5, <2>9
      <4> QED  BY <4>1
    <3>3. verdict' = verdict  BY <1>0, <3>2 DEF SourceTypeOK
    <3>4. \A t \in BankSlots : Same(t)  BY <3>1, <3>3 DEF Same, streamVars
    <3>5. \A t \in BankSlots : SlotOK(t)'
      BY <3>1, <3>4, OtherSlots DEF Onward, streamVars, SourceInv
    <3>6. SourceTypeOK'  BY <1>0, <1>2, <3>1 DEF SourceTypeOK, Indexes, streamVars
    <3>7. RejectsOnlyUnknown'  BY <1>4, <3>1 DEF RejectsOnlyUnknown, streamVars
    <3> QED  BY <3>5, <3>6, <3>7 DEF SourceInv
  <2>10. CASE /\ ~ Dropped(s) /\ ~ (Info(s).parent /\ Info(s).status = "CreatedBank")
              /\ ~ (Info(s).parent /\ Info(s).status = "Confirmed" /\ w = "Confirmed")
    <3>1. /\ slots' = With(s, Info(s)) /\ told' = told
          /\ state' = "rejected" /\ culprit' = s
      BY <2>1, <2>10 DEF on_status, reject
    <3>2. /\ s \in DOMAIN slots' /\ slots'[s] = Info(s)
          /\ DOMAIN slots' = DOMAIN slots \union {s}
          /\ \A t \in DOMAIN slots : t # s => slots'[t] = slots[t]
      BY <3>1 DEF With
    <3>3. \A t \in BankSlots : t # s => Same(t)  BY <1>2, <2>2, <3>1, <3>2 DEF Same
    <3>4. SlotOK(s)'
      <4>1. Untouched(s)' /\ Judged(s)'  BY <3>1 DEF Untouched, Judged
      <4>2. Gathered(s)'  BY <3>2, Held DEF Gathered
      <4>3. BuiltOnce(s)'
        BY <1>0, <2>2, <3>2, Held DEF SlotOK, BuiltOnce, Whole, Indexes
      <4>4. ToldOf(s)'  BY <1>0, <1>1, <1>2, <3>1 DEF SlotOK, ToldOf
      <4>5. SeenOf(s)'  BY <1>0, <2>2, <3>1 DEF SlotOK, SeenOf
      <4> QED  BY <4>1, <4>2, <4>3, <4>4, <4>5 DEF SlotOK
    <3>5. \A t \in BankSlots : SlotOK(t)'
      BY <1>4, <2>2, <3>1, <3>3, <3>4, SlotsApart DEF Onward
    <3>6. \A t \in DOMAIN slots' :
              /\ slots'[t] \in SlotInfo
              /\ slots'[t].sealed => slots'[t].transactions = <<>> /\ ~ slots'[t].block_meta
      <4>1. Info(s).sealed => Info(s).transactions = <<>> /\ ~ Info(s).block_meta
        BY <1>0 DEF SourceTypeOK, Info, new_info
      <4> QED  BY <1>0, <2>4, <3>2, <4>1 DEF SourceTypeOK
    <3>7. DOMAIN slots' \subseteq BankSlots /\ culprit' \in 0 .. N
      BY <1>0, <3>1, <3>2 DEF SourceTypeOK, BankSlots
    <3>8. SourceTypeOK'  BY <1>0, <1>2, <2>2, <3>1, <3>6, <3>7 DEF SourceTypeOK, Indexes
    <3>9. RejectsOnlyUnknown'
      <4>1. first_processed # 0 /\ first_processed < s  BY <1>0, <2>3, <2>10 DEF Dropped
      <4>2. ~ Info(s).parent  BY <1>1, <2>5, <2>10
      <4>3. bank[s] = "seen" => ~ (root <= s)
        BY <1>0, <1>4, <4>1, <4>2 DEF SlotOK, SeenOf, Known, Info
      <4>4. bank[s] \in {"missed", "seen"}  BY <1>0 DEF SourceTypeOK
      <4>5. root \in Nat /\ root' = root  BY <2>3
      <4> QED  BY <1>0, <3>1, <4>3, <4>4, <4>5 DEF RejectsOnlyUnknown
    <3> QED  BY <3>5, <3>8, <3>9 DEF SourceInv
  <2> QED  BY <2>7, <2>8, <2>9, <2>10
<1> QED  BY <1>3, <1>4

LEMMA DieStep ==
    ASSUME SourceInv, NEW s \in BankSlots, die(s), state \in {"none", "open"}
    PROVE  SourceInv'
<1> DEFINE v == "dead"  w == "Dead"
<1>1. /\ bank[s] # "none" /\ verdict[s] = "none" /\ verdict' = [verdict EXCEPT ![s] = v]
      /\ Notify(on_status(s, w)) /\ UNCHANGED <<bank, txs, meta, root>>
  BY DEF die
<1>2. /\ (v = "dead" /\ w = "Dead") \/ (v = "confirmed" /\ w = "Confirmed")
      /\ verdict[s] \in {"none", v} /\ (v = "dead" => verdict[s] = "none")
  BY <1>1
<1> HIDE DEF v, w
<1> QED  BY <1>1, <1>2, StatusStep

LEMMA ConfirmStep ==
    ASSUME SourceInv, NEW s \in BankSlots, confirm(s), state \in {"none", "open"}
    PROVE  SourceInv'
<1> DEFINE v == "confirmed"  w == "Confirmed"
<1>1. /\ bank[s] # "none" /\ verdict[s] # "dead" /\ verdict' = [verdict EXCEPT ![s] = v]
      /\ Notify(on_status(s, w)) /\ UNCHANGED <<bank, txs, meta, root>>
  BY DEF confirm
<1>2. verdict[s] \in {"none", "confirmed"}  BY <1>1 DEF SourceInv, SourceTypeOK
<1>3. /\ (v = "dead" /\ w = "Dead") \/ (v = "confirmed" /\ w = "Confirmed")
      /\ verdict[s] \in {"none", v} /\ (v = "dead" => verdict[s] = "none")
  BY <1>2
<1> HIDE DEF v, w
<1> QED  BY <1>1, <1>3, StatusStep

LEMMA ConfirmedFinalized ==
    Append(<<"Confirmed">>, "Finalized") = <<"Confirmed", "Finalized">>
<1> DEFINE S == {"Confirmed", "Finalized"}
           a == Append(<<"Confirmed">>, "Finalized")
           b == <<"Confirmed", "Finalized">>
<1>1. a \in Seq(S) /\ Len(a) = 2 /\ a[1] = "Confirmed" /\ a[2] = "Finalized"
  <2>1. <<"Confirmed">> \in Seq(S)  OBVIOUS
  <2> QED  BY <2>1
<1>2. b \in Seq(S) /\ Len(b) = 2 /\ b[1] = "Confirmed" /\ b[2] = "Finalized"  OBVIOUS
<1> HIDE DEF a, b
<1>3. a = b  BY <1>1, <1>2
<1> QED  BY <1>3 DEF a, b

\* Finalized: slots before it are dropped, which only loses what is known.
LEMMA FinalizeStep ==
    ASSUME SourceInv, NEW s \in BankSlots, finalize(s), state \in {"none", "open"}
    PROVE  SourceInv'
<1>0. SourceTypeOK /\ SlotOK(s) /\ N \in Nat /\ root \in 0 .. N /\ BankSlots \subseteq Nat
  BY CountNat DEF SourceInv, SourceTypeOK
<1>1. /\ UNCHANGED <<bank, txs, meta, verdict>> /\ root' = s /\ s > root
      /\ verdict[s] = "confirmed" /\ Notify(on_finalized(s))
  BY DEF finalize
<1>2. UNCHANGED <<state, first_processed, built, culprit>>
  BY <1>1 DEF Notify, on_finalized, streamVars
<1>3. \/ UNCHANGED <<slots, told>>
      \/ /\ slots' = Restrict(slots, {t \in DOMAIN slots : t >= s})
         /\ told' = [told EXCEPT ![s] = Append(@, "Finalized")]
  BY <1>1 DEF Notify, on_finalized, streamVars
<1>4. \A t \in DOMAIN slots' : t \in DOMAIN slots /\ slots'[t] = slots[t]
  BY <1>3 DEF Restrict
<1>5. \A t \in DOMAIN slots : t >= s => t \in DOMAIN slots'
  BY <1>3 DEF Restrict
<1>6. told[s] \in {<<>>, <<"Confirmed">>}  BY <1>0, <1>1 DEF SlotOK, ToldOf
<1>7. told' \in [BankSlots -> Seq({"Dead", "Confirmed", "Finalized"})]
  <2> DEFINE Told == Seq({"Dead", "Confirmed", "Finalized"})
  <2>1. told \in [BankSlots -> Told]  BY <1>0 DEF SourceTypeOK
  <2>2. Append(told[s], "Finalized") \in Told  BY <2>1
  <2> HIDE DEF Told
  <2>3. told' \in [BankSlots -> Told]  BY <1>3, <2>1, <2>2
  <2> QED  BY <2>3 DEF Told
<1>8. \A t \in BankSlots : t # s => told'[t] = told[t]  BY <1>0, <1>3 DEF SourceTypeOK
<1>9. told'[s] \in {<<>>, <<"Confirmed">>, <<"Finalized">>, <<"Confirmed", "Finalized">>}
  <2>1. CASE told' = told  BY <1>6, <2>1
  <2>2. CASE told' = [told EXCEPT ![s] = Append(@, "Finalized")]
    <3>1. told'[s] = Append(told[s], "Finalized")  BY <1>0, <2>2 DEF SourceTypeOK
    <3>2. /\ Append(<<>>, "Finalized") = <<"Finalized">>
          /\ Append(<<"Confirmed">>, "Finalized") = <<"Confirmed", "Finalized">>
      BY ConfirmedFinalized
    <3> QED  BY <1>6, <3>1, <3>2
  <2> QED  BY <1>3, <2>1, <2>2
<1>10. ASSUME NEW t \in BankSlots PROVE SlotOK(t)'
  <2>0. SlotOK(t) /\ t \in Nat  BY <1>0 DEF SourceInv
  <2>1. Untouched(t)'
    BY <1>1, <1>2, <1>4, <1>8, <2>0 DEF SlotOK, Untouched
  <2>2. Gathered(t)' /\ BuiltOnce(t)'
    BY <1>1, <1>2, <1>4, <2>0 DEF SlotOK, Gathered, BuiltOnce, Whole, Indexes
  <2>3. Judged(t)'  BY <1>1, <1>2, <1>4, <2>0 DEF SlotOK, Judged
  <2>4. ToldOf(t)'
    <3>1. CASE t = s
      <4>1. s <= root'  BY <1>0, <1>1
      <4> QED  BY <1>1, <1>9, <3>1, <4>1 DEF ToldOf
    <3>2. CASE t # s
      <4>1. t <= root => t <= root'  BY <1>0, <1>1, <2>0
      <4> QED  BY <1>1, <1>8, <2>0, <3>2, <4>1 DEF SlotOK, ToldOf
    <3> QED  BY <3>1, <3>2
  <2>5. SeenOf(t)'
    <3>1. root' <= t => root <= t /\ t >= s  BY <1>0, <1>1, <2>0
    <3> QED  BY <1>1, <1>2, <1>4, <1>5, <2>0, <3>1 DEF SlotOK, SeenOf, Known, Indexes
  <2> QED  BY <2>1, <2>2, <2>3, <2>4, <2>5 DEF SlotOK
<1>11. SourceTypeOK'
  <2>1. root' \in 0 .. N /\ DOMAIN slots' \subseteq BankSlots
    BY <1>0, <1>1, <1>4 DEF SourceTypeOK, BankSlots
  <2> QED  BY <1>0, <1>1, <1>2, <1>4, <1>7, <2>1 DEF SourceTypeOK, Indexes
<1>12. RejectsOnlyUnknown'  BY <1>2 DEF RejectsOnlyUnknown
<1> QED  BY <1>10, <1>11, <1>12 DEF SourceInv

LEMMA ConnectionStep ==
    ASSUME SourceInv, new \/ fail
    PROVE  SourceInv'
<1>1. /\ UNCHANGED <<bank, txs, meta, verdict, root>>
      /\ UNCHANGED <<slots, first_processed, built, told, culprit>>
      /\ (state = "none" /\ state' = "open") \/ (state = "open" /\ state' = "failed")
  <2>1. CASE new  BY <2>1 DEF new, nodeVars
  <2>2. CASE fail  BY <2>2 DEF fail, nodeVars
  <2> QED  BY <2>1, <2>2
<1>2. ASSUME NEW t \in BankSlots PROVE SlotOK(t)'
  <2>0. SlotOK(t)  BY DEF SourceInv
  <2>1. Untouched(t)' /\ Gathered(t)' /\ BuiltOnce(t)'
    BY <1>1, <2>0 DEF SlotOK, Untouched, Gathered, BuiltOnce, Whole, Indexes
  <2>2. Judged(t)' /\ ToldOf(t)'  BY <1>1, <2>0 DEF SlotOK, Judged, ToldOf
  <2>3. SeenOf(t)'  BY <1>1, <2>0 DEF SlotOK, SeenOf, Known, Indexes
  <2> QED  BY <2>1, <2>2, <2>3 DEF SlotOK
<1>3. SourceTypeOK'  BY <1>1 DEF SourceInv, SourceTypeOK, Indexes
<1>4. RejectsOnlyUnknown'  BY <1>1 DEF RejectsOnlyUnknown
<1> QED  BY <1>2, <1>3, <1>4 DEF SourceInv

LEMMA SourceStarts == SourceInit => SourceInv
<1> SUFFICES ASSUME SourceInit PROVE SourceInv  OBVIOUS
<1>1. SourceTypeOK
  <2>1. N \in Nat  BY CountNat
  <2>2. DOMAIN slots = {}  BY DEF SourceInit
  <2>3. <<>> \in Seq(Seq(Nat)) /\ <<>> \in Seq({"Dead", "Confirmed", "Finalized"})  OBVIOUS
  <2> QED  BY <2>1, <2>2, <2>3 DEF SourceInit, SourceTypeOK
<1>2. ASSUME NEW s \in BankSlots PROVE SlotOK(s)
  <2>1. DOMAIN slots = {}  BY DEF SourceInit
  <2>2. Untouched(s) /\ Gathered(s) /\ Judged(s)
    BY <2>1 DEF SourceInit, Untouched, Gathered, Judged
  <2>3. BuiltOnce(s) /\ ToldOf(s) /\ SeenOf(s)
    BY <2>1 DEF SourceInit, BuiltOnce, ToldOf, SeenOf
  <2> QED  BY <2>2, <2>3 DEF SlotOK
<1>3. RejectsOnlyUnknown  BY DEF SourceInit, RejectsOnlyUnknown
<1> QED  BY <1>1, <1>2, <1>3 DEF SourceInv

LEMMA SourceStep == SourceInv /\ [SourceNext]_connectionVars => SourceInv'
<1> SUFFICES ASSUME SourceInv, [SourceNext]_connectionVars PROVE SourceInv'  OBVIOUS
<1>1. CASE SourceNext
  <2>1. state \in {"none", "open"}  BY <1>1 DEF SourceNext
  <2>2. CASE new \/ fail  BY <2>2, ConnectionStep
  <2>3. CASE \E s \in BankSlots : create(s) \/ transact(s) \/ freeze(s)
    BY <2>1, <2>3, CreateStep, TransactStep, FreezeStep
  <2>4. CASE \E s \in BankSlots : die(s) \/ confirm(s) \/ finalize(s)
    BY <2>1, <2>4, DieStep, ConfirmStep, FinalizeStep
  <2> QED  BY <1>1, <2>2, <2>3, <2>4 DEF SourceNext
<1>2. CASE UNCHANGED connectionVars
  <2>1. UNCHANGED nodeVars /\ UNCHANGED streamVars  BY <1>2 DEF connectionVars
  <2>2. \A t \in BankSlots : Same(t)  BY <2>1 DEF Same, nodeVars, streamVars
  <2>3. \A t \in BankSlots : SlotOK(t)'
    BY <2>1, <2>2, OtherSlots DEF Onward, nodeVars, streamVars, SourceInv
  <2>4. SourceTypeOK'  BY <2>1 DEF SourceTypeOK, SourceInv, Indexes, nodeVars, streamVars
  <2>5. RejectsOnlyUnknown'
    BY <2>1 DEF RejectsOnlyUnknown, SourceInv, nodeVars, streamVars
  <2> QED  BY <2>3, <2>4, <2>5 DEF SourceInv
<1> QED  BY <1>1, <1>2

-----------------------------------------------------------------------------
(***************************************************************************)
(* Theorems.                                                               *)
(***************************************************************************)

\* The inductive invariant holds of every state of a connection.
THEOREM SourceInvariant == SourceSpec => []SourceInv
BY SourceStarts, SourceStep, PTL DEF SourceSpec

\* The state of StreamSource has its types; a slot that was built holds no
\* parts of a second block.
THEOREM StreamTypes == SourceSpec => []SourceTypeOK
<1>1. SourceInv => SourceTypeOK  BY DEF SourceInv
<1> QED  BY <1>1, SourceInvariant, PTL

\* A block that try_build_block sends has all transactions of its slot, in
\* order, and no slot is sent twice.
THEOREM BlocksExactAlways == SourceSpec => []BlocksExact
<1>1. SourceInv => BlocksExact  BY DEF SourceInv, SlotOK, BuiltOnce, BlocksExact, Whole
<1> QED  BY <1>1, SourceInvariant, PTL

\* The writer is told of a slot that it is dead, or confirmed and then
\* finalized, each once.
THEOREM StatusesSoundAlways == SourceSpec => []StatusesSound
<1>1. ASSUME SourceInv PROVE StatusesSound
  <2> SUFFICES ASSUME NEW s \in BankSlots
               PROVE  told[s] \in {<<>>, <<"Dead">>, <<"Confirmed">>, <<"Finalized">>,
                                   <<"Confirmed", "Finalized">>}
    BY DEF StatusesSound
  <2>1. ToldOf(s) /\ verdict[s] \in {"none", "dead", "confirmed"}
    BY <1>1 DEF SourceInv, SlotOK, SourceTypeOK
  <2> QED  BY <2>1 DEF ToldOf
<1> QED  BY <1>1, SourceInvariant, PTL

\* The stream is rejected only for a bank whose creation was missed or for a
\* slot that a later finalized one has dropped.
THEOREM RejectsOnlyUnknownAlways == SourceSpec => []RejectsOnlyUnknown
<1>1. SourceInv => RejectsOnlyUnknown  BY DEF SourceInv
<1> QED  BY <1>1, SourceInvariant, PTL

\* A slot of which an open connection has seen all has been sent as a block,
\* whichever update came last.
THEOREM SeenIsBuiltAlways == SourceSpec => []SeenIsBuilt
<1>1. ASSUME SourceInv PROVE SeenIsBuilt
  <2> SUFFICES ASSUME NEW s \in BankSlots, state = "open", bank[s] = "seen",
                      s > first_processed, s >= root, txs[s] = Indexes(s), s \in meta
               PROVE  built[s] # <<>>
    BY DEF SeenIsBuilt
  <2>1. SeenOf(s)  BY <1>1 DEF SourceInv, SlotOK
  <2>2. first_processed \in Nat /\ root \in Nat /\ s \in Nat
    BY <1>1, CountNat DEF SourceInv, SourceTypeOK
  <2>3. first_processed < s /\ root <= s  BY <2>2
  <2> QED  BY <2>1, <2>3 DEF SeenOf, Known
<1> QED  BY <1>1, SourceInvariant, PTL

=============================================================================
