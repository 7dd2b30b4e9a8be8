---------------------------- MODULE StreamSource ----------------------------
(***************************************************************************)
(* src/source/stream.rs: one gRPC connection, whose updates about banks,   *)
(* transactions, block metas and commitment are assembled into the         *)
(* messages Block and SlotStatus for the writer.                           *)
(*                                                                         *)
(* The node notifies about each bank from several threads: once a bank is  *)
(* created, its transactions, its meta and its commitment come in any      *)
(* order, mixed with those of other banks.  The connection is made in the  *)
(* middle of all this; what was sent before it is missed.  A transaction   *)
(* is its index in the block.                                              *)
(***************************************************************************)
EXTENDS Integers, Sequences, Functions

CONSTANTS
    N,      \* slots are 1 .. N
    Count   \* executed_transaction_count of the block at each slot

ASSUME StreamSourceAssumption ==
    /\ N \in Nat
    /\ Count \in [1 .. N -> Nat]

BankSlots == 1 .. N

Indexes(s) == 1 .. Count[s]

VARIABLES
    bank,               \* external: "none", "missed" (created before the connection), "seen"
    txs,                \* external: transactions of each slot the node has sent
    meta,               \* external: slots whose meta was sent
    verdict,            \* external: "none", "dead", "confirmed"
    root,               \* external: newest finalized slot
    state,              \* of the connection: "none", "open", "rejected", "failed"
    slots,              \* StreamSource.slots
    first_processed,    \* StreamSource.first_processed, 0 for None
    built,              \* history: blocks sent to the writer, for each slot
    told,               \* history: statuses sent to the writer, for each slot
    culprit             \* slot of the update that was rejected

nodeVars == <<bank, txs, meta, verdict, root>>

streamVars == <<state, slots, first_processed, built, told, culprit>>

connectionVars == <<nodeVars, streamVars>>

(***************************************************************************)
(* SlotInfo.  parent tells whether the parent is known.  block_meta tells  *)
(* whether it is held: its count is the one of the slot.                   *)
(***************************************************************************)
SlotInfo == [status : {"CreatedBank", "Dead", "Confirmed"}, parent : BOOLEAN,
             transactions : Seq(Nat), block_meta : BOOLEAN, sealed : BOOLEAN]

new_info == [status |-> "CreatedBank", parent |-> FALSE, transactions |-> <<>>,
             block_meta |-> FALSE, sealed |-> FALSE]

Info(s) == IF s \in DOMAIN slots THEN slots[s] ELSE new_info

With(s, info) == [t \in DOMAIN slots \union {s} |-> IF t = s THEN info ELSE slots[t]]

(***************************************************************************)
(* try_build_block.                                                        *)
(***************************************************************************)
Complete(s, info) ==
    ~ info.sealed /\ info.block_meta /\ Len(info.transactions) = Count[s]

\* Mutant: the transactions are left in the order in which they came.
BlockAsReceived(info) == info.transactions

\* sort_unstable_by_key with the index.
Sorted(t) ==
    LET order == CHOOSE p \in Injection(DOMAIN t, DOMAIN t) :
                    \A i, j \in DOMAIN t : i < j => t[p[i]] <= t[p[j]]
    IN  [i \in DOMAIN t |-> t[order[i]]]

BlockOf(info) == Sorted(info.transactions)

BuiltInfo(info) ==
    [info EXCEPT !.sealed = TRUE, !.block_meta = FALSE, !.transactions = <<>>]

Ignored(s) == first_processed # 0 /\ s <= first_processed

\* Slot s has the given info after an update of its parts.
assemble(s, info) ==
    /\ IF ~ Ignored(s) /\ Complete(s, info)
       THEN /\ slots' = With(s, BuiltInfo(info))
            /\ built' = [built EXCEPT ![s] = Append(@, BlockOf(info))]
       ELSE slots' = With(s, info) /\ UNCHANGED built
    /\ UNCHANGED <<state, first_processed, told, culprit>>

(***************************************************************************)
(* poll_next, by update.                                                   *)
(***************************************************************************)
reject(s) ==
    /\ state' = "rejected"
    /\ culprit' = s

\* Mutant: a transaction never completes a block.
OnTransactionKeeps(s, i) ==
    /\ slots' = With(s, [Info(s) EXCEPT !.transactions = Append(@, i)])
    /\ UNCHANGED <<state, first_processed, built, told, culprit>>

on_transaction(s, i) ==
    assemble(s, [Info(s) EXCEPT !.transactions = Append(@, i)])

on_block_meta(s) == assemble(s, [Info(s) EXCEPT !.block_meta = TRUE])

on_created_bank(s) ==
    /\ first_processed' = IF first_processed = 0 THEN s ELSE first_processed
    /\ IF s <= first_processed'
       THEN UNCHANGED <<slots, state, culprit>>
       ELSE IF ~ Info(s).parent /\ Info(s).status = "CreatedBank"
       THEN /\ slots' = With(s, [Info(s) EXCEPT !.parent = TRUE])
            /\ UNCHANGED <<state, culprit>>
       ELSE slots' = With(s, Info(s)) /\ reject(s)
    /\ UNCHANGED <<built, told>>

Dropped(s) == first_processed = 0 \/ s <= first_processed

\* Mutant: a status told again is not expected.
OnStatusOnce(s, status) ==
    /\ UNCHANGED <<first_processed, built>>
    /\ IF Dropped(s)
       THEN UNCHANGED <<slots, state, told, culprit>>
       ELSE IF Info(s).parent /\ Info(s).status = "CreatedBank"
       THEN /\ slots' = With(s, [Info(s) EXCEPT !.status = status])
            /\ told' = [told EXCEPT ![s] = Append(@, status)]
            /\ UNCHANGED <<state, culprit>>
       ELSE slots' = With(s, Info(s)) /\ reject(s) /\ UNCHANGED told

\* Mutant: a status is passed on whatever came before it.
OnStatusAny(s, status) ==
    /\ UNCHANGED <<first_processed, built, state, culprit>>
    /\ IF Dropped(s)
       THEN UNCHANGED <<slots, told>>
       ELSE /\ slots' = With(s, [Info(s) EXCEPT !.status = status])
            /\ told' = [told EXCEPT ![s] = Append(@, status)]

\* Dead or confirmed.
on_status(s, status) ==
    /\ UNCHANGED <<first_processed, built>>
    /\ IF Dropped(s)
       THEN UNCHANGED <<slots, state, told, culprit>>
       ELSE IF Info(s).parent /\ Info(s).status = "CreatedBank"
       THEN /\ slots' = With(s, [Info(s) EXCEPT !.status = status])
            /\ told' = [told EXCEPT ![s] = Append(@, status)]
            /\ UNCHANGED <<state, culprit>>
       ELSE IF Info(s).parent /\ Info(s).status = "Confirmed" /\ status = "Confirmed"
       THEN UNCHANGED <<slots, state, told, culprit>>
       ELSE slots' = With(s, Info(s)) /\ reject(s) /\ UNCHANGED told

\* Finalized: older slots are dropped, complete or not.
on_finalized(s) ==
    /\ IF Dropped(s)
       THEN UNCHANGED <<slots, told>>
       ELSE /\ slots' = Restrict(slots, {t \in DOMAIN slots : t >= s})
            /\ told' = [told EXCEPT ![s] = Append(@, "Finalized")]
    /\ UNCHANGED <<state, first_processed, built, culprit>>

-----------------------------------------------------------------------------
(***************************************************************************)
(* external: the node's notifications.  They reach StreamSource once it is *)
(* connected.                                                              *)
(***************************************************************************)
Notify(update) == IF state = "open" THEN update ELSE UNCHANGED streamVars

create(s) ==
    /\ bank[s] = "none"
    /\ bank' = [bank EXCEPT ![s] = IF state = "open" THEN "seen" ELSE "missed"]
    /\ Notify(on_created_bank(s))
    /\ UNCHANGED <<txs, meta, verdict, root>>

transact(s) ==
    /\ bank[s] # "none"
    /\ \E i \in Indexes(s) \ txs[s] :
        /\ txs' = [txs EXCEPT ![s] = @ \union {i}]
        /\ Notify(on_transaction(s, i))
    /\ UNCHANGED <<bank, meta, verdict, root>>

freeze(s) ==
    /\ bank[s] # "none"
    /\ s \notin meta
    /\ verdict[s] # "dead"
    /\ meta' = meta \union {s}
    /\ Notify(on_block_meta(s))
    /\ UNCHANGED <<bank, txs, verdict, root>>

die(s) ==
    /\ bank[s] # "none"
    /\ s \notin meta
    /\ verdict[s] = "none"
    /\ verdict' = [verdict EXCEPT ![s] = "dead"]
    /\ Notify(on_status(s, "Dead"))
    /\ UNCHANGED <<bank, txs, meta, root>>

\* A slot is confirmed once or more often, before a later one is finalized.
confirm(s) ==
    /\ bank[s] # "none"
    /\ verdict[s] # "dead"
    /\ s >= root
    /\ verdict' = [verdict EXCEPT ![s] = "confirmed"]
    /\ Notify(on_status(s, "Confirmed"))
    /\ UNCHANGED <<bank, txs, meta, root>>

finalize(s) ==
    /\ verdict[s] = "confirmed"
    /\ s > root
    /\ root' = s
    /\ Notify(on_finalized(s))
    /\ UNCHANGED <<bank, txs, meta, verdict>>

(***************************************************************************)
(* StreamSource::new.                                                      *)
(***************************************************************************)
new ==
    /\ state = "none"
    /\ state' = "open"
    /\ UNCHANGED <<nodeVars, slots, first_processed, built, told, culprit>>

\* The connection breaks, or an update is of a kind not asked for or cannot
\* be decoded.
fail ==
    /\ state = "open"
    /\ state' = "failed"
    /\ UNCHANGED <<nodeVars, slots, first_processed, built, told, culprit>>

SourceInit ==
    /\ bank = [s \in BankSlots |-> "none"]
    /\ txs = [s \in BankSlots |-> {}]
    /\ meta = {}
    /\ verdict = [s \in BankSlots |-> "none"]
    /\ root = 0
    /\ state = "none"
    /\ slots = [s \in {} |-> new_info]
    /\ first_processed = 0
    /\ built = [s \in BankSlots |-> <<>>]
    /\ told = [s \in BankSlots |-> <<>>]
    /\ culprit = 0

SourceNext ==
    /\ state \in {"none", "open"}
    /\ \/ new
       \/ fail
       \/ \E s \in BankSlots :
            \/ create(s)
            \/ transact(s)
            \/ freeze(s)
            \/ die(s)
            \/ confirm(s)
            \/ finalize(s)

SourceSpec == SourceInit /\ [][SourceNext]_connectionVars

-----------------------------------------------------------------------------
(***************************************************************************)
(* Properties.                                                             *)
(***************************************************************************)

\* Types of the variables; of StreamSource.slots also that a slot that was
\* built holds no parts of a second block.
SourceTypeOK ==
    /\ bank \in [BankSlots -> {"none", "missed", "seen"}]
    /\ DOMAIN txs = BankSlots /\ \A s \in BankSlots : txs[s] \subseteq Indexes(s)
    /\ meta \subseteq BankSlots
    /\ verdict \in [BankSlots -> {"none", "dead", "confirmed"}]
    /\ root \in 0 .. N /\ first_processed \in 0 .. N /\ culprit \in 0 .. N
    /\ state \in {"none", "open", "rejected", "failed"}
    /\ DOMAIN slots \subseteq BankSlots
    /\ \A s \in DOMAIN slots :
        /\ slots[s] \in SlotInfo
        /\ slots[s].sealed => slots[s].transactions = <<>> /\ ~ slots[s].block_meta
    /\ built \in [BankSlots -> Seq(Seq(Nat))]
    /\ told \in [BankSlots -> Seq({"Dead", "Confirmed", "Finalized"})]

\* try_build_block counts transactions, it does not look which ones it has:
\* still a block sent to the writer has all transactions of its slot, in
\* order, however they were mixed with others and whatever was missed or
\* dropped before, and no slot is sent twice.
BlocksExact ==
    \A s \in BankSlots : built[s] \in {<<>>, << [i \in Indexes(s) |-> i] >>}

\* What the writer is told of a slot is dead, or confirmed and then
\* finalized, each once; a slot confirmed before the connection may be told
\* finalized only.
StatusesSound ==
    \A s \in BankSlots : told[s] \in {<<>>, <<"Dead">>, <<"Confirmed">>, <<"Finalized">>,
                                  <<"Confirmed", "Finalized">>}

\* The stream is rejected (and the source reconnects) only when the creation
\* of the bank was missed or the slot was dropped by a later finalized one.
RejectsOnlyUnknown ==
    state = "rejected" => bank[culprit] = "missed" \/ culprit < root

\* Every slot of which the connection has seen all is sent to the writer as
\* a block, whichever update came last: it does not have to be fetched over
\* RPC.  Exempt are the first slot and what came after a later slot was final.
SeenIsBuilt ==
    \A s \in BankSlots :
        /\ state = "open"
        /\ bank[s] = "seen" /\ s > first_processed /\ s >= root
        /\ txs[s] = Indexes(s) /\ s \in meta
        => built[s] # <<>>
=============================================================================
