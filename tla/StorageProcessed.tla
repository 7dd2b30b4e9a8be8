-------------------------- MODULE StorageProcessed --------------------------
(***************************************************************************)
(* StorageProcessed of src/storage/read.rs: what one reader thread knows   *)
(* of the recent blocks, confirmed or not, of all forks.  It answers       *)
(* getSignatureStatuses, getLatestBlockhash, getBlockHeight and            *)
(* isBlockhashValid.                                                       *)
(*                                                                         *)
(* A block is known by its slot: its height, its blockhash and its         *)
(* transactions follow from it.  The chain is chosen once: a parent for    *)
(* every slot, and the slots the cluster confirms, which form one branch.  *)
(***************************************************************************)
EXTENDS Integers, FiniteSets

CONSTANTS
    N,          \* slots are 1 .. N; 0 stands for what is before them
    Signatures, \* transaction signatures
    Tx,         \* Tx[s]: signatures of the transactions of the block at s
    MaxRecent   \* MAX_RECENT_BLOCKHASHES

Slots == 1 .. N

ASSUME StorageProcessedAssumption ==
    /\ N \in Nat \ {0}
    /\ Tx \in [Slots -> SUBSET Signatures]
    /\ MaxRecent \in Nat \ {0}

VARIABLES
    parent,         \* external: parent slot of the block at each slot
    height,         \* external: block height of each slot, 0 before them
    canon,          \* external: the slots of the confirmed branch
    blocks,         \* blocks of unconfirmed slots: TRUE, or FALSE if dead
    index,          \* signature_statuses, recent_blocks and block_heights
    processed, confirmed, finalized,    \* slot and height of each level
    phase           \* "loading" from disk, "loaded", or "following" the writer

chain == <<parent, height, canon>>

vars == <<parent, height, canon, blocks, index, processed, confirmed, finalized, phase>>

None == -1

Level == [slot : Slots \union {0}, height : 0 .. N]

Greatest(S) == CHOOSE s \in S : \A t \in S : t <= s

Greater(a, b) == IF a < b THEN b ELSE a

(***************************************************************************)
(* The chain of the cluster.  A transaction lands at most once on a        *)
(* branch, but two forks may both hold it.  No fork gets MaxRecent blocks  *)
(* ahead of the confirmed branch: voting ends on it long before.           *)
(***************************************************************************)
IsHeight(h) == h[0] = 0 /\ \A s \in Slots : h[s] = h[parent[s]] + 1

ancestors[s \in 0 .. N] == IF s = 0 THEN {} ELSE {s} \union ancestors[parent[s]]

IsChain ==
    /\ \A s \in canon : parent[s] = Greatest({0} \union {t \in canon : t < s})
    /\ \A s \in Slots, t \in canon : s < t => height[s] < height[t] + MaxRecent
    /\ \A s \in Slots : \A t \in ancestors[s] \ {s} : Tx[s] \intersect Tx[t] = {}

(***************************************************************************)
(* statuses[g] is the slot stored for signature g, recent the slots of     *)
(* recent_blocks, hashes the slots whose blockhash is in block_heights.    *)
(***************************************************************************)
IsIndex(I) ==
    /\ DOMAIN I = {"statuses", "recent", "hashes"}
    /\ DOMAIN I.statuses \subseteq Signatures
    /\ \A g \in DOMAIN I.statuses : g \in Tx[I.statuses[g]]
    /\ I.recent \subseteq Slots
    /\ I.hashes \subseteq Slots

(***************************************************************************)
(* add_signatures: nothing for a slot already heard of as processed or     *)
(* dead; otherwise the block is entered with its signatures.               *)
(***************************************************************************)
\* Mutant: a signature known from another fork keeps its slot, its block too.
AddSignaturesOnce(I, slot) ==
    IF slot \in DOMAIN blocks \/ Tx[slot] \intersect DOMAIN I.statuses # {} THEN I
    ELSE [statuses |-> [g \in DOMAIN I.statuses \union Tx[slot] |->
                           IF g \in Tx[slot] THEN slot ELSE I.statuses[g]],
          recent |-> I.recent \union {slot},
          hashes |-> I.hashes \union {slot}]

add_signatures(I, slot) ==
    IF slot \in DOMAIN blocks THEN I
    ELSE [statuses |-> [g \in DOMAIN I.statuses \union Tx[slot] |->
                           IF g \in Tx[slot] THEN slot ELSE I.statuses[g]],
          recent |-> I.recent \union {slot},
          hashes |-> I.hashes \union {slot}]

(***************************************************************************)
(* remove_signatures, for the blocks at the slots gone: the status of each *)
(* of their signatures goes, whatever block it came from.                  *)
(***************************************************************************)
\* Mutant: the blockhash stays valid.
RemoveSignaturesKeepsHash(I, gone) ==
    [statuses |-> [g \in DOMAIN I.statuses \ UNION {Tx[s] : s \in gone} |-> I.statuses[g]],
     recent |-> I.recent \ gone,
     hashes |-> I.hashes]

remove_signatures(I, gone) ==
    [statuses |-> [g \in DOMAIN I.statuses \ UNION {Tx[s] : s \in gone} |-> I.statuses[g]],
     recent |-> I.recent \ gone,
     hashes |-> I.hashes \ gone]

(***************************************************************************)
(* update_processed: the newest unconfirmed block that is not dead, else   *)
(* the confirmed one; slot and height only ever go up.                     *)
(***************************************************************************)
update_processed ==
    LET live == {s \in DOMAIN blocks' : blocks'[s]}
        newest == IF live = {} THEN confirmed'
                  ELSE [slot |-> Greatest(live), height |-> height[Greatest(live)]]
    IN  processed' = [slot   |-> Greater(processed.slot, newest.slot),
                      height |-> Greater(processed.height, newest.height)]

(***************************************************************************)
(* The four messages a reader hands to StorageProcessed.  BlockNew: in any *)
(* order, late, and possibly again after a reconnect.                      *)
(***************************************************************************)
Loaded == phase' = IF phase = "loading" THEN "loaded" ELSE phase

add_processed_block(slot) ==
    /\ index' = add_signatures(index, slot)
    /\ blocks' = [s \in DOMAIN blocks \union {slot} |->
                     IF s \in DOMAIN blocks THEN blocks[s] ELSE TRUE]
    /\ UNCHANGED <<chain, confirmed, finalized>>
    /\ update_processed
    /\ Loaded

(***************************************************************************)
(* BlockDead: only off the confirmed branch.  The block is removed only if *)
(* it is still unconfirmed.                                                *)
(***************************************************************************)
mark_dead(slot) ==
    /\ slot \notin canon
    /\ blocks' = [s \in DOMAIN blocks \union {slot} |->
                     IF s = slot THEN FALSE ELSE blocks[s]]
    /\ index' = remove_signatures(index, {slot} \intersect DOMAIN blocks \intersect index.recent)
    /\ UNCHANGED <<chain, confirmed, finalized>>
    /\ update_processed
    /\ Loaded

(***************************************************************************)
(* set_confirmed, with a block when the slot is on the branch.  The height *)
(* is that of whatever block is known at the slot.  Blocks MaxRecent or    *)
(* more below it are dropped, lowest slot first, up to the first that is   *)
(* not.                                                                    *)
(***************************************************************************)
Outdated(I, top) ==
    {s \in I.recent : \A t \in I.recent : t <= s => top - height[t] >= MaxRecent}

set_confirmed(slot) ==
    /\ LET added == IF slot \in canon THEN add_signatures(index, slot) ELSE index
           top == IF slot \in added.recent THEN height[slot] ELSE confirmed.height
       IN  /\ confirmed' = [slot |-> slot, height |-> top]
           /\ index' = remove_signatures(added, Outdated(added, top))
    /\ blocks' = [s \in {t \in DOMAIN blocks : t > slot} |-> blocks[s]]
    /\ update_processed
    /\ UNCHANGED <<chain, finalized>>

(***************************************************************************)
(* A reader starts with the recent blocks found on disk, dead slots left   *)
(* out.  BlockConfirmed then comes for every slot in turn, the first time  *)
(* for a slot behind them, or at or before the last of them if slots were  *)
(* popped from the front on request: fewer than MaxRecent blocks, a bound. *)
(* (If more are popped, a block may be pruned while it is held as          *)
(* unconfirmed, and add_signatures then does not enter it again.)          *)
(***************************************************************************)
NoneSkipped(slot) ==
    confirmed.slot # 0 => \A t \in canon : t <= confirmed.slot \/ slot <= t

FewPopped(slot) ==
    \A t \in canon : slot <= t /\ t <= confirmed.slot =>
                         confirmed.height < height[t] + MaxRecent

load_recent(slot) ==
    /\ phase = "loading"
    /\ slot \in canon
    /\ slot > confirmed.slot
    /\ NoneSkipped(slot)
    /\ set_confirmed(slot)
    /\ UNCHANGED phase

BlockConfirmed(slot) ==
    /\ IF phase = "following" THEN slot = confirmed.slot + 1
                              ELSE NoneSkipped(slot) /\ FewPopped(slot)
    /\ set_confirmed(slot)
    /\ phase' = "following"

(***************************************************************************)
(* SlotFinalized: from the stream or from RPC, so possibly ahead of the    *)
(* confirmed slot or behind the last finalized one.                        *)
(***************************************************************************)
set_finalized(slot) ==
    /\ slot \in canon
    /\ finalized' = IF slot \in index.recent
                    THEN [slot |-> slot, height |-> height[slot]] ELSE finalized
    /\ UNCHANGED <<chain, blocks, index, processed, confirmed>>
    /\ Loaded

Init ==
    /\ parent \in [Slots -> 0 .. N] /\ \A s \in Slots : parent[s] < s
    /\ height \in [0 .. N -> 0 .. N] /\ IsHeight(height)
    /\ canon \in SUBSET Slots
    /\ IsChain
    /\ blocks = [s \in {} |-> TRUE]
    /\ index = [statuses |-> [g \in {} |-> 0], recent |-> {}, hashes |-> {}]
    /\ processed = [slot |-> 0, height |-> 0]
    /\ confirmed = [slot |-> 0, height |-> 0]
    /\ finalized = [slot |-> 0, height |-> 0]
    /\ phase = "loading"

Next ==
    \E s \in Slots :
        \/ add_processed_block(s)
        \/ mark_dead(s)
        \/ load_recent(s)
        \/ BlockConfirmed(s)
        \/ set_finalized(s)

Spec == Init /\ [][Next]_vars

-----------------------------------------------------------------------------
(***************************************************************************)
(* get_signature_status: the confirmation_status reported.  confirmations  *)
(* is None for a finalized block and, by checked_sub, for a block above    *)
(* the confirmed height.                                                   *)
(***************************************************************************)
\* Mutant: the newest confirmed block left out.
ConfirmationsStrict(g) ==
    LET h == height[index.statuses[g]]
    IN  IF h > finalized.height /\ confirmed.height > h
        THEN confirmed.height - h + 1 ELSE None

confirmations(g) ==
    LET h == height[index.statuses[g]]
    IN  IF h > finalized.height /\ confirmed.height >= h
        THEN confirmed.height - h + 1 ELSE None

get_signature_status(g) ==
    CASE confirmations(g) = 0    -> "processed"
      [] confirmations(g) > 0    -> "confirmed"
      [] confirmations(g) = None -> "finalized"

\* getLatestBlockhash at a commitment level; None is "failed to get block".
latest_blockhash(level) ==
    IF level.slot \in index.recent THEN level.slot ELSE None

-----------------------------------------------------------------------------
(***************************************************************************)
(* Every variable has its type.                                            *)
(***************************************************************************)
TypeOK ==
    /\ DOMAIN blocks \subseteq Slots
    /\ \A s \in DOMAIN blocks : blocks[s] \in BOOLEAN
    /\ IsIndex(index)
    /\ processed \in Level /\ confirmed \in Level /\ finalized \in Level
    /\ phase \in {"loading", "loaded", "following"}

(***************************************************************************)
(* The three maps stay in step, however blocks are added twice, marked     *)
(* dead late, confirmed and pruned: isBlockhashValid knows exactly the     *)
(* blockhashes of the recent blocks, and no status outlives its block,     *)
(* also for a signature that two forks hold.                               *)
(***************************************************************************)
IndexesInStep ==
    /\ index.hashes = index.recent
    /\ \A g \in DOMAIN index.statuses : index.statuses[g] \in index.recent

(***************************************************************************)
(* The block of a confirmed slot is at hand for getLatestBlockhash, and    *)
(* the confirmed height is its height, in whatever order BlockNew,         *)
(* BlockDead and BlockConfirmed came.                                      *)
(***************************************************************************)
ConfirmedExact ==
    confirmed.slot \in canon =>
        /\ confirmed.height = height[confirmed.slot]
        /\ latest_blockhash(confirmed) = confirmed.slot

(***************************************************************************)
(* A transaction that landed in a recent confirmed block and in no other   *)
(* block is reported, and as confirmed or finalized.  In no other block:   *)
(* the status of one that two recent blocks hold is lost with either       *)
(* (OnlyIn).  And this is stated only while the confirmed slot has a block *)
(* of the branch: at a skipped slot set_confirmed may take the height of a *)
(* fork's block, and the status is judged by that height.                  *)
(***************************************************************************)
OnlyIn(g, s) == \A t \in Slots : g \in Tx[t] <=> t = s

LandedReported ==
    \A s \in canon \intersect index.recent : \A g \in Signatures :
        OnlyIn(g, s) /\ s <= confirmed.slot /\ confirmed.slot \in canon =>
            /\ g \in DOMAIN index.statuses
            /\ get_signature_status(g) =
                   IF height[s] <= finalized.height THEN "finalized" ELSE "confirmed"

(***************************************************************************)
(* A transaction of a block that is neither confirmed nor finalized is     *)
(* reported as processed: `Some(0) => Processed`.                          *)
(***************************************************************************)
UnconfirmedIsProcessed ==
    \A g \in DOMAIN index.statuses :
        height[index.statuses[g]] > Greater(confirmed.height, finalized.height) =>
            get_signature_status(g) = "processed"
=============================================================================
