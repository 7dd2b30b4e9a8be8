--------------------------- MODULE StorageMemory ----------------------------
(***************************************************************************)
(* src/storage/memory.rs: what the stream tells about recent slots is kept *)
(* in a deque until a slot is confirmed; then every slot up to it is       *)
(* reported, in order, as a block, as dead, or as missed (to be fetched    *)
(* over RPC).  Which is decided by walking from the confirmed block to its *)
(* ancestors.                                                              *)
(*                                                                         *)
(* The chain is chosen once: a parent for every slot, and the slots the    *)
(* cluster confirms, which form one branch.                                *)
(***************************************************************************)
EXTENDS Integers, FiniteSets

CONSTANT N      \* slots are 1 .. N; 0 stands for what is before them

ASSUME StorageMemoryAssumption == N \in Nat \ {0}

Slots == 1 .. N

None == -1

VARIABLES
    parent,         \* external: parent_slot of the block at each slot
    canon,          \* external: the slots of the confirmed branch
    newest,         \* external: newest slot the stream called confirmed
    blocks,         \* StorageMemory.blocks, as a function on its slots
    confirmed,      \* StorageMemory.confirmed
    gen_next_slot,  \* StorageMemory.gen_next_slot
    draining,       \* the writer is in its `while let Some(..)` loop
    report,         \* history: what was reported of each slot
    panic           \* an assertion or a panic! stopped the writer

chain == <<parent, canon>>

vars == <<parent, canon, newest, blocks, confirmed, gen_next_slot, draining, report, panic>>

(***************************************************************************)
(* The chain of the cluster: the branch is a set of slots of which each    *)
(* has the one before it as its parent.                                    *)
(***************************************************************************)
IsBranch(p, c) ==
    \A s \in c : /\ p[s] \in c \union {0}
                 /\ \A t \in c : t < s => t <= p[s]

(***************************************************************************)
(* BlockInfo.  Of a block only its parent_slot is looked at.               *)
(***************************************************************************)
BlockInfo == [block : Slots \union {0, None}, dead : BOOLEAN, confirmed : BOOLEAN]

new_info == [block |-> None, dead |-> FALSE, confirmed |-> FALSE]

first_slot == CHOOSE s \in DOMAIN blocks : \A t \in DOMAIN blocks : s <= t

last_slot == CHOOSE s \in DOMAIN blocks : \A t \in DOMAIN blocks : t <= s

(***************************************************************************)
(* add_slot: the first slot heard of starts the numbering, a slot already  *)
(* reported is refused, and the deque is extended at either end without a  *)
(* gap.                                                                    *)
(***************************************************************************)
FirstNext(slot) == IF gen_next_slot = 0 THEN slot ELSE gen_next_slot

\* Mutant: a slot already reported is taken.
AcceptsAll(slot) == TRUE

Accepts(slot) == slot >= FirstNext(slot)

Extended(slot) ==
    IF DOMAIN blocks = {} THEN {slot}
    ELSE IF slot < first_slot THEN slot .. last_slot
    ELSE IF slot > last_slot THEN first_slot .. slot
    ELSE DOMAIN blocks

add_slot(slot) ==
    [s \in Extended(slot) |-> IF s \in DOMAIN blocks THEN blocks[s] ELSE new_info]

(***************************************************************************)
(* The stream messages that reach StorageMemory.  The stream may leave out *)
(* any of them: it starts somewhere and forgets finalized slots.  It calls *)
(* confirmed only slots of the branch, in ascending order, and dead only   *)
(* slots off it.                                                           *)
(***************************************************************************)
Stream == ~ panic /\ ~ draining

Accepted(slot, info) ==
    /\ gen_next_slot' = FirstNext(slot)
    /\ blocks' = [add_slot(slot) EXCEPT ![slot] = info]

Refused(slot) == gen_next_slot' = FirstNext(slot) /\ UNCHANGED blocks

add_processed(slot) ==
    /\ Stream
    /\ IF Accepts(slot)
       THEN Accepted(slot, [add_slot(slot)[slot] EXCEPT !.block = parent[slot]])
       ELSE Refused(slot)
    /\ draining' = TRUE
    /\ UNCHANGED <<chain, newest, confirmed, report, panic>>

set_dead(slot) ==
    /\ Stream
    /\ slot \notin canon
    /\ IF Accepts(slot)
       THEN /\ Accepted(slot, [add_slot(slot)[slot] EXCEPT !.dead = TRUE])
            /\ panic' = add_slot(slot)[slot].confirmed
       ELSE Refused(slot) /\ UNCHANGED panic
    /\ draining' = TRUE
    /\ UNCHANGED <<chain, newest, confirmed, report>>

set_confirmed(slot) ==
    /\ Stream
    /\ slot \in canon /\ slot > newest
    /\ newest' = slot
    /\ IF Accepts(slot)
       THEN /\ Accepted(slot, [add_slot(slot)[slot] EXCEPT !.confirmed = TRUE])
            /\ confirmed' = slot
            /\ panic' = (confirmed >= slot \/ add_slot(slot)[slot].dead)
       ELSE /\ Refused(slot)
            /\ panic' = (confirmed >= slot)
            /\ UNCHANGED confirmed
    /\ draining' = TRUE
    /\ UNCHANGED <<chain, report>>

(***************************************************************************)
(* Start: the stream has reconnected and everything is forgotten.          *)
(***************************************************************************)
Start ==
    /\ Stream
    /\ newest' = 0
    /\ blocks' = [s \in {} |-> new_info]
    /\ confirmed' = 0
    /\ gen_next_slot' = 0
    /\ report' = [s \in Slots |-> "none"]
    /\ draining' = TRUE
    /\ UNCHANGED <<chain, panic>>

(***************************************************************************)
(* pop_confirmed.  Walk: the first confirmed slot of the deque, and with   *)
(* every block its parent as long as the deque holds that one.  Oldest:    *)
(* where the walk ends.                                                    *)
(***************************************************************************)
ParentHeld(s) == blocks[s].block # None /\ first_slot <= blocks[s].block

Walk(slot) ==
    {t \in DOMAIN blocks :
        \A W \in SUBSET DOMAIN blocks :
            slot \in W /\ (\A s \in W : ParentHeld(s) => blocks[s].block \in W) => t \in W}

\* Mutant: the ancestors are not followed.
OldestSelf(slot) == slot

Oldest(slot) == CHOOSE s \in Walk(slot) : \A t \in Walk(slot) : s <= t

Confirmed == {s \in DOMAIN blocks : blocks[s].confirmed}

FirstConfirmed == CHOOSE s \in Confirmed : \A t \in Confirmed : s <= t

missed_or_dead(dead) == IF dead THEN "dead" ELSE "missed"

(***************************************************************************)
(* The verdict on gen_next_slot.  Before the deque: missed, unless the     *)
(* oldest block known of the branch has a parent below.  At its front: the *)
(* block, if it is the oldest one; dead, if that one is later, for it was  *)
(* skipped; and if that one is not known, whatever the stream said.        *)
(***************************************************************************)
\* Mutant: the parent of the oldest block counts as skipped.
VerdictOffByOne(old) ==
    LET known == blocks[old].block # None IN
    CASE gen_next_slot < first_slot ->
            missed_or_dead(known /\ gen_next_slot >= blocks[old].block)
      [] gen_next_slot = first_slot /\ known ->
            IF old = first_slot THEN "block" ELSE "dead"
      [] gen_next_slot = first_slot /\ ~ known ->
            missed_or_dead(blocks[first_slot].dead)
      [] OTHER -> "panic"

Verdict(old) ==
    LET known == blocks[old].block # None IN
    CASE gen_next_slot < first_slot ->
            missed_or_dead(known /\ gen_next_slot > blocks[old].block)
      [] gen_next_slot = first_slot /\ known ->
            IF old = first_slot THEN "block" ELSE "dead"
      [] gen_next_slot = first_slot /\ ~ known ->
            missed_or_dead(blocks[first_slot].dead)
      [] OTHER -> "panic"

(***************************************************************************)
(* What is left in the deque: nothing is popped before its front, and when *)
(* the oldest block is known the skipped slots before it are emptied.      *)
(***************************************************************************)
\* Mutant: the front stays in the deque.
LeftKeepsFront(old) == blocks

Left(old) ==
    LET known == blocks[old].block # None IN
    IF gen_next_slot # first_slot THEN blocks
    ELSE [s \in DOMAIN blocks \ {first_slot} |->
             IF known /\ s < old
             THEN [blocks[s] EXCEPT !.block = None, !.dead = TRUE] ELSE blocks[s]]

PopReady == confirmed # 0 /\ gen_next_slot # 0 /\ Confirmed # {}

pop_confirmed ==
    /\ draining /\ ~ panic
    /\ PopReady
    /\ LET old == Oldest(FirstConfirmed) IN
          /\ panic' = (Verdict(old) = "panic")
          /\ report' = [report EXCEPT ![gen_next_slot] = Verdict(old)]
          /\ blocks' = Left(old)
    /\ gen_next_slot' = gen_next_slot + 1
    /\ UNCHANGED <<chain, newest, confirmed, draining>>

(***************************************************************************)
(* pop_confirmed returned None: the writer waits for the next message.     *)
(***************************************************************************)
\* Mutant: one report per message.
PopOnce ==
    /\ draining /\ ~ panic
    /\ draining' = FALSE
    /\ UNCHANGED <<chain, newest, blocks, confirmed, gen_next_slot, report, panic>>

pop_none ==
    /\ draining /\ ~ panic
    /\ ~ PopReady
    /\ draining' = FALSE
    /\ UNCHANGED <<chain, newest, blocks, confirmed, gen_next_slot, report, panic>>

Init ==
    /\ parent \in [Slots -> 0 .. N] /\ \A s \in Slots : parent[s] < s
    /\ canon \in SUBSET Slots
    /\ IsBranch(parent, canon)
    /\ newest = 0
    /\ blocks = [s \in {} |-> new_info]
    /\ confirmed = 0
    /\ gen_next_slot = 0
    /\ draining = FALSE
    /\ report = [s \in Slots |-> "none"]
    /\ panic = FALSE

Next ==
    \/ \E s \in Slots : add_processed(s) \/ set_dead(s) \/ set_confirmed(s)
    \/ Start
    \/ pop_confirmed
    \/ pop_none

Spec == Init /\ [][Next]_vars

FairSpec == Spec /\ WF_vars(pop_confirmed \/ pop_none)

-----------------------------------------------------------------------------
(***************************************************************************)
(* Every variable has its type, and the deque has no gap.                  *)
(***************************************************************************)
TypeOK ==
    /\ canon \subseteq Slots
    /\ newest \in Slots \union {0}
    /\ DOMAIN blocks \subseteq Slots
    /\ \A s \in DOMAIN blocks : blocks[s] \in BlockInfo
    /\ \A s, t \in DOMAIN blocks : s .. t \subseteq DOMAIN blocks
    /\ confirmed \in Slots \union {0}
    /\ gen_next_slot \in 0 .. N + 1
    /\ draining \in BOOLEAN
    /\ report \in [Slots -> {"none", "block", "dead", "missed", "panic"}]
    /\ panic \in BOOLEAN

(***************************************************************************)
(* What is reported agrees with the chain, however late, incomplete and    *)
(* out of order the stream is: a block reported is on the confirmed        *)
(* branch, not a fork's; a slot reported dead is not.                      *)
(***************************************************************************)
VerdictsSound ==
    \A s \in Slots : /\ report[s] = "block" => s \in canon
                     /\ report[s] = "dead" => s \notin canon

(***************************************************************************)
(* pop_confirmed and the assertions of set_dead and set_confirmed never    *)
(* panic while the stream keeps to the order of confirmations.             *)
(***************************************************************************)
NoPanic == ~ panic

(***************************************************************************)
(* Nothing is left out: when the writer waits for the next message, every  *)
(* slot from the first one heard of to the newest confirmed one has been   *)
(* reported, and no slot after it.                                         *)
(***************************************************************************)
ReportedUpToConfirmed ==
    ~ draining /\ ~ panic /\ confirmed # 0 =>
       /\ gen_next_slot = confirmed + 1
       /\ \A s \in Slots : s > confirmed => report[s] = "none"
       /\ \A s, t \in Slots : s < t /\ t <= confirmed /\ report[s] # "none" =>
             report[t] # "none"

(***************************************************************************)
(* The writer's inner loop ends, so that it takes the next message.        *)
(***************************************************************************)
DrainEnds == draining ~> ~ draining
=============================================================================
