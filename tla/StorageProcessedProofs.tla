----------------------- MODULE StorageProcessedProofs -----------------------
(***************************************************************************)
(* Proofs about the processed view of a reader, for every chain of forks,  *)
(* any number of slots, signatures and recent blocks: the maps stay in     *)
(* step, the confirmed block is at hand with its height, and a transaction *)
(* that landed is reported as landed.                                      *)
(***************************************************************************)
EXTENDS StorageProcessed, WellFoundedInduction, TLAPS

-----------------------------------------------------------------------------
(***************************************************************************)
(* The invariant.                                                          *)
(***************************************************************************)
\* The chain does not change.
Chain ==
    /\ parent \in [Slots -> 0 .. N] /\ \A s \in Slots : parent[s] < s
    /\ height \in [0 .. N -> 0 .. N] /\ IsHeight(height)
    /\ canon \subseteq Slots
    /\ \A s \in canon : parent[s] = Greatest({0} \union {t \in canon : t < s})
    /\ \A s \in Slots, t \in canon : s < t => height[s] < height[t] + MaxRecent

\* The maps are in step, and the status of a signature is there as long as
\* the only block that holds it.
InStep(I) ==
    /\ IsIndex(I)
    /\ I.hashes = I.recent
    /\ \A g \in DOMAIN I.statuses : I.statuses[g] \in I.recent
    /\ \A s \in I.recent, g \in Signatures : OnlyIn(g, s) => g \in DOMAIN I.statuses

\* A block of the confirmed branch that is held as unconfirmed, and whose
\* confirmation is still to come, is a recent block: add_signatures does not
\* enter it again.
Held ==
    \A t \in canon \intersect DOMAIN blocks :
        phase # "following" \/ confirmed.slot < t => t \in index.recent

\* No block of the branch that is still to be confirmed can be pruned.
Near == \A t \in canon : confirmed.slot < t => confirmed.height < height[t] + MaxRecent

ProcessedInv ==
    /\ Chain
    /\ TypeOK
    /\ InStep(index)
    /\ phase = "loading" => DOMAIN blocks = {}
    /\ Held
    /\ Near
    /\ ConfirmedExact

-----------------------------------------------------------------------------
(***************************************************************************)
(* Helpers.                                                                *)
(***************************************************************************)

\* A nonempty set of naturals has a least element.
LEMMA NatMin ==
    ASSUME NEW T, T \subseteq Nat, T # {}
    PROVE  \E x \in T : \A y \in T : x <= y
<1> DEFINE R == OpToRel(<, Nat)
<1>1. IsWellFoundedOn(R, Nat)  BY NatLessThanWellFounded
<1>2. \A x, y \in Nat : y < x => <<y, x>> \in R  BY DEF OpToRel
<1> HIDE DEF R
<1>3. PICK x \in T : \A y \in T : ~ (<<y, x>> \in R)  BY <1>1, WFMin, Zenon
<1>4. \A y \in T : y \in Nat /\ x \in Nat /\ ~ (y < x)  BY <1>2, <1>3
<1>5. \A y \in T : x <= y  BY <1>4
<1> QED  BY <1>5

\* Greatest, for the slots of a chain.
LEMMA GreatestIs ==
    ASSUME NEW S, S \subseteq 0 .. N, S # {}
    PROVE  Greatest(S) \in S /\ \A t \in S : t <= Greatest(S)
<1>0. N \in Nat /\ \A s \in S : s \in Nat /\ s <= N  BY StorageProcessedAssumption
<1> DEFINE T == {n \in Nat : N - n \in S}
<1>1. \A s \in S : N - s \in T
  <2> TAKE s \in S
  <2>1. s \in Int /\ N - s \in Nat /\ N - (N - s) = s  BY <1>0
  <2> QED  BY <2>1
<1>2. T \subseteq Nat /\ T # {}  BY <1>1
<1>3. PICK x \in T : \A y \in T : x <= y  BY <1>2, NatMin, Zenon
<1>4. \A t \in S : t <= N - x  BY <1>0, <1>1, <1>3
<1>5. \E s \in S : \A t \in S : t <= s  BY <1>3, <1>4
<1> QED  BY <1>5, Zenon DEF Greatest

\* On the confirmed branch heights grow with the slots.
LEMMA HeightsGrow ==
    ASSUME Chain, NEW s \in canon, NEW t \in canon, s <= t
    PROVE  height[s] <= height[t]
<1>0. /\ N \in Nat /\ canon \subseteq Nat /\ canon \subseteq 0 .. N /\ canon \subseteq Slots
      /\ \A u \in 0 .. N : height[u] \in Nat
  <2>1. N \in Nat /\ canon \subseteq Slots  BY StorageProcessedAssumption DEF Chain
  <2>2. \A u \in Slots : u \in Nat /\ u \in 0 .. N  BY <2>1 DEF Slots
  <2>3. \A u \in 0 .. N : height[u] \in 0 .. N  BY DEF Chain
  <2>4. \A u \in 0 .. N : height[u] \in Nat  BY <2>1, <2>3
  <2> QED  BY <2>1, <2>2, <2>4
<1> DEFINE Bad == {u \in canon : \E v \in canon : v < u /\ ~ (height[v] < height[u])}
<1>1. Bad = {}
  <2> SUFFICES ASSUME Bad # {} PROVE FALSE  OBVIOUS
  <2>1. Bad \subseteq Nat  BY <1>0
  <2>2. PICK u \in Bad : \A w \in Bad : u <= w  BY <2>1, NatMin, Zenon
  <2>3. PICK v \in canon : v < u /\ ~ (height[v] < height[u])  BY <2>2
  <2> DEFINE Below == {0} \union {w \in canon : w < u}
             p == Greatest(Below)
  <2>4. Below \subseteq 0 .. N /\ v \in Below
    <3>1. 0 \in 0 .. N  BY <1>0
    <3> QED  BY <1>0, <2>3, <3>1
  <2>5. p \in Below /\ \A w \in Below : w <= p  BY <2>4, GreatestIs
  <2>6. parent[u] = p  BY <2>2 DEF Chain
  <2> HIDE DEF p
  <2>7. v <= p /\ v \in Slots /\ v \in Nat /\ v > 0  BY <1>0, <2>3, <2>4, <2>5 DEF Slots
  <2>8. p \in canon /\ p < u  BY <2>5, <2>7
  <2>9. height[u] = height[p] + 1  BY <1>0, <2>2, <2>6 DEF Chain, IsHeight
  <2>10. u \in Nat /\ p \in Nat /\ height[p] \in Nat /\ height[v] \in Nat  BY <1>0, <2>2, <2>3, <2>8
  <2>11. v # p  BY <2>3, <2>9, <2>10
  <2>12. v < p  BY <2>7, <2>10, <2>11
  <2>13. p \notin Bad  BY <2>2, <2>8, <2>10
  <2>14. height[v] < height[p]  BY <2>3, <2>8, <2>12, <2>13
  <2> QED  BY <2>3, <2>9, <2>10, <2>14
<1>2. s = t \/ s < t  BY <1>0
<1>3. s < t => height[s] < height[t]  BY <1>1
<1>4. height[s] \in Nat /\ height[t] \in Nat  BY <1>0
<1> QED  BY <1>2, <1>3, <1>4

-----------------------------------------------------------------------------
(***************************************************************************)
(* The three maps.                                                         *)
(***************************************************************************)

\* A block that is entered comes with all its signatures.
LEMMA AddInStep ==
    ASSUME NEW I, InStep(I), NEW slot \in Slots
    PROVE  /\ InStep(add_signatures(I, slot))
           /\ I.recent \subseteq add_signatures(I, slot).recent
           /\ add_signatures(I, slot).recent \subseteq I.recent \union {slot}
           /\ slot \notin DOMAIN blocks => slot \in add_signatures(I, slot).recent
<1>1. CASE slot \in DOMAIN blocks  BY <1>1 DEF add_signatures
<1>2. CASE slot \notin DOMAIN blocks
  <2> DEFINE S == [g \in DOMAIN I.statuses \union Tx[slot] |->
                      IF g \in Tx[slot] THEN slot ELSE I.statuses[g]]
             J == [statuses |-> S, recent |-> I.recent \union {slot},
                   hashes |-> I.hashes \union {slot}]
  <2>1. add_signatures(I, slot) = J  BY <1>2 DEF add_signatures
  <2>2. /\ J.statuses = S /\ J.recent = I.recent \union {slot} /\ J.hashes = I.hashes \union {slot}
        /\ DOMAIN J = {"statuses", "recent", "hashes"}
    OBVIOUS
  <2>3. Tx[slot] \subseteq Signatures  BY StorageProcessedAssumption
  <2>4. /\ DOMAIN S = DOMAIN I.statuses \union Tx[slot]
        /\ \A g \in DOMAIN S : S[g] = IF g \in Tx[slot] THEN slot ELSE I.statuses[g]
    OBVIOUS
  <2> HIDE DEF S, J
  <2>5. \A g \in DOMAIN S : S[g] \in I.recent \union {slot} /\ g \in Tx[S[g]]
    BY <2>4 DEF InStep, IsIndex
  <2>6. IsIndex(J)  BY <2>2, <2>3, <2>4, <2>5 DEF InStep, IsIndex
  <2>7. \A s \in J.recent, g \in Signatures : OnlyIn(g, s) => g \in DOMAIN S
    BY <2>2, <2>4 DEF InStep, OnlyIn
  <2>8. J.hashes = J.recent  BY <2>2 DEF InStep
  <2>9. InStep(J)  BY <2>2, <2>5, <2>6, <2>7, <2>8 DEF InStep
  <2> QED  BY <2>1, <2>2, <2>9
<1> QED  BY <1>1, <1>2

\* Blocks that are removed take the statuses of their signatures with them,
\* and none that only another block holds.
LEMMA RemoveInStep ==
    ASSUME NEW I, InStep(I), NEW gone, gone \subseteq Slots
    PROVE  /\ InStep(remove_signatures(I, gone))
           /\ remove_signatures(I, gone).recent = I.recent \ gone
<1> DEFINE D == DOMAIN I.statuses \ UNION {Tx[s] : s \in gone}
           S == [g \in D |-> I.statuses[g]]
           J == [statuses |-> S, recent |-> I.recent \ gone, hashes |-> I.hashes \ gone]
<1>1. remove_signatures(I, gone) = J  BY DEF remove_signatures
<1>2. /\ J.statuses = S /\ J.recent = I.recent \ gone /\ J.hashes = I.hashes \ gone
      /\ DOMAIN J = {"statuses", "recent", "hashes"}
  OBVIOUS
<1>3. DOMAIN S = D /\ \A g \in D : S[g] = I.statuses[g]  OBVIOUS
<1>4. \A g \in D : g \in DOMAIN I.statuses /\ \A s \in gone : g \notin Tx[s]  OBVIOUS
<1>5. \A g \in DOMAIN I.statuses : (\A s \in gone : g \notin Tx[s]) => g \in D  OBVIOUS
<1> HIDE DEF D, S, J
<1>6. \A g \in D : S[g] \in I.recent \ gone /\ g \in Tx[S[g]]
  BY <1>3, <1>4 DEF InStep, IsIndex
<1>7. IsIndex(J)  BY <1>2, <1>3, <1>4, <1>6 DEF InStep, IsIndex
<1>8. \A s \in J.recent, g \in Signatures : OnlyIn(g, s) => g \in D
  <2> SUFFICES ASSUME NEW s \in J.recent, NEW g \in Signatures, OnlyIn(g, s) PROVE g \in D
    OBVIOUS
  <2>1. s \in I.recent /\ s \notin gone  BY <1>2
  <2>2. g \in DOMAIN I.statuses  BY <2>1 DEF InStep
  <2>3. \A t \in gone : g \notin Tx[t]  BY <2>1 DEF OnlyIn
  <2> QED  BY <1>5, <2>2, <2>3
<1>9. J.hashes = J.recent  BY <1>2 DEF InStep
<1>10. InStep(J)  BY <1>2, <1>3, <1>6, <1>7, <1>8, <1>9 DEF InStep
<1> QED  BY <1>1, <1>2, <1>10

-----------------------------------------------------------------------------
(***************************************************************************)
(* The steps.                                                              *)
(***************************************************************************)

\* The processed level stays a slot of the chain with a height.
LEMMA ProcessedLevel ==
    ASSUME Chain, processed \in Level, confirmed' \in Level, DOMAIN blocks' \subseteq Slots,
           update_processed
    PROVE  processed' \in Level
<1> DEFINE live == {s \in DOMAIN blocks' : blocks'[s]}
           newest == IF live = {} THEN confirmed'
                     ELSE [slot |-> Greatest(live), height |-> height[Greatest(live)]]
<1>0. N \in Nat  BY StorageProcessedAssumption
<1>1. newest \in Level
  <2>1. CASE live = {}  BY <2>1
  <2>2. CASE live # {}
    <3>1. live \subseteq Slots /\ live \subseteq 0 .. N  BY <1>0 DEF Slots
    <3> HIDE DEF live
    <3>2. Greatest(live) \in live  BY <2>2, <3>1, GreatestIs
    <3>3. height[Greatest(live)] \in 0 .. N  BY <3>1, <3>2 DEF Chain
    <3> QED  BY <2>2, <3>1, <3>2, <3>3 DEF Level
  <2> QED  BY <2>1, <2>2
<1>2. processed' = [slot   |-> Greater(processed.slot, newest.slot),
                    height |-> Greater(processed.height, newest.height)]
  BY DEF update_processed
<1> HIDE DEF newest
<1>3. /\ newest.slot \in Slots \union {0} /\ newest.height \in 0 .. N
      /\ processed.slot \in Slots \union {0} /\ processed.height \in 0 .. N
  BY <1>1 DEF Level
<1>4. /\ Greater(processed.slot, newest.slot) \in Slots \union {0}
      /\ Greater(processed.height, newest.height) \in 0 .. N
  BY <1>3 DEF Greater
<1> QED  BY <1>2, <1>4 DEF Level

\* The chain stays as it is.
LEMMA ChainKept == Chain /\ UNCHANGED chain => Chain'
  BY DEF Chain, chain, IsHeight, Greatest, Slots

\* The levels and the map of unconfirmed blocks have their types.
LEMMA Parts ==
    ASSUME ProcessedInv
    PROVE  /\ Chain /\ InStep(index) /\ Held /\ Near /\ ConfirmedExact
           /\ N \in Nat /\ MaxRecent \in Nat /\ MaxRecent > 0
           /\ canon \subseteq Slots /\ \A s \in Slots : s \in Nat /\ s # 0
           /\ \A s \in Slots : height[s] \in Nat /\ height[s] \in 0 .. N
           /\ confirmed.slot \in Nat /\ confirmed.height \in Nat
           /\ confirmed \in Level /\ processed \in Level /\ finalized \in Level
           /\ DOMAIN blocks \subseteq Slots /\ index.recent \subseteq Slots
<1>1. Chain /\ InStep(index) /\ Held /\ Near /\ ConfirmedExact  BY DEF ProcessedInv
<1>2. N \in Nat /\ MaxRecent \in Nat /\ MaxRecent > 0  BY StorageProcessedAssumption
<1>3. canon \subseteq Slots  BY <1>1 DEF Chain
<1>4. \A s \in Slots : s \in Nat /\ s # 0 /\ s \in 0 .. N  BY <1>2 DEF Slots
<1>5. \A s \in Slots : height[s] \in 0 .. N  BY <1>1, <1>4 DEF Chain
<1>6. \A h \in 0 .. N : h \in Nat  BY <1>2
<1>7. confirmed \in Level /\ processed \in Level /\ finalized \in Level  BY DEF ProcessedInv, TypeOK
<1>8. confirmed.slot \in Slots \union {0} /\ confirmed.height \in 0 .. N  BY <1>7 DEF Level
<1>9. DOMAIN blocks \subseteq Slots /\ index.recent \subseteq Slots
  BY <1>1 DEF ProcessedInv, TypeOK, InStep, IsIndex
<1> QED  BY <1>1, <1>2, <1>3, <1>4, <1>5, <1>6, <1>7, <1>8, <1>9

\* BlockNew only adds.
LEMMA AddProcessedStep ==
    ASSUME ProcessedInv, NEW slot \in Slots, add_processed_block(slot)
    PROVE  ProcessedInv'
<1> USE Parts
<1>1. /\ index' = add_signatures(index, slot)
      /\ blocks' = [s \in DOMAIN blocks \union {slot} |->
                       IF s \in DOMAIN blocks THEN blocks[s] ELSE TRUE]
      /\ UNCHANGED <<chain, confirmed, finalized>> /\ update_processed
      /\ phase' = IF phase = "loading" THEN "loaded" ELSE phase
  BY DEF add_processed_block, Loaded
<1>2. /\ InStep(index)' /\ index.recent \subseteq index'.recent
      /\ slot \notin DOMAIN blocks => slot \in index'.recent
  <2>1. InStep(index')  BY <1>1, AddInStep
  <2>2. InStep(index)'  BY <2>1 DEF InStep, IsIndex, OnlyIn
  <2> QED  BY <1>1, <2>2, AddInStep
<1>3. Chain' /\ canon' = canon /\ height' = height  BY <1>1, ChainKept DEF chain
<1>4. DOMAIN blocks' = DOMAIN blocks \union {slot} /\ DOMAIN blocks' \subseteq Slots
  BY <1>1
<1>5. \A s \in DOMAIN blocks' : blocks'[s] \in BOOLEAN
  <2>1. \A s \in DOMAIN blocks : blocks[s] \in BOOLEAN  BY DEF ProcessedInv, TypeOK
  <2> QED  BY <1>1, <2>1
<1>6. processed' \in Level  BY <1>1, <1>4, ProcessedLevel
<1>7. phase' \in {"loaded", "following"} /\ (phase' = "following" => phase = "following")
  BY <1>1 DEF ProcessedInv, TypeOK
<1>8. TypeOK'  BY <1>1, <1>2, <1>4, <1>5, <1>6, <1>7 DEF TypeOK, InStep
<1>9. Held'
  <2> SUFFICES ASSUME NEW t \in canon \intersect DOMAIN blocks',
                      phase' # "following" \/ confirmed.slot < t
               PROVE  t \in index'.recent
    BY <1>1, <1>3 DEF Held
  <2>1. CASE t \in DOMAIN blocks
    <3>1. phase # "following" \/ confirmed.slot < t  BY <1>1
    <3> QED  BY <1>2, <2>1, <3>1 DEF Held
  <2>2. CASE t = slot /\ t \notin DOMAIN blocks  BY <1>2, <2>2
  <2> QED  BY <1>4, <2>1, <2>2
<1>10. Near'  BY <1>1, <1>3 DEF Near
<1>11. ConfirmedExact'  BY <1>1, <1>2, <1>3 DEF ConfirmedExact, latest_blockhash, None
<1> QED  BY <1>2, <1>3, <1>7, <1>8, <1>9, <1>10, <1>11 DEF ProcessedInv

\* BlockDead takes nothing of the confirmed branch away.
LEMMA MarkDeadStep ==
    ASSUME ProcessedInv, NEW slot \in Slots, mark_dead(slot)
    PROVE  ProcessedInv'
<1> USE Parts
<1> DEFINE gone == {slot} \intersect DOMAIN blocks \intersect index.recent
<1>1. /\ slot \notin canon
      /\ index' = remove_signatures(index, gone)
      /\ blocks' = [s \in DOMAIN blocks \union {slot} |-> IF s = slot THEN FALSE ELSE blocks[s]]
      /\ UNCHANGED <<chain, confirmed, finalized>> /\ update_processed
      /\ phase' = IF phase = "loading" THEN "loaded" ELSE phase
  BY DEF mark_dead, Loaded
<1>2. /\ InStep(index)' /\ index'.recent = index.recent \ gone
  <2>0. gone \subseteq Slots  OBVIOUS
  <2> HIDE DEF gone
  <2>1. InStep(index') /\ index'.recent = index.recent \ gone  BY <1>1, <2>0, RemoveInStep
  <2>2. InStep(index)'  BY <2>1 DEF InStep, IsIndex, OnlyIn
  <2> QED  BY <2>1, <2>2
<1>3. Chain' /\ canon' = canon /\ height' = height  BY <1>1, ChainKept DEF chain
<1>4. DOMAIN blocks' = DOMAIN blocks \union {slot} /\ DOMAIN blocks' \subseteq Slots
  BY <1>1
<1>5. \A s \in DOMAIN blocks' : blocks'[s] \in BOOLEAN
  <2>1. \A s \in DOMAIN blocks : blocks[s] \in BOOLEAN  BY DEF ProcessedInv, TypeOK
  <2> QED  BY <1>1, <2>1
<1>6. processed' \in Level  BY <1>1, <1>4, ProcessedLevel
<1>7. phase' \in {"loaded", "following"} /\ (phase' = "following" => phase = "following")
  BY <1>1 DEF ProcessedInv, TypeOK
<1>8. TypeOK'  BY <1>1, <1>2, <1>4, <1>5, <1>6, <1>7 DEF TypeOK, InStep
<1>9. \A t \in canon : t \in index.recent => t \in index'.recent  BY <1>1, <1>2
<1>10. Held'
  <2> SUFFICES ASSUME NEW t \in canon \intersect DOMAIN blocks',
                      phase' # "following" \/ confirmed.slot < t
               PROVE  t \in index'.recent
    BY <1>1, <1>3 DEF Held
  <2>1. t \in DOMAIN blocks  BY <1>1, <1>4
  <2>2. phase # "following" \/ confirmed.slot < t  BY <1>1
  <2> QED  BY <1>9, <2>1, <2>2 DEF Held
<1>11. Near'  BY <1>1, <1>3 DEF Near
<1>12. ConfirmedExact'  BY <1>1, <1>3, <1>9 DEF ConfirmedExact, latest_blockhash, None
<1> QED  BY <1>2, <1>3, <1>7, <1>8, <1>10, <1>11, <1>12 DEF ProcessedInv

\* No block at or after a recent block at the top is outdated, and none less
\* than MaxRecent below it.
LEMMA NotOutdated ==
    ASSUME NEW I, NEW top \in Nat, NEW t \in I.recent, I.recent \subseteq Slots,
           ProcessedInv,
           top < height[t] + MaxRecent \/ \E s \in I.recent : s <= t /\ height[s] = top
    PROVE  t \notin Outdated(I, top)
<1> USE Parts
<1>1. CASE top < height[t] + MaxRecent
  <2>1. t <= t /\ ~ (top - height[t] >= MaxRecent)  BY <1>1
  <2> QED  BY <2>1 DEF Outdated
<1>2. CASE \E s \in I.recent : s <= t /\ height[s] = top
  <2>1. PICK s \in I.recent : s <= t /\ height[s] = top  BY <1>2
  <2>2. ~ (top - height[s] >= MaxRecent)  BY <2>1
  <2> QED  BY <2>1, <2>2 DEF Outdated
<1> QED  BY <1>1, <1>2

\* A slot is confirmed: its block is entered or already there, and neither it
\* nor a block of the branch that is still to be confirmed is pruned.
LEMMA SetConfirmedStep ==
    ASSUME ProcessedInv, NEW slot \in Slots, set_confirmed(slot),
           \A t \in canon \intersect DOMAIN blocks : slot <= t => t \in index.recent,
           \A t \in canon : slot < t => confirmed.height < height[t] + MaxRecent,
           phase' \in {"loading", "following"},
           phase' = "loading" => DOMAIN blocks = {}
    PROVE  ProcessedInv'
<1> USE Parts
<1> DEFINE added == IF slot \in canon THEN add_signatures(index, slot) ELSE index
           top == IF slot \in added.recent THEN height[slot] ELSE confirmed.height
           out == Outdated(added, top)
<1>1. /\ confirmed' = [slot |-> slot, height |-> top]
      /\ index' = remove_signatures(added, out)
      /\ blocks' = [s \in {t \in DOMAIN blocks : t > slot} |-> blocks[s]]
      /\ UNCHANGED <<chain, finalized>> /\ update_processed
  BY DEF set_confirmed
<1>2. /\ InStep(added) /\ index.recent \subseteq added.recent
      /\ added.recent \subseteq index.recent \union {slot}
      /\ slot \in canon => slot \in added.recent
  <2>1. CASE slot \in canon
    <3>1. added = add_signatures(index, slot)  BY <2>1
    <3>2. slot \notin DOMAIN blocks \/ slot \in index.recent  BY <2>1
    <3> QED  BY <3>1, <3>2, AddInStep
  <2>2. CASE slot \notin canon  BY <2>2
  <2> QED  BY <2>1, <2>2
<1> HIDE DEF added
<1>3. added.recent \subseteq Slots  BY <1>2
<1>4. top \in Nat /\ top \in 0 .. N /\ (slot \in added.recent => top = height[slot])
  <2>1. confirmed.height \in 0 .. N  BY DEF Level
  <2> QED  BY <2>1
<1>5. slot \notin added.recent => top = confirmed.height  OBVIOUS
<1> HIDE DEF top
<1>6. \A t \in canon : slot < t => top < height[t] + MaxRecent
  <2> TAKE t \in canon
  <2>1. CASE slot \in added.recent  BY <1>4, <2>1 DEF Chain
  <2>2. CASE slot \notin added.recent  BY <1>5, <2>2
  <2> QED  BY <2>1, <2>2
<1>7. out \subseteq Slots  BY <1>3 DEF Outdated
<1>8. slot \in added.recent => slot \notin out
  <2> SUFFICES ASSUME slot \in added.recent PROVE slot \notin out  OBVIOUS
  <2>1. slot <= slot /\ height[slot] = top  BY <1>4
  <2> QED  BY <1>3, <1>4, <2>1, NotOutdated
<1>9. \A t \in canon \intersect added.recent : slot < t => t \notin out
  BY <1>3, <1>4, <1>6, NotOutdated
<1> HIDE DEF out
<1>10. InStep(index)' /\ index'.recent = added.recent \ out
  <2>1. InStep(index') /\ index'.recent = added.recent \ out  BY <1>1, <1>2, <1>7, RemoveInStep
  <2>2. InStep(index)'  BY <2>1 DEF InStep, IsIndex, OnlyIn
  <2> QED  BY <2>1, <2>2
<1>11. Chain' /\ canon' = canon /\ height' = height  BY <1>1, ChainKept DEF chain
<1>12. /\ confirmed'.slot = slot /\ confirmed'.height = top /\ confirmed' \in Level
  BY <1>1, <1>4 DEF Level
<1>13. DOMAIN blocks' = {t \in DOMAIN blocks : t > slot} /\ DOMAIN blocks' \subseteq Slots
  BY <1>1
<1>14. \A s \in DOMAIN blocks' : blocks'[s] \in BOOLEAN
  <2>1. \A s \in DOMAIN blocks : blocks[s] \in BOOLEAN  BY DEF ProcessedInv, TypeOK
  <2> QED  BY <1>1, <2>1
<1>15. processed' \in Level  BY <1>1, <1>12, <1>13, ProcessedLevel
<1>16. TypeOK'  BY <1>1, <1>10, <1>12, <1>13, <1>14, <1>15 DEF TypeOK, InStep
<1>17. Held'
  <2> SUFFICES ASSUME NEW t \in canon \intersect DOMAIN blocks' PROVE t \in index'.recent
    BY <1>11 DEF Held
  <2>1. t \in DOMAIN blocks /\ slot < t  BY <1>13
  <2>2. t \in index.recent  BY <2>1
  <2> QED  BY <1>2, <1>9, <1>10, <2>1, <2>2
<1>18. Near'  BY <1>6, <1>11, <1>12 DEF Near
<1>19. ConfirmedExact'
  <2> SUFFICES ASSUME slot \in canon
               PROVE  top = height[slot] /\ slot \in index'.recent
    BY <1>11, <1>12 DEF ConfirmedExact, latest_blockhash, None
  <2> QED  BY <1>2, <1>4, <1>8, <1>10
<1>20. phase' = "loading" => DOMAIN blocks' = {}  BY <1>13
<1> QED  BY <1>10, <1>11, <1>16, <1>17, <1>18, <1>19, <1>20 DEF ProcessedInv

\* A block found on disk.
LEMMA LoadRecentStep ==
    ASSUME ProcessedInv, NEW slot \in Slots, load_recent(slot)
    PROVE  ProcessedInv'
<1> USE Parts
<1>1. phase = "loading" /\ phase' = "loading" /\ slot > confirmed.slot /\ set_confirmed(slot)
  BY DEF load_recent
<1>2. DOMAIN blocks = {}  BY <1>1 DEF ProcessedInv
<1>3. \A t \in canon : slot < t => confirmed.height < height[t] + MaxRecent
  BY <1>1 DEF Near
<1> QED  BY <1>1, <1>2, <1>3, SetConfirmedStep

\* BlockConfirmed: the first one, or the next slot.
LEMMA BlockConfirmedStep ==
    ASSUME ProcessedInv, NEW slot \in Slots, BlockConfirmed(slot)
    PROVE  ProcessedInv'
<1> USE Parts
<1>1. set_confirmed(slot) /\ phase' = "following"  BY DEF BlockConfirmed
<1>2. \A t \in canon \intersect DOMAIN blocks : slot <= t => t \in index.recent
  <2>1. CASE phase = "following"
    <3>1. slot = confirmed.slot + 1  BY <2>1 DEF BlockConfirmed
    <3>2. \A t \in canon : slot <= t => confirmed.slot < t  BY <3>1
    <3> QED  BY <3>2 DEF Held
  <2>2. CASE phase # "following"  BY <2>2 DEF Held
  <2> QED  BY <2>1, <2>2
<1>3. \A t \in canon : slot < t => confirmed.height < height[t] + MaxRecent
  <2> SUFFICES ASSUME NEW t \in canon, slot < t PROVE confirmed.height < height[t] + MaxRecent
    OBVIOUS
  <2>1. CASE confirmed.slot < t  BY <2>1 DEF Near
  <2>2. CASE ~ (confirmed.slot < t)
    <3>1. phase # "following"
      <4> SUFFICES ASSUME phase = "following" PROVE FALSE  OBVIOUS
      <4>1. slot = confirmed.slot + 1  BY DEF BlockConfirmed
      <4> QED  BY <2>2, <4>1
    <3>2. FewPopped(slot)  BY <3>1 DEF BlockConfirmed
    <3>3. slot <= t /\ t <= confirmed.slot  BY <2>2
    <3> QED  BY <3>2, <3>3 DEF FewPopped
  <2> QED  BY <2>1, <2>2
<1> QED  BY <1>1, <1>2, <1>3, SetConfirmedStep

\* SlotFinalized changes one level.
LEMMA SetFinalizedStep ==
    ASSUME ProcessedInv, NEW slot \in Slots, set_finalized(slot)
    PROVE  ProcessedInv'
<1> USE Parts
<1>1. /\ finalized' = IF slot \in index.recent
                      THEN [slot |-> slot, height |-> height[slot]] ELSE finalized
      /\ UNCHANGED <<chain, blocks, index, processed, confirmed>>
      /\ phase' = IF phase = "loading" THEN "loaded" ELSE phase
  BY DEF set_finalized, Loaded
<1>2. Chain' /\ canon' = canon /\ height' = height  BY <1>1, ChainKept DEF chain
<1>3. finalized' \in Level  BY <1>1 DEF Level
<1>4. phase' \in {"loaded", "following"} /\ (phase' = "following" <=> phase = "following")
  BY <1>1 DEF ProcessedInv, TypeOK
<1>5. TypeOK'  BY <1>1, <1>3, <1>4 DEF ProcessedInv, TypeOK, IsIndex
<1>6. InStep(index)'  BY <1>1 DEF InStep, IsIndex, OnlyIn
<1>7. Held' /\ Near'  BY <1>1, <1>2, <1>4 DEF Held, Near
<1>8. ConfirmedExact'  BY <1>1, <1>2 DEF ConfirmedExact, latest_blockhash, None
<1> QED  BY <1>2, <1>4, <1>5, <1>6, <1>7, <1>8 DEF ProcessedInv

-----------------------------------------------------------------------------
(***************************************************************************)
(* The theorems.                                                           *)
(***************************************************************************)

\* Nothing is known at first.
LEMMA InitProcessed == Init => ProcessedInv
<1> SUFFICES ASSUME Init PROVE ProcessedInv  OBVIOUS
<1>1. Chain  BY DEF Init, IsChain, Chain
<1>2. N \in Nat /\ MaxRecent \in Nat /\ MaxRecent > 0  BY StorageProcessedAssumption
<1>3. \A s \in Slots : s # 0 /\ s \in 0 .. N  BY <1>2 DEF Slots
<1>4. DOMAIN blocks = {} /\ DOMAIN index.statuses = {} /\ index.recent = {} /\ index.hashes = {}
  BY DEF Init
<1>5. DOMAIN index = {"statuses", "recent", "hashes"}  BY DEF Init
<1>6. InStep(index)  BY <1>4, <1>5 DEF InStep, IsIndex
<1>7. processed \in Level /\ confirmed \in Level /\ finalized \in Level
  BY <1>2 DEF Init, Level
<1>8. confirmed.slot = 0 /\ confirmed.height = 0 /\ phase = "loading"  BY DEF Init
<1>9. TypeOK  BY <1>4, <1>6, <1>7, <1>8 DEF TypeOK, InStep
<1>10. Near
  <2>1. \A t \in canon : height[t] \in 0 .. N  BY <1>1, <1>3 DEF Chain
  <2>2. \A h \in 0 .. N : 0 < h + MaxRecent  BY <1>2
  <2> QED  BY <1>8, <2>1, <2>2 DEF Near
<1>11. Held  BY <1>4 DEF Held
<1>12. ConfirmedExact  BY <1>1, <1>3, <1>8 DEF ConfirmedExact, Chain
<1> QED  BY <1>1, <1>4, <1>6, <1>9, <1>10, <1>11, <1>12 DEF ProcessedInv

\* The invariant holds of every state, for every chain, any number of slots,
\* signatures and recent blocks.
THEOREM ProcessedInvariant == Spec => []ProcessedInv
<1>1. ProcessedInv /\ [Next]_vars => ProcessedInv'
  <2> SUFFICES ASSUME ProcessedInv, [Next]_vars PROVE ProcessedInv'  OBVIOUS
  <2>1. CASE UNCHANGED vars
    <3> USE <2>1 DEF vars
    <3>1. Chain' /\ TypeOK'  BY ChainKept DEF ProcessedInv, TypeOK, IsIndex, chain
    <3>2. InStep(index)'  BY DEF ProcessedInv, InStep, IsIndex, OnlyIn
    <3>3. Held' /\ Near'  BY DEF ProcessedInv, Held, Near
    <3>4. ConfirmedExact'  BY DEF ProcessedInv, ConfirmedExact, latest_blockhash, None
    <3> QED  BY <3>1, <3>2, <3>3, <3>4 DEF ProcessedInv
  <2>2. CASE Next
    <3>1. PICK s \in Slots : \/ add_processed_block(s)
                             \/ mark_dead(s)
                             \/ load_recent(s)
                             \/ BlockConfirmed(s)
                             \/ set_finalized(s)
      BY <2>2 DEF Next
    <3> QED  BY <3>1, AddProcessedStep, MarkDeadStep, LoadRecentStep, BlockConfirmedStep,
                SetFinalizedStep
  <2> QED  BY <2>1, <2>2
<1> QED  BY <1>1, InitProcessed, PTL DEF Spec

\* signature_statuses, recent_blocks and block_heights stay in step, however
\* blocks are added twice, marked dead late, confirmed and pruned.
THEOREM IndexesInStepAlways == Spec => []IndexesInStep
<1>1. ProcessedInv => IndexesInStep  BY DEF ProcessedInv, InStep, IndexesInStep
<1> QED  BY <1>1, ProcessedInvariant, PTL

\* The confirmed block is at hand for getLatestBlockhash, and confirmed_height
\* is its height.
THEOREM ConfirmedExactAlways == Spec => []ConfirmedExact
<1>1. ProcessedInv => ConfirmedExact  BY DEF ProcessedInv
<1> QED  BY <1>1, ProcessedInvariant, PTL

\* get_signature_status reports a transaction that landed in a recent
\* confirmed block as confirmed or finalized.
THEOREM LandedReportedAlways == Spec => []LandedReported
<1>1. ProcessedInv => LandedReported
  <2> SUFFICES ASSUME ProcessedInv, NEW s \in canon \intersect index.recent, NEW g \in Signatures,
                      OnlyIn(g, s), s <= confirmed.slot, confirmed.slot \in canon
               PROVE  /\ g \in DOMAIN index.statuses
                      /\ get_signature_status(g) =
                             IF height[s] <= finalized.height THEN "finalized" ELSE "confirmed"
    BY DEF LandedReported
  <2> USE Parts
  <2>1. g \in DOMAIN index.statuses  BY DEF InStep
  <2>2. index.statuses[g] \in Slots /\ g \in Tx[index.statuses[g]]
    BY <2>1 DEF InStep, IsIndex
  <2>3. index.statuses[g] = s  BY <2>2 DEF OnlyIn
  <2>4. confirmed.height = height[confirmed.slot]  BY DEF ConfirmedExact
  <2>5. height[s] <= confirmed.height  BY <2>4, HeightsGrow
  <2>6. /\ height[s] \in Nat /\ finalized.height \in Nat
    <3>1. \A h \in 0 .. N : h \in Nat  OBVIOUS
    <3>2. finalized.height \in 0 .. N  BY DEF Level
    <3> QED  BY <3>1, <3>2
  <2>7. CASE height[s] <= finalized.height
    <3>1. confirmations(g) = -1  BY <2>3, <2>6, <2>7 DEF confirmations, None
    <3> HIDE DEF confirmations
    <3> QED  BY <2>1, <2>7, <3>1 DEF get_signature_status, None
  <2>8. CASE ~ (height[s] <= finalized.height)
    <3>1. confirmations(g) = confirmed.height - height[s] + 1
      BY <2>3, <2>5, <2>6, <2>8 DEF confirmations
    <3>2. confirmations(g) > 0 /\ confirmations(g) \in Nat  BY <2>5, <2>6, <3>1
    <3> HIDE DEF confirmations
    <3> QED  BY <2>1, <2>8, <3>2 DEF get_signature_status, None
  <2> QED  BY <2>7, <2>8
<1> QED  BY <1>1, ProcessedInvariant, PTL

=============================================================================
