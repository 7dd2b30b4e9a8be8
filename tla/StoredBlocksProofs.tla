------------------------- MODULE StoredBlocksProofs -------------------------
(***************************************************************************)
(* Proofs about the slot index: the ring holds consecutive slots from tail *)
(* to head whatever its size, a push never finds its entry in use, first_  *)
(* available is the lowest slot, every replica follows the ring however    *)
(* far it is behind, the ring implements SlotWindow, and the queries       *)
(* answered from a replica tell exactly what its ring holds.               *)
(***************************************************************************)
EXTENDS StoredBlocksQueries, FiniteSetTheorems, TLAPS

LEMMA SuccPred ==
    ASSUME NEW i \in Index
    PROVE  /\ Succ(i) = IF i = Max - 1 THEN 0 ELSE i + 1
           /\ Succ(i) \in Index /\ Pred(i) \in Index
           /\ Pred(Succ(i)) = i /\ Succ(Pred(i)) = i
BY StoredBlocksAssumption DEF Index, Succ, Pred

LEMMA NewBlockType ==
    /\ new_noexists \in StoredBlock /\ ~ new_noexists.exists
    /\ \A b \in NewBlocks : /\ b \in StoredBlock /\ b.exists
                            /\ b.slot \in Slots /\ b.slot \in Nat /\ b.slot # SlotMax
<1>1. new_noexists \in StoredBlock /\ ~ new_noexists.exists
  BY DEF new_noexists, StoredBlock
<1>2. ASSUME NEW b \in NewBlocks
      PROVE  /\ b \in StoredBlock /\ b.exists
             /\ b.slot \in Slots /\ b.slot \in Nat /\ b.slot # SlotMax
  <2>1. CASE \E s \in Slots : b = new_dead(s)
    BY <2>1, StoredBlocksAssumption DEF new_dead, StoredBlock
  <2>2. CASE \E s \in Slots, t \in Times \union {None} : b = new_confirmed(s, t)
    BY <2>2, StoredBlocksAssumption DEF new_confirmed, StoredBlock
  <2> QED BY <2>1, <2>2 DEF NewBlocks
<1> QED BY <1>1, <1>2

-----------------------------------------------------------------------------
(***************************************************************************)
(* The four ways the ring changes, entry by entry.                         *)
(***************************************************************************)
LEMMA RingFields ==
    ASSUME NEW R \in Ring
    PROVE  /\ R.tail \in Index /\ R.head \in Index
           /\ \A i \in Index : R.blocks[i] \in StoredBlock /\ R.blocks[i].slot \in Nat
                               /\ R.blocks[i].exists \in BOOLEAN
BY DEF Ring, StoredBlock

LEMMA PushedBackFields ==
    ASSUME NEW R \in Ring, NEW b \in StoredBlock
    PROVE  LET Q == PushedBack(R, b) IN
           /\ Q \in Ring /\ Q.tail = Pred(R.tail) /\ Q.head = R.head
           /\ Q.blocks[Pred(R.tail)] = b
           /\ \A i \in Index \ {Pred(R.tail)} : Q.blocks[i] = R.blocks[i]
BY SuccPred, RingFields DEF Ring, PushedBack

LEMMA PushedFrontFields ==
    ASSUME NEW R \in Ring, NEW b \in StoredBlock
    PROVE  LET Q == PushedFront(R, b) IN
           /\ Q \in Ring /\ Q.tail = R.tail /\ Q.head = Succ(R.head)
           /\ Q.blocks[Succ(R.head)] = b
           /\ \A i \in Index \ {Succ(R.head)} : Q.blocks[i] = R.blocks[i]
BY SuccPred, RingFields DEF Ring, PushedFront

LEMMA PoppedBackFields ==
    ASSUME NEW R \in Ring
    PROVE  LET Q == PoppedBack(R) IN
           /\ Q \in Ring /\ Q.tail = Succ(R.tail) /\ Q.head = R.head
           /\ ~ Q.blocks[R.tail].exists
           /\ \A i \in Index \ {R.tail} : Q.blocks[i] = R.blocks[i]
BY SuccPred, RingFields, NewBlockType DEF Ring, PoppedBack

LEMMA PoppedFrontFields ==
    ASSUME NEW R \in Ring
    PROVE  LET Q == PoppedFront(R) IN
           /\ Q \in Ring /\ Q.tail = R.tail /\ Q.head = Pred(R.head)
           /\ ~ Q.blocks[R.head].exists
           /\ \A i \in Index \ {R.head} : Q.blocks[i] = R.blocks[i]
BY SuccPred, RingFields, NewBlockType DEF Ring, PoppedFront

(***************************************************************************)
(* Distances from tail: they range over the index, 0 only at tail itself,  *)
(* and one step along the ring is one more.                                *)
(***************************************************************************)
LEMMA DistanceFacts ==
    ASSUME NEW R \in Ring, NEW i \in Index
    PROVE  /\ Distance(R, i) \in Index
           /\ Distance(R, i) = 0 <=> i = R.tail
           /\ Succ(i) # R.tail => Distance(R, Succ(i)) = Distance(R, i) + 1
           /\ Succ(i) = R.tail <=> Distance(R, i) = Max - 1
           /\ \A j \in Index : Distance(R, j) = Distance(R, i) => j = i
<1>1. R.tail \in Index BY RingFields
<1>2. Succ(i) = IF i = Max - 1 THEN 0 ELSE i + 1 BY SuccPred
<1> QED BY <1>1, <1>2, StoredBlocksAssumption DEF Distance, Index

(***************************************************************************)
(* The two shapes of a contiguous ring.                                    *)
(***************************************************************************)
Vacant(R) ==
    /\ \A i \in Index : ~ R.blocks[i].exists
    /\ R.tail = Succ(R.head)

Run(R) ==
    \A i \in Index :
       /\ R.blocks[i].exists <=> Distance(R, i) <= Distance(R, R.head)
       /\ R.blocks[i].exists =>
             R.blocks[i].slot = R.blocks[R.tail].slot + Distance(R, i)

LEMMA Shapes ==
    ASSUME NEW R \in Ring
    PROVE  /\ Contiguous(R) <=> Vacant(R) \/ Run(R)
           /\ Run(R) => R.blocks[R.tail].exists /\ R.blocks[R.head].exists
<1>1. Contiguous(R) <=> Vacant(R) \/ Run(R)
  BY DEF Contiguous, Vacant, Run
<1>2. /\ R.tail \in Index /\ R.head \in Index
      /\ Distance(R, R.tail) = 0 /\ Distance(R, R.head) \in Index
      /\ Distance(R, R.tail) <= Distance(R, R.head)
      /\ Distance(R, R.head) <= Distance(R, R.head)
  BY RingFields, DistanceFacts, StoredBlocksAssumption DEF Index
<1> QED BY <1>1, <1>2 DEF Run

(***************************************************************************)
(* A push at the front of an empty ring makes a run of one; of a run whose *)
(* next entry is free, a run one longer.                                   *)
(***************************************************************************)
LEMMA PushFrontVacant ==
    ASSUME NEW R \in Ring, Vacant(R), NEW b \in StoredBlock, b.exists
    PROVE  Run(PushedFront(R, b))
<1> DEFINE Q == PushedFront(R, b)
<1>1. /\ Q \in Ring /\ Q.tail = R.tail /\ Q.head = R.tail
      /\ Q.blocks[R.tail] = b
      /\ \A i \in Index \ {R.tail} : ~ Q.blocks[i].exists
  BY PushedFrontFields DEF Vacant
<1>2. R.tail \in Index /\ b.slot \in Nat BY RingFields DEF StoredBlock
<1> HIDE DEF Q
<1>3. ASSUME NEW i \in Index
      PROVE  /\ Q.blocks[i].exists <=> Distance(Q, i) <= Distance(Q, Q.head)
             /\ Q.blocks[i].exists =>
                   Q.blocks[i].slot = Q.blocks[Q.tail].slot + Distance(Q, i)
  <2>1. /\ Distance(Q, i) \in Nat /\ Distance(Q, Q.head) = 0
        /\ Distance(Q, i) = 0 <=> i = R.tail
    BY <1>1, <1>2, DistanceFacts, StoredBlocksAssumption DEF Index
  <2> QED BY <2>1, <1>1, <1>2
<1>4. Run(Q) BY <1>3 DEF Run
<1> QED BY <1>4 DEF Q

LEMMA PushFrontRun ==
    ASSUME NEW R \in Ring, Run(R), NEW b \in StoredBlock, b.exists,
           ~ R.blocks[Succ(R.head)].exists,
           b.slot = R.blocks[R.head].slot + 1
    PROVE  Run(PushedFront(R, b))
<1> DEFINE Q == PushedFront(R, b)
           h == R.head
           n == Succ(R.head)
<1>1. /\ Q \in Ring /\ Q.tail = R.tail /\ Q.head = n /\ Q.blocks[n] = b
      /\ \A i \in Index \ {n} : Q.blocks[i] = R.blocks[i]
  BY PushedFrontFields
<1>2. /\ h \in Index /\ n \in Index /\ R.tail \in Index
      /\ R.blocks[R.tail].exists /\ R.blocks[h].exists /\ n # R.tail
  BY RingFields, SuccPred, Shapes
<1>3. \A i \in Index : Distance(Q, i) = Distance(R, i)
  BY <1>1 DEF Distance
<1>4. Distance(R, n) = Distance(R, h) + 1
  BY <1>2, DistanceFacts
<1>5. R.blocks[h].slot = R.blocks[R.tail].slot + Distance(R, h)
  BY <1>2 DEF Run
<1>6. Q.blocks[Q.tail].slot = R.blocks[R.tail].slot
  BY <1>1, <1>2
<1>7. R.blocks[R.tail].slot \in Nat BY <1>2, RingFields
<1>8. ASSUME NEW i \in Index
      PROVE  /\ Q.blocks[i].exists <=> Distance(Q, i) <= Distance(Q, Q.head)
             /\ Q.blocks[i].exists =>
                   Q.blocks[i].slot = Q.blocks[Q.tail].slot + Distance(Q, i)
  <2>1. /\ Distance(R, i) \in Nat /\ Distance(R, h) \in Nat
        /\ Distance(R, i) = Distance(R, n) <=> i = n
    BY <1>2, DistanceFacts, StoredBlocksAssumption DEF Index
  <2>2. /\ R.blocks[i].exists <=> Distance(R, i) <= Distance(R, h)
        /\ R.blocks[i].exists =>
              R.blocks[i].slot = R.blocks[R.tail].slot + Distance(R, i)
    BY DEF Run
  <2>3. /\ Distance(Q, i) = Distance(R, i)
        /\ Distance(Q, Q.head) = Distance(R, h) + 1
    BY <1>1, <1>2, <1>3, <1>4
  <2> HIDE DEF Q, n, h
  <2>4. CASE i = n
    BY <2>1, <2>3, <2>4, <1>1, <1>4, <1>5, <1>6, <1>7 DEF h
  <2>5. CASE i # n
    BY <2>1, <2>2, <2>3, <2>5, <1>1, <1>4, <1>6
  <2> QED BY <2>4, <2>5
<1> QED BY <1>8 DEF Run

(***************************************************************************)
(* When tail moves on by one entry every other distance shrinks by one,    *)
(* and the old tail becomes the farthest entry.                            *)
(***************************************************************************)
LEMMA TailMoves ==
    ASSUME NEW R \in Ring, NEW Q \in Ring, Q.tail = Succ(R.tail)
    PROVE  /\ \A i \in Index \ {R.tail} : Distance(Q, i) = Distance(R, i) - 1
           /\ Distance(Q, R.tail) = Max - 1
<1>1. R.tail \in Index /\ Q.tail \in Index BY RingFields
<1>2. Q.tail = IF R.tail = Max - 1 THEN 0 ELSE R.tail + 1 BY <1>1, SuccPred
<1> QED BY <1>1, <1>2, StoredBlocksAssumption DEF Distance, Index

LEMMA PushBackRun ==
    ASSUME NEW R \in Ring, Run(R), NEW b \in StoredBlock, b.exists,
           ~ R.blocks[Pred(R.tail)].exists,
           b.slot = R.blocks[R.tail].slot - 1
    PROVE  Run(PushedBack(R, b))
<1> DEFINE Q == PushedBack(R, b)
           t == Pred(R.tail)
<1>1. /\ Q \in Ring /\ Q.tail = t /\ Q.head = R.head /\ Q.blocks[t] = b
      /\ \A i \in Index \ {t} : Q.blocks[i] = R.blocks[i]
  BY PushedBackFields
<1>2. /\ R.tail \in Index /\ R.head \in Index /\ t \in Index /\ R.tail = Succ(t)
      /\ R.head # t
  BY RingFields, SuccPred, Shapes
<1>3. /\ \A i \in Index \ {t} : Distance(R, i) = Distance(Q, i) - 1
      /\ Distance(Q, t) = 0
  BY <1>1, <1>2, TailMoves, DistanceFacts
<1>4. b.slot \in Nat /\ R.blocks[R.tail].slot \in Nat
  BY <1>2, RingFields DEF StoredBlock
<1> HIDE DEF Q, t
<1>5. ASSUME NEW i \in Index
      PROVE  /\ Q.blocks[i].exists <=> Distance(Q, i) <= Distance(Q, Q.head)
             /\ Q.blocks[i].exists =>
                   Q.blocks[i].slot = Q.blocks[Q.tail].slot + Distance(Q, i)
  <2>1. Distance(Q, i) \in Nat /\ Distance(Q, R.head) \in Nat
    BY <1>1, <1>2, DistanceFacts, StoredBlocksAssumption DEF Index
  <2>2. /\ R.blocks[i].exists <=> Distance(R, i) <= Distance(R, R.head)
        /\ R.blocks[i].exists =>
              R.blocks[i].slot = R.blocks[R.tail].slot + Distance(R, i)
    BY DEF Run
  <2>3. CASE i = t
    BY <2>1, <2>3, <1>1, <1>3, <1>4
  <2>4. CASE i # t
    BY <2>1, <2>2, <2>4, <1>1, <1>2, <1>3, <1>4
  <2> QED BY <2>3, <2>4
<1>6. Run(Q) BY <1>5 DEF Run
<1> QED BY <1>6 DEF Q

(***************************************************************************)
(* A pop leaves an empty ring or a run one shorter.                        *)
(***************************************************************************)
LEMMA PopBackRun ==
    ASSUME NEW R \in Ring, Run(R)
    PROVE  Vacant(PoppedBack(R)) \/ Run(PoppedBack(R))
<1> DEFINE Q == PoppedBack(R)
<1>1. /\ Q \in Ring /\ Q.tail = Succ(R.tail) /\ Q.head = R.head
      /\ ~ Q.blocks[R.tail].exists
      /\ \A i \in Index \ {R.tail} : Q.blocks[i] = R.blocks[i]
  BY PoppedBackFields
<1>2. R.tail \in Index /\ R.head \in Index /\ Q.tail \in Index
  BY <1>1, RingFields
<1>3. /\ \A i \in Index \ {R.tail} : Distance(Q, i) = Distance(R, i) - 1
      /\ Distance(Q, R.tail) = Max - 1
  BY <1>1, TailMoves
<1> HIDE DEF Q
<1>4. CASE R.head = R.tail
  <2>1. ASSUME NEW i \in Index, i # R.tail PROVE ~ R.blocks[i].exists
    <3>1. /\ Distance(R, i) # 0 /\ Distance(R, R.head) = 0
          /\ Distance(R, i) \in Nat
      BY <1>2, <1>4, <2>1, DistanceFacts, StoredBlocksAssumption DEF Index
    <3>2. R.blocks[i].exists <=> Distance(R, i) <= Distance(R, R.head)
      BY DEF Run
    <3> QED BY <3>1, <3>2
  <2> QED BY <2>1, <1>1, <1>4 DEF Vacant, Q
<1>5. CASE R.head # R.tail
  <2>1. /\ Distance(Q, R.head) = Distance(R, R.head) - 1
        /\ Distance(R, R.head) \in 1 .. Max - 1
    BY <1>2, <1>3, <1>5, DistanceFacts, StoredBlocksAssumption DEF Index
  <2>2. Q.tail # R.tail
    <3>1. Distance(R, R.tail) = 0 BY <1>2, DistanceFacts
    <3>2. Max - 1 # 0 BY <2>1, StoredBlocksAssumption
    <3> QED BY <3>1, <3>2, <1>1, <1>2, DistanceFacts
  <2>3. Distance(Q, Q.tail) = 0 /\ Distance(R, Q.tail) = 1
    <3>1. Distance(Q, Q.tail) = 0 BY <1>1, <1>2, DistanceFacts
    <3>2. Distance(Q, Q.tail) = Distance(R, Q.tail) - 1 BY <1>2, <1>3, <2>2
    <3>3. Distance(R, Q.tail) \in Index BY <1>2, DistanceFacts
    <3> QED BY <3>1, <3>2, <3>3, StoredBlocksAssumption DEF Index
  <2>4. /\ Q.blocks[Q.tail].slot = R.blocks[R.tail].slot + 1
        /\ R.blocks[R.tail].slot \in Nat
    <3>1. R.blocks[Q.tail].slot = R.blocks[R.tail].slot + Distance(R, Q.tail)
      BY <1>2, <2>1, <2>3 DEF Run
    <3> QED BY <3>1, <2>2, <2>3, <1>1, <1>2, RingFields
  <2>5. ASSUME NEW i \in Index
        PROVE  /\ Q.blocks[i].exists <=> Distance(Q, i) <= Distance(Q, Q.head)
               /\ Q.blocks[i].exists =>
                     Q.blocks[i].slot = Q.blocks[Q.tail].slot + Distance(Q, i)
    <3>1. Distance(R, i) \in Nat
      BY DistanceFacts, StoredBlocksAssumption DEF Index
    <3>2. /\ R.blocks[i].exists <=> Distance(R, i) <= Distance(R, R.head)
          /\ R.blocks[i].exists =>
                R.blocks[i].slot = R.blocks[R.tail].slot + Distance(R, i)
      BY DEF Run
    <3>3. CASE i = R.tail
      BY <3>3, <2>1, <1>1, <1>3, StoredBlocksAssumption
    <3>4. CASE i # R.tail
      BY <3>1, <3>2, <3>4, <2>1, <2>4, <1>1, <1>3
    <3> QED BY <3>3, <3>4
  <2>6. Run(Q) BY <2>5 DEF Run
  <2> QED BY <2>6 DEF Q
<1> QED BY <1>4, <1>5

LEMMA PopFrontRun ==
    ASSUME NEW R \in Ring, Run(R)
    PROVE  Vacant(PoppedFront(R)) \/ Run(PoppedFront(R))
<1> DEFINE Q == PoppedFront(R)
<1>1. /\ Q \in Ring /\ Q.tail = R.tail /\ Q.head = Pred(R.head)
      /\ ~ Q.blocks[R.head].exists
      /\ \A i \in Index \ {R.head} : Q.blocks[i] = R.blocks[i]
  BY PoppedFrontFields
<1>2. /\ R.tail \in Index /\ R.head \in Index /\ Q.head \in Index
      /\ Succ(Q.head) = R.head
  BY <1>1, RingFields, SuccPred
<1> HIDE DEF Q
<1>3. CASE R.head = R.tail
  <2>1. ASSUME NEW i \in Index, i # R.tail PROVE ~ R.blocks[i].exists
    <3>1. /\ Distance(R, i) # 0 /\ Distance(R, R.head) = 0
          /\ Distance(R, i) \in Nat
      BY <1>2, <1>3, <2>1, DistanceFacts, StoredBlocksAssumption DEF Index
    <3>2. R.blocks[i].exists <=> Distance(R, i) <= Distance(R, R.head)
      BY DEF Run
    <3> QED BY <3>1, <3>2
  <2> QED BY <2>1, <1>1, <1>2, <1>3 DEF Vacant, Q
<1>4. CASE R.head # R.tail
  <2>1. \A i \in Index : Distance(Q, i) = Distance(R, i)
    BY <1>1 DEF Distance
  <2>2. Distance(R, R.head) = Distance(R, Q.head) + 1
    BY <1>2, <1>4, DistanceFacts
  <2>3. Q.blocks[Q.tail].slot = R.blocks[R.tail].slot
    BY <1>1, <1>2, <1>4
  <2>4. ASSUME NEW i \in Index
        PROVE  /\ Q.blocks[i].exists <=> Distance(Q, i) <= Distance(Q, Q.head)
               /\ Q.blocks[i].exists =>
                     Q.blocks[i].slot = Q.blocks[Q.tail].slot + Distance(Q, i)
    <3>1. /\ Distance(R, i) \in Nat /\ Distance(R, Q.head) \in Nat
          /\ Distance(R, i) = Distance(R, R.head) => i = R.head
      BY <1>2, DistanceFacts, StoredBlocksAssumption DEF Index
    <3>2. /\ R.blocks[i].exists <=> Distance(R, i) <= Distance(R, R.head)
          /\ R.blocks[i].exists =>
                R.blocks[i].slot = R.blocks[R.tail].slot + Distance(R, i)
      BY DEF Run
    <3>3. Distance(Q, i) = Distance(R, i) /\ Distance(Q, Q.head) = Distance(R, Q.head)
      BY <1>2, <2>1
    <3>4. CASE i = R.head
      BY <3>1, <3>3, <3>4, <2>2, <1>1
    <3>5. CASE i # R.head
      BY <3>1, <3>2, <3>3, <3>5, <2>2, <2>3, <1>1
    <3> QED BY <3>4, <3>5
  <2>5. Run(Q) BY <2>4 DEF Run
  <2> QED BY <2>5 DEF Q
<1> QED BY <1>3, <1>4

-----------------------------------------------------------------------------
(***************************************************************************)
(* StoredBlocksWrite::new: what is read back from the rows of a run.       *)
(***************************************************************************)
LEMMA EntryAtDistance ==
    ASSUME NEW R \in Ring, NEW k \in Index
    PROVE  \E i \in Index : Distance(R, i) = k
<1> DEFINE i == IF R.tail + k < Max THEN R.tail + k ELSE R.tail + k - Max
<1>1. R.tail \in Index BY RingFields
<1>2. i \in Index /\ Distance(R, i) = k
  BY <1>1, StoredBlocksAssumption DEF Index, Distance
<1> QED BY <1>2

LEMMA RowsOfRun ==
    ASSUME NEW R \in Ring, Run(R)
    PROVE  LET L == R.blocks[R.tail].slot
               N == Distance(R, R.head)
           IN  /\ L \in Nat /\ N \in Index
               /\ Rows(R) # {}
               /\ \A b \in Rows(R) : /\ b \in StoredBlock /\ b.exists
                                      /\ b.slot \in L .. L + N
               /\ \A k \in 0 .. N : \E b \in Rows(R) : b.slot = L + k
<1> DEFINE L == R.blocks[R.tail].slot
           N == Distance(R, R.head)
<1>1. L \in Nat /\ N \in Index /\ N \in Nat
  BY RingFields, DistanceFacts, StoredBlocksAssumption DEF Index
<1>2. ASSUME NEW b \in Rows(R)
      PROVE  b \in StoredBlock /\ b.exists /\ b.slot \in L .. L + N
  <2>1. PICK i \in Index : R.blocks[i].exists /\ b = R.blocks[i]
    BY DEF Rows
  <2>2. Distance(R, i) \in Nat /\ Distance(R, i) <= N
    BY <2>1, DistanceFacts, StoredBlocksAssumption DEF Run, Index
  <2>3. b.slot = L + Distance(R, i) BY <2>1 DEF Run
  <2>4. b \in StoredBlock /\ b.exists BY <2>1, RingFields
  <2> HIDE DEF L, N
  <2> QED BY <1>1, <2>2, <2>3, <2>4
<1>3. ASSUME NEW k \in 0 .. N PROVE \E b \in Rows(R) : b.slot = L + k
  <2>1. k \in Index BY <1>1, StoredBlocksAssumption DEF Index
  <2>2. PICK i \in Index : Distance(R, i) = k BY <2>1, EntryAtDistance
  <2>3. R.blocks[i].exists /\ R.blocks[i].slot = L + k
    BY <2>2, <1>1 DEF Run
  <2>4. R.blocks[i] \in Rows(R) BY <2>3 DEF Rows
  <2> QED BY <2>3, <2>4
<1>4. Rows(R) # {}
  BY <1>1, <1>3
<1> QED BY <1>1, <1>2, <1>3, <1>4

LEMMA LoadedRun ==
    ASSUME NEW R \in Ring, Run(R)
    PROVE  Loaded(Rows(R)) \in Ring /\ Run(Loaded(Rows(R)))
<1> DEFINE rows == Rows(R)
           L == R.blocks[R.tail].slot
           N == Distance(R, R.head)
           Q == Loaded(rows)
<1>1. /\ L \in Nat /\ N \in Nat /\ N < Max /\ rows # {}
      /\ \A b \in rows : b \in StoredBlock /\ b.exists /\ b.slot \in L .. L + N
      /\ \A k \in 0 .. N : \E b \in rows : b.slot = L + k
  BY RowsOfRun, StoredBlocksAssumption DEF Index
<1> HIDE DEF rows, L, N
<1>2. LowestSlot(rows) = L
  <2>1. PICK b \in rows : b.slot = L BY <1>1
  <2>2. \A c \in rows : b.slot <= c.slot BY <1>1, <2>1
  <2>3. \E x \in rows : \A c \in rows : x.slot <= c.slot BY <2>2
  <2>4. PICK x \in rows : /\ \A c \in rows : x.slot <= c.slot
                          /\ LowestSlot(rows) = x.slot
    BY <2>3 DEF LowestSlot
  <2> QED BY <2>1, <2>4, <1>1
<1>3. HighestSlot(rows) = L + N
  <2>1. PICK b \in rows : b.slot = L + N BY <1>1
  <2>2. \A c \in rows : c.slot <= b.slot BY <1>1, <2>1
  <2>3. \E x \in rows : \A c \in rows : c.slot <= x.slot BY <2>2
  <2>4. PICK x \in rows : /\ \A c \in rows : c.slot <= x.slot
                          /\ HighestSlot(rows) = x.slot
    BY <2>3 DEF HighestSlot
  <2> QED BY <2>1, <2>4, <1>1
<1>4. ASSUME NEW i \in Index
      PROVE  /\ RowAt(rows, L + i) \in StoredBlock
             /\ RowAt(rows, L + i).exists <=> i <= N
             /\ i <= N => RowAt(rows, L + i).slot = L + i
  <2>0. i \in Nat BY StoredBlocksAssumption DEF Index
  <2>1. CASE i <= N
    <3>1. \E b \in rows : b.slot = L + i BY <1>1, <2>0, <2>1
    <3>2. PICK b \in rows : b.slot = L + i /\ RowAt(rows, L + i) = b
      BY <3>1 DEF RowAt
    <3> QED BY <3>2, <2>1, <1>1
  <2>2. CASE ~ i <= N
    <3>1. \A b \in rows : b.slot # L + i BY <1>1, <2>0, <2>2
    <3>2. RowAt(rows, L + i) = new_noexists BY <3>1 DEF RowAt
    <3> QED BY <3>2, <2>2, NewBlockType
  <2> QED BY <2>1, <2>2
<1>5. Q = [blocks |-> [i \in Index |-> RowAt(rows, L + i)], tail |-> 0, head |-> N]
  <2>1. L + N - L = N BY <1>1
  <2> QED BY <2>1, <1>1, <1>2, <1>3 DEF Loaded
<1>6. 0 \in Index /\ N \in Index BY <1>1, StoredBlocksAssumption DEF Index
<1>7. /\ Q \in Ring /\ Q.tail = 0 /\ Q.head = N
      /\ \A i \in Index : Q.blocks[i] = RowAt(rows, L + i)
  <2> HIDE DEF Q
  <2> QED BY <1>4, <1>5, <1>6 DEF Ring
<1> HIDE DEF Q
<1>8. \A i \in Index : Distance(Q, i) = i
  BY <1>7, StoredBlocksAssumption DEF Distance, Index
<1>9. ASSUME NEW i \in Index
      PROVE  /\ Q.blocks[i].exists <=> Distance(Q, i) <= Distance(Q, Q.head)
             /\ Q.blocks[i].exists =>
                   Q.blocks[i].slot = Q.blocks[Q.tail].slot + Distance(Q, i)
  <2>1. Q.blocks[Q.tail].slot = L
    <3>1. Q.blocks[Q.tail] = RowAt(rows, L + 0) BY <1>6, <1>7
    <3>2. 0 <= N /\ L + 0 = L BY <1>1
    <3> QED BY <3>1, <3>2, <1>4, <1>6
  <2>2. Distance(Q, i) = i /\ Distance(Q, Q.head) = N BY <1>6, <1>7, <1>8
  <2> QED BY <2>1, <2>2, <1>4, <1>7
<1>10. Run(Q) BY <1>9 DEF Run
<1> QED BY <1>7, <1>10 DEF Q, rows

LEMMA EmptyVacant == Empty \in Ring /\ Vacant(Empty)
<1>1. /\ Empty.tail = 0 /\ Empty.head = Max - 1
      /\ Empty.blocks = [i \in Index |-> new_noexists]
  BY DEF Empty
<1>2. 0 \in Index /\ Max - 1 \in Index BY StoredBlocksAssumption DEF Index
<1>3. Succ(Max - 1) = 0 BY <1>2, SuccPred
<1>4. Empty \in Ring BY <1>2, NewBlockType DEF Empty, Ring
<1> QED BY <1>1, <1>3, <1>4, NewBlockType DEF Vacant

LEMMA LoadedVacant ==
    ASSUME NEW R \in Ring, Vacant(R)
    PROVE  Loaded(Rows(R)) = Empty
BY DEF Vacant, Rows, Loaded

-----------------------------------------------------------------------------
(***************************************************************************)
(* The inductive invariant: the ring is well typed and contiguous, the     *)
(* slots it holds are slots of the chain (so never the u64::MAX that       *)
(* stands for an empty ring), and no push has failed.                      *)
(***************************************************************************)
OfChain(R) == \A i \in Index : R.blocks[i].exists => R.blocks[i].slot \in Slots

Good(R) == R \in Ring /\ Contiguous(R) /\ OfChain(R)

Inv == Good(ring) /\ PushFindsRoom

LEMMA LoadedOfChain ==
    ASSUME NEW R \in Ring, OfChain(R), Run(R)
    PROVE  OfChain(Loaded(Rows(R)))
<1>1. \A b \in Rows(R) : b.slot \in Slots BY DEF Rows, OfChain
<1>2. ASSUME NEW i \in Index, Loaded(Rows(R)).blocks[i].exists
      PROVE  Loaded(Rows(R)).blocks[i].slot \in Slots
  <2> DEFINE s == LowestSlot(Rows(R)) + i
  <2>1. Rows(R) # {} BY RowsOfRun
  <2>2. Loaded(Rows(R)).blocks[i] = RowAt(Rows(R), s) BY <2>1 DEF Loaded
  <2>3. RowAt(Rows(R), s) = new_noexists \/ RowAt(Rows(R), s) \in Rows(R)
    BY DEF RowAt
  <2> HIDE DEF s
  <2> QED BY <1>1, <1>2, <2>2, <2>3, NewBlockType
<1> QED BY <1>2 DEF OfChain

LEMMA BackSlot ==
    ASSUME NEW R \in Ring, Contiguous(R)
    PROVE  /\ R.blocks[R.tail].exists => Run(R) /\ get_back_slot(R) = R.blocks[R.tail].slot
           /\ R.blocks[R.head].exists => Run(R) /\ get_front_slot(R) = R.blocks[R.head].slot
           /\ ~ R.blocks[R.tail].exists => Vacant(R) /\ get_back_slot(R) = SlotMax
<1>1. R.tail \in Index /\ R.head \in Index BY RingFields
<1> QED BY <1>1, Shapes DEF Vacant, get_back_slot, get_front_slot

(***************************************************************************)
(* is_full tests the entry after head; when the entry before tail is in    *)
(* use the two coincide, so a push at the back is protected as well.       *)
(***************************************************************************)
LEMMA RoomAtBack ==
    ASSUME ring \in Ring, Run(ring), ~ is_full
    PROVE  ~ ring.blocks[Pred(ring.tail)].exists
<1> DEFINE t == Pred(ring.tail)
<1>1. /\ ring.tail \in Index /\ ring.head \in Index /\ t \in Index
      /\ Succ(t) = ring.tail
  BY RingFields, SuccPred
<1>2. SUFFICES ASSUME ring.blocks[t].exists PROVE FALSE
  OBVIOUS
<1>3. Distance(ring, t) <= Distance(ring, ring.head)
  BY <1>1, <1>2 DEF Run
<1>4. Distance(ring, t) = Max - 1 /\ Distance(ring, ring.head) \in Index
  BY <1>1, DistanceFacts
<1>5. Distance(ring, ring.head) = Max - 1
  BY <1>3, <1>4, StoredBlocksAssumption DEF Index
<1>6. Succ(ring.head) = ring.tail
  BY <1>1, <1>5, DistanceFacts
<1> QED BY <1>6, Shapes DEF is_full

LEMMA InvInit == Init => Inv
<1> SUFFICES ASSUME Init PROVE Inv OBVIOUS
<1>1. Empty \in Ring /\ Contiguous(Empty) /\ OfChain(Empty)
  BY EmptyVacant, Shapes DEF Vacant, OfChain
<1> QED BY <1>1 DEF Init, Inv, Good, PushFindsRoom

(***************************************************************************)
(* Each operation keeps the ring good.                                     *)
(***************************************************************************)
LEMMA PushBackGood ==
    ASSUME Good(ring), NEW b \in NewBlocks, push_block_back(b)
    PROVE  Good(ring') /\ status' = status
<1>1. ring \in Ring /\ Contiguous(ring) /\ OfChain(ring) BY DEF Good
<1>2. Run(ring) /\ b.slot = ring.blocks[ring.tail].slot - 1
  BY <1>1, BackSlot DEF push_block_back
<1>3. ~ ring.blocks[Pred(ring.tail)].exists
  BY <1>1, <1>2, RoomAtBack DEF push_block_back
<1>4. ring' = PushedBack(ring, b) /\ status' = status
  BY <1>3 DEF push_block_back
<1>5. b \in StoredBlock /\ b.exists /\ b.slot \in Slots BY NewBlockType
<1>6. PushedBack(ring, b) \in Ring BY <1>1, <1>5, PushedBackFields
<1>7. Run(PushedBack(ring, b)) BY <1>1, <1>2, <1>3, <1>5, PushBackRun
<1>8. Contiguous(PushedBack(ring, b)) BY <1>6, <1>7, Shapes
<1>9. OfChain(PushedBack(ring, b)) BY <1>1, <1>5, PushedBackFields DEF OfChain
<1> QED BY <1>4, <1>6, <1>8, <1>9 DEF Good

LEMMA PushFrontGood ==
    ASSUME Good(ring), NEW b \in NewBlocks, push_block_front(b)
    PROVE  Good(ring') /\ status' = status
<1>1. ring \in Ring /\ Contiguous(ring) /\ OfChain(ring) BY DEF Good
<1>2. ring' = PushedFront(ring, b) /\ status' = status
  BY DEF push_block_front
<1>3. b \in StoredBlock /\ b.exists /\ b.slot \in Slots BY NewBlockType
<1>4. PushedFront(ring, b) \in Ring BY <1>1, <1>3, PushedFrontFields
<1>5. Run(PushedFront(ring, b))
  <2>1. CASE Vacant(ring) BY <2>1, <1>1, <1>3, PushFrontVacant
  <2>2. CASE Run(ring)
    <3>1. ~ ring.blocks[Succ(ring.head)].exists
      BY DEF push_block_front, is_full
    <3>2. ring.blocks[ring.head].exists BY <1>1, <2>2, Shapes
    <3>3. get_front_slot(ring) # SlotMax => b.slot = get_front_slot(ring) + 1
      BY DEF push_block_front
    <3>4. get_front_slot(ring) = ring.blocks[ring.head].slot
      BY <3>2 DEF get_front_slot
    <3>5. ring.blocks[ring.head].slot # SlotMax
      <4>1. ring.blocks[ring.head].slot \in Slots
        BY <1>1, <3>2, RingFields DEF OfChain
      <4> QED BY <4>1, StoredBlocksAssumption
    <3> QED BY <1>1, <1>3, <2>2, <3>1, <3>3, <3>4, <3>5, PushFrontRun
  <2> QED BY <1>1, <2>1, <2>2, Shapes
<1>6. Contiguous(PushedFront(ring, b)) BY <1>4, <1>5, Shapes
<1>7. OfChain(PushedFront(ring, b)) BY <1>1, <1>3, PushedFrontFields DEF OfChain
<1> QED BY <1>2, <1>4, <1>6, <1>7 DEF Good

LEMMA PopBackGood ==
    ASSUME Good(ring), pop_block_back
    PROVE  Good(ring') /\ status' = status
<1>1. ring \in Ring /\ Contiguous(ring) /\ OfChain(ring) BY DEF Good
<1>2. /\ ring' = PoppedBack(ring) /\ status' = status
      /\ ring.blocks[ring.tail].exists
  BY DEF pop_block_back
<1>3. Run(ring) BY <1>1, <1>2, BackSlot
<1>4. PoppedBack(ring) \in Ring BY <1>1, PoppedBackFields
<1>5. Contiguous(PoppedBack(ring)) BY <1>1, <1>3, <1>4, PopBackRun, Shapes
<1>6. OfChain(PoppedBack(ring)) BY <1>1, PoppedBackFields DEF OfChain
<1> QED BY <1>2, <1>4, <1>5, <1>6 DEF Good

LEMMA PopFrontGood ==
    ASSUME Good(ring), pop_block_front
    PROVE  Good(ring') /\ status' = status
<1>1. ring \in Ring /\ Contiguous(ring) /\ OfChain(ring) BY DEF Good
<1>2. /\ ring' = PoppedFront(ring) /\ status' = status
      /\ ring.blocks[ring.head].exists
  BY DEF pop_block_front
<1>3. Run(ring) BY <1>1, <1>2, BackSlot
<1>4. PoppedFront(ring) \in Ring BY <1>1, PoppedFrontFields
<1>5. Contiguous(PoppedFront(ring)) BY <1>1, <1>3, <1>4, PopFrontRun, Shapes
<1>6. OfChain(PoppedFront(ring)) BY <1>1, PoppedFrontFields DEF OfChain
<1> QED BY <1>2, <1>4, <1>5, <1>6 DEF Good

LEMMA NewGood ==
    ASSUME Good(ring), new
    PROVE  Good(ring') /\ status' = "starting"
<1>1. ring \in Ring /\ Contiguous(ring) /\ OfChain(ring) BY DEF Good
<1>2. ring' = Loaded(Rows(ring)) /\ status' = "starting" BY DEF new
<1>3. Good(Loaded(Rows(ring)))
  <2>1. CASE Vacant(ring)
    <3>1. Empty \in Ring /\ Vacant(Empty) /\ Contiguous(Empty)
      BY EmptyVacant, Shapes
    <3>2. OfChain(Empty) BY <3>1 DEF Vacant, OfChain
    <3> QED BY <1>1, <2>1, <3>1, <3>2, LoadedVacant DEF Good
  <2>2. CASE Run(ring)
    BY <1>1, <2>2, LoadedRun, LoadedOfChain, Shapes DEF Good
  <2> QED BY <1>1, <2>1, <2>2, Shapes
<1> QED BY <1>2, <1>3

LEMMA InvNext == Inv /\ [Next]_vars => Inv'
<1> SUFFICES ASSUME Inv, [Next]_vars PROVE Inv'
  OBVIOUS
<1>1. Good(ring) /\ status # "no free slot" BY DEF Inv, PushFindsRoom
<1>2. SUFFICES Good(ring') /\ status' # "no free slot"
  BY DEF Inv, PushFindsRoom, Good, Contiguous, Distance, OfChain
<1>3. ASSUME NEW b \in NewBlocks, push_block_back(b)
      PROVE  Good(ring') /\ status' # "no free slot"
  BY <1>1, <1>3, PushBackGood
<1>4. ASSUME NEW b \in NewBlocks, push_block_front(b)
      PROVE  Good(ring') /\ status' # "no free slot"
  BY <1>1, <1>4, PushFrontGood
<1>5. ASSUME pop_block_back PROVE Good(ring') /\ status' # "no free slot"
  BY <1>1, <1>5, PopBackGood
<1>6. ASSUME pop_block_front PROVE Good(ring') /\ status' # "no free slot"
  BY <1>1, <1>6, PopFrontGood
<1>7. ASSUME begin PROVE Good(ring') /\ status' # "no free slot"
  BY <1>1, <1>7 DEF begin
<1>8. ASSUME NEW r \in Readers, receive(r) \/ lag(r)
      PROVE  Good(ring') /\ status' # "no free slot"
  BY <1>1, <1>8 DEF receive, lag
<1>9. ASSUME new PROVE Good(ring') /\ status' # "no free slot"
  BY <1>1, <1>9, NewGood
<1>10. ASSUME UNCHANGED vars PROVE Good(ring') /\ status' # "no free slot"
  BY <1>1, <1>10 DEF vars
<1> QED BY <1>3, <1>4, <1>5, <1>6, <1>7, <1>8, <1>9, <1>10 DEF Next

LEMMA InvAlways == Spec => []Inv
BY InvInit, InvNext, PTL DEF Spec

(***************************************************************************)
(* For every ring size, every set of slots and any number of readers, the  *)
(* ring of blocks.rs holds consecutive slots from tail to head and nothing *)
(* else, through pushes and pops at both ends, wrap-around and reloading.  *)
(***************************************************************************)
THEOREM ContiguousCorrect == Spec => []RingContiguous
<1>1. Inv => RingContiguous BY DEF Inv, Good, RingContiguous
<1> QED BY <1>1, InvAlways, PTL

(***************************************************************************)
(* push_block_back2 never reports "no free slot" when is_full, which looks *)
(* at the other end of the ring, said there was room.                      *)
(***************************************************************************)
THEOREM PushCorrect == Spec => []PushFindsRoom
<1>1. Inv => PushFindsRoom BY DEF Inv
<1> QED BY <1>1, InvAlways, PTL

-----------------------------------------------------------------------------
(***************************************************************************)
(* first_available.  push_block_front2 decides whether the push is the     *)
(* first one by looking at tail and head, so it matters that a ring that   *)
(* was loaded empty and never emptied since starts at entry 0.             *)
(***************************************************************************)
FirstInv ==
    /\ FirstAvailableFollows
    /\ ~ emptied /\ Vacant(ring) => ring.tail = 0

(***************************************************************************)
(* The lowest slot of a ring that lost or gained entries at the front is   *)
(* the one it had, while the ring is not empty.                            *)
(***************************************************************************)
LEMMA BackSlotKept ==
    ASSUME NEW R \in Ring, NEW Q \in Ring, Run(R), Run(Q), Q.tail = R.tail,
           Q.blocks[R.tail] = R.blocks[R.tail]
    PROVE  get_back_slot(Q) = get_back_slot(R)
BY Shapes DEF get_back_slot

LEMMA RunNotVacant ==
    ASSUME NEW R \in Ring, Run(R)
    PROVE  ~ Vacant(R)
BY Shapes, RingFields DEF Vacant

LEMMA FirstInit == Init => FirstInv
<1> SUFFICES ASSUME Init PROVE FirstInv OBVIOUS
<1>1. ring = Empty /\ first_available = SlotMax BY DEF Init
<1>2. get_back_slot(Empty) = SlotMax /\ Empty.tail = 0
  <2>1. Empty \in Ring /\ Vacant(Empty) /\ Empty.tail = 0
    BY EmptyVacant DEF Empty
  <2> QED BY <2>1, RingFields DEF Vacant, get_back_slot
<1> QED BY <1>1, <1>2 DEF FirstInv, FirstAvailableFollows

LEMMA FirstPushFront ==
    ASSUME Good(ring), FirstInv, NEW b \in NewBlocks, push_block_front(b)
    PROVE  FirstInv'
<1>1. ring \in Ring /\ Contiguous(ring) BY DEF Good
<1>2. ring' \in Ring /\ Contiguous(ring') BY PushFrontGood DEF Good, Contiguous, Distance
<1>3. /\ ring' = PushedFront(ring, b) /\ emptied' = emptied
      /\ first_available' = IF ring'.tail = 0 /\ ring'.head = 0
                            THEN get_back_slot(ring') ELSE first_available
  BY DEF push_block_front
<1>4. b \in StoredBlock /\ b.exists BY NewBlockType
<1>5. /\ ring'.tail = ring.tail /\ ring'.head = Succ(ring.head)
      /\ ring'.blocks[Succ(ring.head)] = b
      /\ \A i \in Index \ {Succ(ring.head)} : ring'.blocks[i] = ring.blocks[i]
  BY <1>1, <1>3, <1>4, PushedFrontFields
<1>6. ring.tail \in Index /\ ring.head \in Index /\ Succ(ring.head) \in Index
  BY <1>1, RingFields, SuccPred
<1>7. ~ Vacant(ring')
  BY <1>4, <1>5, <1>6 DEF Vacant
<1>8. CASE Vacant(ring)
  BY <1>3, <1>5, <1>7, <1>8 DEF FirstInv, FirstAvailableFollows, Vacant
<1>9. CASE Run(ring)
  <2>1. ring.blocks[ring.tail].exists BY <1>1, <1>9, Shapes
  <2>2. Succ(ring.head) # ring.tail BY <2>1 DEF push_block_front, is_full
  <2>3. ring'.blocks[ring.tail] = ring.blocks[ring.tail] BY <1>5, <1>6, <2>2
  <2>4. Run(ring') BY <1>2, <1>7, Shapes
  <2>5. get_back_slot(ring') = get_back_slot(ring)
    BY <1>1, <1>2, <1>5, <1>9, <2>3, <2>4, BackSlotKept
  <2> QED BY <1>3, <1>7, <2>5 DEF FirstInv, FirstAvailableFollows
<1> QED BY <1>1, <1>8, <1>9, Shapes

LEMMA FirstPopFront ==
    ASSUME Good(ring), FirstInv, pop_block_front
    PROVE  FirstInv'
<1>1. ring \in Ring /\ Contiguous(ring) BY DEF Good
<1>2. ring' \in Ring /\ Contiguous(ring') BY PopFrontGood DEF Good, Contiguous, Distance
<1>3. /\ ring' = PoppedFront(ring) /\ ring.blocks[ring.head].exists
      /\ emptied' = (emptied \/ get_back_slot(ring') = SlotMax)
      /\ first_available' = first_available
  BY DEF pop_block_front
<1>4. Run(ring) BY <1>1, <1>3, BackSlot
<1>5. /\ ring'.tail = ring.tail
      /\ \A i \in Index \ {ring.head} : ring'.blocks[i] = ring.blocks[i]
      /\ ~ ring'.blocks[ring.head].exists
  BY <1>1, <1>3, PoppedFrontFields
<1>6. CASE Vacant(ring')
  <2>1. get_back_slot(ring') = SlotMax
    BY <1>2, <1>6, RingFields DEF Vacant, get_back_slot
  <2> QED BY <1>3, <2>1 DEF FirstInv, FirstAvailableFollows
<1>7. CASE Run(ring')
  <2>1. ~ Vacant(ring') BY <1>2, <1>7, RunNotVacant
  <2>2. ring'.blocks[ring.tail] = ring.blocks[ring.tail]
    <3>1. ring'.blocks[ring'.tail].exists BY <1>2, <1>7, Shapes
    <3> QED BY <3>1, <1>1, <1>5, RingFields
  <2>3. get_back_slot(ring') = get_back_slot(ring)
    BY <1>1, <1>2, <1>4, <1>5, <1>7, <2>2, BackSlotKept
  <2> QED BY <1>3, <2>1, <2>3 DEF FirstInv, FirstAvailableFollows
<1> QED BY <1>2, <1>6, <1>7, Shapes

(***************************************************************************)
(* A push at the back, a pop at the back and a restart store the lowest    *)
(* slot themselves.                                                        *)
(***************************************************************************)
LEMMA FirstPushBack ==
    ASSUME Good(ring), FirstInv, NEW b \in NewBlocks, push_block_back(b)
    PROVE  FirstInv'
<1>1. ring \in Ring /\ Contiguous(ring) BY DEF Good
<1>2. Run(ring) BY <1>1, BackSlot DEF push_block_back
<1>3. ~ ring.blocks[Pred(ring.tail)].exists
  BY <1>1, <1>2, RoomAtBack DEF push_block_back
<1>4. /\ ring' = PushedBack(ring, b) /\ emptied' = emptied
      /\ first_available' = get_back_slot(ring')
  BY <1>3 DEF push_block_back
<1>5. ~ Vacant(ring')
  <2>1. b \in StoredBlock /\ b.exists BY NewBlockType
  <2>2. ring'.blocks[Pred(ring.tail)] = b BY <1>1, <1>4, <2>1, PushedBackFields
  <2>3. Pred(ring.tail) \in Index BY <1>1, RingFields, SuccPred
  <2> QED BY <2>1, <2>2, <2>3 DEF Vacant
<1> QED BY <1>4, <1>5 DEF FirstInv, FirstAvailableFollows

LEMMA FirstPopBack ==
    ASSUME Good(ring), FirstInv, pop_block_back
    PROVE  FirstInv'
<1>1. /\ emptied' = (emptied \/ get_back_slot(ring') = SlotMax)
      /\ first_available' = get_back_slot(ring')
  BY DEF pop_block_back
<1>2. ring' \in Ring BY PopBackGood DEF Good
<1>3. Vacant(ring') => get_back_slot(ring') = SlotMax
  BY <1>2, RingFields DEF Vacant, get_back_slot
<1> QED BY <1>1, <1>3 DEF FirstInv, FirstAvailableFollows

LEMMA FirstNew ==
    ASSUME Good(ring), FirstInv, new
    PROVE  FirstInv'
<1>1. ring \in Ring /\ Contiguous(ring) BY DEF Good
<1>2. ring' = Loaded(Rows(ring)) /\ first_available' = get_back_slot(ring')
  BY DEF new
<1>3. ring'.tail = 0
  <2>1. CASE Rows(ring) = {} BY <1>2, <2>1 DEF Loaded, Empty
  <2>2. CASE Rows(ring) # {} BY <1>2, <2>2 DEF Loaded
  <2> QED BY <2>1, <2>2
<1> QED BY <1>2, <1>3 DEF FirstInv, FirstAvailableFollows

LEMMA FirstNext == Inv /\ FirstInv /\ [Next]_vars => FirstInv'
<1> SUFFICES ASSUME Inv, FirstInv, [Next]_vars PROVE FirstInv'
  OBVIOUS
<1>1. Good(ring) BY DEF Inv
<1>2. ASSUME NEW b \in NewBlocks, push_block_back(b) \/ push_block_front(b)
      PROVE  FirstInv'
  BY <1>1, <1>2, FirstPushBack, FirstPushFront
<1>3. ASSUME pop_block_back \/ pop_block_front PROVE FirstInv'
  BY <1>1, <1>3, FirstPopBack, FirstPopFront
<1>4. ASSUME new PROVE FirstInv'
  BY <1>1, <1>4, FirstNew
<1>5. ASSUME UNCHANGED <<ring, first_available, emptied>> PROVE FirstInv'
  BY <1>5 DEF FirstInv, FirstAvailableFollows, Vacant, get_back_slot
<1>6. ASSUME begin \/ (\E r \in Readers : receive(r) \/ lag(r)) PROVE FirstInv'
  BY <1>5, <1>6 DEF begin, receive, lag
<1> QED BY <1>2, <1>3, <1>4, <1>5, <1>6 DEF Next, vars

(***************************************************************************)
(* first_available, the slot that requests and is_ready compare with, is   *)
(* the lowest slot of the index until the index is emptied, whichever end  *)
(* blocks are pushed to and popped from.                                   *)
(***************************************************************************)
THEOREM FirstAvailableCorrect == Spec => []FirstAvailableFollows
<1>1. Spec => [](Inv /\ FirstInv)
  <2>1. Init => Inv /\ FirstInv BY InvInit, FirstInit
  <2>2. Inv /\ FirstInv /\ [Next]_vars => (Inv /\ FirstInv)'
    BY InvNext, FirstNext
  <2> QED BY <2>1, <2>2, PTL DEF Spec
<1>2. FirstInv => FirstAvailableFollows BY DEF FirstInv
<1> QED BY <1>1, <1>2, PTL

-----------------------------------------------------------------------------
(***************************************************************************)
(* The replicas.  Follows says what ReplicasFollow says without choosing   *)
(* the function: some function folds the outstanding messages into the     *)
(* replica, and its last value is what the writer holds.  Every replica on *)
(* the way is a copy of a good ring: the queries depend on that.           *)
(***************************************************************************)
Folds(f, P, msgs) ==
    f = [n \in 0 .. Len(msgs) |->
            IF n = 0 THEN P ELSE Received(f[n - 1], msgs[n])]

Copy(P) == \E R : Good(R) /\ P = to_read(R)

Follows(P, msgs, R) ==
    \E f : /\ Folds(f, P, msgs) /\ f[Len(msgs)] = to_read(R)
           /\ \A n \in 0 .. Len(msgs) : Copy(f[n])

\* A nonempty set of natural numbers has a least element.
LEMMA NatMin ==
    ASSUME NEW T, T \subseteq Nat, T # {}
    PROVE  \E x \in T : \A y \in T : x <= y
<1> DEFINE R == OpToRel(<, Nat)
<1>1. IsWellFoundedOn(R, Nat)  BY NatLessThanWellFounded
<1>2. \A x, y \in Nat : y < x => <<y, x>> \in R  BY DEF OpToRel
<1> HIDE DEF R
<1>3. PICK x \in T : \A y \in T : ~ (<<y, x>> \in R)  BY <1>1, WFMin, Zenon
<1>4. \A y \in T : y \in Nat /\ x \in Nat /\ ~ (y < x)  BY <1>2, <1>3
<1>5. \A y \in T : x <= y  BY <1>4
<1> QED  BY <1>5

(***************************************************************************)
(* The fold is unique: two that disagree would disagree at a least place,  *)
(* and there both continue from the same replica with the same message.    *)
(***************************************************************************)
LEMMA FoldUnique ==
    ASSUME NEW P, NEW msgs, Len(msgs) \in Nat,
           NEW f, NEW g, Folds(f, P, msgs), Folds(g, P, msgs)
    PROVE  f[Len(msgs)] = g[Len(msgs)]
<1> DEFINE Differ == {n \in 0 .. Len(msgs) : f[n] # g[n]}
<1>1. SUFFICES ASSUME Differ # {} PROVE FALSE OBVIOUS
<1>2. PICK n \in Differ : \A k \in Differ : n <= k
  <2>1. Differ \subseteq Nat OBVIOUS
  <2> HIDE DEF Differ
  <2> QED BY <1>1, <2>1, NatMin, Zenon
<1>3. n \in 0 .. Len(msgs) /\ f[n] # g[n] OBVIOUS
<1>4. n # 0
  BY <1>3 DEF Folds
<1>5. n - 1 \in 0 .. Len(msgs) /\ n - 1 < n
  BY <1>3, <1>4
<1>6. f[n - 1] = g[n - 1]
  BY <1>2, <1>5
<1>7. f[n] = Received(f[n - 1], msgs[n]) /\ g[n] = Received(g[n - 1], msgs[n])
  BY <1>3, <1>4 DEF Folds
<1> QED BY <1>3, <1>6, <1>7

LEMMA FollowsCaughtUp ==
    ASSUME NEW P, NEW msgs, Len(msgs) \in Nat, NEW R, Follows(P, msgs, R)
    PROVE  CaughtUp(P, msgs) = to_read(R)
<1>1. PICK f : Folds(f, P, msgs) /\ f[Len(msgs)] = to_read(R)
  BY DEF Follows
<1>2. \E g : Folds(g, P, msgs) BY <1>1
<1> DEFINE g == CHOOSE h : Folds(h, P, msgs)
<1>3. Folds(g, P, msgs) BY <1>2
<1>4. CaughtUp(P, msgs) = g[Len(msgs)] BY DEF CaughtUp, Folds
<1> HIDE DEF g
<1> QED BY <1>1, <1>3, <1>4, FoldUnique

(***************************************************************************)
(* What sending and receiving a message do to the fold.                    *)
(***************************************************************************)
LEMMA FollowsNothing ==
    ASSUME NEW R, Good(R)
    PROVE  Follows(to_read(R), <<>>, R)
<1> DEFINE f == [n \in 0 .. 0 |-> to_read(R)]
<1>1. Len(<<>>) = 0 OBVIOUS
<1>2. Folds(f, to_read(R), <<>>) /\ f[0] = to_read(R)
  BY <1>1 DEF Folds
<1>3. \A n \in 0 .. 0 : Copy(f[n]) BY DEF Copy
<1> HIDE DEF f
<1> QED BY <1>1, <1>2, <1>3 DEF Follows

LEMMA FollowsSend ==
    ASSUME NEW P, NEW msgs \in Seq(Messages), NEW m \in Messages, NEW R, NEW Q,
           Follows(P, msgs, R), Received(to_read(R), m) = to_read(Q), Good(Q)
    PROVE  Follows(P, Append(msgs, m), Q)
<1> DEFINE L == Len(msgs)
           N == Append(msgs, m)
<1>1. PICK f : /\ Folds(f, P, msgs) /\ f[L] = to_read(R)
               /\ \A n \in 0 .. L : Copy(f[n])
  BY DEF Follows
<1>2. /\ L \in Nat /\ Len(N) = L + 1 /\ N[L + 1] = m
      /\ \A n \in 1 .. L : N[n] = msgs[n]
  OBVIOUS
<1> DEFINE g == [n \in 0 .. L + 1 |->
                    IF n = L + 1 THEN to_read(Q) ELSE f[n]]
<1>3. /\ f[0] = P
      /\ \A n \in 1 .. L : f[n] = Received(f[n - 1], msgs[n])
  BY <1>1, <1>2 DEF Folds
<1> HIDE DEF L, N
<1>4. ASSUME NEW n \in 0 .. L + 1
      PROVE  g[n] = IF n = 0 THEN P ELSE Received(g[n - 1], N[n])
  <2>1. CASE n = 0 BY <1>2, <1>3, <2>1
  <2>2. CASE n = L + 1
    <3>1. g[n] = to_read(Q) /\ g[n - 1] = to_read(R) BY <1>1, <1>2, <2>2
    <3> QED BY <3>1, <1>2, <2>2
  <2>3. CASE n \in 1 .. L
    <3>1. g[n] = f[n] /\ g[n - 1] = f[n - 1] BY <1>2, <2>3
    <3> QED BY <3>1, <1>2, <1>3, <2>3
  <2> QED BY <1>2, <2>1, <2>2, <2>3
<1>5. Folds(g, P, N)
  <2>1. g = [n \in 0 .. L + 1 |-> g[n]] OBVIOUS
  <2> HIDE DEF g
  <2>2. g = [n \in 0 .. L + 1 |-> IF n = 0 THEN P ELSE Received(g[n - 1], N[n])]
    BY <1>4, <2>1
  <2> QED BY <1>2, <2>2 DEF Folds
<1>6. g[Len(N)] = to_read(Q) BY <1>2
<1>7. ASSUME NEW n \in 0 .. Len(N) PROVE Copy(g[n])
  <2>1. CASE n = L + 1
    <3>1. g[n] = to_read(Q) BY <1>2, <2>1
    <3> QED BY <3>1 DEF Copy
  <2>2. CASE n # L + 1
    <3>1. n \in 0 .. L /\ g[n] = f[n] BY <1>2, <2>2
    <3> QED BY <1>1, <3>1
  <2> QED BY <2>1, <2>2
<1> HIDE DEF g
<1> QED BY <1>5, <1>6, <1>7 DEF Follows, N

LEMMA FollowsReceive ==
    ASSUME NEW P, NEW msgs \in Seq(Messages), NEW R, Len(msgs) >= 1,
           Follows(P, msgs, R)
    PROVE  Follows(Received(P, msgs[1]), Tail(msgs), R)
<1> DEFINE L == Len(msgs)
           N == Tail(msgs)
<1>1. PICK f : /\ Folds(f, P, msgs) /\ f[L] = to_read(R)
               /\ \A n \in 0 .. L : Copy(f[n])
  BY DEF Follows
<1>2. /\ L \in Nat /\ L >= 1 /\ Len(N) = L - 1
      /\ \A n \in 1 .. L - 1 : N[n] = msgs[n + 1]
  OBVIOUS
<1>3. /\ f[0] = P
      /\ \A n \in 1 .. L : f[n] = Received(f[n - 1], msgs[n])
  BY <1>1, <1>2 DEF Folds
<1> DEFINE g == [n \in 0 .. L - 1 |-> f[n + 1]]
<1> HIDE DEF L, N
<1>4. ASSUME NEW n \in 0 .. L - 1
      PROVE  g[n] = IF n = 0 THEN Received(P, msgs[1]) ELSE Received(g[n - 1], N[n])
  <2>1. CASE n = 0
    <3>1. f[1] = Received(f[1 - 1], msgs[1]) BY <1>2, <1>3
    <3>2. g[n] = f[1] BY <1>2, <2>1
    <3> QED BY <1>3, <2>1, <3>1, <3>2
  <2>2. CASE n # 0
    <3>1. n + 1 \in 1 .. L /\ n \in 1 .. L - 1 /\ (n + 1) - 1 = n BY <1>2, <2>2
    <3>2. f[n + 1] = Received(f[n], msgs[n + 1]) BY <1>3, <3>1
    <3>3. g[n] = f[n + 1] /\ g[n - 1] = f[n] BY <1>2, <2>2
    <3> QED BY <1>2, <2>2, <3>1, <3>2, <3>3
  <2> QED BY <2>1, <2>2
<1>5. Folds(g, Received(P, msgs[1]), N)
  <2>1. g = [n \in 0 .. L - 1 |-> g[n]] OBVIOUS
  <2> HIDE DEF g
  <2>2. g = [n \in 0 .. L - 1 |->
                IF n = 0 THEN Received(P, msgs[1]) ELSE Received(g[n - 1], N[n])]
    BY <1>4, <2>1
  <2> QED BY <1>2, <2>2 DEF Folds
<1>6. g[Len(N)] = to_read(R) BY <1>1, <1>2
<1>7. ASSUME NEW n \in 0 .. Len(N) PROVE Copy(g[n])
  <2>1. n + 1 \in 0 .. L /\ g[n] = f[n + 1] BY <1>2
  <2> QED BY <1>1, <2>1
<1> HIDE DEF g
<1> QED BY <1>5, <1>6, <1>7 DEF Follows, N

(***************************************************************************)
(* The time index of the ring changes by the entry pushed or popped.  A    *)
(* pop removes the pair of one entry only because no other entry of the    *)
(* ring holds the same slot.                                               *)
(***************************************************************************)
LEMMA EntriesAdded ==
    ASSUME NEW R \in Ring, NEW Q \in Ring, NEW k \in Index, ~ R.blocks[k].exists,
           \A i \in Index \ {k} : Q.blocks[i] = R.blocks[i]
    PROVE  TimeEntries(Q) = TimeEntries(R) \union TimeEntry(Q.blocks[k])
<1>1. TimeEntry(R.blocks[k]) = {} BY DEF TimeEntry
<1>2. ASSUME NEW e, e \in TimeEntries(Q)
      PROVE  e \in TimeEntries(R) \union TimeEntry(Q.blocks[k])
  <2>1. PICK i \in Index : e \in TimeEntry(Q.blocks[i]) BY <1>2 DEF TimeEntries
  <2> QED BY <2>1 DEF TimeEntries
<1>3. ASSUME NEW e, e \in TimeEntries(R) PROVE e \in TimeEntries(Q)
  <2>1. PICK i \in Index : e \in TimeEntry(R.blocks[i]) BY <1>3 DEF TimeEntries
  <2>2. i # k BY <1>1, <2>1
  <2> QED BY <2>1, <2>2 DEF TimeEntries
<1>4. ASSUME NEW e, e \in TimeEntry(Q.blocks[k]) PROVE e \in TimeEntries(Q)
  BY <1>4 DEF TimeEntries
<1> QED BY <1>2, <1>3, <1>4

LEMMA RunSlotsDiffer ==
    ASSUME NEW R \in Ring, Run(R), NEW i \in Index, NEW j \in Index, i # j,
           R.blocks[i].exists, R.blocks[j].exists
    PROVE  R.blocks[i].slot # R.blocks[j].slot
<1>1. /\ R.blocks[i].slot = R.blocks[R.tail].slot + Distance(R, i)
      /\ R.blocks[j].slot = R.blocks[R.tail].slot + Distance(R, j)
  BY DEF Run
<1>2. Distance(R, i) \in Nat /\ Distance(R, j) \in Nat /\ Distance(R, i) # Distance(R, j)
  BY DistanceFacts, StoredBlocksAssumption DEF Index
<1>3. R.blocks[R.tail].slot \in Nat BY RingFields
<1> QED BY <1>1, <1>2, <1>3

LEMMA EntriesRemoved ==
    ASSUME NEW R \in Ring, NEW Q \in Ring, Run(R), NEW k \in Index,
           R.blocks[k].exists, ~ Q.blocks[k].exists,
           \A i \in Index \ {k} : Q.blocks[i] = R.blocks[i]
    PROVE  TimeEntries(Q) = TimeEntries(R) \ TimeEntry(R.blocks[k])
<1>1. TimeEntry(Q.blocks[k]) = {} BY DEF TimeEntry
<1>2. ASSUME NEW e, e \in TimeEntries(Q)
      PROVE  e \in TimeEntries(R) /\ e \notin TimeEntry(R.blocks[k])
  <2>1. PICK i \in Index : e \in TimeEntry(Q.blocks[i]) BY <1>2 DEF TimeEntries
  <2>2. i # k /\ e \in TimeEntry(R.blocks[i]) BY <1>1, <2>1
  <2>3. R.blocks[i].exists /\ e[2] = R.blocks[i].slot BY <2>2 DEF TimeEntry
  <2>4. R.blocks[i].slot # R.blocks[k].slot BY <2>2, <2>3, RunSlotsDiffer
  <2>5. e \notin TimeEntry(R.blocks[k]) BY <2>3, <2>4 DEF TimeEntry
  <2> QED BY <2>2, <2>5 DEF TimeEntries
<1>3. ASSUME NEW e, e \in TimeEntries(R), e \notin TimeEntry(R.blocks[k])
      PROVE  e \in TimeEntries(Q)
  <2>1. PICK i \in Index : e \in TimeEntry(R.blocks[i]) BY <1>3 DEF TimeEntries
  <2>2. i # k BY <1>3, <2>1
  <2> QED BY <2>1, <2>2 DEF TimeEntries
<1> QED BY <1>2, <1>3

(***************************************************************************)
(* Types of what the readers hold and of what travels to them.             *)
(***************************************************************************)
LEMMA ToReadType ==
    ASSUME NEW R \in Ring
    PROVE  to_read(R) \in Replica
<1>1. ASSUME NEW e, e \in TimeEntries(R) PROVE e \in Times \X Nat
  <2>1. PICK i \in Index : e \in TimeEntry(R.blocks[i]) BY <1>1 DEF TimeEntries
  <2>2. /\ e = <<R.blocks[i].time, R.blocks[i].slot>>
        /\ R.blocks[i].time # None /\ R.blocks[i] \in StoredBlock
    BY <2>1, RingFields DEF TimeEntry
  <2> QED BY <2>2 DEF StoredBlock
<1> QED BY <1>1 DEF to_read, Replica

LEMMA MessageKinds ==
    ASSUME NEW m \in Messages
    PROVE  \/ m.op \in {"PopBack", "PopFront"}
           \/ m.op \in {"PushBack", "PushFront"} /\ m.block \in NewBlocks
BY DEF Messages

LEMMA ReceivedType ==
    ASSUME NEW P \in Replica, NEW m \in Messages
    PROVE  Received(P, m) \in Replica
<1>1. P.ring \in Ring /\ P.index \in SUBSET (Times \X Nat) BY DEF Replica
<1>2. CASE m.op = "PopBack"
  <2>1. RingAfter(P.ring, m) = PoppedBack(P.ring) BY <1>2 DEF RingAfter
  <2>2. IndexAfter(P, m) \in SUBSET (Times \X Nat) BY <1>1, <1>2 DEF IndexAfter
  <2> QED BY <1>1, <2>1, <2>2, PoppedBackFields DEF Received, Replica
<1>3. CASE m.op = "PopFront"
  <2>1. RingAfter(P.ring, m) = PoppedFront(P.ring) BY <1>3 DEF RingAfter
  <2>2. IndexAfter(P, m) \in SUBSET (Times \X Nat) BY <1>1, <1>3 DEF IndexAfter
  <2> QED BY <1>1, <2>1, <2>2, PoppedFrontFields DEF Received, Replica
<1>4. CASE m.op \in {"PushBack", "PushFront"} /\ m.block \in NewBlocks
  <2>1. m.block \in StoredBlock BY <1>4, NewBlockType
  <2>2. RingAfter(P.ring, m) \in Ring
    BY <1>1, <1>4, <2>1, PushedBackFields, PushedFrontFields DEF RingAfter
  <2>3. TimeEntry(m.block) \subseteq Times \X Nat
    BY <2>1 DEF TimeEntry, StoredBlock
  <2>4. IndexAfter(P, m) \in SUBSET (Times \X Nat)
    BY <1>1, <1>4, <2>3 DEF IndexAfter
  <2> QED BY <2>2, <2>4 DEF Received, Replica
<1> QED BY <1>2, <1>3, <1>4, MessageKinds

-----------------------------------------------------------------------------
(***************************************************************************)
(* Everything has its type, and each replica follows the ring.             *)
(***************************************************************************)
ReplicasInv ==
    /\ TypeOK
    /\ \A r \in Readers : Follows(replica[r], sync[r], ring)

LEMMA BackSlotNat ==
    ASSUME NEW R \in Ring
    PROVE  get_back_slot(R) \in Nat
BY RingFields, StoredBlocksAssumption DEF get_back_slot

LEMMA ReplicasInit == Init => ReplicasInv
<1> SUFFICES ASSUME Init PROVE ReplicasInv OBVIOUS
<1>1. Empty \in Ring /\ to_read(Empty) \in Replica BY EmptyVacant, ToReadType
<1>2. TypeOK
  <2>1. <<>> \in Seq(Messages) OBVIOUS
  <2>2. sync \in [Readers -> Seq(Messages)] BY <2>1 DEF Init
  <2> QED BY <1>1, <2>2, StoredBlocksAssumption DEF Init, TypeOK
<1>3. ASSUME NEW r \in Readers PROVE Follows(replica[r], sync[r], ring)
  <2>1. Good(Empty) BY InvInit DEF Init, Inv
  <2> QED BY <2>1, FollowsNothing DEF Init
<1> QED BY <1>2, <1>3 DEF ReplicasInv

(***************************************************************************)
(* A step of the writer that tells the readers what it did.                *)
(***************************************************************************)
LEMMA SendFollowed ==
    ASSUME ReplicasInv, NEW m \in Messages, send(m), replica' = replica,
           Good(ring'), first_available' \in Nat, emptied' \in BOOLEAN,
           status' = status, Received(to_read(ring), m) = to_read(ring')
    PROVE  ReplicasInv'
<1>1. sync' = [r \in Readers |-> Append(sync[r], m)] BY DEF send
<1>2. /\ sync \in [Readers -> Seq(Messages)] /\ replica \in [Readers -> Replica]
      /\ status \in {"starting", "running", "no free slot", "read runtime lagged"}
  BY DEF ReplicasInv, TypeOK
<1>3. sync' \in [Readers -> Seq(Messages)]
  <2>1. \A s \in Seq(Messages) : Append(s, m) \in Seq(Messages) OBVIOUS
  <2> QED BY <1>1, <1>2, <2>1
<1>4. ASSUME NEW r \in Readers PROVE Follows(replica'[r], sync'[r], ring')
  <2>1. sync[r] \in Seq(Messages) BY <1>2
  <2>2. Follows(replica[r], sync[r], ring) BY DEF ReplicasInv
  <2>3. Follows(replica[r], Append(sync[r], m), ring')
    BY <2>1, <2>2, FollowsSend
  <2> QED BY <1>1, <2>3
<1>5. TypeOK' BY <1>2, <1>3 DEF TypeOK, Good
<1> QED BY <1>4, <1>5 DEF ReplicasInv

LEMMA PushBackFollowed ==
    ASSUME Good(ring), ReplicasInv, NEW b \in NewBlocks, push_block_back(b)
    PROVE  ReplicasInv'
<1> DEFINE m == [op |-> "PushBack", block |-> b]
<1>1. ring \in Ring /\ Contiguous(ring) BY DEF Good
<1>2. Run(ring) BY <1>1, BackSlot DEF push_block_back
<1>3. ~ ring.blocks[Pred(ring.tail)].exists
  BY <1>1, <1>2, RoomAtBack DEF push_block_back
<1>4. /\ ring' = PushedBack(ring, b) /\ send(m) /\ status' = status
      /\ first_available' = get_back_slot(ring')
      /\ replica' = replica /\ emptied' = emptied
  BY <1>3 DEF push_block_back
<1>5. b \in StoredBlock BY NewBlockType
<1>6. /\ ring' \in Ring /\ ring'.blocks[Pred(ring.tail)] = b
      /\ \A i \in Index \ {Pred(ring.tail)} : ring'.blocks[i] = ring.blocks[i]
  BY <1>1, <1>4, <1>5, PushedBackFields
<1>7. Pred(ring.tail) \in Index BY <1>1, RingFields, SuccPred
<1>8. TimeEntries(ring') = TimeEntries(ring) \union TimeEntry(b)
  BY <1>1, <1>3, <1>6, <1>7, EntriesAdded
<1>9. Received(to_read(ring), m) = to_read(ring')
  BY <1>4, <1>8 DEF Received, to_read, RingAfter, IndexAfter
<1>10. m \in Messages BY DEF Messages
<1>11. first_available' \in Nat /\ emptied' \in BOOLEAN
  BY <1>4, <1>6, BackSlotNat DEF ReplicasInv, TypeOK
<1> HIDE DEF m
<1> QED BY <1>4, <1>6, <1>9, <1>10, <1>11, PushBackGood, SendFollowed

LEMMA PushFrontFollowed ==
    ASSUME Good(ring), ReplicasInv, NEW b \in NewBlocks, push_block_front(b)
    PROVE  ReplicasInv'
<1> DEFINE m == [op |-> "PushFront", block |-> b]
<1>1. ring \in Ring BY DEF Good
<1>2. /\ ring' = PushedFront(ring, b) /\ send(m) /\ status' = status
      /\ first_available' = IF ring'.tail = 0 /\ ring'.head = 0
                            THEN get_back_slot(ring') ELSE first_available
      /\ replica' = replica /\ emptied' = emptied
      /\ ~ ring.blocks[Succ(ring.head)].exists
  BY DEF push_block_front, is_full
<1>3. b \in StoredBlock BY NewBlockType
<1>4. /\ ring' \in Ring /\ ring'.blocks[Succ(ring.head)] = b
      /\ \A i \in Index \ {Succ(ring.head)} : ring'.blocks[i] = ring.blocks[i]
  BY <1>1, <1>2, <1>3, PushedFrontFields
<1>5. Succ(ring.head) \in Index BY <1>1, RingFields, SuccPred
<1>6. TimeEntries(ring') = TimeEntries(ring) \union TimeEntry(b)
  BY <1>1, <1>2, <1>4, <1>5, EntriesAdded
<1>7. Received(to_read(ring), m) = to_read(ring')
  BY <1>2, <1>6 DEF Received, to_read, RingAfter, IndexAfter
<1>8. m \in Messages BY DEF Messages
<1>9. first_available' \in Nat /\ emptied' \in BOOLEAN
  BY <1>2, <1>4, BackSlotNat DEF ReplicasInv, TypeOK
<1> HIDE DEF m
<1> QED BY <1>2, <1>4, <1>7, <1>8, <1>9, PushFrontGood, SendFollowed

LEMMA PopBackFollowed ==
    ASSUME Good(ring), ReplicasInv, pop_block_back
    PROVE  ReplicasInv'
<1> DEFINE m == [op |-> "PopBack"]
<1>1. ring \in Ring /\ Contiguous(ring) BY DEF Good
<1>2. /\ ring' = PoppedBack(ring) /\ send(m) /\ status' = status
      /\ first_available' = get_back_slot(ring') /\ replica' = replica
      /\ emptied' = (emptied \/ get_back_slot(ring') = SlotMax)
      /\ ring.blocks[ring.tail].exists
  BY DEF pop_block_back
<1>3. Run(ring) /\ ring.tail \in Index BY <1>1, <1>2, BackSlot, RingFields
<1>4. /\ ring' \in Ring /\ ~ ring'.blocks[ring.tail].exists
      /\ \A i \in Index \ {ring.tail} : ring'.blocks[i] = ring.blocks[i]
  BY <1>1, <1>2, PoppedBackFields
<1>5. TimeEntries(ring') = TimeEntries(ring) \ TimeEntry(ring.blocks[ring.tail])
  BY <1>1, <1>2, <1>3, <1>4, EntriesRemoved
<1>6. Received(to_read(ring), m) = to_read(ring')
  BY <1>2, <1>5 DEF Received, to_read, RingAfter, IndexAfter
<1>7. m \in Messages BY DEF Messages
<1>8. first_available' \in Nat /\ emptied' \in BOOLEAN
  BY <1>2, <1>4, BackSlotNat DEF ReplicasInv, TypeOK
<1> HIDE DEF m
<1> QED BY <1>2, <1>4, <1>6, <1>7, <1>8, PopBackGood, SendFollowed

LEMMA PopFrontFollowed ==
    ASSUME Good(ring), ReplicasInv, pop_block_front
    PROVE  ReplicasInv'
<1> DEFINE m == [op |-> "PopFront"]
<1>1. ring \in Ring /\ Contiguous(ring) BY DEF Good
<1>2. /\ ring' = PoppedFront(ring) /\ send(m) /\ status' = status
      /\ first_available' = first_available /\ replica' = replica
      /\ emptied' = (emptied \/ get_back_slot(ring') = SlotMax)
      /\ ring.blocks[ring.head].exists
  BY DEF pop_block_front
<1>3. Run(ring) /\ ring.head \in Index BY <1>1, <1>2, BackSlot, RingFields
<1>4. /\ ring' \in Ring /\ ~ ring'.blocks[ring.head].exists
      /\ \A i \in Index \ {ring.head} : ring'.blocks[i] = ring.blocks[i]
  BY <1>1, <1>2, PoppedFrontFields
<1>5. TimeEntries(ring') = TimeEntries(ring) \ TimeEntry(ring.blocks[ring.head])
  BY <1>1, <1>2, <1>3, <1>4, EntriesRemoved
<1>6. Received(to_read(ring), m) = to_read(ring')
  BY <1>2, <1>5 DEF Received, to_read, RingAfter, IndexAfter
<1>7. m \in Messages BY DEF Messages
<1>8. first_available' \in Nat /\ emptied' \in BOOLEAN
  BY <1>2 DEF ReplicasInv, TypeOK
<1> HIDE DEF m
<1> QED BY <1>2, <1>4, <1>6, <1>7, <1>8, PopFrontGood, SendFollowed

(***************************************************************************)
(* A reader that receives, and the restart that hands out fresh copies.    *)
(***************************************************************************)
LEMMA ReceiveFollowed ==
    ASSUME ReplicasInv, NEW q \in Readers, receive(q)
    PROVE  ReplicasInv'
<1>1. /\ sync \in [Readers -> Seq(Messages)] /\ replica \in [Readers -> Replica]
      /\ sync[q] \in Seq(Messages) /\ replica[q] \in Replica
  BY DEF ReplicasInv, TypeOK
<1>2. /\ Len(sync[q]) >= 1
      /\ replica' = [replica EXCEPT ![q] = Received(replica[q], sync[q][1])]
      /\ sync' = [sync EXCEPT ![q] = Tail(sync[q])]
      /\ UNCHANGED <<ring, first_available, status, emptied>>
  BY StoredBlocksAssumption DEF receive
<1>3. sync[q][1] \in Messages /\ Tail(sync[q]) \in Seq(Messages) BY <1>1, <1>2
<1>4. Received(replica[q], sync[q][1]) \in Replica BY <1>1, <1>3, ReceivedType
<1>5. TypeOK' BY <1>1, <1>2, <1>3, <1>4 DEF ReplicasInv, TypeOK
<1>6. ASSUME NEW r \in Readers PROVE Follows(replica'[r], sync'[r], ring')
  <2>1. Follows(replica[r], sync[r], ring) BY DEF ReplicasInv
  <2>2. CASE r = q
    BY <1>1, <1>2, <2>1, <2>2, FollowsReceive
  <2>3. CASE r # q
    BY <1>1, <1>2, <2>1, <2>3
  <2> QED BY <2>2, <2>3
<1> QED BY <1>5, <1>6 DEF ReplicasInv

LEMMA NewFollowed ==
    ASSUME Good(ring), ReplicasInv, new
    PROVE  ReplicasInv'
<1>1. /\ first_available' = get_back_slot(ring')
      /\ replica' = [r \in Readers |-> to_read(ring')]
      /\ sync' = [r \in Readers |-> <<>>]
      /\ status' = "starting" /\ emptied' = FALSE
  BY DEF new
<1>2. ring' \in Ring BY NewGood DEF Good
<1>3. first_available' \in Nat /\ to_read(ring') \in Replica
  BY <1>1, <1>2, BackSlotNat, ToReadType
<1>4. TypeOK'
  <2>1. <<>> \in Seq(Messages) OBVIOUS
  <2>2. sync' \in [Readers -> Seq(Messages)] BY <1>1, <2>1
  <2> QED BY <1>1, <1>2, <1>3, <2>2 DEF TypeOK
<1>5. ASSUME NEW r \in Readers PROVE Follows(replica'[r], sync'[r], ring')
  BY <1>1, NewGood, FollowsNothing
<1> QED BY <1>4, <1>5 DEF ReplicasInv

LEMMA ReplicasNext == Inv /\ ReplicasInv /\ [Next]_vars => ReplicasInv'
<1> SUFFICES ASSUME Inv, ReplicasInv, [Next]_vars PROVE ReplicasInv'
  OBVIOUS
<1>1. Good(ring) BY DEF Inv
<1>2. ASSUME NEW b \in NewBlocks, push_block_back(b) \/ push_block_front(b)
      PROVE  ReplicasInv'
  BY <1>1, <1>2, PushBackFollowed, PushFrontFollowed
<1>3. ASSUME pop_block_back \/ pop_block_front PROVE ReplicasInv'
  BY <1>1, <1>3, PopBackFollowed, PopFrontFollowed
<1>4. ASSUME new PROVE ReplicasInv'
  BY <1>1, <1>4, NewFollowed
<1>5. ASSUME NEW r \in Readers, receive(r) PROVE ReplicasInv'
  BY <1>5, ReceiveFollowed
<1>6. ASSUME UNCHANGED <<ring, first_available, sync, replica, emptied>>,
             status' = status \/ status' \in {"running", "read runtime lagged"}
      PROVE  ReplicasInv'
  BY <1>6 DEF ReplicasInv, TypeOK
<1>7. ASSUME begin \/ (\E r \in Readers : lag(r)) PROVE ReplicasInv'
  BY <1>6, <1>7 DEF begin, lag
<1> QED BY <1>2, <1>3, <1>4, <1>5, <1>6, <1>7 DEF Next, vars

LEMMA ReplicasAlways == Spec => []ReplicasInv
<1>1. Init => Inv /\ ReplicasInv BY InvInit, ReplicasInit
<1>2. Inv /\ ReplicasInv /\ [Next]_vars => (Inv /\ ReplicasInv)'
  BY InvNext, ReplicasNext
<1>3. Inv /\ ReplicasInv => ReplicasInv OBVIOUS
<1> QED BY <1>1, <1>2, <1>3, PTL DEF Spec

(***************************************************************************)
(* The ring, the messages on their way and the replicas have their types.  *)
(***************************************************************************)
THEOREM StoredBlocksTypes == Spec => []TypeOK
<1>1. ReplicasInv => TypeOK BY DEF ReplicasInv
<1> QED BY <1>1, ReplicasAlways, PTL

(***************************************************************************)
(* Whatever a reader has not received yet, once it has it holds exactly    *)
(* the ring of the writer and exactly the time index of that ring, for     *)
(* every number of readers and every capacity of the channel.              *)
(***************************************************************************)
THEOREM ReplicasCorrect == Spec => []ReplicasFollow
<1>1. ASSUME ReplicasInv PROVE ReplicasFollow
  <2>1. ASSUME NEW r \in Readers
        PROVE  CaughtUp(replica[r], sync[r]) = to_read(ring)
    <3>1. sync[r] \in Seq(Messages) /\ Follows(replica[r], sync[r], ring)
      BY <1>1 DEF ReplicasInv, TypeOK
    <3> QED BY <3>1, FollowsCaughtUp
  <2> QED BY <2>1 DEF ReplicasFollow
<1> QED BY <1>1, ReplicasAlways, PTL

-----------------------------------------------------------------------------
(***************************************************************************)
(* The ring implements SlotWindow.  EntryAt(R, k) is the entry k steps after *)
(* tail, the inverse of Distance.                                          *)
(***************************************************************************)
EntryAt(R, k) == (R.tail + k) % Max

WindowOf(R) == [d \in 1 .. Count(R) |-> R.blocks[(R.tail + d - 1) % Max]]

LEMMA ModMax ==
    ASSUME NEW a \in Nat, a < 2 * Max
    PROVE  a % Max = IF a < Max THEN a ELSE a - Max
BY StoredBlocksAssumption

LEMMA EntryFacts ==
    ASSUME NEW R \in Ring, NEW k \in Index
    PROVE  /\ EntryAt(R, k) \in Index
           /\ Distance(R, EntryAt(R, k)) = k
           /\ EntryAt(R, Distance(R, k)) = k
<1>1. R.tail \in Nat /\ R.tail < Max /\ k \in Nat /\ k < Max /\ Max \in Nat
  BY RingFields, StoredBlocksAssumption DEF Index
<1>2. EntryAt(R, k) = IF R.tail + k < Max THEN R.tail + k ELSE R.tail + k - Max
  <2>1. PICK a \in Nat : a = R.tail + k /\ a < 2 * Max BY <1>1
  <2>2. a % Max = IF a < Max THEN a ELSE a - Max BY <2>1, ModMax
  <2> QED BY <1>1, <2>1, <2>2 DEF EntryAt
<1>3. EntryAt(R, k) \in Index /\ Distance(R, EntryAt(R, k)) = k
  BY <1>1, <1>2 DEF Index, Distance
<1>4. Distance(R, k) \in Nat /\ Distance(R, k) < Max
  BY DistanceFacts, StoredBlocksAssumption DEF Index
<1>5. EntryAt(R, Distance(R, k)) =
         IF R.tail + Distance(R, k) < Max THEN R.tail + Distance(R, k)
         ELSE R.tail + Distance(R, k) - Max
  <2>1. PICK a \in Nat : a = R.tail + Distance(R, k) /\ a < 2 * Max
    BY <1>1, <1>4
  <2>2. a % Max = IF a < Max THEN a ELSE a - Max BY <2>1, ModMax
  <2> QED BY <1>1, <1>4, <2>1, <2>2 DEF EntryAt
<1>6. EntryAt(R, Distance(R, k)) = k
  BY <1>1, <1>5 DEF Distance
<1> QED BY <1>3, <1>6

LEMMA WindowRun ==
    ASSUME NEW R \in Ring, Run(R)
    PROVE  LET w == WindowOf(R) IN
           /\ Count(R) = Distance(R, R.head) + 1 /\ Count(R) \in 1 .. Max
           /\ w \in Seq(StoredBlock) /\ Len(w) = Count(R)
           /\ \A d \in 1 .. Count(R) : /\ EntryAt(R, d - 1) \in Index
                                       /\ w[d] = R.blocks[EntryAt(R, d - 1)]
                                       /\ R.blocks[EntryAt(R, d - 1)].exists
<1> DEFINE w == WindowOf(R)
           n == Count(R)
<1>1. n = Distance(R, R.head) + 1 BY Shapes DEF Count
<1>2. n \in 1 .. Max /\ Distance(R, R.head) \in Nat /\ n \in Nat
  BY <1>1, RingFields, DistanceFacts, StoredBlocksAssumption DEF Index
<1>3. ASSUME NEW d \in 1 .. n
      PROVE  /\ EntryAt(R, d - 1) \in Index
             /\ R.blocks[EntryAt(R, d - 1)].exists
             /\ R.blocks[EntryAt(R, d - 1)] \in StoredBlock
             /\ (R.tail + d - 1) % Max = EntryAt(R, d - 1)
  <2>1. d - 1 \in Index BY <1>2, StoredBlocksAssumption DEF Index
  <2>2. EntryAt(R, d - 1) \in Index /\ Distance(R, EntryAt(R, d - 1)) = d - 1
    BY <2>1, EntryFacts
  <2>3. R.blocks[EntryAt(R, d - 1)].exists
    BY <1>1, <1>2, <2>2 DEF Run
  <2>4. R.tail + d - 1 = R.tail + (d - 1)
    BY <1>2, RingFields, StoredBlocksAssumption DEF Index
  <2> QED BY <2>2, <2>3, <2>4, RingFields DEF EntryAt
<1>4. w = [d \in 1 .. n |-> R.blocks[EntryAt(R, d - 1)]]
  BY <1>3 DEF WindowOf
<1> HIDE DEF w, n
<1>5. w \in [1 .. n -> StoredBlock] BY <1>3, <1>4
<1>6. w \in Seq(StoredBlock) /\ Len(w) = n BY <1>2, <1>5
<1> QED BY <1>1, <1>2, <1>3, <1>4, <1>6 DEF w, n

LEMMA WindowVacant ==
    ASSUME NEW R \in Ring, Vacant(R)
    PROVE  WindowOf(R) = <<>>
<1>1. Count(R) = 0 BY RingFields DEF Vacant, Count
<1>2. 1 .. 0 = {} OBVIOUS
<1> QED BY <1>1, <1>2 DEF WindowOf

\* Two sequences of the same length are equal if they agree everywhere.
LEMMA SameSequence ==
    ASSUME NEW S, NEW s \in Seq(S), NEW t \in Seq(S), Len(s) = Len(t),
           \A d \in 1 .. Len(s) : s[d] = t[d]
    PROVE  s = t
OBVIOUS

(***************************************************************************)
(* What each operation on the ring does to the window.                     *)
(***************************************************************************)
LEMMA WindowPushFirst ==
    ASSUME NEW R \in Ring, Vacant(R), NEW b \in StoredBlock, b.exists
    PROVE  WindowOf(PushedFront(R, b)) = <<b>>
<1> DEFINE Q == PushedFront(R, b)
<1>1. Run(Q) BY PushFrontVacant
<1>2. Q \in Ring /\ Q.tail = R.tail /\ Q.head = R.tail /\ Q.blocks[R.tail] = b
  BY PushedFrontFields DEF Vacant
<1>3. R.tail \in Index BY RingFields
<1> HIDE DEF Q
<1>4. Distance(Q, Q.head) = 0 BY <1>2, <1>3, DistanceFacts
<1>5. Count(Q) = 1 BY <1>1, <1>2, <1>4, WindowRun
<1>6. EntryAt(Q, 0) = R.tail
  <2>1. EntryAt(Q, Distance(Q, Q.head)) = Q.head BY <1>2, <1>3, EntryFacts
  <2> QED BY <1>2, <1>4, <2>1
<1>7. /\ WindowOf(Q) \in Seq(StoredBlock) /\ Len(WindowOf(Q)) = 1
      /\ WindowOf(Q)[1] = Q.blocks[EntryAt(Q, 1 - 1)]
  <2>1. 1 \in 1 .. Count(Q) BY <1>5
  <2>2. \A d \in 1 .. Count(Q) : WindowOf(Q)[d] = Q.blocks[EntryAt(Q, d - 1)]
    BY <1>1, <1>2, WindowRun
  <2>3. WindowOf(Q) \in Seq(StoredBlock) /\ Len(WindowOf(Q)) = Count(Q)
    BY <1>1, <1>2, WindowRun
  <2> QED BY <1>5, <2>1, <2>2, <2>3
<1>8. WindowOf(Q)[1] = b BY <1>2, <1>6, <1>7
<1>9. WindowOf(Q) = <<b>> BY <1>7, <1>8
<1> QED BY <1>9 DEF Q

LEMMA WindowPushFront ==
    ASSUME NEW R \in Ring, Run(R), NEW b \in StoredBlock,
           ~ R.blocks[Succ(R.head)].exists, Run(PushedFront(R, b))
    PROVE  /\ WindowOf(PushedFront(R, b)) = Append(WindowOf(R), b)
           /\ Count(R) < Max
<1> DEFINE Q == PushedFront(R, b)
           n == Count(R)
           w == WindowOf(R)
           v == WindowOf(Q)
<1>1. /\ Q \in Ring /\ Q.tail = R.tail /\ Q.head = Succ(R.head)
      /\ Q.blocks[Succ(R.head)] = b
      /\ \A i \in Index \ {Succ(R.head)} : Q.blocks[i] = R.blocks[i]
  BY PushedFrontFields
<1>2. /\ n = Distance(R, R.head) + 1 /\ n \in 1 .. Max
      /\ w \in Seq(StoredBlock) /\ Len(w) = n
      /\ \A d \in 1 .. n : /\ EntryAt(R, d - 1) \in Index
                           /\ w[d] = R.blocks[EntryAt(R, d - 1)]
                           /\ R.blocks[EntryAt(R, d - 1)].exists
  BY WindowRun
<1>3. /\ Count(Q) = Distance(Q, Q.head) + 1
      /\ v \in Seq(StoredBlock) /\ Len(v) = Count(Q)
      /\ \A d \in 1 .. Count(Q) : v[d] = Q.blocks[EntryAt(Q, d - 1)]
  BY <1>1, WindowRun
<1>4. /\ R.head \in Index /\ Succ(R.head) \in Index
      /\ R.blocks[R.tail].exists /\ Succ(R.head) # R.tail
  BY RingFields, SuccPred, Shapes
<1>5. Distance(R, Succ(R.head)) = n
  BY <1>2, <1>4, DistanceFacts
<1>6. Distance(Q, Succ(R.head)) = n /\ Count(Q) = n + 1
  BY <1>1, <1>3, <1>5 DEF Distance
<1>7. n < Max BY <1>2, <1>4, <1>5, DistanceFacts, StoredBlocksAssumption DEF Index
<1>8. EntryAt(Q, n) = Succ(R.head)
  BY <1>1, <1>4, <1>6, EntryFacts
<1>9. \A k : EntryAt(Q, k) = EntryAt(R, k) BY <1>1 DEF EntryAt
<1> HIDE DEF Q, n, w, v
<1>10. ASSUME NEW d \in 1 .. n PROVE v[d] = w[d]
  <2>1. v[d] = Q.blocks[EntryAt(R, d - 1)] BY <1>2, <1>3, <1>6, <1>9
  <2>2. EntryAt(R, d - 1) \in Index \ {Succ(R.head)} BY <1>2
  <2> QED BY <1>1, <1>2, <2>1, <2>2
<1>11. v[n + 1] = b
  <2>1. n + 1 \in 1 .. Count(Q) /\ (n + 1) - 1 = n BY <1>2, <1>6
  <2> QED BY <1>1, <1>3, <1>8, <2>1
<1>12. v = Append(w, b)
  <2>1. Append(w, b) \in Seq(StoredBlock) /\ Len(Append(w, b)) = n + 1
    BY <1>2
  <2>2. ASSUME NEW d \in 1 .. n + 1 PROVE v[d] = Append(w, b)[d]
    <3>1. CASE d = n + 1 BY <1>2, <1>11, <3>1
    <3>2. CASE d \in 1 .. n BY <1>2, <1>10, <3>2
    <3> QED BY <1>2, <3>1, <3>2
  <2> QED BY <1>3, <1>6, <2>1, <2>2, SameSequence
<1> QED BY <1>7, <1>12 DEF Q, n, w, v

(***************************************************************************)
(* One step along the ring is one step along the window.                   *)
(***************************************************************************)
LEMMA EntryMoves ==
    ASSUME NEW R \in Ring, NEW Q \in Ring, Q.tail = Succ(R.tail),
           NEW k \in Index, k + 1 \in Index
    PROVE  EntryAt(Q, k) = EntryAt(R, k + 1)
<1> DEFINE e == EntryAt(R, k + 1)
<1>1. e \in Index /\ Distance(R, e) = k + 1 BY EntryFacts
<1>2. e # R.tail
  <2>1. R.tail \in Index BY RingFields
  <2>2. Distance(R, R.tail) = 0 BY <2>1, DistanceFacts
  <2> QED BY <1>1, <2>2, StoredBlocksAssumption DEF Index
<1> HIDE DEF e
<1>3. Distance(Q, e) = Distance(R, e) - 1 BY <1>1, <1>2, TailMoves
<1>4. Distance(Q, e) = k BY <1>1, <1>3, StoredBlocksAssumption DEF Index
<1>5. EntryAt(Q, Distance(Q, e)) = e BY <1>1, EntryFacts
<1> QED BY <1>4, <1>5 DEF e

LEMMA WindowPushBack ==
    ASSUME NEW R \in Ring, Run(R), NEW b \in StoredBlock,
           ~ R.blocks[Pred(R.tail)].exists, Run(PushedBack(R, b))
    PROVE  /\ WindowOf(PushedBack(R, b)) = <<b>> \o WindowOf(R)
           /\ Count(R) < Max
<1> DEFINE Q == PushedBack(R, b)
           n == Count(R)
           w == WindowOf(R)
           v == WindowOf(Q)
           t == Pred(R.tail)
<1>1. /\ Q \in Ring /\ Q.tail = t /\ Q.head = R.head /\ Q.blocks[t] = b
      /\ \A i \in Index \ {t} : Q.blocks[i] = R.blocks[i]
  BY PushedBackFields
<1>2. /\ n = Distance(R, R.head) + 1 /\ n \in 1 .. Max
      /\ w \in Seq(StoredBlock) /\ Len(w) = n
      /\ \A d \in 1 .. n : /\ EntryAt(R, d - 1) \in Index
                           /\ w[d] = R.blocks[EntryAt(R, d - 1)]
                           /\ R.blocks[EntryAt(R, d - 1)].exists
  BY WindowRun
<1>3. /\ Count(Q) = Distance(Q, Q.head) + 1 /\ Count(Q) \in 1 .. Max
      /\ v \in Seq(StoredBlock) /\ Len(v) = Count(Q)
      /\ \A d \in 1 .. Count(Q) : v[d] = Q.blocks[EntryAt(Q, d - 1)]
  BY <1>1, WindowRun
<1>4. /\ R.head \in Index /\ t \in Index /\ R.head # t /\ Succ(t) = R.tail
  BY RingFields, SuccPred, Shapes
<1>5. Distance(R, R.head) = Distance(Q, R.head) - 1
  BY <1>1, <1>4, TailMoves
<1>6. Count(Q) = n + 1 /\ n < Max
  <2>1. Distance(R, R.head) \in Int /\ Distance(Q, R.head) \in Int
    BY <1>1, <1>4, DistanceFacts, StoredBlocksAssumption DEF Index
  <2> HIDE DEF Q, n
  <2> QED BY <1>1, <1>2, <1>3, <1>5, <2>1, StoredBlocksAssumption
<1>7. EntryAt(Q, 0) = t
  <2>1. Distance(Q, t) = 0 BY <1>1, <1>4, DistanceFacts
  <2>2. EntryAt(Q, Distance(Q, t)) = t BY <1>1, <1>4, EntryFacts
  <2> QED BY <2>1, <2>2
<1> HIDE DEF Q, n, w, v, t
<1>8. v[1] = b
  <2>1. 1 \in 1 .. Count(Q) /\ 1 - 1 = 0 BY <1>2, <1>6
  <2> QED BY <1>1, <1>3, <1>7, <2>1
<1>9. ASSUME NEW d \in 1 .. n PROVE v[d + 1] = w[d]
  <2>1. /\ d + 1 \in 1 .. Count(Q) /\ (d + 1) - 1 = (d - 1) + 1
        /\ d - 1 \in Index /\ (d - 1) + 1 \in Index
    BY <1>2, <1>6, StoredBlocksAssumption DEF Index
  <2>2. EntryAt(R, d - 1) = EntryAt(Q, (d - 1) + 1)
    BY <1>1, <1>4, <2>1, EntryMoves
  <2>3. EntryAt(R, d - 1) \in Index \ {t} 
    <3>1. ~ R.blocks[t].exists BY DEF t
    <3> QED BY <1>2, <3>1
  <2>4. v[d + 1] = Q.blocks[EntryAt(Q, (d + 1) - 1)] BY <1>3, <2>1
  <2> QED BY <1>1, <1>2, <2>1, <2>2, <2>3, <2>4
<1>10. v = <<b>> \o w
  <2> DEFINE u == <<b>> \o w
  <2>1. u \in Seq(StoredBlock) /\ Len(u) = n + 1 /\ u[1] = b
    BY <1>2
  <2>2. \A d \in 1 .. n : u[d + 1] = w[d]
    BY <1>2
  <2> HIDE DEF u
  <2>3. ASSUME NEW d \in 1 .. n + 1 PROVE v[d] = u[d]
    <3>1. CASE d = 1 BY <1>8, <2>1, <3>1
    <3>2. CASE d # 1
      <4>1. d - 1 \in 1 .. n /\ (d - 1) + 1 = d BY <1>2, <3>2
      <4>2. v[(d - 1) + 1] = w[d - 1] /\ u[(d - 1) + 1] = w[d - 1]
        BY <1>9, <2>2, <4>1
      <4> QED BY <4>1, <4>2
    <3> QED BY <3>1, <3>2
  <2>4. v = u BY <1>3, <1>6, <2>1, <2>3, SameSequence
  <2> QED BY <2>4 DEF u
<1> QED BY <1>6, <1>10 DEF Q, n, w, v

LEMMA WindowPopBack ==
    ASSUME NEW R \in Ring, Run(R)
    PROVE  WindowOf(R) # <<>> /\ WindowOf(PoppedBack(R)) = Tail(WindowOf(R))
<1> DEFINE Q == PoppedBack(R)
           n == Count(R)
           w == WindowOf(R)
           v == WindowOf(Q)
<1>1. /\ Q \in Ring /\ Q.tail = Succ(R.tail) /\ Q.head = R.head
      /\ \A i \in Index \ {R.tail} : Q.blocks[i] = R.blocks[i]
  BY PoppedBackFields
<1>2. /\ n = Distance(R, R.head) + 1 /\ n \in 1 .. Max
      /\ w \in Seq(StoredBlock) /\ Len(w) = n
      /\ \A d \in 1 .. n : /\ EntryAt(R, d - 1) \in Index
                           /\ w[d] = R.blocks[EntryAt(R, d - 1)]
  BY WindowRun
<1>3. Vacant(Q) \/ Run(Q) BY PopBackRun
<1>4. R.head \in Index /\ R.tail \in Index BY RingFields
<1>5. Tail(w) \in Seq(StoredBlock) /\ Len(Tail(w)) = n - 1 /\ w # <<>>
      /\ \A d \in 1 .. n - 1 : Tail(w)[d] = w[d + 1]
  <2> HIDE DEF n, w
  <2> QED BY <1>2
<1>6. CASE Run(Q)
  <2>1. /\ Count(Q) = Distance(Q, R.head) + 1
        /\ v \in Seq(StoredBlock) /\ Len(v) = Count(Q)
        /\ \A d \in 1 .. Count(Q) : v[d] = Q.blocks[EntryAt(Q, d - 1)]
    BY <1>1, <1>6, WindowRun
  <2>2. R.head # R.tail
    <3>1. ~ Q.blocks[R.tail].exists BY PoppedBackFields
    <3>2. Q.blocks[Q.head].exists BY <1>1, <1>6, Shapes
    <3> QED BY <1>1, <3>1, <3>2
  <2>3. Distance(Q, R.head) = Distance(R, R.head) - 1
    BY <1>1, <1>4, <2>2, TailMoves
  <2>4. Distance(R, R.head) \in Int
    BY <1>4, DistanceFacts, StoredBlocksAssumption DEF Index
  <2> HIDE DEF Q, n, w, v
  <2>5. Count(Q) = n - 1 BY <1>2, <2>1, <2>3, <2>4
  <2>6. ASSUME NEW d \in 1 .. n - 1 PROVE v[d] = w[d + 1]
    <3>1. /\ d - 1 \in Index /\ (d - 1) + 1 \in Index /\ d + 1 \in 1 .. n
          /\ (d + 1) - 1 = (d - 1) + 1
      BY <1>2, StoredBlocksAssumption DEF Index
    <3>2. EntryAt(Q, d - 1) = EntryAt(R, (d - 1) + 1) BY <1>1, <3>1, EntryMoves
    <3>3. w[d + 1] = R.blocks[EntryAt(R, (d - 1) + 1)] BY <1>2, <3>1
    <3>4. EntryAt(R, (d - 1) + 1) # R.tail
      <4>1. Distance(R, EntryAt(R, (d - 1) + 1)) = (d - 1) + 1 BY <3>1, EntryFacts
      <4>2. Distance(R, R.tail) = 0 BY <1>4, DistanceFacts
      <4>3. (d - 1) + 1 # 0 BY <1>2
      <4> QED BY <4>1, <4>2, <4>3
    <3>5. EntryAt(R, (d - 1) + 1) \in Index BY <3>1, EntryFacts
    <3>6. v[d] = Q.blocks[EntryAt(Q, d - 1)] BY <2>1, <2>5
    <3> QED BY <1>1, <3>2, <3>3, <3>4, <3>5, <3>6
  <2>7. v = Tail(w) BY <1>5, <2>1, <2>5, <2>6, SameSequence
  <2> QED BY <1>5, <2>7 DEF Q, w, v
<1>7. CASE Vacant(Q)
  <2>1. v = <<>> BY <1>1, <1>7, WindowVacant
  <2>2. R.head = R.tail
    <3>1. ~ Q.blocks[R.head].exists BY <1>4, <1>7 DEF Vacant
    <3>2. R.blocks[R.head].exists BY Shapes
    <3> QED BY <1>1, <1>4, <3>1, <3>2
  <2>3. Distance(R, R.head) = 0 BY <1>4, <2>2, DistanceFacts
  <2> HIDE DEF Q, n, w, v
  <2>4. Len(Tail(w)) = 0 BY <1>2, <1>5, <2>3
  <2>5. Tail(w) = <<>>
    <3>1. PICK s \in Seq(StoredBlock) : s = Tail(w) /\ Len(s) = 0 BY <1>5, <2>4
    <3> QED BY <3>1
  <2> QED BY <1>5, <2>1, <2>5 DEF Q, w, v
<1> QED BY <1>3, <1>6, <1>7

LEMMA WindowPopFront ==
    ASSUME NEW R \in Ring, Run(R)
    PROVE  /\ WindowOf(R) # <<>>
           /\ WindowOf(PoppedFront(R)) = SubSeq(WindowOf(R), 1, Len(WindowOf(R)) - 1)
<1> DEFINE Q == PoppedFront(R)
           n == Count(R)
           w == WindowOf(R)
           v == WindowOf(Q)
           u == SubSeq(w, 1, Len(w) - 1)
<1>1. /\ Q \in Ring /\ Q.tail = R.tail /\ Q.head = Pred(R.head)
      /\ ~ Q.blocks[R.head].exists
      /\ \A i \in Index \ {R.head} : Q.blocks[i] = R.blocks[i]
  BY PoppedFrontFields
<1>2. /\ n = Distance(R, R.head) + 1 /\ n \in 1 .. Max
      /\ w \in Seq(StoredBlock) /\ Len(w) = n
      /\ \A d \in 1 .. n : /\ EntryAt(R, d - 1) \in Index
                           /\ w[d] = R.blocks[EntryAt(R, d - 1)]
  BY WindowRun
<1>3. Vacant(Q) \/ Run(Q) BY PopFrontRun
<1>4. /\ R.head \in Index /\ R.tail \in Index /\ Q.head \in Index
      /\ Succ(Q.head) = R.head
  BY <1>1, RingFields, SuccPred
<1>5. /\ u \in Seq(StoredBlock) /\ Len(u) = n - 1 /\ w # <<>>
      /\ \A d \in 1 .. n - 1 : u[d] = w[d]
  <2> HIDE DEF n, w
  <2> QED BY <1>2
<1>6. CASE Run(Q)
  <2>1. /\ Count(Q) = Distance(Q, Q.head) + 1
        /\ v \in Seq(StoredBlock) /\ Len(v) = Count(Q)
        /\ \A d \in 1 .. Count(Q) : v[d] = Q.blocks[EntryAt(Q, d - 1)]
    BY <1>1, <1>6, WindowRun
  <2>2. R.head # R.tail
    <3>1. Q.blocks[Q.tail].exists BY <1>1, <1>6, Shapes
    <3> QED BY <1>1, <3>1
  <2>3. Distance(R, R.head) = Distance(R, Q.head) + 1
    BY <1>4, <2>2, DistanceFacts
  <2>4. Distance(Q, Q.head) = Distance(R, Q.head) BY <1>1 DEF Distance
  <2>5. Distance(R, Q.head) \in Int
    BY <1>4, DistanceFacts, StoredBlocksAssumption DEF Index
  <2>6. \A k : EntryAt(Q, k) = EntryAt(R, k) BY <1>1 DEF EntryAt
  <2> HIDE DEF Q, n, w, v, u
  <2>7. Count(Q) = n - 1 BY <1>2, <2>1, <2>3, <2>4, <2>5
  <2>8. ASSUME NEW d \in 1 .. n - 1 PROVE v[d] = w[d]
    <3>1. d \in 1 .. n /\ d - 1 \in Index /\ d - 1 # n - 1
      BY <1>2, StoredBlocksAssumption DEF Index
    <3>2. EntryAt(R, d - 1) \in Index /\ Distance(R, EntryAt(R, d - 1)) = d - 1
      BY <3>1, EntryFacts
    <3>3. Distance(R, R.head) = n - 1 BY <1>2, <2>3, <2>5
    <3>4. EntryAt(R, d - 1) # R.head BY <3>1, <3>2, <3>3
    <3>5. v[d] = Q.blocks[EntryAt(R, d - 1)] BY <2>1, <2>6, <2>7
    <3> QED BY <1>1, <1>2, <3>1, <3>2, <3>4, <3>5
  <2>9. v = u BY <1>5, <2>1, <2>7, <2>8, SameSequence
  <2> QED BY <1>5, <2>9 DEF Q, w, v, u
<1>7. CASE Vacant(Q)
  <2>1. v = <<>> BY <1>1, <1>7, WindowVacant
  <2>2. R.head = R.tail
    <3>1. ~ Q.blocks[R.tail].exists BY <1>4, <1>7 DEF Vacant
    <3>2. R.blocks[R.tail].exists BY Shapes
    <3> QED BY <1>1, <1>4, <3>1, <3>2
  <2>3. Distance(R, R.head) = 0 BY <1>4, <2>2, DistanceFacts
  <2> HIDE DEF Q, n, w, v, u
  <2>4. Len(u) = 0 BY <1>2, <1>5, <2>3
  <2>5. u = <<>> BY <1>5, <2>4
  <2> QED BY <1>5, <2>1, <2>5 DEF Q, w, v, u
<1> QED BY <1>3, <1>6, <1>7

(***************************************************************************)
(* A restart puts every entry at another place of the ring and at the same *)
(* place of the window.                                                    *)
(***************************************************************************)
LEMMA WindowLoaded ==
    ASSUME NEW R \in Ring, Run(R)
    PROVE  WindowOf(Loaded(Rows(R))) = WindowOf(R)
<1> DEFINE Q == Loaded(Rows(R))
           rows == Rows(R)
           L == R.blocks[R.tail].slot
           n == Count(R)
           w == WindowOf(R)
           v == WindowOf(Q)
<1>1. Q \in Ring /\ Run(Q) BY LoadedRun
<1>2. /\ n = Distance(R, R.head) + 1 /\ n \in 1 .. Max
      /\ w \in Seq(StoredBlock) /\ Len(w) = n
      /\ \A d \in 1 .. n : /\ EntryAt(R, d - 1) \in Index
                           /\ w[d] = R.blocks[EntryAt(R, d - 1)]
                           /\ R.blocks[EntryAt(R, d - 1)].exists
  BY WindowRun
<1>3. /\ Count(Q) = Distance(Q, Q.head) + 1
      /\ v \in Seq(StoredBlock) /\ Len(v) = Count(Q)
      /\ \A d \in 1 .. Count(Q) : v[d] = Q.blocks[EntryAt(Q, d - 1)]
  BY <1>1, WindowRun
<1>4. /\ L \in Nat /\ n - 1 \in Index /\ rows # {} /\ n - 1 \in Nat
      /\ \A b \in rows : b \in StoredBlock /\ b.exists /\ b.slot \in L .. L + (n - 1)
      /\ \A k \in 0 .. n - 1 : \E b \in rows : b.slot = L + k
  <2>1. Distance(R, R.head) = n - 1 /\ n - 1 \in Nat BY <1>2, RowsOfRun DEF Index
  <2> QED BY <2>1, RowsOfRun
<1>5. LowestSlot(rows) = L /\ HighestSlot(rows) = L + (n - 1)
  <2> HIDE DEF rows, L, n
  <2>1. PICK b \in rows : b.slot = L + 0 BY <1>4
  <2>2. PICK c \in rows : c.slot = L + (n - 1) BY <1>4
  <2>3. PICK x \in rows : /\ \A y \in rows : x.slot <= y.slot
                          /\ LowestSlot(rows) = x.slot
    <3>1. \A y \in rows : b.slot <= y.slot BY <1>4, <2>1
    <3> QED BY <3>1 DEF LowestSlot
  <2>4. PICK z \in rows : /\ \A y \in rows : y.slot <= z.slot
                          /\ HighestSlot(rows) = z.slot
    <3>1. \A y \in rows : y.slot <= c.slot BY <1>4, <2>2
    <3> QED BY <3>1 DEF HighestSlot
  <2> QED BY <1>4, <2>1, <2>2, <2>3, <2>4
<1>6. /\ Q.tail = 0 /\ Q.head = (L + (n - 1)) - L
      /\ \A i \in Index : Q.blocks[i] = RowAt(rows, L + i)
  BY <1>4, <1>5 DEF Loaded
<1>7. ASSUME NEW d \in 1 .. n
      PROVE  RowAt(rows, L + (d - 1)) = R.blocks[EntryAt(R, d - 1)]
  <2> DEFINE e == EntryAt(R, d - 1)
  <2>1. d - 1 \in Index BY <1>2, StoredBlocksAssumption DEF Index
  <2>2. e \in Index /\ Distance(R, e) = d - 1 /\ R.blocks[e].exists
    BY <1>2, <2>1, EntryFacts
  <2>3. R.blocks[e].slot = L + (d - 1) /\ R.blocks[e] \in rows
    BY <2>2 DEF Run, Rows
  <2>4. ASSUME NEW b \in rows, b.slot = L + (d - 1) PROVE b = R.blocks[e]
    <3>1. PICK i \in Index : R.blocks[i].exists /\ b = R.blocks[i] BY DEF Rows
    <3>2. R.blocks[i].slot = R.blocks[e].slot BY <2>3, <2>4, <3>1
    <3>3. i = e BY <2>2, <3>1, <3>2, RunSlotsDiffer
    <3> QED BY <3>1, <3>3
  <2> HIDE DEF rows, L, e
  <2>5. RowAt(rows, L + (d - 1)) \in rows /\ RowAt(rows, L + (d - 1)).slot = L + (d - 1)
    BY <2>3 DEF RowAt
  <2>6. RowAt(rows, L + (d - 1)) = R.blocks[e] BY <2>4, <2>5
  <2> QED BY <2>6 DEF e
<1> HIDE DEF Q, rows, L, n, w, v
<1>8. Q.head = n - 1 /\ n - 1 \in Index BY <1>4, <1>6
<1>9. \A i \in Index : Distance(Q, i) = i
  BY <1>6, StoredBlocksAssumption DEF Distance, Index
<1>10. Count(Q) = n BY <1>2, <1>3, <1>8, <1>9
<1>11. ASSUME NEW d \in 1 .. n PROVE v[d] = w[d]
  <2>1. d - 1 \in Index BY <1>2, StoredBlocksAssumption DEF Index
  <2>2. EntryAt(Q, Distance(Q, d - 1)) = d - 1 BY <1>1, <2>1, EntryFacts
  <2>3. EntryAt(Q, d - 1) = d - 1 BY <1>9, <2>1, <2>2
  <2> QED BY <1>2, <1>3, <1>6, <1>7, <1>10, <2>1, <2>3
<1>12. v = w BY <1>2, <1>3, <1>10, <1>11, SameSequence
<1> QED BY <1>12 DEF Q, v, w

(***************************************************************************)
(* Each operation is a step of SlotWindow.                                 *)
(***************************************************************************)
LEMMA WindowIs == Window = WindowOf(ring) /\ Window' = WindowOf(ring')
BY DEF Window, WindowOf, Count, Distance

LEMMA PushFrontWindow ==
    ASSUME Good(ring), NEW b \in NewBlocks, push_block_front(b)
    PROVE  W!GrowFront(b)
<1>1. ring \in Ring /\ Contiguous(ring) BY DEF Good
<1>2. /\ ring' = PushedFront(ring, b) /\ ~ ring.blocks[Succ(ring.head)].exists
      /\ get_front_slot(ring) # SlotMax => b.slot = get_front_slot(ring) + 1
  BY DEF push_block_front, is_full
<1>3. b \in StoredBlock /\ b.exists BY NewBlockType
<1>4. CASE Vacant(ring)
  <2>1. WindowOf(ring) = <<>> BY <1>1, <1>4, WindowVacant
  <2>2. WindowOf(ring') = <<b>> BY <1>1, <1>2, <1>3, <1>4, WindowPushFirst
  <2>3. Window = <<>> /\ Window' = Append(<<>>, b) BY <2>1, <2>2, WindowIs
  <2>4. Len(Window) < Max BY <2>3, StoredBlocksAssumption
  <2> QED BY <2>3, <2>4 DEF W!GrowFront
<1>5. CASE Run(ring)
  <2>1. ring.blocks[ring.head].exists /\ ring.head \in Index
    BY <1>1, <1>5, Shapes, RingFields
  <2>2. get_front_slot(ring) = ring.blocks[ring.head].slot
    BY <2>1 DEF get_front_slot
  <2>3. ring.blocks[ring.head].slot # SlotMax
    <3>1. ring.blocks[ring.head].slot \in Slots BY <2>1 DEF Good, OfChain
    <3> QED BY <3>1, StoredBlocksAssumption
  <2>5. Run(ring')
    BY <1>1, <1>2, <1>3, <1>5, <2>2, <2>3, PushFrontRun
  <2>6. WindowOf(ring') = Append(WindowOf(ring), b) /\ Count(ring) < Max
    BY <1>1, <1>2, <1>3, <1>5, <2>5, WindowPushFront
  <2>7. /\ Len(WindowOf(ring)) = Count(ring) /\ Count(ring) \in 1 .. Max
        /\ Count(ring) = Distance(ring, ring.head) + 1
        /\ \A d \in 1 .. Count(ring) :
              WindowOf(ring)[d] = ring.blocks[EntryAt(ring, d - 1)]
    BY <1>1, <1>5, WindowRun
  <2>8. Distance(ring, ring.head) \in Int
    BY <1>1, <2>1, DistanceFacts, StoredBlocksAssumption DEF Index
  <2>9. WindowOf(ring)[Count(ring)] = ring.blocks[ring.head]
    <3>1. Count(ring) - 1 = Distance(ring, ring.head) BY <2>7, <2>8
    <3>2. Count(ring) \in 1 .. Count(ring) BY <2>7
    <3>3. EntryAt(ring, Distance(ring, ring.head)) = ring.head
      BY <1>1, <2>1, EntryFacts
    <3> QED BY <2>7, <3>1, <3>2, <3>3
  <2> QED BY <1>2, <2>2, <2>3, <2>6, <2>7, <2>9, WindowIs DEF W!GrowFront
<1> QED BY <1>1, <1>4, <1>5, Shapes

LEMMA PushBackWindow ==
    ASSUME Good(ring), NEW b \in NewBlocks, push_block_back(b)
    PROVE  W!GrowBack(b)
<1>1. ring \in Ring /\ Contiguous(ring) BY DEF Good
<1>2. Run(ring) /\ b.slot = ring.blocks[ring.tail].slot - 1
  BY <1>1, BackSlot DEF push_block_back
<1>3. ~ ring.blocks[Pred(ring.tail)].exists
  BY <1>1, <1>2, RoomAtBack DEF push_block_back
<1>4. ring' = PushedBack(ring, b) BY <1>3 DEF push_block_back
<1>5. b \in StoredBlock /\ b.exists BY NewBlockType
<1>6. Run(PushedBack(ring, b)) BY <1>1, <1>2, <1>3, <1>5, PushBackRun
<1>7. WindowOf(ring') = <<b>> \o WindowOf(ring) /\ Count(ring) < Max
  BY <1>1, <1>2, <1>3, <1>4, <1>5, <1>6, WindowPushBack
<1>8. /\ WindowOf(ring) \in Seq(StoredBlock)
      /\ Len(WindowOf(ring)) = Count(ring) /\ Count(ring) \in 1 .. Max
      /\ \A d \in 1 .. Count(ring) :
            WindowOf(ring)[d] = ring.blocks[EntryAt(ring, d - 1)]
  BY <1>1, <1>2, WindowRun
<1>9. WindowOf(ring)[1] = ring.blocks[ring.tail]
  <2>1. ring.tail \in Index BY <1>1, RingFields
  <2>2. Distance(ring, ring.tail) = 0 BY <1>1, <2>1, DistanceFacts
  <2>3. EntryAt(ring, Distance(ring, ring.tail)) = ring.tail
    BY <1>1, <2>1, EntryFacts
  <2>4. 1 \in 1 .. Count(ring) /\ 1 - 1 = 0 BY <1>8
  <2> QED BY <1>8, <2>2, <2>3, <2>4
<1>10. WindowOf(ring) # <<>> BY <1>8
<1> QED BY <1>2, <1>7, <1>8, <1>9, <1>10, WindowIs DEF W!GrowBack

LEMMA InitWindow == Init => W!Init
<1> SUFFICES ASSUME Init PROVE W!Init OBVIOUS
<1>1. WindowOf(Empty) = <<>> BY EmptyVacant, WindowVacant
<1> QED BY <1>1, WindowIs DEF Init, W!Init

LEMMA NextWindow == Inv /\ [Next]_vars => [W!Next]_Window
<1> SUFFICES ASSUME Inv, [Next]_vars PROVE W!Next \/ Window' = Window
  OBVIOUS
<1>1. Good(ring) /\ ring \in Ring /\ Contiguous(ring) BY DEF Inv, Good
<1>2. ASSUME NEW b \in NewBlocks, push_block_back(b) PROVE W!Next
  BY <1>1, <1>2, PushBackWindow DEF W!Next
<1>3. ASSUME NEW b \in NewBlocks, push_block_front(b) PROVE W!Next
  BY <1>1, <1>3, PushFrontWindow DEF W!Next
<1>4. ASSUME pop_block_back PROVE W!Next
  <2>1. ring' = PoppedBack(ring) /\ Run(ring)
    BY <1>1, <1>4, BackSlot DEF pop_block_back
  <2>2. WindowOf(ring) # <<>> /\ WindowOf(ring') = Tail(WindowOf(ring))
    BY <1>1, <2>1, WindowPopBack
  <2> QED BY <2>2, WindowIs DEF W!Next, W!ShrinkBack
<1>5. ASSUME pop_block_front PROVE W!Next
  <2>1. ring' = PoppedFront(ring) /\ Run(ring)
    BY <1>1, <1>5, BackSlot DEF pop_block_front
  <2>2. /\ WindowOf(ring) # <<>>
        /\ WindowOf(ring') = SubSeq(WindowOf(ring), 1, Len(WindowOf(ring)) - 1)
    BY <1>1, <2>1, WindowPopFront
  <2> QED BY <2>2, WindowIs DEF W!Next, W!ShrinkFront
<1>6. ASSUME new PROVE Window' = Window
  <2>1. ring' = Loaded(Rows(ring)) BY <1>6 DEF new
  <2>2. CASE Vacant(ring)
    <3>1. ring' = Empty BY <1>1, <2>1, <2>2, LoadedVacant
    <3>2. WindowOf(ring') = <<>> BY <3>1, EmptyVacant, WindowVacant
    <3>3. WindowOf(ring) = <<>> BY <1>1, <2>2, WindowVacant
    <3> QED BY <3>2, <3>3, WindowIs
  <2>3. CASE Run(ring)
    BY <1>1, <2>1, <2>3, WindowLoaded, WindowIs
  <2> QED BY <1>1, <2>2, <2>3, Shapes
<1>7. ASSUME ring' = ring PROVE Window' = Window
  BY <1>7, WindowIs
<1>8. ASSUME begin \/ (\E r \in Readers : receive(r) \/ lag(r))
      PROVE  Window' = Window
  BY <1>7, <1>8 DEF begin, receive, lag
<1> QED BY <1>2, <1>3, <1>4, <1>5, <1>6, <1>7, <1>8 DEF Next, vars

(***************************************************************************)
(* The ring of blocks.rs, with its wrap-around, its messages and its       *)
(* restarts, implements a window of consecutive slots that grows and       *)
(* shrinks by one slot at either end and never holds more than Max.        *)
(***************************************************************************)
THEOREM WindowCorrect == Spec => ImplementsWindow
<1>1. Spec => []Inv BY InvAlways
<1>2. Init => W!Init BY InitWindow
<1>3. Inv /\ [Next]_vars => [W!Next]_Window BY NextWindow
<1> QED BY <1>1, <1>2, <1>3, PTL DEF Spec, ImplementsWindow, W!Spec

-----------------------------------------------------------------------------
(***************************************************************************)
(* The queries.  First, elements of a bounded set of numbers by rank: the  *)
(* rank of d is the number of elements below it.                           *)
(***************************************************************************)
Lower(S, d) == {e \in S : e < d}

LEMMA LowerFinite ==
    ASSUME NEW K \in Nat, NEW S, S \subseteq 0 .. K
    PROVE  /\ IsFiniteSet(S) /\ Cardinality(S) \in Nat
           /\ \A d : /\ IsFiniteSet(Lower(S, d)) /\ Cardinality(Lower(S, d)) \in Nat
                     /\ Cardinality(Lower(S, d)) <= Cardinality(S)
<1>1. IsFiniteSet(0 .. K)
  BY FS_Interval
<1>2. IsFiniteSet(S) BY <1>1, FS_Subset
<1>3. ASSUME NEW d
      PROVE  /\ IsFiniteSet(Lower(S, d)) /\ Cardinality(Lower(S, d)) \in Nat
             /\ Cardinality(Lower(S, d)) <= Cardinality(S)
  <2>1. Lower(S, d) \in SUBSET S BY DEF Lower
  <2> QED BY <1>2, <2>1, FS_Subset, FS_CardinalityType
<1> QED BY <1>2, <1>3, FS_CardinalityType

LEMMA LowerMonotone ==
    ASSUME NEW K \in Nat, NEW S, S \subseteq 0 .. K, NEW a \in Nat, NEW b \in Nat, a <= b
    PROVE  Cardinality(Lower(S, a)) <= Cardinality(Lower(S, b))
<1>0. \A e \in S : e < a => e < b OBVIOUS
<1>1. Lower(S, a) \in SUBSET Lower(S, b) BY <1>0 DEF Lower
<1>2. IsFiniteSet(Lower(S, b)) BY LowerFinite
<1> QED BY <1>1, <1>2, FS_Subset

\* One step up adds the element passed, if there is one.
LEMMA LowerNext ==
    ASSUME NEW K \in Nat, NEW S, S \subseteq 0 .. K, NEW a \in Nat
    PROVE  Cardinality(Lower(S, a + 1)) =
              IF a \in S THEN Cardinality(Lower(S, a)) + 1 ELSE Cardinality(Lower(S, a))
<1>0. \A e \in S : e < a + 1 <=> e < a \/ e = a OBVIOUS
<1>1. IsFiniteSet(Lower(S, a)) BY LowerFinite
<1>2. CASE a \in S
  <2>1. Lower(S, a + 1) = Lower(S, a) \cup {a} BY <1>0, <1>2 DEF Lower
  <2>2. a \notin Lower(S, a) BY DEF Lower
  <2> QED BY <1>1, <1>2, <2>1, <2>2, FS_AddElement
<1>3. CASE a \notin S
  <2>1. Lower(S, a + 1) = Lower(S, a) BY <1>0, <1>3 DEF Lower
  <2> QED BY <1>3, <2>1
<1> QED BY <1>2, <1>3

LEMMA LowerStrict ==
    ASSUME NEW K \in Nat, NEW S, S \subseteq 0 .. K, NEW a \in S, NEW b \in Nat, a < b
    PROVE  Cardinality(Lower(S, a)) + 1 <= Cardinality(Lower(S, b))
<1>1. a \in Nat /\ a + 1 \in Nat /\ a + 1 <= b OBVIOUS
<1>2. Cardinality(Lower(S, a + 1)) = Cardinality(Lower(S, a)) + 1 BY <1>1, LowerNext
<1>3. Cardinality(Lower(S, a + 1)) <= Cardinality(Lower(S, b)) BY <1>1, LowerMonotone
<1> QED BY <1>2, <1>3

LEMMA LowerWhole ==
    ASSUME NEW K \in Nat, NEW S, S \subseteq 0 .. K
    PROVE  Lower(S, K + 1) = S
<1>1. \A e \in S : e < K + 1 OBVIOUS
<1> QED BY <1>1 DEF Lower

LEMMA LowerEmpty ==
    ASSUME NEW K \in Nat, NEW S, S \subseteq 0 .. K
    PROVE  Cardinality(Lower(S, 0)) = 0
<1>0. \A e \in S : ~ (e < 0) OBVIOUS
<1>1. Lower(S, 0) = {} BY <1>0 DEF Lower
<1> QED BY <1>1, FS_EmptySet

\* The rank reaches n for the first time right after the element of rank n - 1.
LEMMA LowerReaches ==
    ASSUME NEW K \in Nat, NEW S, S \subseteq 0 .. K, NEW a \in Nat, NEW n \in Nat \ {0},
           Cardinality(Lower(S, a)) >= n
    PROVE  \E d \in S : d < a /\ Cardinality(Lower(S, d)) = n - 1
<1> DEFINE c(d) == Cardinality(Lower(S, d))
           T == {d \in 0 .. a : c(d) >= n}
<1>1. \A d : c(d) \in Nat BY LowerFinite
<1>2. a \in T OBVIOUS
<1>3. PICK d \in T : \A e \in T : d <= e
  <2>1. T \subseteq Nat /\ T # {} BY <1>2
  <2> HIDE DEF T
  <2> QED BY <2>1, NatMin
<1>4. d \in 0 .. a /\ c(d) >= n OBVIOUS
<1>5. c(0) = 0 BY LowerEmpty
<1>6. d # 0 BY <1>4, <1>5
<1>7. d - 1 \in Nat /\ d - 1 \in 0 .. a /\ d - 1 < d /\ (d - 1) + 1 = d BY <1>4, <1>6
<1>8. d - 1 \notin T BY <1>3, <1>7
<1>9. ~ (c(d - 1) >= n) BY <1>7, <1>8
<1>10. c((d - 1) + 1) = IF d - 1 \in S THEN c(d - 1) + 1 ELSE c(d - 1)
  BY <1>7, LowerNext
<1> HIDE DEF c, T
<1>11. c(d) = IF d - 1 \in S THEN c(d - 1) + 1 ELSE c(d - 1) BY <1>7, <1>10
<1>12. d - 1 \in S /\ c(d - 1) = n - 1
  BY <1>1, <1>4, <1>9, <1>11
<1>13. d - 1 < a BY <1>4, <1>7
<1> QED BY <1>12, <1>13 DEF c

LEMMA LowerRanks ==
    ASSUME NEW K \in Nat, NEW S, S \subseteq 0 .. K, NEW n \in 1 .. Cardinality(S)
    PROVE  \E d \in S : Cardinality(Lower(S, d)) = n - 1
<1>1. Cardinality(S) \in Nat BY LowerFinite
<1>2. n \in Nat \ {0} /\ Cardinality(S) >= n BY <1>1
<1>3. Cardinality(Lower(S, K + 1)) >= n BY <1>2, LowerWhole
<1>4. K + 1 \in Nat OBVIOUS
<1> QED BY <1>2, <1>3, <1>4, LowerReaches

\* The elements of rank below k: all of them, or the k lowest.
LEMMA LowestFew ==
    ASSUME NEW K \in Nat, NEW S, S \subseteq 0 .. K, NEW k \in Nat \ {0}, NEW F,
           \A d : d \in F <=> d \in S /\ Cardinality(Lower(S, d)) < k
    PROVE  /\ Cardinality(S) <= k => F = S
           /\ k < Cardinality(S) => Cardinality(F) = k
           /\ \A a \in S \ F, b \in F : b < a
<1>1. \A d : Cardinality(Lower(S, d)) \in Nat BY LowerFinite
<1>2. Cardinality(S) \in Nat BY LowerFinite
<1>3. ASSUME Cardinality(S) <= k, NEW d \in S PROVE d \in F
  <2>1. d \in Nat /\ K + 1 \in Nat /\ d < K + 1 OBVIOUS
  <2>2. Cardinality(Lower(S, d)) + 1 <= Cardinality(Lower(S, K + 1))
    BY <2>1, LowerStrict
  <2>3. Cardinality(Lower(S, d)) + 1 <= Cardinality(S) BY <2>2, LowerWhole
  <2>4. Cardinality(Lower(S, d)) < k BY <1>1, <1>2, <1>3, <2>3
  <2> QED BY <2>4
<1>4. ASSUME NEW a \in S \ F, NEW b \in F PROVE b < a
  <2>0. b \in S OBVIOUS
  <2>1. a \in Nat /\ b \in Nat BY <2>0
  <2>2. Cardinality(Lower(S, b)) < k /\ ~ (Cardinality(Lower(S, a)) < k) OBVIOUS
  <2>3. SUFFICES ASSUME a <= b PROVE FALSE BY <2>1
  <2>4. Cardinality(Lower(S, a)) <= Cardinality(Lower(S, b)) BY <2>1, <2>3, LowerMonotone
  <2> QED BY <1>1, <2>2, <2>4
<1>5. ASSUME k < Cardinality(S) PROVE Cardinality(F) = k
  <2>1. k + 1 \in 1 .. Cardinality(S) /\ (k + 1) - 1 = k BY <1>2, <1>5
  <2>2. PICK m \in S : Cardinality(Lower(S, m)) = k BY <2>1, LowerRanks
  <2>3. m \in Nat OBVIOUS
  <2>4. ASSUME NEW d \in F PROVE d \in Lower(S, m)
    <3>1. m \in S \ F BY <2>2
    <3> QED BY <1>4, <3>1 DEF Lower
  <2>5. ASSUME NEW d \in Lower(S, m) PROVE d \in F
    <3>1. d \in S /\ d < m BY DEF Lower
    <3>2. Cardinality(Lower(S, d)) + 1 <= Cardinality(Lower(S, m))
      BY <2>3, <3>1, LowerStrict
    <3>3. Cardinality(Lower(S, d)) < k BY <1>1, <2>2, <3>2
    <3> QED BY <3>1, <3>3
  <2>6. F = Lower(S, m) BY <2>4, <2>5
  <2> QED BY <2>2, <2>6
<1> QED BY <1>3, <1>4, <1>5

-----------------------------------------------------------------------------
(***************************************************************************)
(* What a run holds, from tail on: slot L + k at k steps from tail.        *)
(***************************************************************************)
LEMMA RunHolds ==
    ASSUME NEW R \in Ring, Run(R)
    PROVE  LET L == R.blocks[R.tail].slot
               H == Distance(R, R.head)
           IN  /\ L \in Nat /\ H \in Index /\ H \in Nat
               /\ R.blocks[R.tail].exists /\ R.blocks[R.head].exists
               /\ R.blocks[R.head].slot = L + H
               /\ EntryAt(R, H) = R.head
               /\ \A k \in 0 .. H : /\ EntryAt(R, k) \in Index
                                    /\ R.blocks[EntryAt(R, k)] \in Rows(R)
                                    /\ R.blocks[EntryAt(R, k)].exists
                                    /\ R.blocks[EntryAt(R, k)].slot = L + k
               /\ \A b \in Rows(R) : \E k \in 0 .. H : b = R.blocks[EntryAt(R, k)]
<1> DEFINE L == R.blocks[R.tail].slot
           H == Distance(R, R.head)
<1>1. R.tail \in Index /\ R.head \in Index BY RingFields
<1>2. L \in Nat /\ H \in Index /\ H \in Nat /\ H < Max
  BY <1>1, RingFields, DistanceFacts, StoredBlocksAssumption DEF Index
<1>3. R.blocks[R.tail].exists /\ R.blocks[R.head].exists BY Shapes
<1>4. R.blocks[R.head].slot = L + H BY <1>1, <1>3 DEF Run
<1>5. EntryAt(R, H) = R.head BY <1>1, EntryFacts
<1>6. ASSUME NEW k \in 0 .. H
      PROVE  /\ EntryAt(R, k) \in Index
             /\ R.blocks[EntryAt(R, k)] \in Rows(R)
             /\ R.blocks[EntryAt(R, k)].exists
             /\ R.blocks[EntryAt(R, k)].slot = L + k
  <2>1. k \in Index BY <1>2, StoredBlocksAssumption DEF Index
  <2>2. EntryAt(R, k) \in Index /\ Distance(R, EntryAt(R, k)) = k BY <2>1, EntryFacts
  <2>3. Distance(R, EntryAt(R, k)) <= H BY <1>2, <2>2
  <2>4. R.blocks[EntryAt(R, k)].exists BY <2>2, <2>3 DEF Run
  <2>5. R.blocks[EntryAt(R, k)].slot = L + Distance(R, EntryAt(R, k))
    BY <2>2, <2>4 DEF Run
  <2>6. R.blocks[EntryAt(R, k)] \in Rows(R) BY <2>2, <2>4 DEF Rows
  <2> QED BY <2>2, <2>4, <2>5, <2>6
<1>7. ASSUME NEW b \in Rows(R) PROVE \E k \in 0 .. H : b = R.blocks[EntryAt(R, k)]
  <2>1. PICK i \in Index : R.blocks[i].exists /\ b = R.blocks[i] BY DEF Rows
  <2>2. Distance(R, i) \in Nat /\ Distance(R, i) <= H
    BY <2>1, DistanceFacts, StoredBlocksAssumption DEF Run, Index
  <2>3. EntryAt(R, Distance(R, i)) = i BY EntryFacts
  <2>4. Distance(R, i) \in 0 .. H BY <1>2, <2>2
  <2> QED BY <2>1, <2>3, <2>4
<1> QED BY <1>2, <1>3, <1>4, <1>5, <1>6, <1>7

LEMMA EntryOfSlot ==
    ASSUME NEW R, NEW s
    PROVE  Entry(R, s) = EntryAt(R, s - R.blocks[R.tail].slot)
BY DEF Entry, EntryAt

LEMMA VacantHolds ==
    ASSUME NEW R \in Ring, Vacant(R)
    PROVE  /\ Rows(R) = {} /\ StoredSlotsOf(R) = {} /\ LiveSlotsOf(R) = {}
           /\ ~ R.blocks[R.tail].exists
<1>1. Rows(R) = {} BY DEF Vacant, Rows
<1>2. ~ R.blocks[R.tail].exists BY RingFields DEF Vacant
<1> QED BY <1>1, <1>2 DEF StoredSlotsOf, LiveSlotsOf

\* The stored slots of a run, and the live ones among them.
LEMMA RunSlots ==
    ASSUME NEW R \in Ring, Run(R)
    PROVE  LET L == R.blocks[R.tail].slot
               H == Distance(R, R.head)
           IN  /\ \A s : s \in StoredSlotsOf(R) <=> s \in L .. L + H
               /\ \A s : s \in LiveSlotsOf(R) <=>
                            /\ s \in L .. L + H
                            /\ ~ R.blocks[EntryAt(R, s - L)].dead
<1> DEFINE L == R.blocks[R.tail].slot
           H == Distance(R, R.head)
<1>1. /\ L \in Nat /\ H \in Nat
      /\ \A k \in 0 .. H : /\ R.blocks[EntryAt(R, k)] \in Rows(R)
                           /\ R.blocks[EntryAt(R, k)].slot = L + k
      /\ \A b \in Rows(R) : \E k \in 0 .. H : b = R.blocks[EntryAt(R, k)]
  BY RunHolds
<1> HIDE DEF L, H
<1>2. ASSUME NEW b \in Rows(R)
      PROVE  b.slot \in L .. L + H /\ b = R.blocks[EntryAt(R, b.slot - L)]
  <2>1. PICK k \in 0 .. H : b = R.blocks[EntryAt(R, k)] BY <1>1
  <2>2. b.slot = L + k BY <1>1, <2>1
  <2>3. b.slot - L = k /\ b.slot \in L .. L + H BY <1>1, <2>2
  <2> QED BY <2>1, <2>3
<1>3. ASSUME NEW s \in L .. L + H
      PROVE  /\ R.blocks[EntryAt(R, s - L)] \in Rows(R)
             /\ R.blocks[EntryAt(R, s - L)].slot = s
  <2>1. s - L \in 0 .. H /\ L + (s - L) = s BY <1>1
  <2> QED BY <1>1, <2>1
<1>4. ASSUME NEW s PROVE s \in StoredSlotsOf(R) <=> s \in L .. L + H
  <2>1. ASSUME s \in StoredSlotsOf(R) PROVE s \in L .. L + H
    BY <1>2, <2>1 DEF StoredSlotsOf
  <2>2. ASSUME s \in L .. L + H PROVE s \in StoredSlotsOf(R)
    BY <1>3, <2>2 DEF StoredSlotsOf
  <2> QED BY <2>1, <2>2
<1>5. ASSUME NEW s
      PROVE  s \in LiveSlotsOf(R) <=> /\ s \in L .. L + H
                                      /\ ~ R.blocks[EntryAt(R, s - L)].dead
  <2>1. ASSUME s \in LiveSlotsOf(R)
        PROVE  s \in L .. L + H /\ ~ R.blocks[EntryAt(R, s - L)].dead
    <3>1. PICK b \in Rows(R) : ~ b.dead /\ s = b.slot BY <2>1 DEF LiveSlotsOf
    <3>2. b.slot \in L .. L + H /\ b = R.blocks[EntryAt(R, b.slot - L)] BY <1>2
    <3> QED BY <3>1, <3>2
  <2>2. ASSUME s \in L .. L + H, ~ R.blocks[EntryAt(R, s - L)].dead
        PROVE  s \in LiveSlotsOf(R)
    <3> DEFINE b == R.blocks[EntryAt(R, s - L)]
    <3>1. b \in Rows(R) /\ b.slot = s /\ ~ b.dead BY <1>3, <2>2
    <3> HIDE DEF b
    <3> QED BY <3>1 DEF LiveSlotsOf
  <2> QED BY <2>1, <2>2
<1> QED BY <1>4, <1>5 DEF L, H

(***************************************************************************)
(* get_block_location on a good ring.                                      *)
(***************************************************************************)
LEMMA LocationCorrect ==
    ASSUME NEW R, Good(R), NEW s \in Slots
    PROVE  Located(R, s)
<1>1. R \in Ring /\ Contiguous(R) BY DEF Good
<1>2. s \in Nat BY StoredBlocksAssumption
<1>3. CASE Vacant(R)
  <2>1. /\ StoredSlotsOf(R) = {} /\ LiveSlotsOf(R) = {} /\ ~ R.blocks[R.tail].exists
    BY <1>1, <1>3, VacantHolds
  <2>2. get_block_location(R, s) = Removed BY <2>1 DEF get_block_location
  <2> QED BY <2>1, <2>2 DEF Located
<1>4. CASE Run(R)
  <2> DEFINE L == R.blocks[R.tail].slot
             H == Distance(R, R.head)
             b == R.blocks[EntryAt(R, s - L)]
  <2>1. /\ L \in Nat /\ H \in Nat
        /\ R.blocks[R.tail].exists /\ R.blocks[R.head].exists
        /\ R.blocks[R.head].slot = L + H
        /\ \A k \in 0 .. H : /\ R.blocks[EntryAt(R, k)].exists
                             /\ R.blocks[EntryAt(R, k)].slot = L + k
    BY <1>1, <1>4, RunHolds
  <2>2. /\ \A t : t \in StoredSlotsOf(R) <=> t \in L .. L + H
        /\ s \in LiveSlotsOf(R) <=> s \in L .. L + H /\ ~ b.dead
    BY <1>1, <1>4, RunSlots
  <2>3. R.blocks[Entry(R, s)] = b BY EntryOfSlot
  <2>4. get_block_location(R, s) =
           IF L > s THEN Removed
           ELSE IF L + H < s THEN NotAvailable
           ELSE IF ~ (b.exists /\ b.slot = s) THEN SlotMismatch
           ELSE IF b.dead THEN Dead ELSE b.slot
    BY <2>1, <2>3 DEF get_block_location
  <2> HIDE DEF L, H, b
  <2>5. CASE s < L
    <3>1. s \notin L .. L + H /\ ~ \E t \in StoredSlotsOf(R) : t < s
      BY <1>2, <2>1, <2>2, <2>5
    <3>2. get_block_location(R, s) = Removed BY <1>2, <2>1, <2>4, <2>5
    <3> QED BY <2>2, <3>1, <3>2 DEF Located
  <2>6. CASE s > L + H
    <3>1. s \notin L .. L + H /\ L \in StoredSlotsOf(R) /\ L < s
      BY <1>2, <2>1, <2>2, <2>6
    <3>2. get_block_location(R, s) = NotAvailable BY <1>2, <2>1, <2>4, <2>6
    <3> QED BY <2>2, <3>1, <3>2 DEF Located
  <2>7. CASE s \in L .. L + H
    <3>1. s - L \in 0 .. H /\ L + (s - L) = s BY <1>2, <2>1, <2>7
    <3>2. b.exists /\ b.slot = s BY <2>1, <3>1 DEF b
    <3>3. get_block_location(R, s) = IF b.dead THEN Dead ELSE s
      BY <1>2, <2>1, <2>4, <2>7, <3>2
    <3> QED BY <2>2, <2>7, <3>3 DEF Located
  <2> QED BY <1>2, <2>1, <2>5, <2>6, <2>7
<1> QED BY <1>1, <1>3, <1>4, Shapes

(***************************************************************************)
(* get_blocks on a run, from a stored start slot.  K turns after the first *)
(* the scan is at head; N is the last turn whose slot is not past last.    *)
(***************************************************************************)
LEMMA ScanEntries ==
    ASSUME NEW R \in Ring, Run(R), NEW D \in Nat,
           D <= Distance(R, R.head), NEW start, start = R.blocks[R.tail].slot + D
    PROVE  LET K == Distance(R, R.head) - D
           IN  /\ K \in Index /\ K \in Nat
               /\ \A d \in 0 .. K :
                     /\ ScanIndex(R, start, d) = EntryAt(R, D + d)
                     /\ R.blocks[ScanIndex(R, start, d)].exists
                     /\ R.blocks[ScanIndex(R, start, d)].slot = start + d
               /\ ScanIndex(R, start, K) = R.head
<1> DEFINE L == R.blocks[R.tail].slot
           H == Distance(R, R.head)
           K == H - D
<1>1. /\ L \in Nat /\ H \in Index /\ H \in Nat /\ EntryAt(R, H) = R.head
      /\ \A k \in 0 .. H : /\ R.blocks[EntryAt(R, k)].exists
                           /\ R.blocks[EntryAt(R, k)].slot = L + k
  BY RunHolds
<1>2. R.tail \in Index BY RingFields
<1>3. D <= H /\ start = L + D OBVIOUS
<1>4. Entry(R, start) = EntryAt(R, start - L) BY EntryOfSlot
<1>5. EntryAt(R, D) = (R.tail + D) % Max BY DEF EntryAt
<1>6. \A d : EntryAt(R, D + d) = (R.tail + (D + d)) % Max BY DEF EntryAt
<1>7. \A d : ScanIndex(R, start, d) = (Entry(R, start) + d) % Max BY DEF ScanIndex
<1> HIDE DEF L, H
<1>8. K \in Index /\ K \in Nat BY <1>1, <1>3, StoredBlocksAssumption DEF Index
<1>9. Entry(R, start) = (R.tail + D) % Max
  <2>1. start - L = D BY <1>1, <1>3
  <2> QED BY <1>4, <1>5, <2>1
<1>10. ASSUME NEW d \in 0 .. K
       PROVE  ScanIndex(R, start, d) = EntryAt(R, D + d) /\ D + d \in 0 .. H
  <2>1. /\ R.tail \in Nat /\ R.tail < Max /\ Max \in Nat
        /\ D + d \in Nat /\ D + d < Max /\ d \in Nat /\ D + d <= H /\ D < Max /\ d < Max
    BY <1>1, <1>2, <1>3, StoredBlocksAssumption DEF Index
  <2>2. PICK a \in Nat : a = R.tail + D /\ a < 2 * Max BY <2>1
  <2>3. a % Max = IF a < Max THEN a ELSE a - Max BY <2>2, ModMax
  <2>4. PICK e \in Nat : e = a % Max /\ e < Max /\ (e = R.tail + D \/ e = R.tail + D - Max)
                         /\ (R.tail + D < Max => e = R.tail + D)
                         /\ (R.tail + D >= Max => e = R.tail + D - Max)
    BY <2>1, <2>2, <2>3
  <2>5. PICK c \in Nat : c = e + d /\ c < 2 * Max BY <2>1, <2>4
  <2>6. c % Max = IF c < Max THEN c ELSE c - Max BY <2>5, ModMax
  <2>7. PICK g \in Nat : g = R.tail + (D + d) /\ g < 2 * Max BY <2>1
  <2>8. g % Max = IF g < Max THEN g ELSE g - Max BY <2>7, ModMax
  <2>9. c % Max = g % Max
    <3>1. CASE R.tail + D < Max
      <4>1. e = R.tail + D BY <2>4, <3>1
      <4>2. c = g BY <2>1, <2>5, <2>7, <4>1
      <4> QED BY <4>2
    <3>2. CASE R.tail + D >= Max
      <4>1. c < Max /\ g >= Max /\ c = g - Max
        BY <2>1, <2>4, <2>5, <2>7, <3>2
      <4>2. ~ (g < Max) BY <2>1, <2>7, <4>1
      <4>3. c % Max = c BY <2>6, <4>1
      <4>4. g % Max = g - Max BY <2>8, <4>2
      <4> QED BY <4>1, <4>3, <4>4
    <3> QED BY <2>1, <3>1, <3>2
  <2>10. ScanIndex(R, start, d) = c % Max BY <1>7, <1>9, <2>2, <2>4, <2>5
  <2>11. EntryAt(R, D + d) = g % Max BY <1>6, <2>7
  <2> QED BY <2>1, <2>9, <2>10, <2>11
<1>11. ScanIndex(R, start, K) = R.head
  <2>1. K \in 0 .. K /\ D + K = H BY <1>1, <1>3, <1>8
  <2> QED BY <1>1, <1>10, <2>1
<1>12. ASSUME NEW d \in 0 .. K
       PROVE  /\ R.blocks[ScanIndex(R, start, d)].exists
              /\ R.blocks[ScanIndex(R, start, d)].slot = start + d
  <2>1. L + (D + d) = start + d BY <1>1, <1>3, <1>8
  <2> QED BY <1>1, <1>10, <2>1
<1> QED BY <1>8, <1>10, <1>11, <1>12 DEF H

\* Two turns of the scan look at different entries, so only turn K is at head.
LEMMA ScanTurns ==
    ASSUME NEW R \in Ring, Run(R), NEW D \in Nat,
           D <= Distance(R, R.head), NEW start, start = R.blocks[R.tail].slot + D,
           NEW last, NEW until
    PROVE  LET K == Distance(R, R.head) - D
           IN  \A d : d \in Turns(R, start, last, until) <=>
                         /\ d \in 0 .. K
                         /\ \A e \in 0 .. d : ~ Breaks(R, start, last, until, e)
<1> DEFINE H == Distance(R, R.head)
           K == H - D
           L == R.blocks[R.tail].slot
<1>1. /\ K \in Index /\ K \in Nat /\ ScanIndex(R, start, K) = R.head
      /\ \A d \in 0 .. K : R.blocks[ScanIndex(R, start, d)].slot = start + d
  BY ScanEntries
<1>2. K \in 0 .. Max - 1 BY <1>1 DEF Index
<1>3. start \in Nat
  <2>1. L \in Nat BY RunHolds
  <2> QED BY <2>1
<1> HIDE DEF H, K, L
<1>4. \A e \in 0 .. K : e # K => ScanIndex(R, start, e) # R.head
  <2>1. SUFFICES ASSUME NEW e \in 0 .. K, e # K, ScanIndex(R, start, e) = R.head
                 PROVE  FALSE
    OBVIOUS
  <2>2. K \in 0 .. K BY <1>1
  <2>3. start + e = start + K BY <1>1, <2>1, <2>2
  <2> QED BY <1>1, <1>3, <2>1, <2>3
<1>5. ASSUME NEW d \in Turns(R, start, last, until)
      PROVE  d \in 0 .. K /\ \A e \in 0 .. d : ~ Breaks(R, start, last, until, e)
  <2>1. /\ d \in 0 .. Max - 1
        /\ \A e \in 0 .. d : ~ Breaks(R, start, last, until, e)
        /\ \A e \in 0 .. d - 1 : ScanIndex(R, start, e) # R.head
    BY DEF Turns
  <2>2. K \notin 0 .. d - 1 BY <1>1, <2>1
  <2>3. d \in 0 .. K BY <1>1, <1>2, <2>1, <2>2
  <2> QED BY <2>1, <2>3
<1>6. ASSUME NEW d \in 0 .. K, \A e \in 0 .. d : ~ Breaks(R, start, last, until, e)
      PROVE  d \in Turns(R, start, last, until)
  <2>1. d \in 0 .. Max - 1 BY <1>1, <1>2, StoredBlocksAssumption
  <2>2. \A e \in 0 .. d - 1 : e \in 0 .. K /\ e # K BY <1>1
  <2> QED BY <1>4, <1>6, <2>1, <2>2 DEF Turns
<1> QED BY <1>5, <1>6 DEF K, H

LEMMA UntilKinds ==
    ASSUME NEW until \in Until
    PROVE  \/ /\ "limit" \notin DOMAIN until /\ "end" \in DOMAIN until
              /\ until.end \in Slots
           \/ /\ "limit" \in DOMAIN until /\ "end" \notin DOMAIN until
              /\ until.limit \in 1 .. Max
<1>1. CASE until \in [end : Slots] BY <1>1
<1>2. CASE until \in [limit : 1 .. Max] BY <1>2
<1> QED BY <1>1, <1>2 DEF Until

(***************************************************************************)
(* The turns that push: those of the live entries up to last, or the first *)
(* limit of them.  The loop compares the number pushed with limit for      *)
(* equality only; it cannot jump over it.                                  *)
(***************************************************************************)
ScanLive(R, start, last, K) ==
    {d \in 0 .. K : ~ R.blocks[ScanIndex(R, start, d)].dead /\ start + d <= last}

ScanFound(R, start, last, until) ==
    {d \in Turns(R, start, last, until) : ~ R.blocks[ScanIndex(R, start, d)].dead}

Shifted(S, a) == {a + d : d \in S}

LEMMA ScanPushed ==
    ASSUME NEW R, NEW start \in Nat, NEW last \in Nat, NEW K \in Nat,
           NEW d \in 0 .. K, start + d <= last
    PROVE  Pushed(R, start, d) = Lower(ScanLive(R, start, last, K), d)
<1>1. ASSUME NEW e \in Pushed(R, start, d)
      PROVE  e \in Lower(ScanLive(R, start, last, K), d)
  <2>1. e \in 0 .. d - 1 /\ ~ R.blocks[ScanIndex(R, start, e)].dead BY DEF Pushed
  <2>2. e \in 0 .. K /\ e < d /\ start + e <= last BY <2>1
  <2> QED BY <2>1, <2>2 DEF ScanLive, Lower
<1>2. ASSUME NEW e \in Lower(ScanLive(R, start, last, K), d)
      PROVE  e \in Pushed(R, start, d)
  <2>1. e \in 0 .. K /\ e < d /\ ~ R.blocks[ScanIndex(R, start, e)].dead
    BY DEF ScanLive, Lower
  <2>2. e \in 0 .. d - 1 BY <2>1
  <2> QED BY <2>1, <2>2 DEF Pushed
<1> QED BY <1>1, <1>2

LEMMA ScanFinds ==
    ASSUME NEW R \in Ring, Run(R), NEW D \in Nat,
           D <= Distance(R, R.head), NEW start, start = R.blocks[R.tail].slot + D,
           NEW last \in Nat, NEW until \in Until
    PROVE  LET S == ScanLive(R, start, last, Distance(R, R.head) - D)
               F == ScanFound(R, start, last, until)
           IN  /\ "limit" \notin DOMAIN until => F = S
               /\ "limit" \in DOMAIN until =>
                     F = {d \in S : Cardinality(Lower(S, d)) < until.limit}
<1> DEFINE K == Distance(R, R.head) - D
           S == ScanLive(R, start, last, K)
           F == ScanFound(R, start, last, until)
           c(d) == Cardinality(Lower(S, d))
           limited == "limit" \in DOMAIN until
           k == until.limit
<1>1. /\ K \in Nat
      /\ \A d \in 0 .. K : /\ R.blocks[ScanIndex(R, start, d)].exists
                           /\ R.blocks[ScanIndex(R, start, d)].slot = start + d
  BY ScanEntries
<1>2. start \in Nat
  <2>1. R.blocks[R.tail].slot \in Nat BY RunHolds
  <2> QED BY <2>1
<1>3. \A d : d \in Turns(R, start, last, until) <=>
                /\ d \in 0 .. K
                /\ \A e \in 0 .. d : ~ Breaks(R, start, last, until, e)
  BY ScanTurns
<1> HIDE DEF K
<1>4. S \subseteq 0 .. K BY DEF ScanLive
<1>5. limited => k \in Nat \ {0} BY UntilKinds
<1>6. \A d : c(d) \in Nat BY <1>1, <1>4, LowerFinite
<1>7. ASSUME NEW e \in 0 .. K, start + e <= last
      PROVE  Breaks(R, start, last, until, e) <=> limited /\ c(e) = k
  <2>1. Cardinality(Pushed(R, start, e)) = c(e) BY <1>1, <1>2, <1>7, ScanPushed
  <2>2. /\ R.blocks[ScanIndex(R, start, e)].exists
        /\ ~ (R.blocks[ScanIndex(R, start, e)].slot > last)
    BY <1>1, <1>2, <1>7
  <2> QED BY <2>1, <2>2 DEF Breaks
<1>8. ASSUME NEW e \in 0 .. K, ~ (start + e <= last)
      PROVE  Breaks(R, start, last, until, e)
  <2>1. R.blocks[ScanIndex(R, start, e)].slot > last BY <1>1, <1>2, <1>8
  <2> QED BY <2>1 DEF Breaks
<1>9. ASSUME NEW d \in F PROVE d \in S /\ (limited => c(d) < k)
  <2>1. /\ d \in 0 .. K /\ ~ R.blocks[ScanIndex(R, start, d)].dead
        /\ \A e \in 0 .. d : ~ Breaks(R, start, last, until, e)
    BY <1>3 DEF ScanFound
  <2>2. d \in 0 .. d BY <1>1, <2>1
  <2>3. start + d <= last BY <1>8, <2>1, <2>2
  <2>4. d \in S BY <2>1, <2>3 DEF ScanLive
  <2>5. ASSUME limited, ~ (c(d) < k) PROVE FALSE
    <3>1. d \in Nat /\ k \in Nat \ {0} /\ c(d) >= k BY <1>1, <1>5, <1>6, <2>1, <2>5
    <3>2. PICK a \in S : a < d /\ c(a) = k - 1
      BY <1>1, <1>4, <3>1, LowerReaches
    <3>3. a \in Nat /\ a + 1 \in 0 .. d /\ a + 1 \in 0 .. K
      <4>1. a \in 0 .. K BY <1>4, <3>2
      <4> QED BY <1>1, <2>1, <3>2, <4>1
    <3>4. c(a + 1) = c(a) + 1 BY <1>1, <1>4, <3>2, <3>3, LowerNext
    <3>5. c(a + 1) = k BY <3>1, <3>2, <3>4
    <3>6. start + (a + 1) <= last BY <1>2, <2>3, <3>1, <3>3
    <3>7. Breaks(R, start, last, until, a + 1) BY <1>7, <2>5, <3>3, <3>5, <3>6
    <3> QED BY <2>1, <3>3, <3>7
  <2> QED BY <2>4, <2>5
<1>10. ASSUME NEW d \in S, limited => c(d) < k PROVE d \in F
  <2>1. d \in 0 .. K /\ start + d <= last /\ ~ R.blocks[ScanIndex(R, start, d)].dead
    BY DEF ScanLive
  <2>2. ASSUME NEW e \in 0 .. d PROVE ~ Breaks(R, start, last, until, e)
    <3>1. e \in 0 .. K /\ e \in Nat /\ d \in Nat /\ e <= d /\ start + e <= last
      BY <1>1, <1>2, <2>1
    <3>2. c(e) <= c(d) BY <1>1, <1>4, <3>1, LowerMonotone
    <3>3. limited => c(e) # k BY <1>5, <1>6, <1>10, <3>2
    <3> QED BY <1>7, <3>1, <3>3
  <2> QED BY <1>3, <2>1, <2>2 DEF ScanFound
<1> HIDE DEF S, F, c, limited, k
<1>11. ~ limited => F = S BY <1>9, <1>10
<1>12. limited => F = {d \in S : c(d) < k} BY <1>9, <1>10
<1> QED BY <1>11, <1>12 DEF S, F, c, limited, k, K

(***************************************************************************)
(* The slots returned are those of the pushing turns, in their order.      *)
(***************************************************************************)
LEMMA ListingFacts ==
    ASSUME NEW R \in Ring, Run(R), NEW D \in Nat,
           D <= Distance(R, R.head), NEW start, start = R.blocks[R.tail].slot + D,
           NEW last \in Nat, NEW until \in Until
    PROVE  LET slots == Listing(R, start, last, until)
               F == ScanFound(R, start, last, until)
           IN  /\ Cardinality(F) \in Nat
               /\ Len(slots) = Cardinality(F) /\ Ascending(slots)
               /\ Listed(slots) = Shifted(F, start)
<1> DEFINE K == Distance(R, R.head) - D
           S == ScanLive(R, start, last, K)
           F == ScanFound(R, start, last, until)
           N == Cardinality(F)
           c(d) == Cardinality(Lower(F, d))
           nth(n) == CHOOSE d \in F : Cardinality(Pushed(R, start, d)) = n - 1
           slots == Listing(R, start, last, until)
<1>1. /\ K \in Nat
      /\ \A d \in 0 .. K : R.blocks[ScanIndex(R, start, d)].slot = start + d
  BY ScanEntries
<1>2. start \in Nat
  <2>1. R.blocks[R.tail].slot \in Nat BY RunHolds
  <2> QED BY <2>1
<1>3. /\ "limit" \notin DOMAIN until => F = S
      /\ "limit" \in DOMAIN until =>
            F = {d \in S : Cardinality(Lower(S, d)) < until.limit}
  BY ScanFinds
<1>4. slots = [n \in 1 .. N |-> R.blocks[ScanIndex(R, start, nth(n))].slot]
  BY DEF Listing, ScanFound
<1> HIDE DEF K
<1>5. S \subseteq 0 .. K /\ F \subseteq S /\ F \subseteq 0 .. K
  <2>1. S \subseteq 0 .. K BY DEF ScanLive
  <2> HIDE DEF S, F
  <2> QED BY <1>3, <2>1
<1>6. N \in Nat /\ \A d : c(d) \in Nat BY <1>1, <1>5, LowerFinite
<1>7. ASSUME NEW d \in F PROVE Cardinality(Pushed(R, start, d)) = c(d)
  <2>1. d \in 0 .. K /\ start + d <= last BY <1>5 DEF ScanLive
  <2>2. Pushed(R, start, d) = Lower(S, d) BY <1>1, <1>2, <2>1, ScanPushed
  <2>3. ASSUME NEW e \in S, e < d PROVE e \in F
    <3>1. CASE "limit" \notin DOMAIN until BY <1>3, <3>1
    <3>2. CASE "limit" \in DOMAIN until
      <4>1. e \in Nat /\ d \in Nat /\ e <= d BY <1>1, <1>5, <2>1, <2>3
      <4>2. Cardinality(Lower(S, e)) <= Cardinality(Lower(S, d))
        BY <1>1, <1>5, <4>1, LowerMonotone
      <4>3. Cardinality(Lower(S, d)) < until.limit BY <1>3, <3>2
      <4>4. until.limit \in Nat BY <3>2, UntilKinds
      <4>5. Cardinality(Lower(S, e)) \in Nat /\ Cardinality(Lower(S, d)) \in Nat
        BY <1>1, <1>5, LowerFinite
      <4>6. Cardinality(Lower(S, e)) < until.limit BY <4>2, <4>3, <4>4, <4>5
      <4> HIDE DEF S, F
      <4> QED BY <1>3, <3>2, <4>6
    <3> QED BY <3>1, <3>2
  <2>4. Lower(S, d) = Lower(F, d)
    <3> HIDE DEF S, F
    <3> QED BY <1>5, <2>3 DEF Lower
  <2> QED BY <2>2, <2>4
<1>8. ASSUME NEW n \in 1 .. N PROVE nth(n) \in F /\ c(nth(n)) = n - 1
  <2>1. PICK d \in F : c(d) = n - 1 BY <1>1, <1>5, LowerRanks
  <2>2. Cardinality(Pushed(R, start, d)) = n - 1 BY <1>7, <2>1
  <2>3. nth(n) \in F /\ Cardinality(Pushed(R, start, nth(n))) = n - 1
    <3> HIDE DEF F
    <3> QED BY <2>2, <2>1
  <2> QED BY <1>7, <2>3
<1> HIDE DEF F, S, c, nth, slots, N
<1>9. ASSUME NEW n \in 1 .. N PROVE slots[n] = start + nth(n) /\ nth(n) \in Nat
  <2>1. nth(n) \in 0 .. K BY <1>5, <1>8
  <2>2. slots[n] = R.blocks[ScanIndex(R, start, nth(n))].slot BY <1>4
  <2> QED BY <1>1, <2>1, <2>2
<1>10. Len(slots) = N /\ DOMAIN slots = 1 .. N
  <2>1. \A n \in 1 .. N : R.blocks[ScanIndex(R, start, nth(n))].slot \in Nat
    BY <1>2, <1>4, <1>9
  <2>2. slots \in [1 .. N -> Nat] BY <1>4, <2>1
  <2>3. slots \in Seq(Nat) /\ Len(slots) = N BY <1>6, <2>2
  <2> QED BY <2>2, <2>3
<1>11. \A a, b \in F : a < b => c(a) + 1 <= c(b)
  <2>1. F \subseteq Nat BY <1>1, <1>5
  <2> QED BY <1>1, <1>5, <2>1, LowerStrict DEF c
<1>12. ASSUME NEW i \in 1 .. N - 1 PROVE slots[i] < slots[i + 1]
  <2>1. i \in 1 .. N /\ i + 1 \in 1 .. N BY <1>6
  <2>2. c(nth(i)) = i - 1 /\ c(nth(i + 1)) = (i + 1) - 1 /\ nth(i) \in F /\ nth(i + 1) \in F
    BY <1>8, <2>1
  <2>3. nth(i) \in Nat /\ nth(i + 1) \in Nat BY <1>9, <2>1
  <2>4. nth(i) # nth(i + 1) BY <2>1, <2>2
  <2>5. ~ (nth(i + 1) < nth(i)) BY <1>11, <2>1, <2>2
  <2>6. nth(i) < nth(i + 1) BY <2>3, <2>4, <2>5
  <2> QED BY <1>2, <1>9, <2>1, <2>3, <2>6
<1>13. Ascending(slots) BY <1>10, <1>12 DEF Ascending
<1>14. ASSUME NEW d \in F PROVE \E n \in 1 .. N : slots[n] = start + d
  <2>1. d \in Nat /\ K + 1 \in Nat /\ d < K + 1 BY <1>1, <1>5
  <2>2. c(d) + 1 <= N
    <3>1. Cardinality(Lower(F, d)) + 1 <= Cardinality(Lower(F, K + 1))
      BY <1>1, <1>5, <2>1, LowerStrict
    <3> QED BY <1>1, <1>5, <3>1, LowerWhole DEF c, N
  <2>3. c(d) + 1 \in 1 .. N /\ (c(d) + 1) - 1 = c(d) BY <1>6, <2>2
  <2>4. nth(c(d) + 1) \in F /\ c(nth(c(d) + 1)) = c(d) BY <1>8, <2>3
  <2>5. nth(c(d) + 1) = d
    <3>1. nth(c(d) + 1) \in Nat BY <1>9, <2>3
    <3>2. PICK x \in F : x \in Nat /\ x = nth(c(d) + 1) /\ c(x) = c(d) BY <2>4, <3>1
    <3>3. c(d) \in Nat BY <1>6
    <3>4. ~ (x < d) /\ ~ (d < x) BY <1>11, <3>2, <3>3
    <3>5. x = d BY <2>1, <3>2, <3>4
    <3> QED BY <3>2, <3>5
  <2> QED BY <1>9, <2>3, <2>5
<1>15. ASSUME NEW s
       PROVE  s \in Listed(slots) <=> \E d \in F : s = start + d
  <2>1. ASSUME s \in Listed(slots) PROVE \E d \in F : s = start + d
    <3>1. PICK i \in 1 .. N : s = slots[i] BY <1>10, <2>1 DEF Listed
    <3> QED BY <1>8, <1>9, <3>1
  <2>2. ASSUME NEW d \in F, s = start + d PROVE s \in Listed(slots)
    <3>1. PICK n \in 1 .. N : slots[n] = start + d BY <1>14
    <3> QED BY <1>10, <2>2, <3>1 DEF Listed
  <2> QED BY <2>1, <2>2
<1>16. Listed(slots) = Shifted(F, start) BY <1>15 DEF Shifted
<1> QED BY <1>6, <1>10, <1>13, <1>16 DEF F, N, slots

LEMMA ShiftCardinality ==
    ASSUME NEW K \in Nat, NEW S, S \subseteq 0 .. K, NEW a \in Nat, NEW T,
           \A s : s \in T <=> \E d \in S : s = a + d
    PROVE  Cardinality(T) = Cardinality(S)
<1> DEFINE f == [d \in S |-> a + d]
<1>1. \A d \in S : d \in Nat OBVIOUS
<1>2. IsFiniteSet(S) BY LowerFinite
<1>3. f \in [S -> T] OBVIOUS
<1>4. \A d, e \in S : f[d] = f[e] => d = e BY <1>1
<1>5. \A t \in T : \E d \in S : f[d] = t OBVIOUS
<1>6. DOMAIN f = S OBVIOUS
<1> HIDE DEF f
<1>7. f \in Bijection(S, T)
  BY <1>3, <1>4, <1>5, <1>6 DEF Bijection, Injection, IsInjective, Surjection
<1>8. ExistsBijection(S, T) BY <1>7 DEF ExistsBijection
<1> QED BY <1>2, <1>8, FS_Bijection

(***************************************************************************)
(* get_blocks on a good ring.                                              *)
(***************************************************************************)
LEMMA ListOfRun ==
    ASSUME NEW R \in Ring, Run(R), NEW D \in Nat,
           D <= Distance(R, R.head), NEW start, start = R.blocks[R.tail].slot + D,
           NEW end \in Nat, NEW until \in Until
    PROVE  LET last == ScanEnd(end, until)
           IN  Lists(Listing(R, start, last, until),
                     {s \in LiveSlotsOf(R) : start <= s /\ s <= last}, until)
<1> DEFINE L == R.blocks[R.tail].slot
           H == Distance(R, R.head)
           K == H - D
           last == ScanEnd(end, until)
           slots == Listing(R, start, last, until)
           wanted == {s \in LiveSlotsOf(R) : start <= s /\ s <= last}
           listed == Listed(slots)
           S == ScanLive(R, start, last, K)
           F == ScanFound(R, start, last, until)
           k == until.limit
<1>1. L \in Nat /\ H \in Nat BY RunHolds
<1>2. start \in Nat BY <1>1
<1>3. last \in Nat /\ last <= end
  <2>1. CASE "end" \in DOMAIN until /\ until.end < end
    <3>1. until.end \in Slots BY <2>1, UntilKinds
    <3>2. until.end \in Nat BY <3>1, StoredBlocksAssumption
    <3>3. last = until.end BY <2>1 DEF ScanEnd
    <3> QED BY <2>1, <3>2, <3>3
  <2>2. CASE ~ ("end" \in DOMAIN until /\ until.end < end)
    <3>1. last = end BY <2>2 DEF ScanEnd
    <3> QED BY <3>1
  <2> QED BY <2>1, <2>2
<1>4. \A s : s \in LiveSlotsOf(R) <=>
                s \in L .. L + H /\ ~ R.blocks[EntryAt(R, s - L)].dead
  BY RunSlots
<1> HIDE DEF last
<1>5. start = L + D /\ K \in Nat /\ D + K = H BY <1>1
<1>6. \A d \in 0 .. K : ScanIndex(R, start, d) = EntryAt(R, D + d)
  BY ScanEntries
<1>7. /\ "limit" \notin DOMAIN until => F = S
      /\ "limit" \in DOMAIN until => F = {d \in S : Cardinality(Lower(S, d)) < k}
  BY <1>3, ScanFinds
<1>8. /\ Len(slots) = Cardinality(F) /\ Ascending(slots)
      /\ \A s : s \in listed <=> \E d \in F : s = start + d
  <2>1. Len(slots) = Cardinality(F) BY <1>3, ListingFacts
  <2>2. Ascending(slots) BY <1>3, ListingFacts
  <2>3. listed = Shifted(F, start) BY <1>3, ListingFacts
  <2> HIDE DEF slots, listed, F
  <2> QED BY <2>1, <2>2, <2>3 DEF Shifted
<1>9. \A s : s \in wanted <=> \E d \in S : s = start + d
  <2> HIDE DEF L, H, K
  <2>1. ASSUME NEW s \in wanted PROVE \E d \in S : s = start + d
    <3>1. /\ s \in L .. L + H /\ ~ R.blocks[EntryAt(R, s - L)].dead
          /\ start <= s /\ s <= last
      BY <1>4
    <3>2. s - start \in 0 .. K /\ start + (s - start) = s /\ D + (s - start) = s - L
      BY <1>1, <1>2, <1>5, <3>1
    <3>3. ScanIndex(R, start, s - start) = EntryAt(R, s - L) BY <1>6, <3>2
    <3>4. s - start \in S BY <3>1, <3>2, <3>3 DEF ScanLive
    <3> QED BY <3>2, <3>4
  <2>2. ASSUME NEW d \in S PROVE start + d \in wanted
    <3>1. /\ d \in 0 .. K /\ ~ R.blocks[ScanIndex(R, start, d)].dead
          /\ start + d <= last
      BY DEF ScanLive
    <3>2. /\ start + d \in L .. L + H /\ start <= start + d
          /\ (start + d) - L = D + d
      BY <1>1, <1>2, <1>5, <3>1
    <3>3. ~ R.blocks[EntryAt(R, (start + d) - L)].dead BY <1>6, <3>1, <3>2
    <3> QED BY <1>4, <3>1, <3>2, <3>3
  <2> QED BY <2>1, <2>2
<1>10. S \subseteq 0 .. K BY DEF ScanLive
<1> HIDE DEF L, H, K, slots, wanted, listed, S, F, k
<1>11. Cardinality(wanted) = Cardinality(S) /\ Cardinality(S) \in Nat
  BY <1>2, <1>5, <1>9, <1>10, ShiftCardinality, LowerFinite
<1>12. F \subseteq S BY <1>7
<1>13. listed \subseteq wanted BY <1>8, <1>9, <1>12
<1>14. F = S => listed = wanted BY <1>8, <1>9
<1>15. ASSUME "limit" \notin DOMAIN until PROVE Lists(slots, wanted, until)
  BY <1>7, <1>8, <1>13, <1>14, <1>15 DEF Lists, listed
<1>16. ASSUME "limit" \in DOMAIN until PROVE Lists(slots, wanted, until)
  <2>1. k \in Nat \ {0} BY <1>16, UntilKinds DEF k
  <2>2. \A d : d \in F <=> d \in S /\ Cardinality(Lower(S, d)) < k BY <1>7, <1>16
  <2>3. /\ Cardinality(S) <= k => F = S
        /\ k < Cardinality(S) => Cardinality(F) = k
        /\ \A a \in S \ F, b \in F : b < a
    BY <1>5, <1>10, <2>1, <2>2, LowestFew
  <2>4. ASSUME NEW s \in wanted \ listed, NEW t \in listed PROVE t < s
    <3>1. PICK a \in S : s = start + a BY <1>9
    <3>2. PICK b \in F : t = start + b BY <1>8
    <3>3. a \notin F BY <1>8, <2>4, <3>1
    <3>4. b < a BY <2>3, <3>1, <3>2, <3>3
    <3>5. a \in Nat /\ b \in Nat BY <1>5, <1>10, <1>12
    <3> QED BY <1>2, <3>1, <3>2, <3>4, <3>5
  <2>5. CASE k < Cardinality(wanted)
    <3>1. Len(slots) = k BY <1>8, <1>11, <2>3, <2>5
    <3> QED BY <1>8, <1>13, <1>16, <2>4, <2>5, <3>1 DEF Lists, listed, k
  <2>6. CASE ~ (k < Cardinality(wanted))
    <3>1. listed = wanted BY <1>11, <1>14, <2>1, <2>3, <2>6
    <3> QED BY <1>8, <1>13, <1>16, <2>6, <3>1 DEF Lists, listed, k
  <2> QED BY <2>5, <2>6
<1> QED BY <1>15, <1>16 DEF last, slots, wanted

LEMMA ListCorrect ==
    ASSUME NEW R, Good(R), NEW start \in Slots, NEW end \in Slots, start <= end,
           NEW until \in Until
    PROVE  ListExact(R, start, end, until)
<1>1. R \in Ring /\ Contiguous(R) BY DEF Good
<1>2. start \in Nat /\ end \in Nat BY StoredBlocksAssumption
<1>3. Removed # OutOfLimit /\ Removed # Ok /\ OutOfLimit # Ok
  BY DEF Removed, OutOfLimit, Ok
<1> DEFINE answer == get_blocks(R, start, end, until)
           tail == R.blocks[R.tail]
           head == R.blocks[R.head]
<1>4. CASE ~ (tail.exists /\ tail.slot <= start)
  <2>1. answer.result = Removed BY <1>4 DEF get_blocks
  <2>2. ASSUME NEW s \in StoredSlotsOf(R) PROVE start < s
    <3>1. CASE Vacant(R) BY <1>1, <3>1, VacantHolds
    <3>2. CASE Run(R)
      <4>1. tail.slot \in Nat /\ tail.exists BY <1>1, <3>2, RunHolds
      <4>2. s \in tail.slot .. tail.slot + Distance(R, R.head) BY <1>1, <3>2, RunSlots
      <4>3. Distance(R, R.head) \in Nat BY <1>1, <3>2, RunHolds
      <4> HIDE DEF tail
      <4> QED BY <1>2, <1>4, <4>1, <4>2, <4>3
    <3> QED BY <1>1, <3>1, <3>2, Shapes
  <2> HIDE DEF answer
  <2> QED BY <2>1, <2>2, <1>3 DEF ListExact, answer
<1>5. CASE tail.exists /\ tail.slot <= start
  <2>1. Run(R) BY <1>1, <1>5, BackSlot
  <2>2. /\ tail.slot \in Nat /\ head.exists /\ Distance(R, R.head) \in Nat
        /\ head.slot = tail.slot + Distance(R, R.head)
    BY <1>1, <2>1, RunHolds
  <2>3. CASE ~ (head.slot >= end)
    <3>1. answer.result = OutOfLimit BY <1>5, <2>3 DEF get_blocks
    <3>2. ASSUME NEW s \in StoredSlotsOf(R) PROVE s < end
      <4>1. s \in tail.slot .. tail.slot + Distance(R, R.head) BY <1>1, <2>1, RunSlots
      <4> HIDE DEF tail, head
      <4> QED BY <1>2, <2>2, <2>3, <4>1
    <3> HIDE DEF answer
    <3> QED BY <3>1, <3>2, <1>3 DEF ListExact, answer
  <2>4. CASE head.slot >= end
    <3>1. /\ answer.result = Ok
          /\ answer.slots = Listing(R, start, ScanEnd(end, until), until)
      BY <1>5, <2>2, <2>4 DEF get_blocks
    <3>2. PICK D \in Nat : D <= Distance(R, R.head) /\ start = tail.slot + D
      <4>1. start - tail.slot \in Nat /\ start - tail.slot <= Distance(R, R.head)
            /\ start = tail.slot + (start - tail.slot)
        <5> HIDE DEF tail, head
        <5> QED BY <1>2, <1>5, <2>2, <2>4
      <4> QED BY <4>1
    <3> DEFINE last == ScanEnd(end, until)
    <3>3. Lists(Listing(R, start, last, until),
                {s \in LiveSlotsOf(R) : start <= s /\ s <= last}, until)
      BY <1>1, <1>2, <2>1, <3>2, ListOfRun
    <3>4. last = IF "end" \in DOMAIN until /\ until.end < end THEN until.end ELSE end
      BY DEF ScanEnd
    <3>5. answer.result # Removed /\ answer.result # OutOfLimit BY <1>3, <3>1
    <3> HIDE DEF answer, last
    <3> QED BY <3>1, <3>3, <3>4, <3>5 DEF ListExact, answer, last
  <2> QED BY <2>3, <2>4
<1> QED BY <1>4, <1>5

-----------------------------------------------------------------------------
(***************************************************************************)
(* The time index of a good ring has one entry per block with a time.      *)
(***************************************************************************)
TimedRows(R) == {b \in Rows(R) : TimeEntry(b) # {}}

LEMMA TimedFacts ==
    ASSUME NEW R, Good(R)
    PROVE  /\ \A b \in TimedRows(R) : /\ b.time \in Nat /\ b.slot \in Nat
                                      /\ <<b.time, b.slot>> \in TimeEntries(R)
           /\ \A e \in TimeEntries(R) : \E b \in TimedRows(R) : e = <<b.time, b.slot>>
           /\ \A b, c \in TimedRows(R) : b.slot = c.slot => b = c
           /\ \E M \in Nat : \A b \in TimedRows(R) : b.slot <= M
<1>1. R \in Ring /\ Contiguous(R) BY DEF Good
<1>2. ASSUME NEW b \in TimedRows(R)
      PROVE  /\ b.time \in Nat /\ b.slot \in Nat
             /\ <<b.time, b.slot>> \in TimeEntries(R)
  <2>1. PICK i \in Index : b = R.blocks[i] BY DEF TimedRows, Rows
  <2>2. b \in StoredBlock /\ b.slot \in Nat BY <1>1, <2>1, RingFields
  <2>3. b.time # None /\ TimeEntry(b) = {<<b.time, b.slot>>} BY DEF TimedRows, TimeEntry
  <2>4. b.time \in Times BY <2>2, <2>3 DEF StoredBlock
  <2>5. <<b.time, b.slot>> \in TimeEntries(R) BY <2>1, <2>3 DEF TimeEntries
  <2> QED BY <2>2, <2>4, <2>5, StoredBlocksAssumption
<1>3. ASSUME NEW e \in TimeEntries(R)
      PROVE  \E b \in TimedRows(R) : e = <<b.time, b.slot>>
  <2>1. PICK i \in Index : e \in TimeEntry(R.blocks[i]) BY DEF TimeEntries
  <2>2. R.blocks[i].exists /\ e = <<R.blocks[i].time, R.blocks[i].slot>>
    BY <2>1 DEF TimeEntry
  <2>3. R.blocks[i] \in TimedRows(R) BY <2>1, <2>2 DEF TimedRows, Rows
  <2> QED BY <2>2, <2>3
<1>4. CASE Vacant(R)
  <2>1. TimedRows(R) = {} BY <1>1, <1>4, VacantHolds DEF TimedRows
  <2>2. 0 \in Nat OBVIOUS
  <2> QED BY <1>2, <1>3, <2>1, <2>2
<1>5. CASE Run(R)
  <2>1. ASSUME NEW b \in TimedRows(R), NEW c \in TimedRows(R), b.slot = c.slot
        PROVE  b = c
    <3>1. PICK i \in Index : b = R.blocks[i] /\ R.blocks[i].exists BY DEF TimedRows, Rows
    <3>2. PICK j \in Index : c = R.blocks[j] /\ R.blocks[j].exists BY DEF TimedRows, Rows
    <3>3. i = j BY <1>1, <1>5, <2>1, <3>1, <3>2, RunSlotsDiffer
    <3> QED BY <3>1, <3>2, <3>3
  <2> DEFINE M == R.blocks[R.tail].slot + Distance(R, R.head)
  <2>2. M \in Nat
    <3>1. R.blocks[R.tail].slot \in Nat /\ Distance(R, R.head) \in Nat
      BY <1>1, <1>5, RunHolds
    <3> QED BY <3>1
  <2>3. ASSUME NEW b \in TimedRows(R) PROVE b.slot <= M
    <3>1. b.slot \in R.blocks[R.tail].slot .. M
      BY <1>1, <1>5, RowsOfRun DEF TimedRows
    <3> QED BY <3>1
  <2> HIDE DEF M
  <2> QED BY <1>2, <1>3, <2>1, <2>2, <2>3
<1> QED BY <1>1, <1>4, <1>5, Shapes

\* A bounded nonempty set of natural numbers has a greatest element.
LEMMA NatMax ==
    ASSUME NEW T, T \subseteq Nat, T # {}, NEW M \in Nat, \A x \in T : x <= M
    PROVE  \E x \in T : \A y \in T : y <= x
<1> DEFINE U == {M - x : x \in T}
<1>1. U \subseteq Nat /\ U # {}
  <2>1. \A x \in T : x \in Nat /\ x <= M OBVIOUS
  <2>2. \A x \in T : M - x \in Nat BY <2>1
  <2>3. PICK x \in T : TRUE OBVIOUS
  <2>4. M - x \in U BY <2>3
  <2> QED BY <2>2, <2>4
<1>2. PICK u \in U : \A v \in U : u <= v
  <2> HIDE DEF U
  <2> QED BY <1>1, NatMin
<1>3. PICK x \in T : u = M - x OBVIOUS
<1>4. ASSUME NEW y \in T PROVE y <= x
  <2>1. M - x <= M - y BY <1>2, <1>3
  <2>2. x \in Nat /\ y \in Nat OBVIOUS
  <2> QED BY <2>1, <2>2
<1> QED BY <1>4

(***************************************************************************)
(* block_time_to_slot_lower and _upper take the end of the index in (time, *)
(* slot) order.  With times in slot order that is the end in slot order.   *)
(***************************************************************************)
LEMMA LowerBound ==
    ASSUME NEW R, Good(R), TimesInOrder(R), NEW t \in Nat,
           NEW b \in TimedRows(R), NEW lower,
           lower = block_time_to_slot_lower(to_read(R), t)
    PROVE  b.time >= t <=> lower # None /\ b.slot >= lower
<1> DEFINE X == {e \in TimeEntries(R) : e[1] >= t}
           B == {c \in TimedRows(R) : c.time >= t}
<1>1. lower = IF X = {} THEN None ELSE (CHOOSE e \in X : \A f \in X : Before(e, f))[2]
  BY DEF block_time_to_slot_lower, to_read
<1>2. /\ \A c \in TimedRows(R) : /\ c.time \in Nat /\ c.slot \in Nat
                                 /\ <<c.time, c.slot>> \in TimeEntries(R)
      /\ \A e \in TimeEntries(R) : \E c \in TimedRows(R) : e = <<c.time, c.slot>>
      /\ \A c, d \in TimedRows(R) : c.slot = d.slot => c = d
  BY TimedFacts
<1>3. \A c, d \in TimedRows(R) : c.slot < d.slot => c.time <= d.time
  BY DEF TimesInOrder, TimedRows
<1>4. \A c \in B : <<c.time, c.slot>> \in X BY <1>2
<1>5. ASSUME NEW e \in X PROVE \E c \in B : e = <<c.time, c.slot>>
  <2>1. PICK c \in TimedRows(R) : e = <<c.time, c.slot>> BY <1>2
  <2>2. c.time >= t BY <2>1
  <2> QED BY <2>1, <2>2
<1> HIDE DEF X
<1>6. CASE X = {}
  <2>1. b \notin B BY <1>4, <1>6
  <2>2. ~ (b.time >= t) BY <2>1
  <2>3. lower = None BY <1>1, <1>6
  <2> QED BY <2>2, <2>3
<1>7. CASE X # {}
  <2> DEFINE T == {c.slot : c \in B}
  <2>1. T \subseteq Nat /\ T # {}
    <3>1. PICK e \in X : TRUE BY <1>7
    <3>2. PICK c \in B : e = <<c.time, c.slot>> BY <1>5, <3>1
    <3>3. c.slot \in T BY <3>2
    <3> QED BY <1>2, <3>3
  <2>2. PICK s \in T : \A u \in T : s <= u
    <3> HIDE DEF T
    <3> QED BY <2>1, NatMin
  <2>3. PICK m \in B : m.slot = s OBVIOUS
  <2>4. \A c \in B : m.slot <= c.slot BY <2>2, <2>3
  <2>5. ASSUME NEW f \in X PROVE Before(<<m.time, m.slot>>, f)
    <3>1. PICK c \in B : f = <<c.time, c.slot>> BY <1>5
    <3>2. m.slot <= c.slot /\ m.slot \in Nat /\ c.slot \in Nat BY <1>2, <2>4
    <3>3. CASE m.slot = c.slot
      <4>1. m = c BY <1>2, <3>3
      <4> QED BY <3>1, <3>2, <4>1 DEF Before
    <3>4. CASE m.slot # c.slot
      <4>1. m.slot < c.slot BY <3>2, <3>4
      <4>2. m.time <= c.time /\ m.time \in Nat /\ c.time \in Nat BY <1>2, <1>3, <4>1
      <4> QED BY <3>1, <3>2, <4>2 DEF Before
    <3> QED BY <3>3, <3>4
  <2>6. PICK e \in X : (\A f \in X : Before(e, f)) /\ lower = e[2]
    <3>1. <<m.time, m.slot>> \in X BY <1>4
    <3> HIDE DEF B
    <3> QED BY <1>1, <1>7, <2>5, <3>1
  <2>7. PICK c \in B : e = <<c.time, c.slot>> BY <1>5
  <2>8. lower = c.slot /\ c.slot \in Nat /\ c.time \in Nat /\ c.time >= t /\ lower # None
    BY <1>2, <2>6, <2>7 DEF None
  <2>9. b.slot \in Nat /\ b.time \in Nat BY <1>2
  <2>10. ASSUME b.time >= t PROVE b.slot >= c.slot
    <3>1. <<b.time, b.slot>> \in X BY <1>4, <2>10
    <3>2. Before(<<c.time, c.slot>>, <<b.time, b.slot>>) BY <2>6, <2>7, <3>1
    <3>3. c.time < b.time \/ (c.time = b.time /\ c.slot <= b.slot) BY <3>2 DEF Before
    <3>4. b.slot < c.slot => b.time <= c.time BY <1>3
    <3> QED BY <2>8, <2>9, <3>3, <3>4
  <2>11. ASSUME b.slot >= c.slot PROVE b.time >= t
    <3>1. CASE b.slot = c.slot
      <4>1. b = c BY <1>2, <3>1
      <4> QED BY <2>8, <4>1
    <3>2. CASE b.slot # c.slot
      <4>1. c.slot < b.slot BY <2>8, <2>9, <2>11, <3>2
      <4>2. c.time <= b.time BY <1>3, <4>1
      <4> QED BY <2>8, <2>9, <4>2
    <3> QED BY <3>1, <3>2
  <2> QED BY <2>8, <2>10, <2>11
<1> QED BY <1>6, <1>7

LEMMA UpperBound ==
    ASSUME NEW R, Good(R), TimesInOrder(R), NEW t \in Nat,
           NEW b \in TimedRows(R), NEW upper,
           upper = block_time_to_slot_upper(to_read(R), t)
    PROVE  b.time <= t <=> upper # None /\ b.slot <= upper
<1> DEFINE X == {e \in TimeEntries(R) : e[1] <= t}
           B == {c \in TimedRows(R) : c.time <= t}
<1>1. upper = IF X = {} THEN None ELSE (CHOOSE e \in X : \A f \in X : Before(f, e))[2]
  BY DEF block_time_to_slot_upper, to_read
<1>2. /\ \A c \in TimedRows(R) : /\ c.time \in Nat /\ c.slot \in Nat
                                 /\ <<c.time, c.slot>> \in TimeEntries(R)
      /\ \A e \in TimeEntries(R) : \E c \in TimedRows(R) : e = <<c.time, c.slot>>
      /\ \A c, d \in TimedRows(R) : c.slot = d.slot => c = d
      /\ \E M \in Nat : \A c \in TimedRows(R) : c.slot <= M
  BY TimedFacts
<1>3. \A c, d \in TimedRows(R) : c.slot < d.slot => c.time <= d.time
  BY DEF TimesInOrder, TimedRows
<1>4. \A c \in B : <<c.time, c.slot>> \in X BY <1>2
<1>5. ASSUME NEW e \in X PROVE \E c \in B : e = <<c.time, c.slot>>
  <2>1. PICK c \in TimedRows(R) : e = <<c.time, c.slot>> BY <1>2
  <2>2. c.time <= t BY <2>1
  <2> QED BY <2>1, <2>2
<1> HIDE DEF X
<1>6. CASE X = {}
  <2>1. b \notin B BY <1>4, <1>6
  <2>2. ~ (b.time <= t) BY <2>1
  <2>3. upper = None BY <1>1, <1>6
  <2> QED BY <2>2, <2>3
<1>7. CASE X # {}
  <2> DEFINE T == {c.slot : c \in B}
  <2>1. T \subseteq Nat /\ T # {} /\ \E M \in Nat : \A u \in T : u <= M
    <3>1. PICK e \in X : TRUE BY <1>7
    <3>2. PICK c \in B : e = <<c.time, c.slot>> BY <1>5, <3>1
    <3>3. c.slot \in T BY <3>2
    <3>4. PICK M \in Nat : \A d \in TimedRows(R) : d.slot <= M BY <1>2
    <3>5. \A u \in T : u <= M BY <3>4
    <3> QED BY <1>2, <3>3, <3>5
  <2>2. PICK s \in T : \A u \in T : u <= s
    <3> HIDE DEF T
    <3> QED BY <2>1, NatMax
  <2>3. PICK m \in B : m.slot = s OBVIOUS
  <2>4. \A c \in B : c.slot <= m.slot BY <2>2, <2>3
  <2>5. ASSUME NEW f \in X PROVE Before(f, <<m.time, m.slot>>)
    <3>1. PICK c \in B : f = <<c.time, c.slot>> BY <1>5
    <3>2. c.slot <= m.slot /\ m.slot \in Nat /\ c.slot \in Nat BY <1>2, <2>4
    <3>3. CASE m.slot = c.slot
      <4>1. m = c BY <1>2, <3>3
      <4> QED BY <3>1, <3>2, <4>1 DEF Before
    <3>4. CASE m.slot # c.slot
      <4>1. c.slot < m.slot BY <3>2, <3>4
      <4>2. c.time <= m.time /\ m.time \in Nat /\ c.time \in Nat BY <1>2, <1>3, <4>1
      <4> QED BY <3>1, <3>2, <4>2 DEF Before
    <3> QED BY <3>3, <3>4
  <2>6. PICK e \in X : (\A f \in X : Before(f, e)) /\ upper = e[2]
    <3>1. <<m.time, m.slot>> \in X BY <1>4
    <3> HIDE DEF B
    <3> QED BY <1>1, <1>7, <2>5, <3>1
  <2>7. PICK c \in B : e = <<c.time, c.slot>> BY <1>5
  <2>8. upper = c.slot /\ c.slot \in Nat /\ c.time \in Nat /\ c.time <= t /\ upper # None
    BY <1>2, <2>6, <2>7 DEF None
  <2>9. b.slot \in Nat /\ b.time \in Nat BY <1>2
  <2>10. ASSUME b.time <= t PROVE b.slot <= c.slot
    <3>1. <<b.time, b.slot>> \in X BY <1>4, <2>10
    <3>2. Before(<<b.time, b.slot>>, <<c.time, c.slot>>) BY <2>6, <2>7, <3>1
    <3>3. b.time < c.time \/ (b.time = c.time /\ b.slot <= c.slot) BY <3>2 DEF Before
    <3>4. c.slot < b.slot => c.time <= b.time BY <1>3
    <3> QED BY <2>8, <2>9, <3>3, <3>4
  <2>11. ASSUME b.slot <= c.slot PROVE b.time <= t
    <3>1. CASE b.slot = c.slot
      <4>1. b = c BY <1>2, <3>1
      <4> QED BY <2>8, <4>1
    <3>2. CASE b.slot # c.slot
      <4>1. b.slot < c.slot BY <2>8, <2>9, <2>11, <3>2
      <4>2. b.time <= c.time BY <1>3, <4>1
      <4> QED BY <2>8, <2>9, <4>2
    <3> QED BY <3>1, <3>2
  <2> QED BY <2>8, <2>10, <2>11
<1> QED BY <1>6, <1>7

(***************************************************************************)
(* Every replica is a copy of a good ring, whatever it has still to        *)
(* receive, so every query answered from it is exact.                      *)
(***************************************************************************)
LEMMA CopyExact ==
    ASSUME NEW P, Copy(P)
    PROVE  /\ \A s \in Slots : Located(P.ring, s)
           /\ \A start, end \in Slots, until \in Until :
                 start <= end => ListExact(P.ring, start, end, until)
           /\ \A t \in Times : BoundsExact(P, t)
<1>1. PICK R : Good(R) /\ P = to_read(R) BY DEF Copy
<1>2. P.ring = R BY <1>1 DEF to_read
<1>3. ASSUME NEW s \in Slots PROVE Located(P.ring, s)
  BY <1>1, <1>2, LocationCorrect
<1>4. ASSUME NEW start \in Slots, NEW end \in Slots, NEW until \in Until, start <= end
      PROVE  ListExact(P.ring, start, end, until)
  BY <1>1, <1>2, <1>4, ListCorrect
<1>5. ASSUME NEW t \in Times PROVE BoundsExact(P, t)
  <2>1. t \in Nat BY StoredBlocksAssumption
  <2> DEFINE lower == block_time_to_slot_lower(P, t)
             upper == block_time_to_slot_upper(P, t)
  <2>2. ASSUME TimesInOrder(R), NEW b \in TimedRows(R)
        PROVE  /\ b.time >= t <=> lower # None /\ b.slot >= lower
               /\ b.time <= t <=> upper # None /\ b.slot <= upper
    <3>1. b.time >= t <=> lower # None /\ b.slot >= lower
      BY <1>1, <2>1, <2>2, LowerBound
    <3>2. b.time <= t <=> upper # None /\ b.slot <= upper
      BY <1>1, <2>1, <2>2, UpperBound
    <3> QED BY <3>1, <3>2
  <2> HIDE DEF lower, upper
  <2> QED BY <1>2, <2>2 DEF BoundsExact, TimedRows, lower, upper
<1> QED BY <1>3, <1>4, <1>5

LEMMA ReplicaIsCopy ==
    ASSUME ReplicasInv, NEW r \in Readers
    PROVE  Copy(replica[r])
<1>1. sync[r] \in Seq(Messages) /\ Follows(replica[r], sync[r], ring)
  BY DEF ReplicasInv, TypeOK
<1>2. PICK f : /\ Folds(f, replica[r], sync[r])
               /\ \A n \in 0 .. Len(sync[r]) : Copy(f[n])
  BY <1>1 DEF Follows
<1>3. 0 \in 0 .. Len(sync[r]) BY <1>1
<1>4. f[0] = replica[r] BY <1>2, <1>3 DEF Folds
<1> QED BY <1>2, <1>3, <1>4

(***************************************************************************)
(* However far a reader is behind, what get_block_location, get_blocks and *)
(* the two time bounds answer from its replica is exactly what its ring    *)
(* holds, wherever in the ring of any size the window lies.                *)
(***************************************************************************)
THEOREM QueriesCorrect == Spec => []QueriesExact
<1>1. ASSUME ReplicasInv PROVE QueriesExact
  <2>1. \A r \in Readers : Copy(replica[r]) BY <1>1, ReplicaIsCopy
  <2>2. LocationExact BY <2>1, CopyExact DEF LocationExact
  <2>3. BlocksListExact BY <2>1, CopyExact DEF BlocksListExact
  <2>4. TimeBoundsExact BY <2>1, CopyExact DEF TimeBoundsExact
  <2> QED BY <2>2, <2>3, <2>4 DEF QueriesExact
<1> QED BY <1>1, ReplicasAlways, PTL
=============================================================================
