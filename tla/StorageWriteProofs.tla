------------------------- MODULE StorageWriteProofs -------------------------
(***************************************************************************)
(* Proofs about the storage writer.  The first part is about its block     *)
(* files: the type invariant, the layout of the blocks between tail and    *)
(* head, and from it that no two live blocks share a byte, for any number  *)
(* of files, any sizes and any lengths of blocks.  The second is about its *)
(* loop, for any chain, size of the database, concurrency, sync_to and     *)
(* number of catch-ups: no slot is forgotten, a catch-up never waits for   *)
(* nothing, and backfilling reaches what it is to reach.                   *)
(***************************************************************************)
EXTENDS StorageFiles, StorageWrite, FiniteSetTheorems, WellFoundedInduction, TLAPS

-----------------------------------------------------------------------------
(***************************************************************************)
(* A non-empty set of naturals has a least element, a non-empty set of     *)
(* naturals below n a greatest one.                                        *)
(***************************************************************************)
LEMMA LeastExists ==
    ASSUME NEW K, K \subseteq Nat, K # {}
    PROVE  \E k \in K : \A j \in K : k <= j
<1> DEFINE R == {ss \in Nat \X Nat : ss[1] < ss[2]}
<1>1. PICK k \in K : \A j \in K : ~ (<<j, k>> \in R)
  <2>1. IsWellFoundedOn(R, Nat)
    BY NatLessThanWellFounded DEF OpToRel
  <2> HIDE DEF R
  <2> QED BY <2>1, WFMin
<1>2. ASSUME NEW j \in K PROVE k <= j
  <2>1. j \in Nat /\ k \in Nat OBVIOUS
  <2>2. <<j, k>> \in R <=> j < k BY <2>1
  <2> QED BY <2>1, <2>2, <1>1
<1> QED BY <1>2

LEMMA GreatestExists ==
    ASSUME NEW n \in Nat, NEW K, K \subseteq 0 .. n, K # {}
    PROVE  \E k \in K : \A j \in K : j <= k
<1> DEFINE M == {n - k : k \in K}
<1>1. M \subseteq Nat
  <2> SUFFICES ASSUME NEW k \in K PROVE n - k \in Nat OBVIOUS
  <2>1. k \in 0 .. n OBVIOUS
  <2> QED BY <2>1
<1>2. M # {}
  <2>1. PICK k \in K : TRUE OBVIOUS
  <2>2. n - k \in M OBVIOUS
  <2> QED BY <2>2
<1>3. PICK m \in M : \A j \in M : m <= j
  <2> HIDE DEF M
  <2> QED BY <1>1, <1>2, LeastExists
<1>4. PICK k \in K : m = n - k OBVIOUS
<1>5. ASSUME NEW j \in K PROVE j <= k
  <2>1. n - j \in M OBVIOUS
  <2>2. n - k <= n - j BY <2>1, <1>3, <1>4
  <2>3. j \in 0 .. n /\ k \in 0 .. n OBVIOUS
  <2> QED BY <2>2, <2>3
<1> QED BY <1>5

(***************************************************************************)
(* The lowest and the highest position of a file are positions of the      *)
(* file, and bound all the others: what open reads tail and head from.     *)
(***************************************************************************)
LEMMA LowestHighest ==
    ASSUME FilesTypeOK, NEW i \in Index, OnFile(i) # {}
    PROVE  /\ Lowest(OnFile(i)) \in OnFile(i)
           /\ Highest(OnFile(i)) \in OnFile(i)
           /\ \A k \in OnFile(i) : Lowest(OnFile(i)) <= k
           /\ \A k \in OnFile(i) : k <= Highest(OnFile(i))
<1> DEFINE K == OnFile(i)
           n == Len(stored)
<1>1. K \subseteq 1 .. n /\ n \in Nat
  <2>1. stored \in Seq(Block) BY DEF FilesTypeOK
  <2>2. DOMAIN stored = 1 .. n /\ n \in Nat BY <2>1
  <2> QED BY <2>2 DEF OnFile
<1>2. K \subseteq Nat /\ K \subseteq 0 .. n /\ K # {}
  BY <1>1
<1>3. \E k \in K : \A j \in K : k <= j
  <2> HIDE DEF K, n
  <2> QED BY <1>2, LeastExists
<1>4. \E k \in K : \A j \in K : j <= k
  <2> HIDE DEF K, n
  <2> QED BY <1>1, <1>2, GreatestExists
<1> QED BY <1>3, <1>4 DEF Lowest, Highest

(***************************************************************************)
(* The end of a block modulo the size of its file is the end itself, or 0  *)
(* at the end of the file.                                                 *)
(***************************************************************************)
LEMMA ModEnd ==
    ASSUME NEW S \in Nat \ {0}, NEW x \in 0 .. S
    PROVE  x % S = IF x = S THEN 0 ELSE x
OBVIOUS

LEMMA NextFile ==
    ASSUME NEW i \in Index
    PROVE  (i + 1) % N \in Index
BY FilesAssumption DEF Index

-----------------------------------------------------------------------------
(***************************************************************************)
(* Where the elements of a sequence go when one is added or removed.       *)
(***************************************************************************)
LEMMA AppendIndex ==
    ASSUME NEW S, NEW s \in Seq(S), NEW b \in S
    PROVE  LET t == Append(s, b) IN
           /\ t \in Seq(S)
           /\ DOMAIN t = 1 .. Len(s) + 1 /\ DOMAIN s = 1 .. Len(s)
           /\ t[Len(s) + 1] = b
           /\ \A k \in DOMAIN s : t[k] = s[k]
OBVIOUS

LEMMA PrependIndex ==
    ASSUME NEW S, NEW s \in Seq(S), NEW b \in S
    PROVE  LET t == <<b>> \o s IN
           /\ t \in Seq(S)
           /\ DOMAIN t = 1 .. Len(s) + 1 /\ DOMAIN s = 1 .. Len(s)
           /\ t[1] = b
           /\ \A k \in 2 .. Len(s) + 1 : t[k] = s[k - 1]
OBVIOUS

LEMMA TailIndex ==
    ASSUME NEW S, NEW s \in Seq(S), s # <<>>
    PROVE  LET t == Tail(s) IN
           /\ t \in Seq(S)
           /\ DOMAIN t = 1 .. Len(s) - 1 /\ DOMAIN s = 1 .. Len(s)
           /\ Len(s) \in Nat \ {0}
           /\ \A k \in DOMAIN t : t[k] = s[k + 1]
OBVIOUS

LEMMA FrontIndex ==
    ASSUME NEW S, NEW s \in Seq(S), s # <<>>
    PROVE  LET t == SubSeq(s, 1, Len(s) - 1) IN
           /\ t \in Seq(S)
           /\ DOMAIN t = 1 .. Len(s) - 1 /\ DOMAIN s = 1 .. Len(s)
           /\ Len(s) \in Nat \ {0}
           /\ \A k \in DOMAIN t : t[k] = s[k]
OBVIOUS

-----------------------------------------------------------------------------
(***************************************************************************)
(* What a push does, file and offset named: the space was there.           *)
(***************************************************************************)
LEMMA PushFront ==
    ASSUME NEW len \in BlockSizes, push_block_front(len)
    PROVE  \E i \in Index : /\ status = "running"
                            /\ FreeSpace(i) >= len
                            /\ next_file' = (i + 1) % N
                            /\ WriteFront(i, len)
BY DEF push_block_front, PushBlock, FileIndexForNewBlock, Fits

LEMMA PushBack ==
    ASSUME NEW len \in BlockSizes, push_block_back(len)
    PROVE  \E i \in Index : /\ status = "running"
                            /\ FreeSpace(i) >= len
                            /\ next_file' = (i + 1) % N
                            /\ WriteBack(i, len)
BY DEF push_block_back, PushBlock, FileIndexForNewBlock, Fits

(***************************************************************************)
(* The end of a block stays inside the file it was accepted for.           *)
(***************************************************************************)
LEMMA BackOffsetRange ==
    ASSUME FilesTypeOK, grown = {}, NEW i \in Index, NEW len \in BlockSizes,
           FreeSpace(i) >= len
    PROVE  /\ BackOffset(i, len) \in Nat
           /\ BackOffset(i, len) + len <= Size[i]
           /\ files[i].tail < len => files[i].head <= BackOffset(i, len)
<1>1. /\ files[i].tail \in Nat /\ files[i].head \in Nat
      /\ files[i].tail < Size[i] /\ files[i].head <= Size[i]
      /\ Size[i] \in Nat \ {0}
  BY FilesAssumption DEF FilesTypeOK
<1>2. len \in Nat \ {0}
  BY FilesAssumption
<1> QED BY <1>1, <1>2 DEF FreeSpace, BackOffset

LEMMA FrontOffsetRange ==
    ASSUME FilesTypeOK, NEW i \in Index, NEW len \in BlockSizes
    PROVE  FrontOffset(i, len) \in {0, files[i].head}
BY DEF FrontOffset

(***************************************************************************)
(* The parts of FilesTypeOK that most steps need.                               *)
(***************************************************************************)
LEMMA FileTypes ==
    ASSUME FilesTypeOK, NEW i \in Index
    PROVE  /\ files[i].tail \in Nat
           /\ files[i].head \in Nat
           /\ files[i].tail < Size[i]
           /\ i \notin grown => files[i].head <= Size[i]
           /\ Size[i] \in Nat \ {0}
BY FilesAssumption DEF FilesTypeOK

LEMMA BlockTypes ==
    ASSUME FilesTypeOK, NEW k \in DOMAIN stored
    PROVE  /\ stored[k] \in Block
           /\ stored[k].file \in Index
           /\ stored[k].offset \in Nat
           /\ stored[k].size \in Nat \ {0}
           /\ stored[k].offset + stored[k].size <= Size[stored[k].file]
<1>1. stored \in Seq(Block) BY DEF FilesTypeOK
<1>2. stored[k] \in Block BY <1>1
<1>3. stored[k].offset + stored[k].size <= Size[stored[k].file] BY DEF FilesTypeOK
<1> QED BY <1>2, <1>3 DEF Block

LEMMA StoredDomain ==
    ASSUME FilesTypeOK
    PROVE  /\ stored \in Seq(Block)
           /\ Len(stored) \in Nat
           /\ DOMAIN stored = 1 .. Len(stored)
<1>1. stored \in Seq(Block) BY DEF FilesTypeOK
<1> QED BY <1>1

(***************************************************************************)
(* What write_front and write_back leave behind, field by field.           *)
(***************************************************************************)
LEMMA WriteFrontEffect ==
    ASSUME FilesTypeOK, NEW i \in Index, NEW len \in BlockSizes,
           WriteFront(i, len)
    PROVE  LET offset == FrontOffset(i, len) IN
           /\ offset \in Nat /\ len \in Nat \ {0}
           /\ files' \in [Index -> [tail : Nat, head : Nat]]
           /\ files'[i].tail = files[i].tail
           /\ files'[i].head = offset + len
           /\ \A j \in Index \ {i} : files'[j] = files[j]
           /\ offset + len <= Size[i] =>
                 /\ stored' = Append(stored, [file |-> i, offset |-> offset, size |-> len])
                 /\ UNCHANGED <<status, grown>>
           /\ ~ (offset + len <= Size[i]) =>
                 /\ status' = "write overflow"
                 /\ grown' = grown \union {i}
                 /\ UNCHANGED stored
<1> DEFINE offset == FrontOffset(i, len)
<1>1. len \in Nat \ {0} /\ Size[i] \in Nat \ {0}
  BY FilesAssumption
<1>2. offset \in Nat
  BY FileTypes DEF FrontOffset
<1>3. files' = [files EXCEPT ![i].head = offset + len]
  BY DEF WriteFront
<1>4. files \in [Index -> [tail : Nat, head : Nat]]
  BY DEF FilesTypeOK
<1>5. /\ files' \in [Index -> [tail : Nat, head : Nat]]
      /\ files'[i].tail = files[i].tail
      /\ files'[i].head = offset + len
      /\ \A j \in Index \ {i} : files'[j] = files[j]
  <2> HIDE DEF offset
  <2> QED BY <1>1, <1>2, <1>3, <1>4
<1>6. ~ (offset + len <= Size[i]) <=> offset + len > Size[i]
  <2> HIDE DEF offset
  <2> QED BY <1>1, <1>2
<1>7. \/ /\ offset + len <= Size[i]
         /\ stored' = Append(stored, [file |-> i, offset |-> offset, size |-> len])
         /\ UNCHANGED <<status, grown>>
      \/ /\ offset + len > Size[i]
         /\ status' = "write overflow"
         /\ grown' = grown \union {i}
         /\ UNCHANGED stored
  BY Zenon DEF WriteFront
<1> HIDE DEF offset
<1>8. /\ offset + len <= Size[i] =>
            /\ stored' = Append(stored, [file |-> i, offset |-> offset, size |-> len])
            /\ UNCHANGED <<status, grown>>
      /\ ~ (offset + len <= Size[i]) =>
            /\ status' = "write overflow"
            /\ grown' = grown \union {i}
            /\ UNCHANGED stored
  BY <1>6, <1>7, Zenon
<1> QED BY <1>1, <1>2, <1>5, <1>8, Zenon DEF offset

LEMMA WriteBackEffect ==
    ASSUME FilesTypeOK, grown = {}, NEW i \in Index, NEW len \in BlockSizes,
           FreeSpace(i) >= len, WriteBack(i, len)
    PROVE  LET offset == BackOffset(i, len) IN
           /\ offset \in Nat /\ len \in Nat \ {0}
           /\ offset + len <= Size[i]
           /\ files' \in [Index -> [tail : Nat, head : Nat]]
           /\ files'[i].tail = offset
           /\ files'[i].head = files[i].head
           /\ \A j \in Index \ {i} : files'[j] = files[j]
           /\ stored' = <<[file |-> i, offset |-> offset, size |-> len]>> \o stored
           /\ UNCHANGED <<status, grown>>
<1> DEFINE offset == BackOffset(i, len)
<1>1. len \in Nat \ {0}
  BY FilesAssumption
<1>2. offset \in Nat /\ offset + len <= Size[i]
  BY BackOffsetRange
<1>3. files' = [files EXCEPT ![i].tail = offset]
  BY DEF WriteBack
<1>4. files \in [Index -> [tail : Nat, head : Nat]]
  BY DEF FilesTypeOK
<1>5. /\ files' \in [Index -> [tail : Nat, head : Nat]]
      /\ files'[i].tail = offset
      /\ files'[i].head = files[i].head
      /\ \A j \in Index \ {i} : files'[j] = files[j]
  <2> HIDE DEF offset
  <2> QED BY <1>1, <1>2, <1>3, <1>4
<1>6. /\ stored' = <<[file |-> i, offset |-> offset, size |-> len]>> \o stored
      /\ UNCHANGED <<status, grown>>
  BY DEF WriteBack
<1> HIDE DEF offset
<1> QED BY <1>1, <1>2, <1>5, <1>6, Zenon DEF offset

-----------------------------------------------------------------------------
(***************************************************************************)
(* FilesTypeOK, action by action.                                               *)
(***************************************************************************)
InFile(b) == b.offset + b.size <= Size[b.file]

LEMMA TypePushFront ==
    ASSUME FilesTypeOK, NEW len \in BlockSizes, push_block_front(len)
    PROVE  FilesTypeOK'
<1>1. PICK i \in Index : /\ status = "running"
                         /\ FreeSpace(i) >= len
                         /\ next_file' = (i + 1) % N
                         /\ WriteFront(i, len)
  BY PushFront
<1> DEFINE offset == FrontOffset(i, len)
           b == [file |-> i, offset |-> offset, size |-> len]
<1>2. grown = {}
  BY <1>1 DEF FilesTypeOK
<1>3. next_file' \in Index
  BY <1>1, NextFile
<1>4. met' \in SUBSET Index
  BY <1>1 DEF WriteFront, Meets, FilesTypeOK
<1>5. /\ offset \in Nat /\ len \in Nat \ {0}
      /\ files' \in [Index -> [tail : Nat, head : Nat]]
      /\ files'[i].tail = files[i].tail
      /\ files'[i].head = offset + len
      /\ \A j \in Index \ {i} : files'[j] = files[j]
      /\ offset + len <= Size[i] =>
            /\ stored' = Append(stored, b)
            /\ UNCHANGED <<status, grown>>
      /\ ~ (offset + len <= Size[i]) =>
            /\ status' = "write overflow"
            /\ grown' = grown \union {i}
            /\ UNCHANGED stored
  BY <1>1, WriteFrontEffect
<1>6. b \in Block /\ (InFile(b) <=> offset + len <= Size[i])
  <2> HIDE DEF offset
  <2> QED BY <1>5 DEF Block, InFile
<1> HIDE DEF b, offset
<1>7. \A j \in Index : /\ files'[j].tail < Size[j]
                       /\ files'[j].head <= Size[j] \/ j \in grown'
  BY <1>2, <1>5, FileTypes
<1>8. CASE offset + len <= Size[i]
  <2>1. stored' \in Seq(Block) /\ \A k \in DOMAIN stored' : InFile(stored'[k])
    <3>1. /\ stored' \in Seq(Block)
          /\ DOMAIN stored' = 1 .. Len(stored) + 1
          /\ stored'[Len(stored) + 1] = b
          /\ \A k \in DOMAIN stored : stored'[k] = stored[k]
      <4>1. stored' = Append(stored, b) BY <1>5, <1>8
      <4>2. stored \in Seq(Block) /\ b \in Block BY <1>6, StoredDomain
      <4> QED BY <4>1, <4>2, AppendIndex
    <3>2. \A k \in DOMAIN stored : InFile(stored[k])
      BY BlockTypes DEF InFile
    <3> QED BY <1>6, <1>8, <3>1, <3>2, StoredDomain
  <2> QED BY <1>2, <1>3, <1>4, <1>5, <1>7, <1>8, <2>1 DEF FilesTypeOK, InFile
<1>9. CASE ~ (offset + len <= Size[i])
  BY <1>3, <1>4, <1>5, <1>7, <1>9 DEF FilesTypeOK, Status
<1> QED BY <1>8, <1>9

LEMMA TypePushBack ==
    ASSUME FilesTypeOK, NEW len \in BlockSizes, push_block_back(len)
    PROVE  FilesTypeOK'
<1>1. PICK i \in Index : /\ status = "running"
                         /\ FreeSpace(i) >= len
                         /\ next_file' = (i + 1) % N
                         /\ WriteBack(i, len)
  BY PushBack
<1> DEFINE offset == BackOffset(i, len)
           b == [file |-> i, offset |-> offset, size |-> len]
<1>2. grown = {}
  BY <1>1 DEF FilesTypeOK
<1>3. next_file' \in Index
  BY <1>1, NextFile
<1>4. met' \in SUBSET Index
  BY <1>1 DEF WriteBack, Meets, FilesTypeOK
<1>5. /\ offset \in Nat /\ len \in Nat \ {0}
      /\ offset + len <= Size[i]
      /\ files' \in [Index -> [tail : Nat, head : Nat]]
      /\ files'[i].tail = offset
      /\ files'[i].head = files[i].head
      /\ \A j \in Index \ {i} : files'[j] = files[j]
      /\ stored' = <<b>> \o stored
      /\ UNCHANGED <<status, grown>>
  BY <1>1, <1>2, WriteBackEffect
<1>6. b \in Block /\ InFile(b)
  <2> HIDE DEF offset
  <2> QED BY <1>5 DEF Block, InFile
<1> HIDE DEF b, offset
<1>7. \A j \in Index : /\ files'[j].tail < Size[j]
                       /\ files'[j].head <= Size[j]
  <2>1. /\ files'[i].tail < Size[i]
        /\ files'[i].head <= Size[i]
    <3>1. /\ files[i].head <= Size[i]
          /\ Size[i] \in Nat
      BY <1>2, FileTypes
    <3> QED BY <3>1, <1>5
  <2>2. \A j \in Index \ {i} : /\ files'[j].tail < Size[j]
                              /\ files'[j].head <= Size[j]
    <3>1. \A j \in Index : /\ files[j].tail < Size[j]
                           /\ files[j].head <= Size[j]
      BY <1>2, FileTypes
    <3> QED BY <3>1, <1>5
  <2> QED BY <2>1, <2>2
<1>8. stored' \in Seq(Block) /\ \A k \in DOMAIN stored' : InFile(stored'[k])
  <2>1. /\ stored' \in Seq(Block)
        /\ DOMAIN stored' = 1 .. Len(stored) + 1
        /\ stored'[1] = b
        /\ \A k \in 2 .. Len(stored) + 1 : stored'[k] = stored[k - 1]
    BY <1>5, <1>6, PrependIndex, StoredDomain
  <2>2. \A k \in 2 .. Len(stored) + 1 : InFile(stored[k - 1])
    BY BlockTypes, StoredDomain DEF InFile
  <2> QED BY <1>6, <2>1, <2>2, StoredDomain
<1> QED BY <1>2, <1>3, <1>4, <1>5, <1>7, <1>8 DEF FilesTypeOK, InFile

(***************************************************************************)
(* What pop_block leaves behind: the block dropped and the one field of    *)
(* its file that moves.                                                    *)
(***************************************************************************)
LEMMA PopBackEffect ==
    ASSUME FilesTypeOK, pop_block_back
    PROVE  LET b == stored[1]
           IN  /\ 1 \in DOMAIN stored
               /\ files' \in [Index -> [tail : Nat, head : Nat]]
               /\ files'[b.file].tail = IF End(b) = Size[b.file] THEN 0 ELSE End(b)
               /\ files'[b.file].head = files[b.file].head
               /\ \A j \in Index \ {b.file} : files'[j] = files[j]
               /\ stored' \in Seq(Block)
               /\ DOMAIN stored' = 1 .. Len(stored) - 1
               /\ \A k \in DOMAIN stored' : stored'[k] = stored[k + 1]
<1> DEFINE b == stored[1]
<1>1. stored # <<>> /\ stored \in Seq(Block)
  BY StoredDomain DEF pop_block_back
<1>2. /\ stored' \in Seq(Block)
      /\ DOMAIN stored' = 1 .. Len(stored) - 1
      /\ \A k \in DOMAIN stored' : stored'[k] = stored[k + 1]
      /\ 1 \in DOMAIN stored
  BY <1>1, TailIndex DEF pop_block_back
<1>3. /\ b.file \in Index /\ b.offset \in Nat /\ b.size \in Nat \ {0}
      /\ b.offset + b.size <= Size[b.file]
  BY <1>2, BlockTypes
<1>4. files \in [Index -> [tail : Nat, head : Nat]]
  BY DEF FilesTypeOK
<1>5. files' = [files EXCEPT ![b.file].tail = (b.offset + b.size) % Size[b.file]]
  BY DEF pop_block_back
<1> HIDE DEF b
<1>6. Size[b.file] \in Nat \ {0}
  BY <1>3, FilesAssumption
<1>7. (b.offset + b.size) % Size[b.file] = IF End(b) = Size[b.file] THEN 0 ELSE End(b)
  <2>1. b.offset + b.size \in 0 .. Size[b.file] BY <1>3, <1>6
  <2> QED BY <2>1, <1>6, ModEnd DEF End
<1>8. (b.offset + b.size) % Size[b.file] \in Nat
  BY <1>3, <1>6
<1>9. /\ files' \in [Index -> [tail : Nat, head : Nat]]
      /\ files'[b.file].tail = (b.offset + b.size) % Size[b.file]
      /\ files'[b.file].head = files[b.file].head
      /\ \A j \in Index \ {b.file} : files'[j] = files[j]
  BY <1>3, <1>4, <1>5, <1>8
<1> QED BY <1>2, <1>7, <1>9, Zenon DEF b

LEMMA PopFrontEffect ==
    ASSUME FilesTypeOK, pop_block_front
    PROVE  LET b == stored[Len(stored)]
           IN  /\ Len(stored) \in DOMAIN stored
               /\ files' \in [Index -> [tail : Nat, head : Nat]]
               /\ files'[b.file].head = b.offset
               /\ files'[b.file].tail = files[b.file].tail
               /\ \A j \in Index \ {b.file} : files'[j] = files[j]
               /\ stored' \in Seq(Block)
               /\ DOMAIN stored' = 1 .. Len(stored) - 1
               /\ \A k \in DOMAIN stored' : stored'[k] = stored[k]
<1> DEFINE b == stored[Len(stored)]
<1>1. stored # <<>> /\ stored \in Seq(Block)
  BY StoredDomain DEF pop_block_front
<1>2. /\ stored' \in Seq(Block)
      /\ DOMAIN stored' = 1 .. Len(stored) - 1
      /\ \A k \in DOMAIN stored' : stored'[k] = stored[k]
      /\ Len(stored) \in DOMAIN stored
  BY <1>1, FrontIndex DEF pop_block_front
<1>3. b.file \in Index /\ b.offset \in Nat
  BY <1>2, BlockTypes
<1>4. files \in [Index -> [tail : Nat, head : Nat]]
  BY DEF FilesTypeOK
<1>5. files' = [files EXCEPT ![b.file].head = b.offset]
  BY DEF pop_block_front
<1> HIDE DEF b
<1>6. /\ files' \in [Index -> [tail : Nat, head : Nat]]
      /\ files'[b.file].head = b.offset
      /\ files'[b.file].tail = files[b.file].tail
      /\ \A j \in Index \ {b.file} : files'[j] = files[j]
  BY <1>3, <1>4, <1>5
<1> QED BY <1>2, <1>6, Zenon DEF b

LEMMA TypePopBack ==
    ASSUME FilesTypeOK, pop_block_back
    PROVE  FilesTypeOK'
<1> DEFINE b == stored[1]
<1>1. /\ 1 \in DOMAIN stored
      /\ files' \in [Index -> [tail : Nat, head : Nat]]
      /\ files'[b.file].tail = IF End(b) = Size[b.file] THEN 0 ELSE End(b)
      /\ files'[b.file].head = files[b.file].head
      /\ \A j \in Index \ {b.file} : files'[j] = files[j]
      /\ stored' \in Seq(Block)
      /\ DOMAIN stored' = 1 .. Len(stored) - 1
      /\ \A k \in DOMAIN stored' : stored'[k] = stored[k + 1]
  BY PopBackEffect
<1>2. /\ b.file \in Index /\ b.offset \in Nat /\ b.size \in Nat \ {0}
      /\ b.offset + b.size <= Size[b.file]
  BY <1>1, BlockTypes
<1>3. /\ UNCHANGED <<next_file, grown, met>>
      /\ status \in {"starting", "running"}
      /\ status' \in {status, "pop overflow"}
  BY DEF pop_block_back, PopStatus
<1> HIDE DEF b
<1>4. \A j \in Index : /\ files'[j].tail < Size[j]
                       /\ files'[j].head <= Size[j]
  <2>1. grown = {} BY <1>3 DEF FilesTypeOK
  <2> QED BY <1>1, <1>2, <2>1, FileTypes DEF End
<1>5. \A k \in DOMAIN stored' : InFile(stored'[k])
  <2>1. \A k \in DOMAIN stored' : k + 1 \in DOMAIN stored
    BY <1>1, StoredDomain
  <2> QED BY <1>1, <2>1, BlockTypes DEF InFile
<1> QED BY <1>1, <1>3, <1>4, <1>5 DEF FilesTypeOK, InFile, Status

LEMMA TypePopFront ==
    ASSUME FilesTypeOK, pop_block_front
    PROVE  FilesTypeOK'
<1> DEFINE b == stored[Len(stored)]
<1>1. /\ Len(stored) \in DOMAIN stored
      /\ files' \in [Index -> [tail : Nat, head : Nat]]
      /\ files'[b.file].head = b.offset
      /\ files'[b.file].tail = files[b.file].tail
      /\ \A j \in Index \ {b.file} : files'[j] = files[j]
      /\ stored' \in Seq(Block)
      /\ DOMAIN stored' = 1 .. Len(stored) - 1
      /\ \A k \in DOMAIN stored' : stored'[k] = stored[k]
  BY PopFrontEffect
<1>2. /\ b.file \in Index /\ b.offset \in Nat /\ b.size \in Nat \ {0}
      /\ b.offset + b.size <= Size[b.file]
  BY <1>1, BlockTypes
<1>3. /\ UNCHANGED <<next_file, grown, met>>
      /\ status = "starting"
      /\ status' \in {status, "pop overflow"}
  BY DEF pop_block_front, PopStatus
<1> HIDE DEF b
<1>4. \A j \in Index : /\ files'[j].tail < Size[j]
                       /\ files'[j].head <= Size[j]
  <2>1. grown = {} BY <1>3 DEF FilesTypeOK
  <2>2. files'[b.file].tail < Size[b.file] /\ files'[b.file].head <= Size[b.file]
    BY <1>1, <1>2, FileTypes
  <2>3. \A j \in Index \ {b.file} : files'[j].tail < Size[j] /\ files'[j].head <= Size[j]
    BY <1>1, <2>1, FileTypes
  <2> QED BY <2>2, <2>3
<1>5. \A k \in DOMAIN stored' : InFile(stored'[k])
  <2>1. \A k \in DOMAIN stored' : k \in DOMAIN stored
    BY <1>1, StoredDomain
  <2> QED BY <1>1, <2>1, BlockTypes DEF InFile
<1> QED BY <1>1, <1>3, <1>4, <1>5 DEF FilesTypeOK, InFile, Status

LEMMA BoundariesType ==
    ASSUME FilesTypeOK, NEW i \in Index
    PROVE  /\ Boundaries(i) \in [tail : Nat, head : Nat]
           /\ Boundaries(i).tail < Size[i]
           /\ Boundaries(i).head <= Size[i]
<1>1. CASE OnFile(i) = {}
  BY <1>1, FilesAssumption DEF Boundaries
<1>2. CASE OnFile(i) # {}
  <2> DEFINE min == stored[Lowest(OnFile(i))]
             max == stored[Highest(OnFile(i))]
  <2>1. /\ Lowest(OnFile(i)) \in DOMAIN stored /\ min.file = i
        /\ Highest(OnFile(i)) \in DOMAIN stored /\ max.file = i
    BY <1>2, LowestHighest DEF OnFile
  <2>2. Boundaries(i) = [tail |-> min.offset, head |-> max.offset + max.size]
    BY <1>2 DEF Boundaries
  <2>3. /\ min.offset \in Nat /\ min.size \in Nat \ {0}
        /\ min.offset + min.size <= Size[i]
        /\ max.offset \in Nat /\ max.size \in Nat \ {0}
        /\ max.offset + max.size <= Size[i]
    BY <2>1, BlockTypes
  <2> HIDE DEF min, max
  <2>4. Size[i] \in Nat BY FilesAssumption
  <2> QED BY <2>2, <2>3, <2>4
<1> QED BY <1>1, <1>2

LEMMA TypeOpen ==
    ASSUME FilesTypeOK, open
    PROVE  FilesTypeOK'
<1>1. UNCHANGED <<stored, grown, met>>
  BY DEF open
<1>2. CASE grown = {}
  <2>1. /\ files' = [i \in Index |-> Boundaries(i)]
        /\ next_file' = 0 /\ status' = "starting"
    BY <1>2 DEF open
  <2>2. files' \in [Index -> [tail : Nat, head : Nat]]
    BY <2>1, BoundariesType
  <2>3. \A i \in Index : files'[i].tail < Size[i] /\ files'[i].head <= Size[i]
    BY <2>1, BoundariesType
  <2>4. next_file' \in Index
    BY <2>1, FilesAssumption DEF Index
  <2> QED BY <1>1, <1>2, <2>1, <2>2, <2>3, <2>4 DEF FilesTypeOK, Status
<1>3. CASE grown # {}
  BY <1>1, <1>3 DEF open, FilesTypeOK, Status
<1> QED BY <1>2, <1>3

(***************************************************************************)
(* The type invariant: tail, head and every stored range stay inside their *)
(* file, and a file longer than configured only exists after the write     *)
(* check of write_front has fired.                                         *)
(***************************************************************************)
THEOREM FilesTypes == FilesSpec => []FilesTypeOK
<1>1. FilesInit => FilesTypeOK
  BY FilesAssumption DEF FilesInit, FilesTypeOK, Index, Status
<1>2. FilesTypeOK /\ [FilesNext]_filesvars => FilesTypeOK'
  <2> SUFFICES ASSUME FilesTypeOK, [FilesNext]_filesvars PROVE FilesTypeOK' OBVIOUS
  <2>1. CASE \E len \in BlockSizes : push_block_front(len)
    BY <2>1, TypePushFront
  <2>2. CASE \E len \in BlockSizes : push_block_back(len)
    BY <2>2, TypePushBack
  <2>3. CASE pop_block_back
    BY <2>3, TypePopBack
  <2>4. CASE pop_block_front
    BY <2>4, TypePopFront
  <2>5. CASE begin
    BY <2>5 DEF begin, FilesTypeOK, Status
  <2>6. CASE open
    BY <2>6, TypeOpen
  <2>7. CASE UNCHANGED filesvars
    BY <2>7 DEF filesvars, FilesTypeOK
  <2> QED BY <2>1, <2>2, <2>3, <2>4, <2>5, <2>6, <2>7 DEF FilesNext
<1> QED BY <1>1, <1>2, PTL DEF FilesSpec

-----------------------------------------------------------------------------
(***************************************************************************)
(* The geometry of one file, apart from the state machine: how Within and  *)
(* InOrder survive each way of moving tail or head.  t, h and S stand for  *)
(* the tail, the head and the size of the file.                            *)
(***************************************************************************)
Ring(t, h, S) == t \in Nat /\ h \in Nat /\ S \in Nat \ {0} /\ t < S /\ h <= S

IsBlock(b, S) == b.offset \in Nat /\ b.size \in Nat \ {0} /\ b.offset + b.size <= S

LEMMA GeometryFront ==
    ASSUME NEW t, NEW h, NEW S, Ring(t, h, S), NEW o, NEW len \in Nat \ {0},
           IF h < t THEN t - h >= len ELSE t >= len \/ S - h >= len,
           o = (IF h > t /\ S - h < len THEN 0 ELSE h),
           o + len <= S, o + len # t, NEW n, IsBlock(n, S), n.offset = o, n.size = len
    PROVE  /\ Within(t, o + len, n)
           /\ \A a : IsBlock(a, S) /\ Within(t, h, a) =>
                 /\ Within(t, o + len, a)
                 /\ InOrder(t, o + len, a, n)
           /\ \A a, b : /\ IsBlock(a, S) /\ Within(t, h, a)
                        /\ IsBlock(b, S) /\ Within(t, h, b)
                        /\ InOrder(t, h, a, b)
                       => InOrder(t, o + len, a, b)
BY DEF Ring, IsBlock, Within, InOrder, End

LEMMA GeometryBack ==
    ASSUME NEW t, NEW h, NEW S, Ring(t, h, S), NEW o, NEW len \in Nat \ {0},
           IF h < t THEN t - h >= len ELSE t >= len \/ S - h >= len,
           o = (IF t >= len THEN t - len ELSE S - len),
           o # h, NEW n, IsBlock(n, S), n.offset = o, n.size = len
    PROVE  /\ Within(o, h, n)
           /\ \A a : IsBlock(a, S) /\ Within(t, h, a) =>
                 /\ Within(o, h, a)
                 /\ InOrder(o, h, n, a)
           /\ \A a, b : /\ IsBlock(a, S) /\ Within(t, h, a)
                        /\ IsBlock(b, S) /\ Within(t, h, b)
                        /\ InOrder(t, h, a, b)
                       => InOrder(o, h, a, b)
BY DEF Ring, IsBlock, Within, InOrder, End

LEMMA GeometryPopBack ==
    ASSUME NEW t, NEW h, NEW S, Ring(t, h, S),
           NEW n, IsBlock(n, S), Within(t, h, n), NEW u,
           u = IF End(n) = S THEN 0 ELSE End(n)
    PROVE  /\ \A a : IsBlock(a, S) /\ Within(t, h, a) /\ InOrder(t, h, n, a)
                    => Within(u, h, a)
           /\ \A a, b : /\ IsBlock(a, S) /\ Within(t, h, a) /\ InOrder(t, h, n, a)
                        /\ IsBlock(b, S) /\ Within(t, h, b) /\ InOrder(t, h, n, b)
                        /\ InOrder(t, h, a, b)
                       => InOrder(u, h, a, b)
BY DEF Ring, IsBlock, Within, InOrder, End

LEMMA GeometryPopFront ==
    ASSUME NEW t, NEW h, NEW S, Ring(t, h, S),
           NEW n, IsBlock(n, S), Within(t, h, n)
    PROVE  /\ \A a : IsBlock(a, S) /\ Within(t, h, a) /\ InOrder(t, h, a, n)
                    => Within(t, n.offset, a)
           /\ \A a, b : /\ IsBlock(a, S) /\ Within(t, h, a) /\ InOrder(t, h, a, n)
                        /\ IsBlock(b, S) /\ Within(t, h, b) /\ InOrder(t, h, b, n)
                        /\ InOrder(t, h, a, b)
                       => InOrder(t, n.offset, a, b)
BY DEF Ring, IsBlock, Within, InOrder, End

LEMMA GeometryOpen ==
    ASSUME NEW t, NEW h, NEW S, Ring(t, h, S),
           NEW m, IsBlock(m, S), Within(t, h, m),
           NEW n, IsBlock(n, S), Within(t, h, n),
           m = n \/ InOrder(t, h, m, n)
    PROVE  /\ \A a : /\ IsBlock(a, S) /\ Within(t, h, a)
                     /\ a = m \/ InOrder(t, h, m, a)
                     /\ a = n \/ InOrder(t, h, a, n)
                    => Within(m.offset, End(n), a)
           /\ \A a, b : /\ IsBlock(a, S) /\ Within(t, h, a)
                        /\ a = m \/ InOrder(t, h, m, a)
                        /\ InOrder(t, h, a, n)
                        /\ IsBlock(b, S) /\ Within(t, h, b)
                        /\ InOrder(t, h, m, b)
                        /\ b = n \/ InOrder(t, h, b, n)
                        /\ InOrder(t, h, a, b)
                       => InOrder(m.offset, End(n), a, b)
BY DEF Ring, IsBlock, Within, InOrder, End

-----------------------------------------------------------------------------
(***************************************************************************)
(* Layout, action by action.  First what LayoutOf says of a file in the    *)
(* terms of the geometry.                                                  *)
(***************************************************************************)
LEMMA RingOf ==
    ASSUME FilesTypeOK, NEW i \in Index, i \notin grown
    PROVE  Ring(files[i].tail, files[i].head, Size[i])
BY FileTypes DEF Ring

LEMMA BlockOf ==
    ASSUME FilesTypeOK, NEW i \in Index, NEW k \in OnFile(i)
    PROVE  IsBlock(stored[k], Size[i]) /\ k \in Nat
<1>1. k \in DOMAIN stored /\ stored[k].file = i
  BY DEF OnFile
<1> QED BY <1>1, BlockTypes, StoredDomain DEF IsBlock

(***************************************************************************)
(* A file the step does not touch keeps its layout: its blocks only move   *)
(* together in the slot index.                                             *)
(***************************************************************************)
LEMMA LayoutMoved ==
    ASSUME FilesTypeOK, NEW i \in Index, LayoutOf(i), files'[i] = files[i],
           NEW d \in Int,
           \A k \in OnFile(i)' : /\ k \in Int /\ k + d \in OnFile(i)
                                 /\ stored'[k] = stored[k + d]
    PROVE  LayoutOf(i)'
<1> DEFINE tail == files[i].tail
           head == files[i].head
<1>1. \A k \in OnFile(i)' : Within(tail, head, stored'[k])
  BY DEF LayoutOf
<1>2. ASSUME NEW j \in OnFile(i)', NEW k \in OnFile(i)', j < k
      PROVE  InOrder(tail, head, stored'[j], stored'[k])
  <2>1. j + d < k + d BY <1>2
  <2> QED BY <2>1 DEF LayoutOf
<1> QED BY <1>1, <1>2, Zenon DEF LayoutOf, Within, InOrder, End

LEMMA LayoutPushFront ==
    ASSUME FilesTypeOK, Layout, NEW len \in BlockSizes, push_block_front(len)
    PROVE  Layout'
<1>1. PICK f \in Index : /\ status = "running"
                         /\ FreeSpace(f) >= len
                         /\ next_file' = (f + 1) % N
                         /\ WriteFront(f, len)
  BY PushFront
<1> DEFINE o == FrontOffset(f, len)
           b == [file |-> f, offset |-> o, size |-> len]
<1>2. /\ o \in Nat /\ len \in Nat \ {0}
      /\ files' \in [Index -> [tail : Nat, head : Nat]]
      /\ files'[f].tail = files[f].tail
      /\ files'[f].head = o + len
      /\ \A j \in Index \ {f} : files'[j] = files[j]
      /\ o + len <= Size[f] =>
            /\ stored' = Append(stored, b)
            /\ UNCHANGED <<status, grown>>
      /\ ~ (o + len <= Size[f]) =>
            /\ status' = "write overflow"
            /\ grown' = grown \union {f}
            /\ UNCHANGED stored
  BY <1>1, WriteFrontEffect
<1>3. /\ grown = {} /\ met \subseteq met' /\ grown \subseteq grown'
      /\ f \notin met' => files[f].tail # o + len
  BY <1>1, <1>2 DEF FilesTypeOK, WriteFront, Meets
<1>4. b.file = f /\ b.offset = o /\ b.size = len /\ b \in Block
  <2> HIDE DEF o
  <2> QED BY <1>2 DEF Block
<1>5. o = IF files[f].head > files[f].tail /\ Size[f] - files[f].head < len
          THEN 0 ELSE files[f].head
  BY DEF FrontOffset
<1> HIDE DEF b, o
<1> SUFFICES ASSUME NEW i \in Index \ (met' \union grown') PROVE LayoutOf(i)'
  BY DEF Layout
<1>6. LayoutOf(i)
  BY <1>3 DEF Layout
<1>7. CASE ~ (o + len <= Size[f])
  <2>1. stored' = stored /\ files'[i] = files[i]
    BY <1>2, <1>7
  <2> QED BY <1>6, <2>1, Zenon DEF LayoutOf, OnFile, Within, InOrder, End
<1>8. CASE o + len <= Size[f]
  <2>1. /\ DOMAIN stored' = 1 .. Len(stored) + 1
        /\ stored'[Len(stored) + 1] = b
        /\ \A k \in DOMAIN stored : stored'[k] = stored[k]
        /\ DOMAIN stored = 1 .. Len(stored) /\ Len(stored) \in Nat
    <3>1. stored' = Append(stored, b) BY <1>2, <1>8
    <3> QED BY <1>4, <3>1, AppendIndex, StoredDomain
  <2>2. \A k \in OnFile(i)' :
           \/ k \in OnFile(i) /\ stored'[k] = stored[k] /\ k <= Len(stored)
           \/ k = Len(stored) + 1 /\ stored'[k] = b /\ i = f
    BY <1>4, <2>1 DEF OnFile
  <2>3. CASE i # f
    <3>1. \A k \in OnFile(i)' : /\ k \in Int /\ k + 0 \in OnFile(i)
                                /\ stored'[k] = stored[k + 0]
      BY <2>1, <2>2, <2>3, BlockOf
    <3>2. files'[i] = files[i]
      BY <1>2, <2>3, Zenon
    <3>3. 0 \in Int OBVIOUS
    <3> QED BY <1>6, <3>1, <3>2, <3>3, LayoutMoved, Zenon
  <2>4. CASE i = f
    <3> DEFINE t == files[i].tail
               h == files[i].head
               g == o + len
    <3>1. /\ IF h < t THEN t - h >= len ELSE t >= len \/ Size[i] - h >= len
          /\ o = IF h > t /\ Size[i] - h < len THEN 0 ELSE h
          /\ g # t /\ Ring(t, h, Size[i]) /\ g <= Size[i]
      BY <1>1, <1>2, <1>3, <1>5, <1>8, <2>4, RingOf, FileTypes DEF FreeSpace
    <3>2. IsBlock(b, Size[i])
      BY <1>2, <1>4, <1>8, <2>4 DEF IsBlock
    <3>3. /\ Within(t, g, b)
          /\ \A a : IsBlock(a, Size[i]) /\ Within(t, h, a) =>
                Within(t, g, a) /\ InOrder(t, g, a, b)
          /\ \A a, c : /\ IsBlock(a, Size[i]) /\ Within(t, h, a)
                       /\ IsBlock(c, Size[i]) /\ Within(t, h, c)
                       /\ InOrder(t, h, a, c)
                       => InOrder(t, g, a, c)
      BY <1>2, <1>4, <3>1, <3>2, GeometryFront
    <3> HIDE DEF g
    <3>4. \A k \in OnFile(i) : IsBlock(stored[k], Size[i]) /\ Within(t, h, stored[k])
      BY <1>6, BlockOf DEF LayoutOf
    <3>5. \A k \in OnFile(i)' : Within(t, g, stored'[k])
      BY <2>2, <3>3, <3>4
    <3>6. ASSUME NEW j \in OnFile(i)', NEW k \in OnFile(i)', j < k
          PROVE  InOrder(t, g, stored'[j], stored'[k])
      <4>1. j \in OnFile(i) /\ stored'[j] = stored[j]
        BY <2>1, <2>2, <3>6 DEF OnFile
      <4>2. CASE k \in OnFile(i) /\ stored'[k] = stored[k]
        BY <1>6, <3>3, <3>4, <3>6, <4>1, <4>2 DEF LayoutOf
      <4>3. CASE stored'[k] = b
        BY <3>3, <3>4, <4>1, <4>3
      <4> QED BY <2>2, <4>2, <4>3
    <3>7. files'[i].tail = t /\ files'[i].head = g
      BY <1>2, <2>4 DEF g
    <3> QED BY <3>5, <3>6, <3>7 DEF LayoutOf, Within, InOrder, End
  <2> QED BY <2>3, <2>4
<1> QED BY <1>7, <1>8

LEMMA LayoutPushBack ==
    ASSUME FilesTypeOK, Layout, NEW len \in BlockSizes, push_block_back(len)
    PROVE  Layout'
<1>1. PICK f \in Index : /\ status = "running"
                         /\ FreeSpace(f) >= len
                         /\ next_file' = (f + 1) % N
                         /\ WriteBack(f, len)
  BY PushBack
<1> DEFINE o == BackOffset(f, len)
           b == [file |-> f, offset |-> o, size |-> len]
<1>2. grown = {}
  BY <1>1 DEF FilesTypeOK
<1>3. /\ o \in Nat /\ len \in Nat \ {0} /\ o + len <= Size[f]
      /\ files'[f].tail = o
      /\ files'[f].head = files[f].head
      /\ \A j \in Index \ {f} : files'[j] = files[j]
      /\ stored' = <<b>> \o stored
      /\ UNCHANGED <<status, grown>>
  BY <1>1, <1>2, WriteBackEffect
<1>4. met \subseteq met' /\ (f \notin met' => o # files[f].head)
  BY <1>1 DEF WriteBack, Meets
<1>5. b.file = f /\ b.offset = o /\ b.size = len /\ b \in Block
  <2> HIDE DEF o
  <2> QED BY <1>3 DEF Block
<1>6. o = IF files[f].tail >= len THEN files[f].tail - len ELSE Size[f] - len
  BY DEF BackOffset
<1> HIDE DEF b, o
<1> SUFFICES ASSUME NEW i \in Index \ (met' \union grown') PROVE LayoutOf(i)'
  BY DEF Layout
<1>7. LayoutOf(i)
  BY <1>3, <1>4 DEF Layout
<1>8. /\ DOMAIN stored' = 1 .. Len(stored) + 1
      /\ stored'[1] = b
      /\ \A k \in 2 .. Len(stored) + 1 : stored'[k] = stored[k - 1]
      /\ DOMAIN stored = 1 .. Len(stored) /\ Len(stored) \in Nat
  BY <1>3, <1>5, PrependIndex, StoredDomain
<1>9. \A k \in OnFile(i)' :
         \/ k - 1 \in OnFile(i) /\ stored'[k] = stored[k - 1] /\ k >= 2
         \/ k = 1 /\ stored'[k] = b /\ i = f
  BY <1>5, <1>8 DEF OnFile
<1>10. \A k \in OnFile(i)' : k \in Int
  BY <1>8 DEF OnFile
<1>11. CASE i # f
  <2>1. \A k \in OnFile(i)' : /\ k \in Int /\ k + (-1) \in OnFile(i)
                              /\ stored'[k] = stored[k + (-1)]
    BY <1>9, <1>10, <1>11
  <2>2. files'[i] = files[i] /\ -1 \in Int
    BY <1>3, <1>11
  <2> QED BY <1>7, <2>1, <2>2, LayoutMoved, Zenon
<1>12. CASE i = f
  <2> DEFINE t == files[i].tail
             h == files[i].head
  <2>1. /\ IF h < t THEN t - h >= len ELSE t >= len \/ Size[i] - h >= len
        /\ o = IF t >= len THEN t - len ELSE Size[i] - len
        /\ o # h /\ Ring(t, h, Size[i])
    BY <1>1, <1>2, <1>3, <1>4, <1>6, <1>12, RingOf, FileTypes DEF FreeSpace
  <2>2. IsBlock(b, Size[i])
    BY <1>3, <1>5, <1>12 DEF IsBlock
  <2>3. /\ Within(o, h, b)
        /\ \A a : IsBlock(a, Size[i]) /\ Within(t, h, a) =>
              Within(o, h, a) /\ InOrder(o, h, b, a)
        /\ \A a, c : /\ IsBlock(a, Size[i]) /\ Within(t, h, a)
                     /\ IsBlock(c, Size[i]) /\ Within(t, h, c)
                     /\ InOrder(t, h, a, c)
                     => InOrder(o, h, a, c)
    BY <1>3, <1>5, <2>1, <2>2, GeometryBack
  <2>4. \A k \in OnFile(i) : IsBlock(stored[k], Size[i]) /\ Within(t, h, stored[k])
    BY <1>7, BlockOf DEF LayoutOf
  <2>5. \A k \in OnFile(i)' : Within(o, h, stored'[k])
    BY <1>9, <2>3, <2>4
  <2>6. ASSUME NEW j \in OnFile(i)', NEW k \in OnFile(i)', j < k
        PROVE  InOrder(o, h, stored'[j], stored'[k])
    <3>1. k - 1 \in OnFile(i) /\ stored'[k] = stored[k - 1]
      BY <1>8, <1>9, <2>6 DEF OnFile
    <3>2. CASE j - 1 \in OnFile(i) /\ stored'[j] = stored[j - 1]
      <4>1. j - 1 < k - 1 BY <1>10, <2>6
      <4> QED BY <1>7, <2>3, <2>4, <3>1, <3>2, <4>1 DEF LayoutOf
    <3>3. CASE stored'[j] = b
      BY <2>3, <2>4, <3>1, <3>3
    <3> QED BY <1>9, <3>2, <3>3
  <2>7. files'[i].tail = o /\ files'[i].head = h
    BY <1>3, <1>12
  <2> QED BY <2>5, <2>6, <2>7 DEF LayoutOf, Within, InOrder, End
<1> QED BY <1>11, <1>12

LEMMA LayoutPopBack ==
    ASSUME FilesTypeOK, Layout, pop_block_back
    PROVE  Layout'
<1> DEFINE b == stored[1]
           f == b.file
<1>1. /\ 1 \in DOMAIN stored
      /\ files'[f].tail = IF End(b) = Size[f] THEN 0 ELSE End(b)
      /\ files'[f].head = files[f].head
      /\ \A j \in Index \ {f} : files'[j] = files[j]
      /\ DOMAIN stored' = 1 .. Len(stored) - 1
      /\ \A k \in DOMAIN stored' : stored'[k] = stored[k + 1]
  BY PopBackEffect
<1>2. UNCHANGED <<grown, met>>
  BY DEF pop_block_back
<1> SUFFICES ASSUME NEW i \in Index \ (met \union grown) PROVE LayoutOf(i)'
  BY <1>2 DEF Layout
<1>3. LayoutOf(i)
  BY DEF Layout
<1>4. \A k \in OnFile(i)' : /\ k \in Int /\ k + 1 \in OnFile(i) /\ k >= 1
                            /\ stored'[k] = stored[k + 1]
  BY <1>1, StoredDomain DEF OnFile
<1>5. CASE i # f
  <2>1. files'[i] = files[i] /\ 1 \in Int
    BY <1>1, <1>5
  <2>2. \A k \in OnFile(i)' : /\ k \in Int /\ k + 1 \in OnFile(i)
                              /\ stored'[k] = stored[k + 1]
    BY <1>4
  <2> QED BY <1>3, <2>1, <2>2, LayoutMoved, Zenon
<1>6. CASE i = f
  <2> DEFINE t == files[i].tail
             h == files[i].head
             u == IF End(b) = Size[i] THEN 0 ELSE End(b)
  <2>1. 1 \in OnFile(i)
    BY <1>1, <1>6 DEF OnFile
  <2>2. \A k \in OnFile(i) : IsBlock(stored[k], Size[i]) /\ Within(t, h, stored[k])
    BY <1>3, BlockOf DEF LayoutOf
  <2>3. \A k \in OnFile(i)' : InOrder(t, h, b, stored[k + 1])
    <3>1. \A k \in OnFile(i)' : 1 < k + 1 BY <1>4
    <3> QED BY <1>3, <1>4, <2>1, <3>1 DEF LayoutOf
  <2>4. Ring(t, h, Size[i]) /\ IsBlock(b, Size[i]) /\ Within(t, h, b)
    BY <2>1, <2>2, RingOf
  <2> HIDE DEF b
  <2>5. /\ \A a : /\ IsBlock(a, Size[i]) /\ Within(t, h, a) /\ InOrder(t, h, b, a)
                  => Within(u, h, a)
        /\ \A a, c : /\ IsBlock(a, Size[i]) /\ Within(t, h, a) /\ InOrder(t, h, b, a)
                     /\ IsBlock(c, Size[i]) /\ Within(t, h, c) /\ InOrder(t, h, b, c)
                     /\ InOrder(t, h, a, c)
                     => InOrder(u, h, a, c)
    BY <2>4, GeometryPopBack
  <2>6. files'[i].tail = u /\ files'[i].head = h
    BY <1>1, <1>6 DEF b
  <2> HIDE DEF u
  <2>7. \A k \in OnFile(i)' : Within(u, h, stored'[k])
    BY <1>4, <2>2, <2>3, <2>5
  <2>8. ASSUME NEW j \in OnFile(i)', NEW k \in OnFile(i)', j < k
        PROVE  InOrder(u, h, stored'[j], stored'[k])
    <3>1. j + 1 < k + 1 BY <1>4, <2>8
    <3>2. InOrder(t, h, stored[j + 1], stored[k + 1])
      BY <1>3, <1>4, <3>1 DEF LayoutOf
    <3> QED BY <1>4, <2>2, <2>3, <2>5, <3>2
  <2> QED BY <2>6, <2>7, <2>8 DEF LayoutOf, Within, InOrder, End
<1> QED BY <1>5, <1>6

LEMMA LayoutPopFront ==
    ASSUME FilesTypeOK, Layout, pop_block_front
    PROVE  Layout'
<1> DEFINE last == Len(stored)
           b == stored[last]
           f == b.file
<1>1. /\ last \in DOMAIN stored
      /\ files'[f].head = b.offset
      /\ files'[f].tail = files[f].tail
      /\ \A j \in Index \ {f} : files'[j] = files[j]
      /\ DOMAIN stored' = 1 .. last - 1
      /\ \A k \in DOMAIN stored' : stored'[k] = stored[k]
  BY PopFrontEffect
<1>2. UNCHANGED <<grown, met>>
  BY DEF pop_block_front
<1> SUFFICES ASSUME NEW i \in Index \ (met \union grown) PROVE LayoutOf(i)'
  BY <1>2 DEF Layout
<1>3. LayoutOf(i)
  BY DEF Layout
<1>4. \A k \in OnFile(i)' : /\ k \in OnFile(i) /\ k \in Int /\ k < last
                            /\ stored'[k] = stored[k]
  BY <1>1, StoredDomain DEF OnFile
<1>5. CASE i # f
  <2>1. files'[i] = files[i]
    BY <1>1, <1>5
  <2>2. \A k \in OnFile(i)' : /\ k \in Int /\ k + 0 \in OnFile(i)
                              /\ stored'[k] = stored[k + 0]
    BY <1>4
  <2>3. 0 \in Int OBVIOUS
  <2> QED BY <1>3, <2>1, <2>2, <2>3, LayoutMoved, Zenon
<1>6. CASE i = f
  <2> DEFINE t == files[i].tail
             h == files[i].head
  <2>1. last \in OnFile(i)
    BY <1>1, <1>6 DEF OnFile
  <2>2. \A k \in OnFile(i) : IsBlock(stored[k], Size[i]) /\ Within(t, h, stored[k])
    BY <1>3, BlockOf DEF LayoutOf
  <2>3. \A k \in OnFile(i)' : InOrder(t, h, stored[k], b)
    BY <1>3, <1>4, <2>1 DEF LayoutOf
  <2>4. Ring(t, h, Size[i]) /\ IsBlock(b, Size[i]) /\ Within(t, h, b)
    BY <2>1, <2>2, RingOf
  <2> HIDE DEF b
  <2>5. /\ \A a : /\ IsBlock(a, Size[i]) /\ Within(t, h, a) /\ InOrder(t, h, a, b)
                  => Within(t, b.offset, a)
        /\ \A a, c : /\ IsBlock(a, Size[i]) /\ Within(t, h, a) /\ InOrder(t, h, a, b)
                     /\ IsBlock(c, Size[i]) /\ Within(t, h, c) /\ InOrder(t, h, c, b)
                     /\ InOrder(t, h, a, c)
                     => InOrder(t, b.offset, a, c)
    BY <2>4, GeometryPopFront
  <2>6. files'[i].tail = t /\ files'[i].head = b.offset
    BY <1>1, <1>6 DEF b
  <2>7. \A k \in OnFile(i)' : Within(t, b.offset, stored'[k])
    BY <1>4, <2>2, <2>3, <2>5
  <2>8. ASSUME NEW j \in OnFile(i)', NEW k \in OnFile(i)', j < k
        PROVE  InOrder(t, b.offset, stored'[j], stored'[k])
    <3>1. InOrder(t, h, stored[j], stored[k])
      BY <1>3, <1>4, <2>8 DEF LayoutOf
    <3> QED BY <1>4, <2>2, <2>3, <2>5, <3>1
  <2> QED BY <2>6, <2>7, <2>8 DEF LayoutOf, Within, InOrder, End
<1> QED BY <1>5, <1>6

LEMMA LayoutOpen ==
    ASSUME FilesTypeOK, Layout, open
    PROVE  Layout'
<1>1. UNCHANGED <<stored, grown, met>>
  BY DEF open
<1> SUFFICES ASSUME NEW i \in Index \ (met \union grown) PROVE LayoutOf(i)'
  BY <1>1 DEF Layout
<1>2. LayoutOf(i)
  BY DEF Layout
<1>3. OnFile(i)' = OnFile(i)
  BY <1>1 DEF OnFile
<1>4. CASE grown # {}
  <2>1. files' = files BY <1>4 DEF open
  <2> QED BY <1>1, <1>2, <2>1, Zenon DEF LayoutOf, OnFile, Within, InOrder, End
<1>5. CASE OnFile(i) = {}
  BY <1>3, <1>5 DEF LayoutOf
<1>6. CASE grown = {} /\ OnFile(i) # {}
  <2> DEFINE lo == Lowest(OnFile(i))
             hi == Highest(OnFile(i))
             m == stored[lo]
             n == stored[hi]
             t == files[i].tail
             h == files[i].head
  <2>1. /\ lo \in OnFile(i) /\ \A k \in OnFile(i) : lo <= k
        /\ hi \in OnFile(i) /\ \A k \in OnFile(i) : k <= hi
    BY <1>6, LowestHighest
  <2>2. files'[i].tail = m.offset /\ files'[i].head = End(n)
    <3>1. files'[i] = Boundaries(i) BY <1>6 DEF open
    <3>2. Boundaries(i) = [tail |-> m.offset, head |-> n.offset + n.size]
      BY <1>6 DEF Boundaries
    <3> QED BY <3>1, <3>2 DEF End
  <2> HIDE DEF lo, hi
  <2>3. \A k \in OnFile(i) : /\ IsBlock(stored[k], Size[i])
                             /\ Within(t, h, stored[k]) /\ k \in Nat
    BY <1>2, BlockOf DEF LayoutOf
  <2>4. \A k \in OnFile(i) : /\ k = lo \/ InOrder(t, h, m, stored[k])
                             /\ k = hi \/ InOrder(t, h, stored[k], n)
    <3>1. \A k \in OnFile(i) : /\ k = lo \/ lo < k
                               /\ k = hi \/ k < hi
      BY <2>1, <2>3
    <3> QED BY <1>2, <2>1, <3>1 DEF LayoutOf
  <2>5. Ring(t, h, Size[i])
    BY RingOf
  <2>6. /\ IsBlock(m, Size[i]) /\ Within(t, h, m)
        /\ IsBlock(n, Size[i]) /\ Within(t, h, n)
        /\ m = n \/ InOrder(t, h, m, n)
    BY <2>1, <2>3, <2>4
  <2> HIDE DEF m, n
  <2>7. \A k \in OnFile(i) : Within(m.offset, End(n), stored[k])
    <3> SUFFICES ASSUME NEW k \in OnFile(i) PROVE Within(m.offset, End(n), stored[k])
      OBVIOUS
    <3>1. /\ stored[k] = m \/ InOrder(t, h, m, stored[k])
          /\ stored[k] = n \/ InOrder(t, h, stored[k], n)
      BY <2>4 DEF m, n
    <3> QED BY <2>3, <2>5, <2>6, <3>1, GeometryOpen
  <2>8. ASSUME NEW j \in OnFile(i), NEW k \in OnFile(i), j < k
        PROVE  InOrder(m.offset, End(n), stored[j], stored[k])
    <3>1. j # hi /\ k # lo
      BY <2>1, <2>3, <2>8
    <3>2. /\ stored[j] = m \/ InOrder(t, h, m, stored[j])
          /\ InOrder(t, h, stored[j], n)
          /\ InOrder(t, h, m, stored[k])
          /\ stored[k] = n \/ InOrder(t, h, stored[k], n)
      BY <2>4, <3>1 DEF m, n
    <3>3. InOrder(t, h, stored[j], stored[k])
      BY <1>2, <2>8 DEF LayoutOf
    <3> QED BY <2>3, <2>5, <2>6, <3>2, <3>3, GeometryOpen
  <2> QED BY <1>1, <1>3, <2>2, <2>7, <2>8 DEF LayoutOf, Within, InOrder, End
<1> QED BY <1>4, <1>5, <1>6

LEMMA LayoutUnchanged ==
    ASSUME Layout, UNCHANGED <<files, stored, grown, met>>
    PROVE  Layout'
<1> SUFFICES ASSUME NEW i \in Index \ (met \union grown) PROVE LayoutOf(i)'
  BY DEF Layout
<1>1. LayoutOf(i) BY DEF Layout
<1> QED BY <1>1, Zenon DEF LayoutOf, OnFile, Within, InOrder, End

(***************************************************************************)
(* The layout invariant of the files: every file that was never filled to  *)
(* its last byte holds its blocks in slot order between tail and head,     *)
(* through any sequence of pushes on both sides, prunings and restarts.    *)
(***************************************************************************)
THEOREM LayoutCorrect == FilesSpec => []Layout
<1>1. FilesInit => Layout
  BY DEF FilesInit, Layout, LayoutOf, OnFile
<1>2. FilesTypeOK /\ Layout /\ [FilesNext]_filesvars => Layout'
  <2> SUFFICES ASSUME FilesTypeOK, Layout, [FilesNext]_filesvars PROVE Layout' OBVIOUS
  <2>1. CASE \E len \in BlockSizes : push_block_front(len)
    BY <2>1, LayoutPushFront
  <2>2. CASE \E len \in BlockSizes : push_block_back(len)
    BY <2>2, LayoutPushBack
  <2>3. CASE pop_block_back
    BY <2>3, LayoutPopBack
  <2>4. CASE pop_block_front
    BY <2>4, LayoutPopFront
  <2>5. CASE begin
    BY <2>5, LayoutUnchanged DEF begin
  <2>6. CASE open
    BY <2>6, LayoutOpen
  <2>7. CASE UNCHANGED filesvars
    BY <2>7, LayoutUnchanged DEF filesvars
  <2> QED BY <2>1, <2>2, <2>3, <2>4, <2>5, <2>6, <2>7 DEF FilesNext
<1> QED BY <1>1, <1>2, FilesTypes, PTL DEF FilesSpec

-----------------------------------------------------------------------------
(***************************************************************************)
(* Two ranges in slot order between tail and head do not overlap.          *)
(***************************************************************************)
LEMMA GeometryDisjoint ==
    ASSUME NEW t, NEW h, NEW S, Ring(t, h, S),
           NEW a, IsBlock(a, S), NEW b, IsBlock(b, S), InOrder(t, h, a, b)
    PROVE  Disjoint(a, b)
BY DEF Ring, IsBlock, InOrder, Disjoint, End

LEMMA LayoutDisjoint ==
    ASSUME FilesTypeOK, Layout, grown = {}
    PROVE  BlocksDisjoint
<1> SUFFICES ASSUME NEW j \in DOMAIN stored, NEW k \in DOMAIN stored, j < k,
                    stored[j].file = stored[k].file, stored[j].file \notin met
             PROVE  Disjoint(stored[j], stored[k])
  BY DEF BlocksDisjoint
<1> DEFINE i == stored[j].file
<1>1. i \in Index BY BlockTypes
<1>2. j \in OnFile(i) /\ k \in OnFile(i) BY DEF OnFile
<1>3. LayoutOf(i) BY <1>1 DEF Layout
<1>4. InOrder(files[i].tail, files[i].head, stored[j], stored[k])
  BY <1>2, <1>3 DEF LayoutOf
<1>5. IsBlock(stored[j], Size[i]) /\ IsBlock(stored[k], Size[i])
  BY <1>1, <1>2, BlockOf
<1> QED BY <1>1, <1>4, <1>5, RingOf, GeometryDisjoint

(***************************************************************************)
(* Once a write has run past the end of a file the slot index is frozen.   *)
(***************************************************************************)
LEMMA GrownFreezes ==
    ASSUME FilesTypeOK, [FilesNext]_filesvars, grown' # {}
    PROVE  stored' = stored /\ met \subseteq met'
<1>1. ASSUME NEW len \in BlockSizes, push_block_front(len)
      PROVE  stored' = stored /\ met \subseteq met'
  <2>1. PICK f \in Index : status = "running" /\ WriteFront(f, len)
    BY <1>1, PushFront
  <2>2. grown = {} BY <2>1 DEF FilesTypeOK
  <2>3. met \subseteq met' BY <2>1 DEF WriteFront, Meets
  <2> QED BY <2>1, <2>2, <2>3, WriteFrontEffect, Zenon
<1>2. ASSUME NEW len \in BlockSizes, push_block_back(len) PROVE FALSE
  <2>1. PICK f \in Index : status = "running" /\ WriteBack(f, len)
    BY <1>2, PushBack
  <2> QED BY <2>1 DEF FilesTypeOK, WriteBack
<1>3. CASE pop_block_back
  BY <1>3 DEF pop_block_back, FilesTypeOK
<1>4. CASE pop_block_front
  BY <1>4 DEF pop_block_front, FilesTypeOK
<1>5. CASE begin
  BY <1>5 DEF begin
<1>6. CASE open
  BY <1>6 DEF open
<1>7. CASE UNCHANGED filesvars
  BY <1>7 DEF filesvars
<1> QED BY <1>1, <1>2, <1>3, <1>4, <1>5, <1>6, <1>7 DEF FilesNext

(***************************************************************************)
(* No two live blocks share a byte of a file that was never filled to its  *)
(* last free byte: free_space, write_front, write_back and pop_block agree *)
(* on which bytes are in use, and open rebuilds that agreement.            *)
(***************************************************************************)
THEOREM DisjointCorrect == FilesSpec => []BlocksDisjoint
<1>1. FilesInit => BlocksDisjoint
  BY DEF FilesInit, BlocksDisjoint
<1> DEFINE Settled == grown = {} => BlocksDisjoint
<1>2. FilesTypeOK /\ Layout => Settled
  BY LayoutDisjoint
<1>3. FilesTypeOK /\ Settled' /\ BlocksDisjoint /\ [FilesNext]_filesvars => BlocksDisjoint'
  <2> SUFFICES ASSUME FilesTypeOK, Settled', BlocksDisjoint, [FilesNext]_filesvars, grown' # {}
               PROVE  BlocksDisjoint'
    OBVIOUS
  <2>1. stored' = stored /\ met \subseteq met'
    BY GrownFreezes
  <2> QED BY <2>1 DEF BlocksDisjoint, Disjoint, End
<1> QED BY <1>1, <1>2, <1>3, FilesTypes, LayoutCorrect, PTL DEF FilesSpec

-----------------------------------------------------------------------------
(***************************************************************************)
(* The invariant.  Of what the loop keeps, in every mode:                  *)
(***************************************************************************)
Window(x) == x.front # 0 => x.back \in 1 .. x.front /\ x.front - x.back < MaxBlocks

\* The slot the backfill waits for is the one before the database, unless
\* the front has pruned the back in the meantime: then the database is full.
Filling(x) ==
    x.back_slot # None =>
        /\ x.front # 0
        /\ x.upto # None => x.back_slot = x.back - 1 \/ is_full(x)

Reaches(x) ==
    x.upto = None => x.front # 0 /\ (x.back <= SyncTo + 1 \/ is_full(x))

Good(x) ==
    /\ x \in Writer
    /\ Window(x)
    /\ Filling(x)
    /\ Reaches(x)

\* What is to be stored next follows the database and is not at hand.
Follows(x) == x.front # 0 => x.next = x.front + 1

Waits(x) == x.next \notin x.qfront

Coming(x, from, to) == from .. to \subseteq x.busy \union x.qfront

Running == mode = "run" => Follows(w) /\ Waits(w) /\ Coming(w, w.next, newest)

\* During a catch-up next_confirmed_slot is the target.
CatchingUp ==
    mode = "catching_up" =>
        /\ w.front # 0 /\ w.front + 3 < w.next /\ w.next <= MaxSlot
        /\ w.front + 1 \notin w.qfront
        /\ Coming(w, w.front + 1, newest)
        /\ Coming(w, w.front + 1, catchup - 1)
        /\ w.busy # {} /\ catchup >= 1

WriteInv ==
    /\ node \in Slots /\ newest \in 0 .. MaxSlot
    /\ mode \in {"run", "catching_up", "ended"}
    /\ catchup \in 0 .. MaxSlot + 1 /\ asked \in 0 .. Catchups
    /\ Good(w)
    /\ Running
    /\ CatchingUp
    /\ mode = "ended" => Coming(w, w.next, newest)

-----------------------------------------------------------------------------
(***************************************************************************)
(* Helpers.                                                                *)
(***************************************************************************)

\* The numbers among the constants.
LEMMA Constants ==
    /\ MaxSlot \in Nat /\ MaxBlocks \in Nat /\ MaxBlocks > 0 /\ Concurrency \in Nat /\ Concurrency > 0
    /\ SyncTo \in Nat /\ SyncTo > 0 /\ Catchups \in Nat
    /\ None = -1 /\ Unset = MaxSlot + 1
    /\ \A s \in Slots : s \in Nat /\ s >= 1 /\ s <= MaxSlot
  BY StorageWriteAssumption DEF None, Unset, Slots

\* The fields of what the loop keeps.
LEMMA Fields ==
    ASSUME NEW x \in Writer
    PROVE  /\ x.back \in Nat /\ x.back <= MaxSlot /\ x.front \in Nat /\ x.front <= MaxSlot
           /\ x.next \in Nat /\ x.next >= 1 /\ x.next <= MaxSlot + 1
           /\ x.upto \in {SyncTo, None}
           /\ x.back_slot = None \/ (x.back_slot \in Nat /\ x.back_slot <= MaxSlot)
           /\ x.back_slot \in Int
           /\ x.request \in Nat /\ x.request <= Unset
           /\ x.busy \subseteq Slots /\ x.qback \subseteq Slots /\ x.qfront \subseteq Slots
<1> USE Constants
<1>1. /\ x.back \in 0 .. MaxSlot /\ x.front \in 0 .. MaxSlot /\ x.next \in 1 .. MaxSlot + 1
      /\ x.upto \in {SyncTo, None} /\ x.back_slot \in 0 .. MaxSlot \union {None}
      /\ x.request \in 0 .. Unset /\ x.busy \in SUBSET Slots
      /\ x.qback \in SUBSET Slots /\ x.qfront \in SUBSET Slots
  BY DEF Writer
<1> QED  BY <1>1

\* A nonempty set of slots has a greatest element.
LEMMA MaxIs ==
    ASSUME NEW S, S \subseteq Slots, S # {}
    PROVE  Max(S) \in S /\ \A t \in S : Max(S) >= t
<1>0. MaxSlot \in Nat /\ \A s \in S : s \in Nat /\ s <= MaxSlot  BY Constants
<1> DEFINE T == {n \in Nat : MaxSlot - n \in S}
           R == OpToRel(<, Nat)
<1>1. \A s \in S : MaxSlot - s \in T
  <2> TAKE s \in S
  <2>1. s \in Int /\ MaxSlot - s \in Nat /\ MaxSlot - (MaxSlot - s) = s  BY <1>0
  <2> QED  BY <2>1
<1>2. T \subseteq Nat /\ T # {}  BY <1>1
<1>3. IsWellFoundedOn(R, Nat)  BY NatLessThanWellFounded
<1>4. \A m, n \in Nat : n < m => <<n, m>> \in R  BY DEF OpToRel
<1> HIDE DEF R, T
<1>5. PICK m \in T : \A n \in T : ~ (<<n, m>> \in R)  BY <1>2, <1>3, WFMin, Zenon
<1>6. \A n \in T : ~ (n < m) /\ m \in Nat /\ n \in Nat  BY <1>2, <1>4, <1>5
<1>7. MaxSlot - m \in S  BY <1>5 DEF T
<1>8. \A t \in S : MaxSlot - m >= t  BY <1>0, <1>1, <1>6
<1>9. \E s \in S : \A t \in S : s >= t  BY <1>7, <1>8
<1> QED  BY <1>9, Zenon DEF Max

\* The greater of two numbers.
LEMMA MaxOfTwo ==
    ASSUME NEW a \in Int, NEW b \in Int
    PROVE  Max({a, b}) \in {a, b} /\ a <= Max({a, b}) /\ b <= Max({a, b})
<1>1. \E m \in {a, b} : \A y \in {a, b} : m >= y  OBVIOUS
<1>2. Max({a, b}) \in {a, b} /\ \A y \in {a, b} : Max({a, b}) >= y  BY <1>1, Zenon DEF Max
<1> QED  BY <1>2

\* Sets of slots are finite.
LEMMA SlotsFinite ==
    ASSUME NEW S, S \subseteq Slots
    PROVE  IsFiniteSet(S)
<1>1. IsFiniteSet(Slots)  BY Constants, FS_Interval DEF Slots
<1> QED  BY <1>1, FS_Subset

-----------------------------------------------------------------------------
(***************************************************************************)
(* Saving at the front.                                                    *)
(***************************************************************************)

\* What is at hand without a gap.
LEMMA RunIs ==
    ASSUME NEW x \in Writer
    PROVE  /\ Run(x) \subseteq Slots
           /\ Run(x) = {} => Waits(x)
           /\ Run(x) # {} => /\ Max(Run(x)) \in Run(x) /\ Max(Run(x)) \in Slots
                             /\ x.next <= Max(Run(x))
                             /\ \A s \in Run(x) : s <= Max(Run(x))
                             /\ Max(Run(x)) + 1 \notin x.qfront
<1> USE Fields, Constants
<1>1. Run(x) \subseteq Slots  BY DEF Run
<1>2. Run(x) = {} => Waits(x)
  <2> SUFFICES ASSUME x.next \in x.qfront PROVE x.next \in Run(x)  BY DEF Waits
  <2>1. x.next .. x.next = {x.next}  OBVIOUS
  <2> QED  BY <2>1 DEF Run
<1>3. ASSUME Run(x) # {}
      PROVE  /\ Max(Run(x)) \in Run(x) /\ Max(Run(x)) \in Slots
             /\ x.next <= Max(Run(x))
             /\ \A s \in Run(x) : s <= Max(Run(x))
             /\ Max(Run(x)) + 1 \notin x.qfront
  <2>1. PICK last \in Slots : last = Max(Run(x)) /\ last \in Run(x) /\ \A s \in Run(x) : last >= s
    BY <1>1, <1>3, MaxIs
  <2>2. x.next <= last /\ x.next .. last \subseteq x.qfront  BY <2>1 DEF Run
  <2>3. \A s \in Run(x) : s <= last  BY <1>1, <2>1
  <2>4. last + 1 \notin x.qfront
    <3> SUFFICES ASSUME last + 1 \in x.qfront PROVE FALSE  OBVIOUS
    <3>1. x.next .. last + 1 = x.next .. last \union {last + 1}  BY <2>2
    <3>2. last + 1 \in Run(x)  BY <2>2, <3>1 DEF Run
    <3> QED  BY <2>1, <3>2
  <2> QED  BY <2>1, <2>2, <2>3, <2>4
<1> QED  BY <1>1, <1>2, <1>3

\* Saving keeps the database whole, a backfill that has ended stays at its
\* end, and no slot that is on its way is dropped.
LEMMA SavedGood ==
    ASSUME NEW x, Good(x), Follows(x)
    PROVE  /\ Good(SavedIfAny(x)) /\ Follows(SavedIfAny(x)) /\ Waits(SavedIfAny(x))
           /\ SavedIfAny(x).busy = x.busy
           /\ x.front <= SavedIfAny(x).front
           /\ x.next <= SavedIfAny(x).next
           /\ \A n \in Int, from \in Int :
                 Coming(x, from, n) /\ from <= SavedIfAny(x).next
                     => Coming(SavedIfAny(x), SavedIfAny(x).next, n)
<1> USE Fields, Constants
<1>0. x \in Writer  BY DEF Good
<1>1. CASE Run(x) = {}
  <2>1. SavedIfAny(x) = x /\ Waits(x)  BY <1>0, <1>1, RunIs DEF SavedIfAny
  <2>2. \A n \in Int, from \in Int : Coming(x, from, n) /\ from <= x.next => Coming(x, x.next, n)
    BY <1>0 DEF Coming
  <2> QED  BY <1>0, <2>1, <2>2
<1>2. CASE Run(x) # {}
  <2> DEFINE y == SavedIfAny(x)
  <2>1. PICK last \in Slots :
          /\ last = Max(Run(x)) /\ last \in Run(x) /\ x.next <= last
          /\ \A s \in Run(x) : s <= last
          /\ last + 1 \notin x.qfront
    BY <1>0, <1>2, RunIs
  <2>2. PICK first \in Nat : first = IF x.front = 0 THEN x.next ELSE x.back  BY <1>0
  <2>3. PICK back \in Int : back = Max({first, last - MaxBlocks + 1})
                            /\ back \in {first, last - MaxBlocks + 1}
                            /\ first <= back /\ last - MaxBlocks + 1 <= back
    <3>0. first \in Int  OBVIOUS
    <3>1. PICK room \in Int : room = last - MaxBlocks + 1  OBVIOUS
    <3>2. /\ Max({first, room}) \in {first, room}
          /\ first <= Max({first, room}) /\ room <= Max({first, room})
      BY <3>0, MaxOfTwo, Zenon
    <3> QED  BY <3>1, <3>2
  <2>4. y = [x EXCEPT !.front = last, !.back = back, !.next = last + 1, !.qfront = @ \ Run(x)]
    BY <1>2, <2>1, <2>2, <2>3 DEF SavedIfAny, Saved
  <2> HIDE DEF y
  <2>5. x.front < last
    <3>1. CASE x.front = 0  BY <3>1
    <3>2. CASE x.front # 0  BY <1>0, <2>1, <3>2 DEF Follows
    <3> QED  BY <3>1, <3>2
  <2>6. first >= 1 /\ first <= last
    <3>1. CASE x.front = 0  BY <1>0, <2>1, <2>2, <3>1
    <3>2. CASE x.front # 0  BY <1>0, <2>2, <2>5, <3>2 DEF Good, Window
    <3> QED  BY <3>1, <3>2
  <2>7. back >= 1 /\ back <= last /\ last - back < MaxBlocks  BY <2>1, <2>3, <2>6
  <2>8. /\ y.front = last /\ y.back = back /\ y.next = last + 1 /\ y.qfront = x.qfront \ Run(x)
        /\ y.upto = x.upto /\ y.back_slot = x.back_slot /\ y.request = x.request
        /\ y.busy = x.busy /\ y.qback = x.qback
    BY <1>0, <2>4 DEF Writer
  <2>9. y \in Writer
    <3>1. back \in 0 .. MaxSlot /\ last \in 0 .. MaxSlot /\ last + 1 \in 1 .. MaxSlot + 1  BY <2>7
    <3>2. x.qfront \ Run(x) \in SUBSET Slots  BY <1>0
    <3> QED  BY <1>0, <2>4, <3>1, <3>2 DEF Writer
  <2>10. Window(y)  BY <2>1, <2>7, <2>8 DEF Window
  <2>11. x.front # 0 => back = x.back \/ is_full(y)
    BY <1>0, <2>2, <2>3, <2>8 DEF is_full
  <2>12. x.front # 0 /\ is_full(x) => is_full(y)
    <3> SUFFICES ASSUME x.front # 0, is_full(x), back = x.back PROVE is_full(y)  BY <2>11
    <3> QED  BY <1>0, <2>5, <2>8 DEF is_full
  <2>13. Filling(y)  BY <2>8, <2>11, <2>12 DEF Good, Filling
  <2>14. Reaches(y)  BY <2>8, <2>11, <2>12 DEF Good, Reaches
  <2>15. Follows(y) /\ Waits(y)  BY <2>1, <2>8 DEF Follows, Waits
  <2>16. ASSUME NEW n \in Int, NEW from \in Int, Coming(x, from, n), from <= last + 1
         PROVE  Coming(y, last + 1, n)
    <3>1. \A s \in last + 1 .. n : s \in from .. n /\ ~ (s <= last)  BY <2>16
    <3> QED  BY <2>1, <2>8, <2>16, <3>1 DEF Coming
  <2>17. Good(y)  BY <2>9, <2>10, <2>13, <2>14 DEF Good
  <2> QED  BY <1>0, <2>1, <2>5, <2>8, <2>15, <2>16, <2>17 DEF y
<1> QED  BY <1>1, <1>2

-----------------------------------------------------------------------------
(***************************************************************************)
(* Backfilling.                                                            *)
(***************************************************************************)

\* A step of the backfill keeps the front and drops no request.
Aside(y, x) ==
    /\ y.front = x.front /\ y.next = x.next /\ y.qfront = x.qfront
    /\ x.busy \subseteq y.busy

\* Requests go down from the slot before the database to sync_to.
LEMMA RequestedGood ==
    ASSUME NEW x, Good(x), x.upto # None, x.back_slot # None
    PROVE  /\ Good(Requested(x)) /\ Aside(Requested(x), x)
           /\ Requested(x).upto = x.upto /\ Requested(x).back_slot = x.back_slot
<1> USE Fields, Constants
<1>0. x \in Writer /\ x.upto = SyncTo  BY DEF Good
<1> DEFINE y == Requested(x)
<1>1. PICK from \in 0 .. MaxSlot : from = IF x.request = Unset THEN x.back_slot ELSE x.request
  BY <1>0
<1> DEFINE new == RequestsDown(x, from, x.upto)
<1>2. new \subseteq Slots /\ new \subseteq SyncTo .. from  BY <1>0 DEF RequestsDown, Slots
<1>3. y = [x EXCEPT !.busy = @ \union new, !.request = from - Cardinality(new)]
  BY <1>1 DEF Requested
<1>4. Cardinality(new) \in Nat /\ from - Cardinality(new) \in 0 .. Unset
  <2> HIDE DEF new
  <2>1. IsFiniteSet(SyncTo .. from)
        /\ Cardinality(SyncTo .. from) = IF SyncTo > from THEN 0 ELSE from - SyncTo + 1
    BY FS_Interval
  <2>2. IsFiniteSet(new) /\ Cardinality(new) <= Cardinality(SyncTo .. from)
    BY <1>2, <2>1, FS_Subset
  <2>3. Cardinality(new) \in Nat  BY <2>2, FS_CardinalityType
  <2>4. PICK k \in Nat : k = Cardinality(new)  BY <2>3
  <2>5. k <= IF SyncTo > from THEN 0 ELSE from - SyncTo + 1  BY <2>1, <2>2, <2>4
  <2>6. from - k \in 0 .. Unset  BY <2>5
  <2> QED  BY <2>4, <2>6
<1> HIDE DEF new, y
<1>5. y \in Writer
  <2>1. x.busy \union new \in SUBSET Slots  BY <1>0, <1>2
  <2> QED  BY <1>0, <1>3, <1>4, <2>1 DEF Writer
<1>6. /\ y.front = x.front /\ y.back = x.back /\ y.next = x.next /\ y.qfront = x.qfront
      /\ y.upto = x.upto /\ y.back_slot = x.back_slot /\ y.busy = x.busy \union new
  BY <1>0, <1>3 DEF Writer
<1>7. Window(y) /\ Filling(y) /\ Reaches(y)
  BY <1>6 DEF Good, Window, Filling, Reaches, is_full
<1>8. Good(y) /\ Aside(y, x)  BY <1>5, <1>6, <1>7 DEF Good, Aside
<1> QED  BY <1>6, <1>8 DEF y

\* Backfilling is called finished only where it is to end.
LEMMA FinishedGood ==
    ASSUME NEW x \in Writer, Window(x), x.front # 0, x.back <= SyncTo + 1 \/ is_full(x)
    PROVE  Good(Finished(x)) /\ Aside(Finished(x), x)
<1> USE Fields, Constants
<1> DEFINE y == Finished(x)
<1>1. y = [x EXCEPT !.upto = None, !.qback = {}]  BY DEF Finished
<1> HIDE DEF y
<1>2. y \in Writer  BY <1>1 DEF Writer
<1>3. /\ y.front = x.front /\ y.back = x.back /\ y.next = x.next /\ y.qfront = x.qfront
      /\ y.upto = None /\ y.back_slot = x.back_slot /\ y.busy = x.busy
  BY <1>1 DEF Writer
<1>4. Window(y) /\ Filling(y) /\ Reaches(y)
  BY <1>3 DEF Window, Filling, Reaches, is_full
<1>5. Good(y) /\ Aside(y, x)  BY <1>2, <1>3, <1>4 DEF Good, Aside
<1> QED  BY <1>5 DEF y

\* A slot is pushed at the back if it continues the database and there is
\* room.
LEMMA PushedBackGood ==
    ASSUME NEW x, Good(x), x.upto # None, x.back_slot # None
    PROVE  Good(PushedBack(x)) /\ Aside(PushedBack(x), x)
<1> USE Fields, Constants
<1>0. x \in Writer /\ x.upto = SyncTo /\ x.front # 0  BY DEF Good, Filling
<1>1. CASE x.back_slot \notin x.qback  BY <1>0, <1>1 DEF PushedBack, Aside
<1>2. CASE x.back_slot \in x.qback
  <2> DEFINE added == x.back - 1 = x.back_slot /\ ~ is_full(x)
             y == [x EXCEPT !.back_slot = @ - 1, !.qback = @ \ {x.back_slot},
                            !.back = IF added THEN x.back_slot ELSE @]
  <2>1. x.back_slot \in Slots /\ x.back_slot - 1 \in 0 .. MaxSlot  BY <1>0, <1>2
  <2>2. x.back \in 1 .. x.front /\ x.front - x.back < MaxBlocks  BY <1>0 DEF Good, Window
  <2>3. y \in Writer
    <3>1. (IF added THEN x.back_slot ELSE x.back) \in 0 .. MaxSlot  BY <1>0, <2>1
    <3>2. x.qback \ {x.back_slot} \in SUBSET Slots  BY <1>0
    <3> QED  BY <1>0, <2>1, <3>1, <3>2 DEF Writer
  <2>4. /\ y.front = x.front /\ y.next = x.next /\ y.qfront = x.qfront /\ y.busy = x.busy
        /\ y.upto = x.upto /\ y.back_slot = x.back_slot - 1
        /\ y.back = IF added THEN x.back_slot ELSE x.back
    BY <1>0 DEF Writer
  <2>5. PushedBack(x) = IF ~ added \/ x.back_slot = x.upto THEN Finished(y) ELSE y
    BY <1>2 DEF PushedBack
  <2> HIDE DEF y
  <2>6. Window(y)
    <3>1. CASE added
      <4>1. x.front - x.back + 1 < MaxBlocks  BY <1>0, <3>1 DEF is_full
      <4>2. y.back = x.back - 1 /\ y.back >= 1  BY <2>1, <2>4, <3>1
      <4> QED  BY <1>0, <2>2, <2>4, <4>1, <4>2 DEF Window
    <3>2. CASE ~ added  BY <1>0, <2>2, <2>4, <3>2 DEF Window
    <3> QED  BY <3>1, <3>2
  <2>7. CASE ~ added
    <3>1. is_full(x)  BY <1>0, <2>1, <2>7 DEF Good, Filling
    <3>2. is_full(y)  BY <2>4, <2>7, <3>1 DEF is_full
    <3>3. Good(Finished(y)) /\ Aside(Finished(y), y)
      BY <1>0, <2>3, <2>4, <2>6, <3>2, FinishedGood
    <3>4. PushedBack(x) = Finished(y)  BY <2>5, <2>7
    <3> QED  BY <2>4, <3>3, <3>4 DEF Aside
  <2>8. CASE added /\ x.back_slot = x.upto
    <3>1. y.back <= SyncTo + 1  BY <1>0, <2>1, <2>4, <2>8
    <3>2. Good(Finished(y)) /\ Aside(Finished(y), y)
      BY <1>0, <2>3, <2>4, <2>6, <3>1, FinishedGood
    <3>3. PushedBack(x) = Finished(y)  BY <2>5, <2>8
    <3> QED  BY <2>4, <3>2, <3>3 DEF Aside
  <2>9. CASE added /\ x.back_slot # x.upto
    <3>1. PushedBack(x) = y  BY <2>5, <2>9
    <3>2. Filling(y) /\ Reaches(y)  BY <1>0, <2>4, <2>9 DEF Filling, Reaches
    <3> QED  BY <2>3, <2>4, <2>6, <3>1, <3>2 DEF Good, Aside
  <2> QED  BY <2>7, <2>8, <2>9
<1> QED  BY <1>1, <1>2

\* The backfill step.
LEMMA BackfilledGood ==
    ASSUME NEW x, Good(x)
    PROVE  Good(Backfilled(x)) /\ Aside(Backfilled(x), x)
<1> USE Fields, Constants
<1>0. x \in Writer  BY DEF Good
<1>1. CASE x.upto = None  BY <1>1 DEF Backfilled, Aside
<1>2. CASE x.upto # None /\ x.back_slot = None
  <2>1. Backfilled(x) = Begun(x)  BY <1>2 DEF Backfilled
  <2>2. CASE x.front = 0  BY <2>1, <2>2 DEF Begun, Aside
  <2>3. CASE x.front # 0 /\ x.back - 1 > x.upto
    <3> DEFINE y == [x EXCEPT !.back_slot = x.back - 1]
    <3>1. Backfilled(x) = y  BY <2>1, <2>3 DEF Begun
    <3>2. x.back - 1 \in 0 .. MaxSlot  BY <1>0, <1>2, <2>3
    <3>3. y \in Writer  BY <1>0, <3>2 DEF Writer
    <3>4. /\ y.front = x.front /\ y.back = x.back /\ y.next = x.next /\ y.qfront = x.qfront
          /\ y.upto = x.upto /\ y.back_slot = x.back - 1 /\ y.busy = x.busy
      BY <1>0 DEF Writer
    <3> HIDE DEF y
    <3>5. Window(y) /\ Filling(y) /\ Reaches(y)
      BY <1>2, <2>3, <3>4 DEF Good, Window, Filling, Reaches, is_full
    <3> QED  BY <3>1, <3>3, <3>4, <3>5 DEF Good, Aside
  <2>4. CASE x.front # 0 /\ ~ (x.back - 1 > x.upto)
    <3>1. Backfilled(x) = Finished(x)  BY <2>1, <2>4 DEF Begun
    <3>2. x.back <= SyncTo + 1  BY <1>0, <1>2, <2>4
    <3> QED  BY <1>0, <2>4, <3>1, <3>2, FinishedGood DEF Good
  <2> QED  BY <2>2, <2>3, <2>4
<1>3. CASE x.upto # None /\ x.back_slot # None
  <2>1. Backfilled(x) = PushedBack(Requested(x))  BY <1>3 DEF Backfilled
  <2>2. PICK y : y = Requested(x)  OBVIOUS
  <2>3. Good(y) /\ Aside(y, x) /\ y.upto # None /\ y.back_slot # None
    BY <1>3, <2>2, RequestedGood
  <2>4. Good(PushedBack(y)) /\ Aside(PushedBack(y), y)  BY <2>3, PushedBackGood
  <2> QED  BY <2>1, <2>2, <2>3, <2>4 DEF Aside
<1> QED  BY <1>1, <1>2, <1>3

\* The end of every pass of the loop.
LEMMA PassGood ==
    ASSUME NEW x, Good(x), Follows(x), pass(x), NEW n \in Int, NEW from \in Int,
           Coming(x, from, n), from <= x.next
    PROVE  Good(w') /\ Follows(w') /\ Waits(w') /\ Coming(w', w'.next, n)
<1> USE Fields, Constants
<1>1. PICK y : y = SavedIfAny(x)  OBVIOUS
<1>2. w' = y \/ w' = Backfilled(y)  BY <1>1 DEF pass
<1>3. x \in Writer  BY DEF Good
<1>4. /\ Good(y) /\ Follows(y) /\ Waits(y) /\ x.next <= y.next /\ y \in Writer
      /\ from <= y.next => Coming(y, y.next, n)
  BY <1>1, SavedGood DEF Good
<1>5. Coming(y, y.next, n)  BY <1>3, <1>4
<1>6. Good(w') /\ Aside(w', y)
  <2>1. CASE w' = y  BY <1>4, <2>1 DEF Aside
  <2>2. CASE w' = Backfilled(y)  BY <1>4, <2>2, BackfilledGood
  <2> QED  BY <1>2, <2>1, <2>2
<1>7. Follows(w') /\ Waits(w')  BY <1>4, <1>6 DEF Aside, Follows, Waits
<1>8. Coming(w', w'.next, n)  BY <1>5, <1>6 DEF Aside, Coming
<1> QED  BY <1>6, <1>7, <1>8

-----------------------------------------------------------------------------
(***************************************************************************)
(* Catching up.                                                            *)
(***************************************************************************)

\* The requests of a pass are the next slots, one after the other.
LEMMA RequestsUpIs ==
    ASSUME NEW x \in Writer, NEW a \in Nat, a >= 1, NEW b \in Nat, b <= MaxSlot
    PROVE  LET new == RequestsUp(x, a, b) IN
           /\ new \subseteq Slots /\ new \subseteq a .. b /\ Cardinality(new) \in Nat
           /\ a .. a + Cardinality(new) - 1 = new
           /\ a + Cardinality(new) <= b + 1 \/ Cardinality(new) = 0
           /\ a <= b /\ x.busy = {} => new # {}
<1> USE Fields, Constants
<1> DEFINE new == RequestsUp(x, a, b)
<1>1. new \subseteq Slots /\ new \subseteq a .. b  BY DEF RequestsUp, Slots
<1>2. \A s \in new : \A t \in a .. b : t <= s => t \in new
  <2> SUFFICES ASSUME NEW s \in new, NEW t \in a .. b, t <= s PROVE t \in new  OBVIOUS
  <2> DEFINE S == x.busy \union (a .. s - 1)
             T == x.busy \union (a .. t - 1)
  <2>1. s \in Nat /\ s <= b /\ Cardinality(S) < Concurrency  BY <1>1 DEF RequestsUp
  <2>2. S \subseteq Slots /\ T \subseteq S  BY <2>1 DEF Slots
  <2>3. t \in new <=> Cardinality(T) < Concurrency  BY DEF RequestsUp
  <2> HIDE DEF S, T, new
  <2>4. IsFiniteSet(S)  BY <2>2, SlotsFinite
  <2>5. IsFiniteSet(T) /\ Cardinality(T) <= Cardinality(S)  BY <2>2, <2>4, FS_Subset
  <2>6. Cardinality(S) \in Nat /\ Cardinality(T) \in Nat  BY <2>4, <2>5, FS_CardinalityType
  <2> QED  BY <2>1, <2>3, <2>5, <2>6
<1>3. a <= b /\ x.busy = {} => a \in new
  <2> SUFFICES ASSUME a <= b, x.busy = {} PROVE a \in new  OBVIOUS
  <2>1. x.busy \union (a .. a - 1) = {}  OBVIOUS
  <2>2. Cardinality({}) = 0  BY FS_EmptySet
  <2> QED  BY <2>1, <2>2 DEF RequestsUp
<1> HIDE DEF new
<1>4. CASE new = {}
  <2>1. Cardinality(new) = 0  BY <1>4, FS_EmptySet
  <2>2. a .. a + 0 - 1 = {}  OBVIOUS
  <2> QED  BY <1>1, <1>3, <1>4, <2>1, <2>2 DEF new
<1>5. CASE new # {}
  <2>1. PICK m \in Slots : m \in new /\ \A t \in new : m >= t  BY <1>1, <1>5, MaxIs
  <2>2. a <= m /\ m <= b  BY <1>1, <2>1
  <2>3. new = a .. m
    <3>1. new \subseteq a .. m  BY <1>1, <2>1, <2>2
    <3>2. a .. m \subseteq new  BY <1>2, <2>1, <2>2
    <3> QED  BY <3>1, <3>2, Zenon
  <2>4. Cardinality(new) = m - a + 1  BY <2>2, <2>3, FS_Interval
  <2>5. /\ Cardinality(new) \in Nat /\ a + Cardinality(new) - 1 = m
        /\ a + Cardinality(new) <= b + 1
    BY <2>2, <2>4
  <2> QED  BY <1>1, <1>3, <1>5, <2>3, <2>5 DEF new
<1> QED  BY <1>4, <1>5

\* Whoever is requested or queued, the database and the backfill stay as
\* they are.
LEMMA EditGood ==
    ASSUME NEW x, Good(x), NEW y \in Writer,
           y.front = x.front, y.back = x.back, y.upto = x.upto, y.back_slot = x.back_slot
    PROVE  Good(y)
  BY DEF Good, Window, Filling, Reaches, is_full

\* The state of a loop that runs or catches up.
Modes ==
    /\ mode \in {"run", "catching_up"} /\ catchup \in 0 .. MaxSlot + 1
    /\ Good(w) /\ Running /\ CatchingUp

\* The inner loop: it ends close to the target, and otherwise waits for the
\* request for the slot after the database or for one it has just made.
LEMMA CatchupLoopGood ==
    ASSUME NEW x, Good(x), x.front # 0, x.front + 1 \notin x.qfront, x.next <= MaxSlot,
           node \in Slots, newest \in 0 .. MaxSlot, catchup \in 0 .. MaxSlot + 1,
           NEW from \in Nat, from >= 1, from <= MaxSlot + 1,
           Coming(x, x.front + 1, newest), Coming(x, x.front + 1, from - 1),
           catchup_loop(x, from), UNCHANGED newest
    PROVE  Modes'
<1> USE Fields, Constants
<1>0. x \in Writer  BY DEF Good
<1>1. PICK target \in {x.next, node} :
        IF CloseEnough(x, target)
        THEN mode' = "run" /\ catchup' = catchup /\ pass([x EXCEPT !.next = x.front + 1])
        ELSE /\ mode' = "catching_up"
             /\ catchup' = from + Cardinality(RequestsUp(x, from, target))
             /\ w' = [x EXCEPT !.next = target, !.busy = @ \union RequestsUp(x, from, target)]
  BY DEF catchup_loop
<1>2. target \in Nat /\ target >= 1 /\ target <= MaxSlot  BY <1>0, <1>1
<1>3. CASE CloseEnough(x, target)
  <2>1. mode' = "run" /\ catchup' = catchup /\ pass([x EXCEPT !.next = x.front + 1])
    BY <1>1, <1>3
  <2>2. PICK y : y = [x EXCEPT !.next = x.front + 1]  OBVIOUS
  <2>3. y \in Writer
    <3>1. x.front + 1 \in 1 .. MaxSlot + 1  BY <1>0
    <3> QED  BY <1>0, <2>2, <3>1 DEF Writer
  <2>4. /\ y.front = x.front /\ y.back = x.back /\ y.upto = x.upto /\ y.back_slot = x.back_slot
        /\ y.next = x.front + 1 /\ y.busy = x.busy /\ y.qfront = x.qfront
    BY <1>0, <2>2 DEF Writer
  <2>5. Good(y) /\ Follows(y)  BY <2>3, <2>4, EditGood DEF Follows
  <2>6. Coming(y, y.next, newest)  BY <2>4 DEF Coming
  <2>7. pass(y) /\ y.next \in Int /\ y.next <= y.next /\ newest \in Int  BY <1>0, <2>1, <2>2, <2>4
  <2>8. Good(w') /\ Follows(w') /\ Waits(w') /\ Coming(w', w'.next, newest)
    BY <2>5, <2>6, <2>7, PassGood
  <2>9. Running' /\ Good(w)'
    BY <2>8 DEF Running, Follows, Waits, Coming, Good, Window, Filling, Reaches, is_full
  <2> QED  BY <2>1, <2>9 DEF Modes, CatchingUp
<1>4. CASE ~ CloseEnough(x, target)
  <2>1. PICK new : new = RequestsUp(x, from, target)  OBVIOUS
  <2>2. /\ mode' = "catching_up" /\ catchup' = from + Cardinality(new)
        /\ w' = [x EXCEPT !.next = target, !.busy = @ \union new]
    BY <1>1, <1>4, <2>1
  <2>3. /\ new \subseteq Slots /\ Cardinality(new) \in Nat
        /\ from .. from + Cardinality(new) - 1 = new
        /\ from + Cardinality(new) <= target + 1 \/ Cardinality(new) = 0
        /\ from <= target /\ x.busy = {} => new # {}
    BY <1>0, <1>2, <2>1, RequestsUpIs
  <2>4. PICK k \in Nat : k = Cardinality(new)  BY <2>3
  <2>5. catchup' = from + k /\ catchup' \in 0 .. MaxSlot + 1 /\ catchup' >= 1  BY <1>2, <2>2, <2>3, <2>4
  <2>6. w' \in Writer
    <3>1. target \in 1 .. MaxSlot + 1 /\ x.busy \union new \in SUBSET Slots  BY <1>0, <1>2, <2>3
    <3> QED  BY <1>0, <2>2, <3>1 DEF Writer
  <2>7. /\ w'.front = x.front /\ w'.back = x.back /\ w'.upto = x.upto
        /\ w'.back_slot = x.back_slot /\ w'.next = target /\ w'.busy = x.busy \union new
        /\ w'.qfront = x.qfront
    BY <1>0, <2>2 DEF Writer
  <2>8. Good(w')  BY <2>6, <2>7, EditGood
  <2>9. x.front + 3 < target  BY <1>0, <1>2, <1>4 DEF CloseEnough
  <2>10. Coming(w', x.front + 1, newest)  BY <2>7 DEF Coming
  <2>11. Coming(w', x.front + 1, catchup' - 1)
    <3> SUFFICES ASSUME NEW s \in x.front + 1 .. from + k - 1 PROVE s \in w'.busy \union w'.qfront
      BY <2>5 DEF Coming
    <3>1. CASE s < from
      <4>1. s \in x.front + 1 .. from - 1  BY <1>0, <3>1
      <4> QED  BY <2>7, <4>1 DEF Coming
    <3>2. CASE ~ (s < from)
      <4>1. s \in from .. from + k - 1  BY <1>0, <3>2
      <4>2. s \in new  BY <2>3, <2>4, <4>1
      <4> QED  BY <2>7, <4>2
    <3> QED  BY <3>1, <3>2
  <2>12. w'.busy # {}
    <3>1. CASE from <= target  BY <2>3, <2>7, <3>1
    <3>2. CASE ~ (from <= target)
      <4>1. x.front + 1 \in x.front + 1 .. from - 1  BY <1>0, <1>2, <2>9, <3>2
      <4>2. x.front + 1 \in x.busy  BY <4>1 DEF Coming
      <4> QED  BY <2>7, <4>2
    <3> QED  BY <3>1, <3>2
  <2>13. CatchingUp'
    BY <1>2, <2>5, <2>7, <2>9, <2>10, <2>11, <2>12 DEF CatchingUp, Coming
  <2>14. Good(w)'  BY <2>8 DEF Good, Window, Filling, Reaches, is_full
  <2> QED  BY <2>2, <2>5, <2>13, <2>14 DEF Modes, Running
<1> QED  BY <1>3, <1>4

-----------------------------------------------------------------------------
(***************************************************************************)
(* The steps.                                                              *)
(***************************************************************************)

\* A pass of the loop, for what was made of w and the newest slot confirmed.
LEMMA RunStep ==
    ASSUME WriteInv, running, NEW x, Good(x), Follows(x), pass(x),
           newest' \in 0 .. MaxSlot, Coming(x, x.next, newest')
    PROVE  WriteInv'
<1> USE Fields, Constants
<1>1. x \in Writer /\ mode = "run" /\ mode' = "run" /\ UNCHANGED <<node, catchup, asked>>
  BY DEF Good, running
<1>2. PICK n \in Int : n = newest'  OBVIOUS
<1>3. x.next \in Int /\ x.next <= x.next  BY <1>1
<1>4. Good(w') /\ Follows(w') /\ Waits(w') /\ Coming(w', w'.next, n)
  BY <1>2, <1>3, PassGood
<1>5. Good(w)'  BY <1>4 DEF Good, Window, Filling, Reaches, is_full
<1>6. Running'  BY <1>2, <1>4 DEF Running, Follows, Waits, Coming
<1> QED  BY <1>1, <1>5, <1>6 DEF WriteInv, CatchingUp

\* A response: what is above the database is queued.
LEMMA ResponseStep ==
    ASSUME WriteInv, NEW s \in Slots, response(s)
    PROVE  WriteInv'
<1> USE Fields, Constants
<1>1. running /\ mode = "run" /\ pass(Received(s)) /\ newest' = newest /\ newest \in 0 .. MaxSlot
  BY DEF response, running, WriteInv
<1>2. Good(w) /\ w \in Writer /\ Follows(w) /\ Coming(w, w.next, newest)
  BY <1>1 DEF WriteInv, Running, Good
<1>3. PICK y : y = Received(s)  OBVIOUS
<1>4. /\ y \in Writer
      /\ y.front = w.front /\ y.back = w.back /\ y.upto = w.upto /\ y.back_slot = w.back_slot
      /\ y.next = w.next /\ y.busy = w.busy \ {s}
      /\ y.qfront = IF s >= w.next THEN w.qfront \union {s} ELSE w.qfront
  <2> DEFINE x == [w EXCEPT !.busy = @ \ {s}]
  <2>1. w.busy \ {s} \in SUBSET Slots  BY <1>2
  <2>2. /\ x \in Writer /\ x.front = w.front /\ x.back = w.back /\ x.upto = w.upto
        /\ x.back_slot = w.back_slot /\ x.next = w.next /\ x.busy = w.busy \ {s}
        /\ x.qfront = w.qfront /\ x.qback = w.qback
    BY <1>2, <2>1 DEF Writer
  <2>3. \/ s >= w.next /\ y = [x EXCEPT !.qfront = @ \union {s}]
        \/ ~ (s >= w.next) /\ y = [x EXCEPT !.qback = @ \union {s}]
        \/ ~ (s >= w.next) /\ y = x
    BY <1>3 DEF Received
  <2> HIDE DEF x
  <2>4. x.qfront \union {s} \in SUBSET Slots /\ x.qback \union {s} \in SUBSET Slots
    BY <1>2, <2>2
  <2>5. CASE s >= w.next /\ y = [x EXCEPT !.qfront = @ \union {s}]
    BY <2>2, <2>4, <2>5 DEF Writer
  <2>6. CASE ~ (s >= w.next) /\ y = [x EXCEPT !.qback = @ \union {s}]
    BY <2>2, <2>4, <2>6 DEF Writer
  <2>7. CASE ~ (s >= w.next) /\ y = x  BY <2>2, <2>7
  <2> QED  BY <2>3, <2>5, <2>6, <2>7
<1>5. Good(y) /\ Follows(y)  BY <1>2, <1>4, EditGood DEF Follows
<1>6. Coming(y, y.next, newest')
  <2> SUFFICES ASSUME NEW t \in w.next .. newest PROVE t \in y.busy \union y.qfront
    BY <1>1, <1>4 DEF Coming
  <2>1. t \in w.busy \union w.qfront /\ t >= w.next  BY <1>1, <1>2 DEF Coming
  <2> QED  BY <1>4, <2>1
<1> QED  BY <1>1, <1>3, <1>5, <1>6, RunStep

\* A slot of the stream: it and the slots missing before it are on their way.
LEMMA StreamStep ==
    ASSUME WriteInv, stream
    PROVE  WriteInv'
<1> USE Fields, Constants
<1>1. running /\ mode = "run" /\ newest \in 0 .. MaxSlot /\ node \in Slots
  BY DEF stream, running, WriteInv
<1>2. Good(w) /\ w \in Writer /\ Follows(w) /\ Coming(w, w.next, newest)
  BY <1>1 DEF WriteInv, Running, Good
<1>3. PICK s \in w.next .. node : /\ newest' = Max({s, newest})
                                  /\ pass(Confirmed(s)) \/ pass(Missed(s))
  BY DEF stream
<1>4. s \in Slots /\ s \in Int /\ newest \in Int  BY <1>1, <1>2 DEF Slots
<1>5. newest' \in {s, newest}  BY <1>3, <1>4, MaxOfTwo
<1>6. newest' \in 0 .. MaxSlot  BY <1>1, <1>4, <1>5
<1> DEFINE gap == w.next .. s - 1 \ w.qfront
<1>7. gap \subseteq Slots  BY <1>2, <1>4 DEF Slots
<1>8. PICK y : /\ pass(y)
               /\ \/ y = [w EXCEPT !.busy = @ \union gap, !.qfront = @ \union {s}]
                  \/ y = [w EXCEPT !.busy = @ \union gap \union {s}]
  BY <1>3 DEF Confirmed, Missed
<1>9. /\ y \in Writer
      /\ y.front = w.front /\ y.back = w.back /\ y.upto = w.upto /\ y.back_slot = w.back_slot
      /\ y.next = w.next /\ w.busy \union w.qfront \union gap \union {s} \subseteq y.busy \union y.qfront
  <2> HIDE DEF gap
  <2>1. /\ w.busy \union gap \in SUBSET Slots /\ w.busy \union gap \union {s} \in SUBSET Slots
        /\ w.qfront \union {s} \in SUBSET Slots
    BY <1>2, <1>4, <1>7
  <2>2. CASE y = [w EXCEPT !.busy = @ \union gap, !.qfront = @ \union {s}]
    BY <1>2, <2>1, <2>2 DEF Writer
  <2>3. CASE y = [w EXCEPT !.busy = @ \union gap \union {s}]
    BY <1>2, <2>1, <2>3 DEF Writer
  <2> QED  BY <1>8, <2>2, <2>3
<1>10. Good(y) /\ Follows(y)  BY <1>2, <1>9, EditGood DEF Follows
<1>11. Coming(y, y.next, newest')
  <2> SUFFICES ASSUME NEW t \in w.next .. newest' PROVE t \in y.busy \union y.qfront
    BY <1>9 DEF Coming
  <2>1. CASE newest' = newest  BY <1>2, <1>9, <2>1 DEF Coming
  <2>2. CASE newest' = s
    <3>1. t = s \/ t \in w.next .. s - 1  BY <1>2, <1>4, <2>2
    <3>2. t = s \/ t \in gap \/ t \in w.qfront  BY <3>1
    <3> QED  BY <1>9, <3>2
  <2> QED  BY <1>5, <2>1, <2>2
<1> QED  BY <1>1, <1>6, <1>8, <1>10, <1>11, RunStep

\* A pass with nothing new.
LEMMA IdleStep ==
    ASSUME WriteInv, running, pass(w), UNCHANGED newest
    PROVE  WriteInv'
<1>1. mode = "run" /\ newest' \in 0 .. MaxSlot  BY DEF WriteInv, running
<1>2. Good(w) /\ Follows(w) /\ Coming(w, w.next, newest')  BY <1>1 DEF WriteInv, Running
<1> QED  BY <1>1, <1>2, RunStep

\* The source asks for a catch-up.
LEMMA CatchupRequiredStep ==
    ASSUME WriteInv, catchup_required
    PROVE  WriteInv'
<1> USE Fields, Constants
<1>1. /\ mode = "run" /\ w.front # 0 /\ asked' \in 0 .. Catchups /\ node' = node /\ newest' = newest
      /\ node \in Slots /\ newest \in 0 .. MaxSlot /\ catchup \in 0 .. MaxSlot + 1
  BY DEF catchup_required, WriteInv
<1>2. /\ Good(w) /\ w \in Writer /\ w.next = w.front + 1 /\ Coming(w, w.next, newest)
      /\ w.front + 1 \notin w.qfront
  BY <1>1 DEF WriteInv, Running, Good, Follows, Waits
<1>3. CASE w.front + 1 <= node
  <2>1. PICK x : x = [w EXCEPT !.next = node]  OBVIOUS
  <2>2. node \in 1 .. MaxSlot + 1  BY <1>1
  <2>3. /\ x \in Writer
        /\ x.front = w.front /\ x.back = w.back /\ x.upto = w.upto /\ x.back_slot = w.back_slot
        /\ x.next = node /\ x.busy = w.busy /\ x.qfront = w.qfront
    BY <1>2, <2>1, <2>2 DEF Writer
  <2>4. PICK from \in Nat : from = w.front + 1 /\ from >= 1 /\ from <= MaxSlot + 1  BY <1>2
  <2>5. Coming(x, x.front + 1, newest) /\ Coming(x, x.front + 1, from - 1)
    BY <1>2, <2>3, <2>4 DEF Coming
  <2>6. catchup_loop(x, from)  BY <1>3, <2>1, <2>4 DEF catchup_required
  <2>7. Good(x) /\ x.front # 0 /\ x.front + 1 \notin x.qfront /\ x.next <= MaxSlot
    BY <1>1, <1>2, <2>3, EditGood
  <2>8. Modes'  BY <1>1, <2>4, <2>5, <2>6, <2>7, CatchupLoopGood
  <2> QED  BY <1>1, <2>8 DEF WriteInv, Modes
<1>4. CASE ~ (w.front + 1 <= node)
  <2>1. mode' = "ended" /\ w' = w /\ catchup' = catchup  BY <1>4 DEF catchup_required
  <2>2. Good(w)'  BY <1>2, <2>1 DEF Good, Window, Filling, Reaches, is_full
  <2>3. Coming(w, w.next, newest)'  BY <1>1, <1>2, <2>1 DEF Coming
  <2> QED  BY <1>1, <2>1, <2>2, <2>3 DEF WriteInv, Running, CatchingUp
<1> QED  BY <1>3, <1>4

\* A response during a catch-up: what is above the database is queued, and
\* saved as far as there is no gap.
LEMMA CatchupResponseStep ==
    ASSUME WriteInv, NEW s \in Slots, catchup_response(s)
    PROVE  WriteInv'
<1> USE Fields, Constants
<1>1. /\ mode = "catching_up" /\ node' = node /\ asked' = asked /\ newest' = newest
      /\ node \in Slots /\ newest \in 0 .. MaxSlot /\ catchup \in 0 .. MaxSlot + 1
      /\ asked \in 0 .. Catchups
  BY DEF catchup_response, WriteInv
<1>2. /\ Good(w) /\ w \in Writer /\ w.front # 0 /\ w.front + 3 < w.next /\ w.next <= MaxSlot
      /\ Coming(w, w.front + 1, newest) /\ Coming(w, w.front + 1, catchup - 1) /\ catchup >= 1
  BY <1>1 DEF WriteInv, CatchingUp, Good
<1>3. PICK y : y = [Taken(s) EXCEPT !.next = w.front + 1]  OBVIOUS
<1>4. /\ y \in Writer
      /\ y.front = w.front /\ y.back = w.back /\ y.upto = w.upto /\ y.back_slot = w.back_slot
      /\ y.next = w.front + 1 /\ y.busy = w.busy \ {s}
      /\ y.qfront = IF s > w.front THEN w.qfront \union {s} ELSE w.qfront
  <2> DEFINE x == Taken(s)
  <2>1. w.busy \ {s} \in SUBSET Slots /\ w.qfront \union {s} \in SUBSET Slots  BY <1>2
  <2>2. /\ x \in Writer /\ x.front = w.front /\ x.back = w.back /\ x.upto = w.upto
        /\ x.back_slot = w.back_slot /\ x.busy = w.busy \ {s}
        /\ x.qfront = IF s > w.front THEN w.qfront \union {s} ELSE w.qfront
    BY <1>2, <2>1 DEF Writer, Taken
  <2>3. w.front + 1 \in 1 .. MaxSlot + 1  BY <1>2
  <2> HIDE DEF x
  <2>4. y = [x EXCEPT !.next = w.front + 1]  BY <1>3 DEF x
  <2> QED  BY <2>2, <2>3, <2>4 DEF Writer
<1>5. Good(y) /\ Follows(y)  BY <1>2, <1>4, EditGood DEF Follows
<1>6. ASSUME NEW n \in Int, Coming(w, w.front + 1, n) PROVE Coming(y, y.next, n)
  <2> SUFFICES ASSUME NEW t \in w.front + 1 .. n PROVE t \in y.busy \union y.qfront
    BY <1>4 DEF Coming
  <2>1. t \in w.busy \union w.qfront /\ t > w.front  BY <1>2, <1>6 DEF Coming
  <2> QED  BY <1>4, <2>1
<1>7. PICK z : z = SavedIfAny(y)  OBVIOUS
<1>8. /\ Good(z) /\ z \in Writer /\ Follows(z) /\ Waits(z) /\ z.busy = y.busy
      /\ w.front <= z.front /\ y.next <= z.next
  BY <1>4, <1>5, <1>7, SavedGood DEF Good
<1>9. z.front # 0 /\ z.next = z.front + 1  BY <1>2, <1>8 DEF Follows
<1>10. ASSUME NEW n \in Int, Coming(w, w.front + 1, n) PROVE Coming(z, z.front + 1, n)
  <2>1. Coming(y, y.next, n) /\ y.next \in Int  BY <1>4, <1>6, <1>10
  <2>2. Coming(z, z.next, n)  BY <1>5, <1>7, <1>8, <2>1, SavedGood
  <2> QED  BY <1>9, <2>2
<1>11. Coming(z, z.front + 1, newest)
  <2>1. newest \in Int  BY <1>1
  <2> QED  BY <1>2, <1>10, <2>1
<1>12. Coming(z, z.front + 1, catchup - 1)
  <2>1. catchup - 1 \in Int  BY <1>1
  <2> QED  BY <1>2, <1>10, <2>1
<1>13. PICK v : v = [z EXCEPT !.next = w.next]  OBVIOUS
<1>14. /\ v \in Writer
       /\ v.front = z.front /\ v.back = z.back /\ v.upto = z.upto /\ v.back_slot = z.back_slot
       /\ v.next = w.next /\ v.busy = z.busy /\ v.qfront = z.qfront
  <2>1. w.next \in 1 .. MaxSlot + 1  BY <1>2
  <2> QED  BY <1>8, <1>13, <2>1 DEF Writer
<1>15. /\ Good(v) /\ v.front # 0 /\ v.front + 1 \notin v.qfront /\ v.next <= MaxSlot
       /\ Coming(v, v.front + 1, newest) /\ Coming(v, v.front + 1, catchup - 1)
  BY <1>2, <1>8, <1>9, <1>11, <1>12, <1>14, EditGood DEF Waits, Coming
<1>16. catchup_loop(v, catchup)  BY <1>3, <1>7, <1>13 DEF catchup_response
<1>17. catchup \in Nat /\ catchup >= 1 /\ catchup <= MaxSlot + 1  BY <1>1, <1>2
<1>18. Modes'  BY <1>1, <1>15, <1>16, <1>17, CatchupLoopGood
<1> QED  BY <1>1, <1>18 DEF WriteInv, Modes

\* The writer returns with an error.
LEMMA HttpFailsStep ==
    ASSUME WriteInv, http_fails
    PROVE  WriteInv'
<1> USE Fields, Constants
<1>1. mode # "ended" /\ mode' = "ended" /\ UNCHANGED <<node, w, catchup, asked, newest>>
  BY DEF http_fails
<1>2. Good(w) /\ w \in Writer /\ newest \in 0 .. MaxSlot  BY DEF WriteInv, Good
<1>3. Coming(w, w.next, newest)
  <2>1. CASE mode = "run"  BY <2>1 DEF WriteInv, Running
  <2>2. CASE mode = "catching_up"
    <3>1. w.front + 3 < w.next /\ Coming(w, w.front + 1, newest)
      BY <2>2 DEF WriteInv, CatchingUp
    <3>2. w.next .. newest \subseteq w.front + 1 .. newest  BY <1>2, <3>1
    <3> QED  BY <3>1, <3>2 DEF Coming
  <2> QED  BY <1>1, <2>1, <2>2 DEF WriteInv
<1>4. Good(w)' /\ Coming(w, w.next, newest)'
  BY <1>1, <1>2, <1>3 DEF Good, Window, Filling, Reaches, is_full, Coming
<1> QED  BY <1>1, <1>4 DEF WriteInv, Running, CatchingUp

\* Nothing of the writer changes.
LEMMA StillStep ==
    ASSUME WriteInv, node' \in Slots, UNCHANGED <<mode, w, catchup, asked, newest>>
    PROVE  WriteInv'
<1>1. Good(w)'  BY DEF WriteInv, Good, Window, Filling, Reaches, is_full
<1>2. Running' /\ CatchingUp'
  BY DEF WriteInv, Running, CatchingUp, Follows, Waits, Coming
<1>3. mode' = "ended" => Coming(w, w.next, newest)'  BY DEF WriteInv, Coming
<1> QED  BY <1>1, <1>2, <1>3 DEF WriteInv

-----------------------------------------------------------------------------
(***************************************************************************)
(* The theorems.                                                           *)
(***************************************************************************)

\* Nothing is queued or requested at first.
LEMMA InitWrite == Init => WriteInv
<1> SUFFICES ASSUME Init PROVE WriteInv  OBVIOUS
<1> USE Constants
<1>1. PICK d \in Databases : w = Started(d)  BY DEF Init
<1>2. node \in Slots /\ mode = "run" /\ catchup = 0 /\ asked = 0 /\ newest = 0  BY DEF Init
<1>3. \/ d[1] = 0 /\ d[2] = 0
      \/ d[1] \in 1 .. d[2] /\ d[2] \in 1 .. MaxSlot /\ d[2] - d[1] < MaxBlocks
  BY StorageWriteAssumption
<1>4. PICK b \in 0 .. MaxSlot, f \in 0 .. MaxSlot :
        /\ b = d[1] /\ f = d[2]
        /\ f # 0 => b \in 1 .. f /\ f - b < MaxBlocks
  <2>1. CASE d[1] = 0 /\ d[2] = 0  BY <2>1
  <2>2. CASE d[1] \in 1 .. d[2] /\ d[2] \in 1 .. MaxSlot /\ d[2] - d[1] < MaxBlocks
    <3>1. d[2] \in Nat /\ d[2] <= MaxSlot  BY <2>2
    <3>2. d[1] \in Nat /\ d[1] <= MaxSlot  BY <2>2, <3>1
    <3> QED  BY <2>2, <3>1, <3>2
  <2> QED  BY <1>3, <2>1, <2>2
<1>5. PICK n \in 1 .. MaxSlot + 1 : n = (IF d[2] = 0 THEN node ELSE d[2] + 1)
  BY <1>2, <1>4
<1>6. w = [back |-> b, front |-> f, next |-> n, upto |-> SyncTo, back_slot |-> None,
           request |-> Unset, busy |-> {}, qback |-> {}, qfront |-> {}]
  BY <1>1, <1>4, <1>5 DEF Started
<1>7. w \in Writer
  <2>1. Unset \in 0 .. Unset  OBVIOUS
  <2> QED  BY <1>6, <2>1 DEF Writer
<1>8. /\ w.back = b /\ w.front = f /\ w.next = n /\ w.upto = SyncTo /\ w.back_slot = None
      /\ w.qfront = {}
  BY <1>6
<1>9. Good(w)  BY <1>4, <1>7, <1>8 DEF Good, Window, Filling, Reaches
<1>10. Running
  <2>1. w.next .. newest = {}  BY <1>2, <1>8
  <2> QED  BY <1>4, <1>5, <1>8, <2>1 DEF Running, Follows, Waits, Coming
<1> QED  BY <1>2, <1>9, <1>10 DEF WriteInv, CatchingUp

\* The invariant holds of every state, for any chain, size of the database,
\* concurrency, sync_to and number of catch-ups.
THEOREM WriteInvariant == Spec => []WriteInv
<1>1. WriteInv /\ [Next]_vars => WriteInv'
  <2> SUFFICES ASSUME WriteInv, [Next]_vars PROVE WriteInv'  OBVIOUS
  <2>0. node \in Slots  BY DEF WriteInv
  <2>1. CASE UNCHANGED vars  BY <2>0, <2>1, StillStep DEF vars
  <2>2. CASE produce
    <3>1. node' \in Slots  BY <2>0, <2>2, Constants DEF produce, Slots
    <3> QED  BY <2>2, <3>1, StillStep DEF produce
  <2>3. CASE \E s \in Slots : response(s) \/ catchup_response(s)
    BY <2>3, ResponseStep, CatchupResponseStep
  <2>4. CASE stream  BY <2>4, StreamStep
  <2>5. CASE stream_other  BY <2>5, IdleStep DEF stream_other
  <2>6. CASE back_slot_ready  BY <2>6, IdleStep DEF back_slot_ready
  <2>7. CASE catchup_required  BY <2>7, CatchupRequiredStep
  <2>8. CASE http_fails  BY <2>8, HttpFailsStep
  <2> QED  BY <2>1, <2>2, <2>3, <2>4, <2>5, <2>6, <2>7, <2>8 DEF Next
<1> QED  BY <1>1, InitWrite, PTL DEF Spec

\* Types, and the database never holds more than storage.blocks.max slots.
THEOREM WriteTypes == Spec => []TypeOK
<1>1. WriteInv => TypeOK  BY DEF WriteInv, Good, Window, TypeOK
<1> QED  BY <1>1, WriteInvariant, PTL

\* Every slot up to the newest confirmed one is stored, queued or requested,
\* in whatever order stream messages, responses and catch-ups come: no hole
\* stops the front for ever.
THEOREM NothingForgottenAlways == Spec => []NothingForgotten
<1>1. WriteInv => NothingForgotten
  <2> SUFFICES ASSUME WriteInv PROVE NothingForgotten  OBVIOUS
  <2>1. CASE mode = "catching_up"
    BY <2>1 DEF WriteInv, CatchingUp, Coming, NothingForgotten
  <2>2. CASE mode # "catching_up"
    BY <2>2 DEF WriteInv, Running, Coming, NothingForgotten
  <2> QED  BY <2>1, <2>2
<1> QED  BY <1>1, WriteInvariant, PTL

\* The inner loop of a catch-up always has a request to wait for:
\* HttpBlocks::poll_next would not wake it otherwise.
THEOREM CatchupNeverHangsAlways == Spec => []CatchupNeverHangs
<1>1. WriteInv => CatchupNeverHangs  BY DEF WriteInv, CatchingUp, CatchupNeverHangs
<1> QED  BY <1>1, WriteInvariant, PTL

\* backfill_upto is given up only when the database reaches sync_to or is
\* full.
THEOREM BackfillReachesAlways == Spec => []BackfillReaches
<1>1. WriteInv => BackfillReaches  BY DEF WriteInv, Good, Reaches, BackfillReaches
<1> QED  BY <1>1, WriteInvariant, PTL

=============================================================================
