---------------------------- MODULE StorageFiles ----------------------------
(***************************************************************************)
(* The block files of src/storage/files.rs.  Every file is used as a ring  *)
(* of bytes: a block occupies one contiguous range, new blocks go in front *)
(* of head (the live stream) or behind tail (backfilling), old blocks are  *)
(* dropped from the tail and, on request at start-up, from the head.       *)
(*                                                                         *)
(* Bytes are not modelled, only the ranges the blocks occupy.  stored is   *)
(* what the slot index remembers (slot order, dead slots left out: they    *)
(* occupy no range), so it survives a restart; tail and head are memory    *)
(* and are rebuilt by open.                                                *)
(***************************************************************************)
EXTENDS Integers, Sequences

CONSTANTS
    N,          \* number of files of config.storage.blocks.files
    Size,       \* Size[i]: config.size of file i, in bytes
    NewBlocks,  \* NewBlocks[i]: config.new_blocks of file i
    BlockSizes, \* lengths of the encoded blocks
    MaxStored   \* config.storage.blocks.max: no more blocks are ever stored

Index == 0 .. N - 1

ASSUME FilesAssumption ==
    /\ N \in Nat \ {0}
    /\ Size \in [Index -> Nat \ {0}]
    /\ NewBlocks \in [Index -> BOOLEAN]
    /\ BlockSizes \subseteq Nat \ {0}
    /\ MaxStored \in Nat \ {0}

VARIABLES
    files,      \* files[i].tail, files[i].head: the fields of StorageFile i
    next_file,  \* the round-robin cursor of StorageFilesWrite
    stored,     \* live blocks in slot order: file, offset, size
    status,     \* what the storage thread is doing, or how it ended
    grown,      \* files whose length on disk is past config.size
    met         \* history: files in which a write brought head onto tail

filesvars == <<files, next_file, stored, status, grown, met>>

Block == [file : Index, offset : Nat, size : Nat \ {0}]

Status == {"starting", "running", "write overflow", "pop overflow",
           "invalid file size"}

\* Mutant: the two free parts of an unwrapped file counted as one range.
FreeSpaceSum(i) ==
    IF files[i].head < files[i].tail THEN files[i].tail - files[i].head
    ELSE files[i].tail + (Size[i] - files[i].head)

(***************************************************************************)
(* StorageFile::free_space: the longest block that fits.  It cannot tell a *)
(* full ring from an empty one when head = tail.                           *)
(***************************************************************************)
FreeSpace(i) ==
    LET tail == files[i].tail
        head == files[i].head
        rest == Size[i] - head
    IN  IF head < tail THEN tail - head
        ELSE IF tail >= rest THEN tail ELSE rest

Fits(i, len) == NewBlocks[i] /\ FreeSpace(i) >= len

Candidate(k) == (next_file + k) % N

(***************************************************************************)
(* get_file_index_for_new_block: the first file, in round-robin order from *)
(* next_file, that accepts new blocks and has the space.  The cursor stops *)
(* behind it.                                                              *)
(***************************************************************************)
FileIndexForNewBlock(len, i) ==
    \E k \in Index :
        /\ i = Candidate(k)
        /\ Fits(i, len)
        /\ \A j \in 0 .. k - 1 : ~ Fits(Candidate(j), len)

Meets(i, tail, head) == IF head = tail THEN met \union {i} ELSE met

(***************************************************************************)
(* StorageFile::write_front, with the bookkeeping of push_block: the block *)
(* goes to head, or to 0 when head is past tail and the end is too short.  *)
(* The bytes are written before the new head is checked against the size.  *)
(***************************************************************************)
\* Mutant: a block that fits exactly goes round the end.
FrontOffsetExactWraps(i, len) ==
    IF files[i].head > files[i].tail /\ Size[i] - files[i].head <= len
    THEN 0 ELSE files[i].head

FrontOffset(i, len) ==
    IF files[i].head > files[i].tail /\ Size[i] - files[i].head < len
    THEN 0 ELSE files[i].head

WriteFront(i, len) ==
    LET offset == FrontOffset(i, len)
        head   == offset + len
    IN  /\ files' = [files EXCEPT ![i].head = head]
        /\ met' = Meets(i, files[i].tail, head)
        /\ \/ /\ head <= Size[i]
              /\ stored' = Append(stored,
                               [file |-> i, offset |-> offset, size |-> len])
              /\ UNCHANGED <<status, grown>>
           \/ /\ head > Size[i]
              /\ status' = "write overflow"
              /\ grown' = grown \union {i}
              /\ UNCHANGED stored

(***************************************************************************)
(* StorageFile::write_back: the block ends at tail, or at the end of the   *)
(* file when there is not enough room before tail.                         *)
(***************************************************************************)
BackOffset(i, len) ==
    IF files[i].tail >= len THEN files[i].tail - len ELSE Size[i] - len

WriteBack(i, len) ==
    LET offset == BackOffset(i, len)
    IN  /\ files' = [files EXCEPT ![i].tail = offset]
        /\ met' = Meets(i, offset, files[i].head)
        /\ stored' = <<[file |-> i, offset |-> offset, size |-> len]>> \o stored
        /\ UNCHANGED <<status, grown>>

PushBlock(len, Write(_, _)) ==
    /\ status = "running"
    /\ Len(stored) < MaxStored
    /\ \E i \in Index :
          /\ FileIndexForNewBlock(len, i)
          /\ next_file' = (i + 1) % N
          /\ Write(i, len)

push_block_front(len) == PushBlock(len, WriteFront)

push_block_back(len) == PushBlock(len, WriteBack)

(***************************************************************************)
(* pop_block: drop the oldest (Back) or newest (Front) block.  The slot    *)
(* index has already forgotten it.  head is then required to be strictly   *)
(* below the file size; the requirement on tail (<=) always holds.         *)
(***************************************************************************)
PopStatus(i, head) ==
    status' = IF head < Size[i] THEN status ELSE "pop overflow"

pop_block_back ==
    /\ status \in {"starting", "running"}
    /\ stored # <<>>
    /\ LET b == stored[1]
       IN  /\ files' = [files EXCEPT
                           ![b.file].tail = (b.offset + b.size) % Size[b.file]]
           /\ PopStatus(b.file, files[b.file].head)
    /\ stored' = Tail(stored)
    /\ UNCHANGED <<next_file, grown, met>>

pop_block_front ==
    /\ status = "starting"
    /\ stored # <<>>
    /\ LET b == stored[Len(stored)]
       IN  /\ files' = [files EXCEPT ![b.file].head = b.offset]
           /\ PopStatus(b.file, b.offset)
    /\ stored' = SubSeq(stored, 1, Len(stored) - 1)
    /\ UNCHANGED <<next_file, grown, met>>

(***************************************************************************)
(* The command-line pops are over and the storage loop begins.             *)
(***************************************************************************)
begin ==
    /\ status = "starting"
    /\ status' = "running"
    /\ UNCHANGED <<files, next_file, stored, grown, met>>

(***************************************************************************)
(* StorageFilesWrite::open, on the first start and on every restart, after *)
(* a crash or an error at any point.  tail is the offset of the lowest     *)
(* slot's block of the file, head the end of the highest one's.  A file    *)
(* that is longer than configured is refused.                              *)
(***************************************************************************)
OnFile(i) == {k \in DOMAIN stored : stored[k].file = i}

Lowest(K) == CHOOSE k \in K : \A j \in K : k <= j

Highest(K) == CHOOSE k \in K : \A j \in K : j <= k

Boundaries(i) ==
    IF OnFile(i) = {} THEN [tail |-> 0, head |-> 0]
    ELSE LET min == stored[Lowest(OnFile(i))]
             max == stored[Highest(OnFile(i))]
         IN  [tail |-> min.offset, head |-> max.offset + max.size]

open ==
    /\ \/ /\ grown = {}
          /\ files' = [i \in Index |-> Boundaries(i)]
          /\ next_file' = 0
          /\ status' = "starting"
       \/ /\ grown # {}
          /\ status' = "invalid file size"
          /\ UNCHANGED <<files, next_file>>
    /\ UNCHANGED <<stored, grown, met>>

FilesInit ==
    /\ files = [i \in Index |-> [tail |-> 0, head |-> 0]]
    /\ next_file = 0
    /\ stored = <<>>
    /\ status = "starting"
    /\ grown = {}
    /\ met = {}

FilesNext ==
    \/ \E len \in BlockSizes : push_block_front(len)
    \/ \E len \in BlockSizes : push_block_back(len)
    \/ pop_block_back
    \/ pop_block_front
    \/ begin
    \/ open

FilesSpec == FilesInit /\ [][FilesNext]_filesvars

-----------------------------------------------------------------------------
(***************************************************************************)
(* Every variable has its type; tail stays inside the file, head too as    *)
(* long as no write has run past the end.                                  *)
(***************************************************************************)
FilesTypeOK ==
    /\ files \in [Index -> [tail : Nat, head : Nat]]
    /\ next_file \in Index
    /\ stored \in Seq(Block)
    /\ status \in Status
    /\ grown \in SUBSET Index
    /\ met \in SUBSET Index
    /\ \A i \in Index :
          /\ files[i].tail < Size[i]
          /\ files[i].head <= Size[i] \/ i \in grown
    /\ \A k \in DOMAIN stored :
          stored[k].offset + stored[k].size <= Size[stored[k].file]
    /\ status \in {"starting", "running", "pop overflow"} => grown = {}

End(b) == b.offset + b.size

Disjoint(a, b) == End(a) <= b.offset \/ End(b) <= a.offset

(***************************************************************************)
(* Two stored blocks never share a byte, in any file that was never filled *)
(* to the last free byte: whatever mix of stream pushes, backfill pushes,  *)
(* prunings, rollbacks and restarts, write_front and write_back only use   *)
(* bytes that free_space counted as free.                                  *)
(***************************************************************************)
BlocksDisjoint ==
    \A j, k \in DOMAIN stored :
        /\ j < k
        /\ stored[j].file = stored[k].file
        /\ stored[j].file \notin met
        => Disjoint(stored[j], stored[k])

(***************************************************************************)
(* Where the blocks of a file lie: between tail and head, or, once a write *)
(* went round the end, partly above tail (older) and partly below head     *)
(* (newer), each part in slot order.  This is the reason for               *)
(* BlocksDisjoint, and what open relies on to rebuild tail and head.       *)
(***************************************************************************)
Within(tail, head, b) ==
    IF head < tail THEN tail <= b.offset \/ End(b) <= head
                   ELSE tail <= b.offset /\ End(b) <= head

InOrder(tail, head, a, b) ==
    \/ /\ End(a) <= b.offset
       /\ head < tail /\ tail <= b.offset => tail <= a.offset
    \/ head < tail /\ tail <= a.offset /\ End(b) <= head

LayoutOf(i) ==
    LET tail == files[i].tail
        head == files[i].head
    IN  /\ \A k \in OnFile(i) : Within(tail, head, stored[k])
        /\ \A j, k \in OnFile(i) : j < k => InOrder(tail, head, stored[j], stored[k])

Layout == \A i \in Index \ (met \union grown) : LayoutOf(i)
=============================================================================
