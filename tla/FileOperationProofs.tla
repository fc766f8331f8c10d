------------------------ MODULE FileOperationProofs ------------------------
(***************************************************************************)
(* Proofs about the file layer, for every device, every number of direct   *)
(* and indirect entries, every block size and every content.               *)
(***************************************************************************)
EXTENDS FileOperation, Digits, FiniteSetTheorems, SequenceTheorems, TLAPS

-----------------------------------------------------------------------------
(* The number of blocks of a content. *)

(* calculate_block_sz rounds up: no cell is left out, no block is empty. *)
LEMMA BlockCount ==
  ASSUME NEW sz \in Nat
  PROVE  /\ calculate_block_sz(sz) \in Nat
         /\ sz <= calculate_block_sz(sz) * BlockSize
         /\ sz > 0 => (calculate_block_sz(sz) - 1) * BlockSize < sz
         /\ sz = 0 => calculate_block_sz(sz) = 0
<1> DEFINE q == sz \div BlockSize
           r == sz % BlockSize
<1>1. /\ q \in Nat /\ r \in 0 .. BlockSize - 1
      /\ sz = q * BlockSize + r
  BY DivMod, LayoutAssumption
<1>2. calculate_block_sz(sz) = IF r # 0 THEN q + 1 ELSE q
  BY DEF calculate_block_sz
<1> HIDE DEF q, r
<1>3. /\ q * BlockSize \in Nat
      /\ (q + 1) * BlockSize = q * BlockSize + BlockSize
      /\ (q - 1) * BlockSize = q * BlockSize - BlockSize
  BY <1>1, LayoutAssumption
<1>4. q > 0 => q * BlockSize > 0
  BY <1>1, LayoutAssumption
<1>5. CASE r = 0
  <2>1. calculate_block_sz(sz) = q /\ sz = q * BlockSize
    BY <1>1, <1>2, <1>3, <1>5
  <2>2. (calculate_block_sz(sz) - 1) * BlockSize = sz - BlockSize
    BY <1>3, <2>1
  <2>3. QED
    BY <1>1, <1>4, <2>1, <2>2, LayoutAssumption
<1>6. CASE r # 0
  <2>1. calculate_block_sz(sz) = q + 1
    BY <1>2, <1>6
  <2>2. /\ (calculate_block_sz(sz) - 1) * BlockSize = q * BlockSize
        /\ calculate_block_sz(sz) * BlockSize = q * BlockSize + BlockSize
    BY <1>1, <1>3, <2>1
  <2>3. q * BlockSize < sz /\ sz <= q * BlockSize + BlockSize
    BY <1>1, <1>3, <1>6, LayoutAssumption
  <2>4. calculate_block_sz(sz) \in Nat /\ sz # 0
    BY <1>1, <1>3, <2>1, <2>3
  <2>5. QED
    BY <2>2, <2>3, <2>4
<1>7. QED
  BY <1>5, <1>6

(* A file within MaxFileSize has no position behind its indirect entries. *)
LEMMA BlockCountBound ==
  ASSUME NEW sz \in 0 .. MaxFileSize
  PROVE  calculate_block_sz(sz) <= NDirect + NIndirect
<1> DEFINE n == calculate_block_sz(sz)
<1>1. /\ MaxFileSize = (NDirect + NIndirect) * BlockSize
      /\ MaxFileSize \in Nat
  BY LayoutAssumption DEF MaxFileSize
<1>2. /\ sz \in Nat /\ n \in Nat
      /\ sz > 0 => (n - 1) * BlockSize < sz
      /\ sz = 0 => n = 0
  BY <1>1, BlockCount
<1> HIDE DEF n
<1>3. SUFFICES ASSUME NDirect + NIndirect < n PROVE FALSE
  BY <1>2, LayoutAssumption DEF n
<1>4. n - 1 \in Nat /\ NDirect + NIndirect <= n - 1
  BY <1>2, <1>3, LayoutAssumption
<1>5. (NDirect + NIndirect) * BlockSize <= (n - 1) * BlockSize
  BY <1>4, LayoutAssumption
<1>6. (n - 1) * BlockSize \in Nat
  BY <1>4, LayoutAssumption
<1>7. sz > 0
  BY <1>2, <1>3, LayoutAssumption
<1>8. QED
  BY <1>1, <1>2, <1>5, <1>6, <1>7

(* Each cell of a content has its place in one of the content's blocks. *)
LEMMA PlaceOfCell ==
  ASSUME NEW sz \in Nat, NEW k \in 1 .. sz
  PROVE  /\ (k - 1) \div BlockSize \in 0 .. calculate_block_sz(sz) - 1
         /\ (k - 1) % BlockSize \in 0 .. BlockSize - 1
         /\ ((k - 1) \div BlockSize) * BlockSize + ((k - 1) % BlockSize) = k - 1
<1> DEFINE q == (k - 1) \div BlockSize
           r == (k - 1) % BlockSize
           n == calculate_block_sz(sz)
<1>1. k - 1 \in Nat
  OBVIOUS
<1>2. /\ q \in Nat /\ r \in 0 .. BlockSize - 1
      /\ k - 1 = q * BlockSize + r
  BY <1>1, DivMod, LayoutAssumption
<1>3. n \in Nat /\ sz <= n * BlockSize
  BY BlockCount
<1> HIDE DEF q, r, n
<1>4. q < n
  <2>1. SUFFICES ASSUME n <= q PROVE FALSE
    BY <1>2, <1>3
  <2>2. n * BlockSize <= q * BlockSize
    BY <1>2, <1>3, <2>1, LayoutAssumption
  <2>3. n * BlockSize \in Nat /\ q * BlockSize \in Nat
    BY <1>2, <1>3, LayoutAssumption
  <2>4. QED
    BY <1>2, <1>3, <2>2, <2>3
<1>5. QED
  <2>1. /\ q \in 0 .. n - 1 /\ r \in 0 .. BlockSize - 1
        /\ q * BlockSize + r = k - 1
    BY <1>2, <1>3, <1>4
  <2>2. QED
    BY <2>1 DEF q, r, n

-----------------------------------------------------------------------------
(* The order in which free blocks are handed out. *)

(* The rank of a member of a finite set of numbers is the number of smaller *)
(* ones: it grows with the member.                                          *)
LEMMA RankGrows ==
  ASSUME NEW S \in SUBSET Nat, IsFiniteSet(S), NEW a \in S, NEW b \in S, a < b
  PROVE  /\ Cardinality({c \in S : c < a}) \in Nat
         /\ Cardinality({c \in S : c < b}) \in Nat
         /\ Cardinality({c \in S : c < a}) < Cardinality({c \in S : c < b})
<1> DEFINE below(x) == {c \in S : c < x}
<1>1. below(a) \cup {a} \in SUBSET below(b) /\ a \notin below(a)
  <2>1. a \in Nat /\ b \in Nat /\ \A c \in S : c \in Nat
    OBVIOUS
  <2>2. \A c \in S : c < a => c < b
    BY <2>1
  <2>3. ~(a < a)
    BY <2>1
  <2>4. QED
    BY <2>2, <2>3
<1>2. below(a) \in SUBSET S /\ below(b) \in SUBSET S
  OBVIOUS
<1> HIDE DEF below
<1>3. IsFiniteSet(below(a)) /\ IsFiniteSet(below(b))
  BY <1>2, FS_Subset
<1>4. Cardinality(below(a)) \in Nat /\ Cardinality(below(b)) \in Nat
  BY <1>3, FS_CardinalityType
<1>5. Cardinality(below(a) \cup {a}) = Cardinality(below(a)) + 1
  BY <1>1, <1>3, FS_AddElement
<1>6. Cardinality(below(a) \cup {a}) <= Cardinality(below(b))
  BY <1>1, <1>3, FS_Subset
<1>7. Cardinality(below(a)) < Cardinality(below(b))
  BY <1>4, <1>5, <1>6
<1>8. QED
  BY <1>4, <1>7 DEF below

(* In a finite set of numbers, some member has exactly n - 1 smaller ones,  *)
(* for each n up to the size of the set: the ranks are a bijection.         *)
LEMMA Ranks ==
  ASSUME NEW S \in SUBSET Nat, IsFiniteSet(S), NEW n \in 1 .. Cardinality(S)
  PROVE  \E b \in S : Cardinality({c \in S : c < b}) = n - 1
<1> DEFINE below(b) == {c \in S : c < b}
           T == 0 .. (Cardinality(S) - 1)
           rank == [b \in S |-> Cardinality(below(b))]
<1>1. Cardinality(S) \in Nat
  BY FS_CardinalityType
<1>2. IsFiniteSet(T) /\ Cardinality(T) = Cardinality(S)
  <2>1. 0 \in Int /\ Cardinality(S) - 1 \in Int
    BY <1>1
  <2>2. /\ IsFiniteSet(T)
        /\ Cardinality(T) = IF 0 > Cardinality(S) - 1 THEN 0
                            ELSE Cardinality(S) - 1 - 0 + 1
    BY <2>1, FS_Interval
  <2>3. QED
    BY <1>1, <2>2
<1>3. ASSUME NEW b \in S
      PROVE  IsFiniteSet(below(b)) /\ Cardinality(below(b)) \in T
  <2>1. below(b) \in SUBSET (S \ {b})
    OBVIOUS
  <2>2. /\ IsFiniteSet(S \ {b})
        /\ Cardinality(S \ {b}) = Cardinality(S) - 1
    BY FS_RemoveElement
  <2> HIDE DEF below
  <2>3. /\ IsFiniteSet(below(b))
        /\ Cardinality(below(b)) <= Cardinality(S) - 1
    BY <2>1, <2>2, FS_Subset
  <2>4. QED
    BY <1>1, <2>3, FS_CardinalityType
<1>4. ASSUME NEW a \in S, NEW b \in S, a < b
      PROVE  Cardinality(below(a)) < Cardinality(below(b))
  BY <1>4, RankGrows
<1>5. rank \in [S -> T]
  BY <1>3
<1>6. ASSUME NEW a \in S, NEW b \in S, rank[a] = rank[b] PROVE a = b
  <2>1. Cardinality(below(a)) = Cardinality(below(b))
    BY <1>6
  <2>2. Cardinality(below(a)) \in Nat
    BY <1>1, <1>3
  <2> HIDE DEF below
  <2>3. ~(a < b) /\ ~(b < a)
    BY <1>4, <2>1, <2>2
  <2>4. QED
    BY <2>3
<1> HIDE DEF T, rank
<1>7. rank \in Injection(S, T)
  BY <1>5, <1>6 DEF Injection, IsInjective
<1>8. rank \in Surjection(S, T)
  BY <1>2, <1>7, FS_Injection
<1>9. n - 1 \in T
  BY <1>1 DEF T
<1>10. PICK b \in S : rank[b] = n - 1
  BY <1>8, <1>9 DEF Surjection
<1>11. QED
  BY <1>10 DEF rank

LEMMA FreeIsFinite ==
  /\ Free \in SUBSET Nat /\ IsFiniteSet(Free)
  /\ Cardinality(Free) \in Nat
<1>1. IsFiniteSet(Blocks)
  BY FS_Interval, LayoutAssumption DEF Blocks
<1>2. Free \in SUBSET Blocks
  BY DEF Free
<1>3. IsFiniteSet(Free)
  BY <1>1, <1>2, FS_Subset
<1>4. QED
  BY <1>2, <1>3, FS_CardinalityType, LayoutAssumption DEF Blocks

(* As long as there are n free blocks, the n-th one handed out is free, and *)
(* it is none of the others.                                                *)
LEMMA NthFreeIsFree ==
  ASSUME NEW n \in 1 .. Cardinality(Free)
  PROVE  NthFree(n) \in Free /\ Cardinality({c \in Free : c < NthFree(n)}) = n - 1
<1>1. \E b \in Free : Cardinality({c \in Free : c < b}) = n - 1
  BY FreeIsFinite, Ranks
<1>2. QED
  BY <1>1 DEF NthFree

LEMMA NthFreeIsFresh ==
  ASSUME NEW n \in 1 .. Cardinality(Free), NEW m \in 1 .. Cardinality(Free),
         NthFree(n) = NthFree(m)
  PROVE  n = m
<1>1. n - 1 = m - 1
  BY NthFreeIsFree
<1>2. QED
  BY <1>1, FreeIsFinite

(* A finite set of numbers that is not empty has a least one. *)
LEMMA Lowest ==
  ASSUME NEW S \in SUBSET Nat, IsFiniteSet(S), S # {}
  PROVE  \E x \in S : \A y \in S : x <= y
<1>1. Cardinality(S) \in Nat /\ Cardinality(S) # 0
  BY FS_CardinalityType, FS_EmptySet
<1>2. PICK x \in S : Cardinality({c \in S : c < x}) = 0
  <2>1. 1 \in 1 .. Cardinality(S)
    BY <1>1
  <2>2. \E b \in S : Cardinality({c \in S : c < b}) = 1 - 1
    BY <2>1, Ranks
  <2>3. QED
    BY <2>2
<1>3. {c \in S : c < x} \in SUBSET S
  OBVIOUS
<1>4. IsFiniteSet({c \in S : c < x})
  BY <1>3, FS_Subset
<1>5. {c \in S : c < x} = {}
  BY <1>2, <1>4, FS_EmptySet
<1>6. QED
  BY <1>5

(* So there is a lowest free inode id when there is a free one. *)
LEMMA LowestOfIds ==
  ASSUME NEW S \in SUBSET InodeIds, S # {}
  PROVE  \E id \in S : \A j \in S : id <= j
<1>1. IsFiniteSet(InodeIds)
  BY FS_Interval, LayoutAssumption DEF InodeIds
<1>2. S \in SUBSET Nat
  BY LayoutAssumption DEF InodeIds
<1>3. IsFiniteSet(S)
  BY <1>1, FS_Subset
<1>4. QED
  BY <1>2, <1>3, Lowest

LEMMA LowestFreeId ==
  ASSUME FreeIds # {}
  PROVE  \E id \in FreeIds : \A j \in FreeIds : id <= j
<1>1. FreeIds \in SUBSET InodeIds
  BY DEF FreeIds
<1>2. QED
  BY <1>1, LowestOfIds

-----------------------------------------------------------------------------
(* The inductive invariant.  BlockOwnership speaks of places; a step of the *)
(* file layer concerns one file, so the proofs speak of files: what one     *)
(* file's blocks are, that they are sound, and that no two files share one. *)
(* IInv is the conjunction of the three invariants in this other form.      *)

Indirect(id) == InodeOf(id).blocks[NDirect]

Holds(b, kind) == b \in used \cap DataBlocks /\ disk[b].kind = kind

BlocksOf(id) ==
  {home[id]} \cup {DataBlockAt(id, idx) : idx \in Positions(id)}
    \cup {b \in DataBlocks : HasIndirect(id) /\ b = Indirect(id)}

FileSound(id) ==
  /\ Holds(home[id], "inode")
  /\ HasIndirect(id) => Holds(Indirect(id), "indirect")
  /\ \A idx \in Positions(id) : Holds(DataBlockAt(id, idx), "data")
  /\ \A x, y \in Positions(id) : DataBlockAt(id, x) = DataBlockAt(id, y) => x = y

FileShaped(id) ==
  /\ \A idx \in 0 .. NDirect - 1 :
       InodeOf(id).blocks[idx] # KInvalidBlockID
         <=> idx < calculate_block_sz(InodeOf(id).size)
  /\ HasIndirect(id) <=> calculate_block_sz(InodeOf(id).size) > NDirect

FilesApart == \A i, j \in Live : i # j => BlocksOf(i) \cap BlocksOf(j) = {}

IInv ==
  /\ TypeOK
  /\ Reserved \subseteq used
  /\ \A id \in Live : FileSound(id) /\ FileShaped(id)
  /\ FilesApart

(* The kind of a data block tells what else it holds. *)
LEMMA KindTells ==
  ASSUME TypeOK, NEW b \in DataBlocks
  PROVE  /\ disk[b].kind = "inode" => disk[b] \in Inodes
         /\ disk[b].kind = "indirect" => disk[b] \in IndirectBlocks
         /\ disk[b].kind = "data" => disk[b] \in FileBlocks
  BY DEF TypeOK, Stale, Inodes, IndirectBlocks, FileBlocks

(* What is known of an inode that is in the table. *)
LEMMA LiveInode ==
  ASSUME IInv, NEW id \in Live
  PROVE  /\ home[id] \in DataBlocks /\ home[id] \in used
         /\ InodeOf(id) \in Inodes
         /\ InodeOf(id).size \in 0 .. MaxFileSize /\ InodeOf(id).size \in Nat
         /\ InodeOf(id).blocks \in [0 .. NDirect -> {KInvalidBlockID} \cup DataBlocks]
         /\ calculate_block_sz(InodeOf(id).size) \in 0 .. NDirect + NIndirect
         /\ Positions(id) \subseteq Nat
         /\ Indirect(id) \in {KInvalidBlockID} \cup DataBlocks
<1>1. home[id] \in DataBlocks /\ home[id] \in used /\ InodeOf(id).kind = "inode"
  BY DEF IInv, FileSound, Holds, InodeOf
<1>2. InodeOf(id) \in Inodes
  BY <1>1, KindTells DEF IInv, InodeOf
<1>3. MaxFileSize \in Nat
  BY LayoutAssumption DEF MaxFileSize
<1>4. /\ InodeOf(id).size \in 0 .. MaxFileSize /\ InodeOf(id).size \in Nat
      /\ InodeOf(id).blocks \in [0 .. NDirect -> {KInvalidBlockID} \cup DataBlocks]
  BY <1>2, <1>3 DEF Inodes
<1>5. calculate_block_sz(InodeOf(id).size) \in 0 .. NDirect + NIndirect
  <2>1. calculate_block_sz(InodeOf(id).size) \in Nat
    BY <1>4, BlockCount
  <2>2. calculate_block_sz(InodeOf(id).size) <= NDirect + NIndirect
    BY <1>4, BlockCountBound
  <2>3. QED
    BY <2>1, <2>2, LayoutAssumption
<1>6. Indirect(id) \in {KInvalidBlockID} \cup DataBlocks
  <2>1. NDirect \in 0 .. NDirect
    BY LayoutAssumption
  <2>2. QED
    BY <1>4, <2>1 DEF Indirect
<1>7. QED
  BY <1>1, <1>2, <1>4, <1>5, <1>6, LayoutAssumption DEF Positions

LEMMA NoDataBlockZero == KInvalidBlockID \notin DataBlocks /\ DataBlocks \subseteq Blocks
  BY LayoutAssumption DEF DataBlocks, Reserved, Blocks, KInvalidBlockID

(* The indirect block of a file that has one. *)
LEMMA LiveIndirect ==
  ASSUME IInv, NEW id \in Live, HasIndirect(id)
  PROVE  /\ Indirect(id) \in DataBlocks /\ Indirect(id) \in used
         /\ disk[Indirect(id)] \in IndirectBlocks
         /\ EntriesAt(Indirect(id)) = disk[Indirect(id)].entries
         /\ EntriesAt(Indirect(id)) \in
              [0 .. NIndirect - 1 -> {KInvalidBlockID, Garbage} \cup DataBlocks]
<1>1. Holds(Indirect(id), "indirect")
  BY DEF IInv, FileSound
<1>2. disk[Indirect(id)] \in IndirectBlocks
  BY <1>1, KindTells DEF IInv, Holds
<1>3. EntriesAt(Indirect(id)) = disk[Indirect(id)].entries
  BY <1>1 DEF Holds, EntriesAt
<1>4. disk[Indirect(id)].entries \in
        [0 .. NIndirect - 1 -> {KInvalidBlockID, Garbage} \cup DataBlocks]
  BY <1>2 DEF IndirectBlocks
<1>5. QED
  BY <1>1, <1>2, <1>3, <1>4 DEF Holds

(* A file's blocks are of three different kinds. *)
LEMMA BlocksDiffer ==
  ASSUME IInv, NEW id \in Live
  PROVE  /\ BlocksOf(id) \subseteq used \cap DataBlocks
         /\ \A idx \in Positions(id) : /\ DataBlockAt(id, idx) \in BlocksOf(id)
                                       /\ DataBlockAt(id, idx) # home[id]
         /\ home[id] \in BlocksOf(id)
         /\ HasIndirect(id) =>
              /\ Indirect(id) \in BlocksOf(id) /\ Indirect(id) # home[id]
              /\ \A idx \in Positions(id) : DataBlockAt(id, idx) # Indirect(id)
<1>1. FileSound(id)
  BY DEF IInv
<1>2. /\ Holds(home[id], "inode")
      /\ HasIndirect(id) => Holds(Indirect(id), "indirect")
      /\ \A idx \in Positions(id) : Holds(DataBlockAt(id, idx), "data")
  BY <1>1 DEF FileSound
<1>3. BlocksOf(id) \subseteq used \cap DataBlocks
  BY <1>2 DEF Holds, BlocksOf
<1>4. \A idx \in Positions(id) :
        DataBlockAt(id, idx) \in BlocksOf(id) /\ DataBlockAt(id, idx) # home[id]
  BY <1>2 DEF Holds, BlocksOf
<1>5. ASSUME HasIndirect(id)
      PROVE  /\ Indirect(id) \in BlocksOf(id) /\ Indirect(id) # home[id]
             /\ \A idx \in Positions(id) : DataBlockAt(id, idx) # Indirect(id)
  BY <1>2, <1>5 DEF Holds, BlocksOf
<1>6. QED
  BY <1>3, <1>4, <1>5 DEF BlocksOf

(* The inductive invariant says what the three checked invariants say. *)
LEMMA OwnershipOfPlaces == IInv => BlockOwnership
<1> SUFFICES ASSUME IInv PROVE BlockOwnership
  OBVIOUS
<1>1. ASSUME NEW p \in Places
      PROVE  /\ p[1] \in Live
             /\ \/ p = <<p[1], "inode", 0>> /\ Target(p) = home[p[1]]
                \/ /\ p = <<p[1], "indirect", 0>> /\ HasIndirect(p[1])
                   /\ Target(p) = Indirect(p[1])
                \/ /\ p = <<p[1], "data", p[3]>> /\ p[3] \in Positions(p[1])
                   /\ Target(p) = DataBlockAt(p[1], p[3])
  BY DEF Places, Target, Indirect
<1>2. ASSUME NEW p \in Places
      PROVE  /\ Target(p) \in used \cap DataBlocks /\ disk[Target(p)].kind = p[2]
             /\ p[1] \in Live /\ Target(p) \in BlocksOf(p[1])
  <2>1. p[1] \in Live /\ FileSound(p[1])
    BY <1>1 DEF IInv
  <2>2. CASE p = <<p[1], "inode", 0>> /\ Target(p) = home[p[1]]
    BY <2>1, <2>2, BlocksDiffer DEF FileSound, Holds
  <2>3. CASE /\ p = <<p[1], "indirect", 0>> /\ HasIndirect(p[1])
             /\ Target(p) = Indirect(p[1])
    BY <2>1, <2>3, BlocksDiffer DEF FileSound, Holds
  <2>4. CASE /\ p = <<p[1], "data", p[3]>> /\ p[3] \in Positions(p[1])
             /\ Target(p) = DataBlockAt(p[1], p[3])
    BY <2>1, <2>4, BlocksDiffer DEF FileSound, Holds
  <2>5. QED
    BY <1>1, <2>2, <2>3, <2>4
<1>3. ASSUME NEW p \in Places, NEW q \in Places, Target(p) = Target(q)
      PROVE  p = q
  <2>1. p[2] = q[2]
    BY <1>2, <1>3
  <2>2. p[1] = q[1]
    BY <1>2, <1>3 DEF IInv, FilesApart
  <2>3. FileSound(p[1])
    BY <1>2 DEF IInv
  <2>4. ASSUME p = <<p[1], "data", p[3]>>, p[3] \in Positions(p[1]),
               q = <<q[1], "data", q[3]>>, q[3] \in Positions(q[1]),
               Target(p) = DataBlockAt(p[1], p[3]), Target(q) = DataBlockAt(q[1], q[3])
        PROVE  p[3] = q[3]
    BY <1>3, <2>2, <2>3, <2>4 DEF FileSound
  <2>5. QED
    BY <1>1, <2>1, <2>2, <2>4
<1>4. QED
  BY <1>2, <1>3 DEF BlockOwnership, IInv

LEMMA ShapeOfFiles == IInv => InodeShape
  BY DEF IInv, FileShaped, InodeShape

-----------------------------------------------------------------------------
(* Reading. *)

(* Where the block of a position is found. *)
LEMMA DirectPosition ==
  ASSUME NEW id, NEW idx, idx < NDirect
  PROVE  DataBlockAt(id, idx) = InodeOf(id).blocks[idx]
  BY DEF DataBlockAt, BlockOf

LEMMA IndirectPosition ==
  ASSUME IInv, NEW id \in Live, NEW idx \in Positions(id), ~(idx < NDirect)
  PROVE  /\ HasIndirect(id) /\ idx - NDirect \in 0 .. NIndirect - 1
         /\ DataBlockAt(id, idx) = disk[Indirect(id)].entries[idx - NDirect]
<1>1. /\ idx \in Nat
      /\ idx < calculate_block_sz(InodeOf(id).size)
      /\ calculate_block_sz(InodeOf(id).size) \in 0 .. NDirect + NIndirect
  BY LiveInode, LayoutAssumption DEF Positions
<1>2. calculate_block_sz(InodeOf(id).size) > NDirect
      /\ idx - NDirect \in 0 .. NIndirect - 1
  BY <1>1, LayoutAssumption
<1>3. HasIndirect(id)
  BY <1>2 DEF IInv, FileShaped
<1>4. QED
  BY <1>2, <1>3, LiveIndirect DEF DataBlockAt, BlockOf, Indirect

(* Reading a file finds a cell for every position below its size. *)
LEMMA ReadTyped ==
  ASSUME IInv, NEW id \in Live
  PROVE  /\ read_file(id) \in Seq(Cells)
         /\ Len(read_file(id)) = InodeOf(id).size
         /\ \A k \in 1 .. InodeOf(id).size :
              /\ (k - 1) \div BlockSize \in Positions(id)
              /\ read_file(id)[k] =
                   disk[DataBlockAt(id, (k - 1) \div BlockSize)].cells[(k - 1) % BlockSize]
<1> DEFINE sz == InodeOf(id).size
           at(k) == DataBlockAt(id, (k - 1) \div BlockSize)
<1>1. read_file(id) = [k \in 1 .. sz |-> CellAt(at(k), (k - 1) % BlockSize)]
  BY DEF read_file, DataBlockAt
<1>2. sz \in Nat
  BY LiveInode
<1>3. ASSUME NEW k \in 1 .. sz
      PROVE  /\ (k - 1) \div BlockSize \in Positions(id)
             /\ CellAt(at(k), (k - 1) % BlockSize) = disk[at(k)].cells[(k - 1) % BlockSize]
             /\ CellAt(at(k), (k - 1) % BlockSize) \in Cells
  <2>1. /\ (k - 1) \div BlockSize \in Positions(id)
        /\ (k - 1) % BlockSize \in 0 .. BlockSize - 1
    BY <1>2, PlaceOfCell DEF Positions
  <2>2. Holds(at(k), "data")
    BY <2>1 DEF IInv, FileSound
  <2>3. at(k) \in DataBlocks /\ disk[at(k)].kind = "data" /\ disk[at(k)] \in FileBlocks
    BY <2>2, KindTells DEF Holds, IInv
  <2>4. disk[at(k)].cells \in [0 .. BlockSize - 1 -> Cells]
    BY <2>3 DEF FileBlocks
  <2> HIDE DEF at
  <2>5. QED
    BY <2>1, <2>3, <2>4 DEF CellAt
<1> HIDE DEF sz, at
<1>4. read_file(id) \in [1 .. sz -> Cells]
  BY <1>1, <1>3
<1>5. read_file(id) \in Seq(Cells) /\ Len(read_file(id)) = sz
  BY <1>2, <1>4
<1>6. QED
  BY <1>1, <1>3, <1>5 DEF sz, at

-----------------------------------------------------------------------------
(* Steps that leave a file alone. *)

(* A file whose blocks hold what they held, and whose entry in the table is *)
(* what it was, is the same file: nothing else is ever read for it.         *)
LEMMA Untouched ==
  ASSUME IInv, NEW i \in Live, home'[i] = home[i],
         \A b \in BlocksOf(i) : disk'[b] = disk[b]
  PROVE  /\ i \in Live'
         /\ InodeOf(i)' = InodeOf(i)
         /\ HasIndirect(i)' <=> HasIndirect(i)
         /\ Indirect(i)' = Indirect(i)
         /\ Positions(i)' = Positions(i)
         /\ \A idx \in Positions(i) : DataBlockAt(i, idx)' = DataBlockAt(i, idx)
         /\ BlocksOf(i)' = BlocksOf(i)
         /\ FileShaped(i)'
         /\ BlocksOf(i) \subseteq used' => FileSound(i)'
<1>1. InodeOf(i)' = InodeOf(i)
  BY BlocksDiffer DEF InodeOf
<1>2. /\ HasIndirect(i)' <=> HasIndirect(i)
      /\ Indirect(i)' = Indirect(i)
      /\ Positions(i)' = Positions(i)
      /\ i \in Live'
  BY <1>1 DEF HasIndirect, Indirect, Positions, Live
<1>3. ASSUME NEW idx \in Positions(i)
      PROVE  DataBlockAt(i, idx)' = DataBlockAt(i, idx)
  <2>1. CASE idx < NDirect
    BY <1>1, <2>1 DEF DataBlockAt, BlockOf
  <2>2. CASE ~(idx < NDirect)
    <3>1. /\ HasIndirect(i) /\ Indirect(i) \in DataBlocks
          /\ disk[Indirect(i)] = disk'[Indirect(i)]
          /\ disk[Indirect(i)].kind = "indirect"
      BY <2>2, IndirectPosition, LiveIndirect, BlocksDiffer DEF IndirectBlocks
    <3>2. EntriesAt(Indirect(i))' = EntriesAt(Indirect(i))
      BY <1>2, <3>1 DEF EntriesAt
    <3>3. QED
      BY <1>1, <1>2, <3>2 DEF DataBlockAt, BlockOf, Indirect
  <2>3. QED
    BY <2>1, <2>2
<1>4. BlocksOf(i)' = BlocksOf(i)
  BY <1>2, <1>3 DEF BlocksOf
<1>5. FileShaped(i)'
  BY <1>1, <1>2 DEF IInv, FileShaped
<1>6. ASSUME BlocksOf(i) \subseteq used' PROVE FileSound(i)'
  <2>1. FileSound(i)
    BY DEF IInv
  <2>2. Holds(home[i], "inode")'
    BY <1>6, <2>1, BlocksDiffer DEF FileSound, Holds
  <2>3. HasIndirect(i) => Holds(Indirect(i), "indirect")'
    BY <1>2, <1>6, <2>1, BlocksDiffer DEF FileSound, Holds
  <2>4. \A idx \in Positions(i) : Holds(DataBlockAt(i, idx), "data")'
    BY <1>3, <1>6, <2>1, BlocksDiffer DEF FileSound, Holds
  <2>5. QED
    BY <1>2, <1>3, <2>1, <2>2, <2>3, <2>4 DEF FileSound
<1>7. QED
  BY <1>1, <1>2, <1>3, <1>4, <1>5, <1>6

(* A step that marks more blocks and does nothing else. *)
LEMMA OnlyMarks ==
  ASSUME IInv, home' = home, disk' = disk, up' \in BOOLEAN,
         used \subseteq used', used' \subseteq Blocks
  PROVE  IInv'
<1>1. TypeOK'
  BY DEF IInv, TypeOK
<1>2. Reserved \subseteq used'
  BY DEF IInv
<1>3. Live' = Live
  BY DEF Live
<1>4. ASSUME NEW i \in Live
      PROVE  FileSound(i)' /\ FileShaped(i)' /\ BlocksOf(i)' = BlocksOf(i)
  BY Untouched, BlocksDiffer
<1>5. FilesApart'
  BY <1>3, <1>4 DEF IInv, FilesApart
<1>6. QED
  BY <1>1, <1>2, <1>3, <1>4, <1>5 DEF IInv, Reserved

(* A step that changes one file, or creates or removes it: the other files  *)
(* keep their blocks, and the file takes its blocks from those that were    *)
(* its own or free.                                                         *)
LEMMA OneFileChanges ==
  ASSUME IInv, NEW id \in InodeIds, TypeOK', Reserved \subseteq used',
         \A i \in InodeIds \ {id} : home'[i] = home[i],
         \A i \in Live \ {id} : \A b \in BlocksOf(i) : b \in used' /\ disk'[b] = disk[b],
         id \in Live' =>
           /\ FileSound(id)' /\ FileShaped(id)'
           /\ \A b \in BlocksOf(id)' : b \in used => id \in Live /\ b \in BlocksOf(id)
  PROVE  IInv'
<1>1. ASSUME NEW i \in Live', i # id
      PROVE  /\ i \in Live
             /\ FileSound(i)' /\ FileShaped(i)' /\ BlocksOf(i)' = BlocksOf(i)
  <2>1. i \in Live /\ home'[i] = home[i]
    BY <1>1 DEF Live
  <2>2. QED
    BY <1>1, <2>1, Untouched
<1>2. ASSUME NEW i \in Live', i # id, id \in Live'
      PROVE  (BlocksOf(i) \cap BlocksOf(id))' = {}
  <2>1. SUFFICES ASSUME NEW b \in BlocksOf(i)', b \in BlocksOf(id)' PROVE FALSE
    BY Zenon
  <2>2. i \in Live /\ b \in BlocksOf(i)
    BY <1>1, <1>2
  <2>3. b \in used
    BY <2>2, BlocksDiffer
  <2>4. id \in Live /\ b \in BlocksOf(id)
    BY <1>2, <2>1, <2>3
  <2>5. QED
    BY <1>2, <2>2, <2>4 DEF IInv, FilesApart
<1>3. FilesApart'
  <2>1. SUFFICES ASSUME NEW i \in Live', NEW j \in Live', i # j
                 PROVE  (BlocksOf(i) \cap BlocksOf(j))' = {}
    BY DEF FilesApart
  <2>2. CASE i # id /\ j # id
    <3>1. i \in Live /\ j \in Live /\ BlocksOf(i)' = BlocksOf(i) /\ BlocksOf(j)' = BlocksOf(j)
      BY <1>1, <2>2
    <3>2. QED
      BY <2>1, <3>1 DEF IInv, FilesApart
  <2>3. CASE i = id
    BY <1>2, <2>1, <2>3
  <2>4. CASE j = id
    BY <1>2, <2>1, <2>4
  <2>5. QED
    BY <2>2, <2>3, <2>4
<1>4. \A i \in Live' : FileSound(i)' /\ FileShaped(i)'
  BY <1>1
<1>5. QED
  BY <1>3, <1>4 DEF IInv, Reserved

-----------------------------------------------------------------------------
(* Storing a content. *)

(* What Store relies on: the new positions and the indirect block, if there *)
(* is one, are distinct blocks, the file's own or free before the call, and *)
(* marked after it; the bits of no other file are touched; the direct       *)
(* entries and the indirect entry end where the new length says; and no     *)
(* other block that was free or the file's own is marked.                   *)
Usable(id, b, bits) ==
  /\ b \in bits /\ b \in DataBlocks /\ b # home[id]
  /\ b \in used => b \in BlocksOf(id)

Storable(id, n, blocks, entries, bits) ==
  /\ bits \subseteq Blocks /\ used \ BlocksOf(id) \subseteq bits /\ home[id] \in bits
  /\ \A idx \in 0 .. n - 1 : Usable(id, BlockOf(blocks, entries, idx), bits)
  /\ \A x, y \in 0 .. n - 1 :
       BlockOf(blocks, entries, x) = BlockOf(blocks, entries, y) => x = y
  /\ n > NDirect =>
       /\ Usable(id, blocks[NDirect], bits)
       /\ \A idx \in 0 .. n - 1 : BlockOf(blocks, entries, idx) # blocks[NDirect]
  /\ \A idx \in 0 .. NDirect - 1 : blocks[idx] # KInvalidBlockID <=> idx < n
  /\ blocks[NDirect] # KInvalidBlockID <=> n > NDirect
  /\ \A b \in bits : b \notin used \/ b \in BlocksOf(id) =>
       \/ b = home[id] \/ (n > NDirect /\ b = blocks[NDirect])
       \/ \E idx \in 0 .. n - 1 : b = BlockOf(blocks, entries, idx)

StorePlan(id, content, blocks, entries, bits) ==
  /\ content \in Seq(Cells) /\ Len(content) \in 0 .. MaxFileSize
  /\ blocks \in [0 .. NDirect -> {KInvalidBlockID} \cup DataBlocks]
  /\ entries \in [0 .. NIndirect - 1 -> {KInvalidBlockID, Garbage} \cup DataBlocks]
  /\ Storable(id, calculate_block_sz(Len(content)), blocks, entries, bits)

(* What the device d holds after such a Store, block by block. *)
Rewritten(id, n, blocks, entries, b) ==
  \/ b = home[id] \/ (n > NDirect /\ b = blocks[NDirect])
  \/ \E idx \in 0 .. n - 1 : b = BlockOf(blocks, entries, idx)

Left(id, content, blocks, entries, bits, d) ==
  LET n == calculate_block_sz(Len(content))
  IN /\ d = [b \in DataBlocks |-> d[b]]
     /\ d[home[id]] = InodeBlock(InodeOf(id).type, Len(content), blocks)
     /\ n > NDirect => d[blocks[NDirect]] = IndirectBlock(entries)
     /\ \A idx \in 0 .. n - 1 :
          d[BlockOf(blocks, entries, idx)] = DataBlock(CellsOf(content, idx))
     /\ \A b \in DataBlocks :
          ~Rewritten(id, n, blocks, entries, b) =>
            d[b] = IF b \in used \ bits THEN Stale ELSE disk[b]

(* A step that makes a Store. *)
Stores(id, content, blocks, entries, bits) ==
  /\ StorePlan(id, content, blocks, entries, bits)
  /\ used' = bits /\ home' = home /\ up' \in BOOLEAN
  /\ Left(id, content, blocks, entries, bits, disk')

LEMMA CellsOfTyped ==
  ASSUME NEW content \in Seq(Cells), NEW idx \in Nat
  PROVE  CellsOf(content, idx) \in [0 .. BlockSize - 1 -> Cells]
<1>1. ASSUME NEW k \in 0 .. BlockSize - 1, idx * BlockSize + k < Len(content)
      PROVE  content[idx * BlockSize + k + 1] \in Cells
  <2>1. idx * BlockSize \in Nat /\ k \in Nat
    BY LayoutAssumption
  <2>2. idx * BlockSize + k + 1 \in 1 .. Len(content)
    BY <1>1, <2>1
  <2>3. QED
    BY <2>2
<1>2. QED
  BY <1>1, LayoutAssumption DEF CellsOf

LEMMA StoreFields ==
  ASSUME NEW id, NEW content, NEW blocks, NEW entries, NEW bits
  PROVE  /\ Store(id, content, blocks, entries, bits).code = "OK"
         /\ Store(id, content, blocks, entries, bits).used = bits
  BY DEF Store

(* The device that Store makes. *)
LEMMA StoreLeaves ==
  ASSUME IInv, NEW id \in Live, NEW content, NEW blocks, NEW entries, NEW bits,
         StorePlan(id, content, blocks, entries, bits)
  PROVE  Left(id, content, blocks, entries, bits,
              Store(id, content, blocks, entries, bits).disk)
<1> DEFINE n == calculate_block_sz(Len(content))
           ind(b) == n > NDirect /\ b = blocks[NDirect]
           positions(b) == {idx \in 0 .. n - 1 : BlockOf(blocks, entries, idx) = b}
           last(S) == CHOOSE x \in S : \A y \in S : y <= x
           new(b) == CASE ind(b) -> IndirectBlock(entries)
                       [] ~ind(b) /\ b = home[id] ->
                            InodeBlock(InodeOf(id).type, Len(content), blocks)
                       [] ~ind(b) /\ b # home[id] /\ positions(b) # {} ->
                            DataBlock(CellsOf(content, last(positions(b))))
                       [] OTHER -> IF b \in used \ bits THEN Stale ELSE disk[b]
           d == Store(id, content, blocks, entries, bits).disk
<1>1. d = [b \in DataBlocks |-> new(b)]
  BY DEF Store
<1>2. Storable(id, n, blocks, entries, bits)
  BY DEF StorePlan
<1>3. n \in Nat
  BY BlockCount DEF StorePlan
<1>4. home[id] \in DataBlocks
  BY LiveInode
<1> HIDE DEF n, d
<1>5. d[home[id]] = InodeBlock(InodeOf(id).type, Len(content), blocks)
  <2>1. ~ind(home[id])
    BY <1>2 DEF Storable, Usable
  <2>2. new(home[id]) = InodeBlock(InodeOf(id).type, Len(content), blocks)
    BY <2>1
  <2>3. QED
    BY <1>1, <1>4, <2>2
<1>6. ASSUME n > NDirect PROVE d[blocks[NDirect]] = IndirectBlock(entries)
  <2>1. ind(blocks[NDirect]) /\ blocks[NDirect] \in DataBlocks
    BY <1>2, <1>6 DEF Storable, Usable
  <2>2. QED
    BY <1>1, <2>1
<1>7. ASSUME NEW idx \in 0 .. n - 1
      PROVE  d[BlockOf(blocks, entries, idx)] = DataBlock(CellsOf(content, idx))
  <2> DEFINE b == BlockOf(blocks, entries, idx)
  <2>1. b \in DataBlocks /\ b # home[id] /\ ~ind(b)
    BY <1>2 DEF Storable, Usable
  <2>2. positions(b) = {idx}
    BY <1>2 DEF Storable
  <2>3. last({idx}) = idx
    BY <1>3
  <2> HIDE DEF b, positions, last
  <2>4. new(b) = DataBlock(CellsOf(content, idx))
    BY <2>1, <2>2, <2>3
  <2>5. QED
    BY <1>1, <2>1, <2>4 DEF b
<1>8. ASSUME NEW b \in DataBlocks, ~Rewritten(id, n, blocks, entries, b)
      PROVE  d[b] = IF b \in used \ bits THEN Stale ELSE disk[b]
  <2>1. ~ind(b) /\ b # home[id] /\ positions(b) = {}
    BY <1>8 DEF Rewritten
  <2> HIDE DEF positions, last
  <2>2. new(b) = IF b \in used \ bits THEN Stale ELSE disk[b]
    BY <2>1
  <2>3. QED
    BY <1>1, <2>2
<1>9. d = [b \in DataBlocks |-> d[b]]
  BY <1>1
<1>10. QED
  BY <1>5, <1>6, <1>7, <1>8, <1>9 DEF n, d, Left

(* What the device holds afterwards. *)
LEMMA StoreEffect ==
  ASSUME IInv, NEW id \in Live, NEW content, NEW blocks, NEW entries, NEW bits,
         Stores(id, content, blocks, entries, bits)
  PROVE  LET n == calculate_block_sz(Len(content))
         IN /\ disk'[home[id]] = InodeBlock(InodeOf(id).type, Len(content), blocks)
            /\ n > NDirect => disk'[blocks[NDirect]] = IndirectBlock(entries)
            /\ \A idx \in 0 .. n - 1 :
                 disk'[BlockOf(blocks, entries, idx)] = DataBlock(CellsOf(content, idx))
            /\ \A i \in Live \ {id} : \A b \in BlocksOf(i) :
                 b \in bits /\ disk'[b] = disk[b]
<1> DEFINE n == calculate_block_sz(Len(content))
<1>1. /\ disk'[home[id]] = InodeBlock(InodeOf(id).type, Len(content), blocks)
      /\ n > NDirect => disk'[blocks[NDirect]] = IndirectBlock(entries)
      /\ \A idx \in 0 .. n - 1 :
           disk'[BlockOf(blocks, entries, idx)] = DataBlock(CellsOf(content, idx))
      /\ \A b \in DataBlocks :
           ~Rewritten(id, n, blocks, entries, b) =>
             disk'[b] = IF b \in used \ bits THEN Stale ELSE disk[b]
  BY DEF Stores, Left
<1>2. Storable(id, n, blocks, entries, bits)
  BY DEF Stores, StorePlan
<1> HIDE DEF n
<1>3. ASSUME NEW i \in Live \ {id}, NEW b \in BlocksOf(i)
      PROVE  b \in bits /\ disk'[b] = disk[b]
  <2>1. b \in used /\ b \in DataBlocks
    BY <1>3, BlocksDiffer
  <2>2. b \notin BlocksOf(id)
    BY <1>3 DEF IInv, FilesApart
  <2>3. b \in bits
    BY <1>2, <2>1, <2>2 DEF Storable
  <2>4. ~Rewritten(id, n, blocks, entries, b)
    BY <1>2, <2>1, <2>2, BlocksDiffer DEF Storable, Usable, Rewritten
  <2>5. QED
    BY <1>1, <2>1, <2>3, <2>4
<1>4. QED
  BY <1>1, <1>3 DEF n

(* The file that was stored: its inode, its blocks, and nothing else. *)
LEMMA StoredFile ==
  ASSUME IInv, NEW id \in Live, NEW content, NEW blocks, NEW entries, NEW bits,
         Stores(id, content, blocks, entries, bits)
  PROVE  LET n == calculate_block_sz(Len(content))
         IN /\ id \in Live' /\ Positions(id)' = 0 .. n - 1
            /\ InodeOf(id)' = InodeBlock(InodeOf(id).type, Len(content), blocks)
            /\ HasIndirect(id)' <=> n > NDirect
            /\ Indirect(id)' = blocks[NDirect]
            /\ \A idx \in 0 .. n - 1 :
                 DataBlockAt(id, idx)' = BlockOf(blocks, entries, idx)
            /\ FileSound(id)' /\ FileShaped(id)'
            /\ BlocksOf(id)' =
                 {home[id]} \cup {BlockOf(blocks, entries, idx) : idx \in 0 .. n - 1}
                   \cup {b \in DataBlocks : n > NDirect /\ b = blocks[NDirect]}
<1> DEFINE n == calculate_block_sz(Len(content))
           Pos == 0 .. n - 1
<1>1. /\ disk'[home[id]] = InodeBlock(InodeOf(id).type, Len(content), blocks)
      /\ n > NDirect => disk'[blocks[NDirect]] = IndirectBlock(entries)
      /\ \A idx \in Pos : disk'[BlockOf(blocks, entries, idx)] = DataBlock(CellsOf(content, idx))
  BY StoreEffect
<1>2. Storable(id, n, blocks, entries, bits) /\ home' = home /\ used' = bits
  BY DEF Stores, StorePlan
<1>3. n \in Nat
  BY BlockCount DEF Stores, StorePlan
<1>4. InodeOf(id)' = InodeBlock(InodeOf(id).type, Len(content), blocks)
  BY <1>1, <1>2 DEF InodeOf
<1>5. /\ InodeOf(id)'.size = Len(content) /\ InodeOf(id)'.blocks = blocks
  BY <1>4 DEF InodeBlock
<1>6. id \in Live'
  BY <1>2 DEF Live
<1>7. Positions(id)' = Pos
  BY <1>5 DEF Positions
<1> HIDE DEF n
<1>8. HasIndirect(id)' <=> n > NDirect
  BY <1>2, <1>5 DEF Storable, HasIndirect
<1>9. Indirect(id)' = blocks[NDirect]
  BY <1>5 DEF Indirect
<1>10. ASSUME n > NDirect
       PROVE  /\ EntriesAt(Indirect(id))' = entries
              /\ blocks[NDirect] \in DataBlocks
  <2>1. blocks[NDirect] \in DataBlocks
    BY <1>2, <1>10 DEF Storable, Usable
  <2>2. disk'[blocks[NDirect]].kind = "indirect" /\ disk'[blocks[NDirect]].entries = entries
    BY <1>1, <1>10 DEF IndirectBlock
  <2>3. QED
    BY <1>9, <2>1, <2>2 DEF EntriesAt
<1>11. ASSUME NEW idx \in Pos
       PROVE  DataBlockAt(id, idx)' = BlockOf(blocks, entries, idx)
  <2>1. CASE idx < NDirect
    BY <1>5, <2>1 DEF DataBlockAt, BlockOf
  <2>2. CASE ~(idx < NDirect)
    <3>1. n > NDirect
      BY <1>3, <2>2, LayoutAssumption
    <3>2. QED
      BY <1>5, <1>10, <2>2, <3>1 DEF DataBlockAt, BlockOf, Indirect
  <2>3. QED
    BY <2>1, <2>2
<1>12. BlocksOf(id)' =
         {home[id]} \cup {BlockOf(blocks, entries, idx) : idx \in Pos}
           \cup {b \in DataBlocks : n > NDirect /\ b = blocks[NDirect]}
  BY <1>2, <1>7, <1>8, <1>9, <1>11 DEF BlocksOf
<1>13. FileShaped(id)'
  BY <1>2, <1>5, <1>8 DEF Storable, FileShaped, n
<1>14. FileSound(id)'
  <2>1. Holds(home[id], "inode")'
    <3>1. disk'[home[id]].kind = "inode"
      BY <1>1 DEF InodeBlock
    <3>2. QED
      BY <1>2, <3>1, LiveInode DEF Holds, Storable
  <2>2. HasIndirect(id)' => Holds(Indirect(id), "indirect")'
    <3>1. n > NDirect => disk'[blocks[NDirect]].kind = "indirect"
      BY <1>1 DEF IndirectBlock
    <3>2. QED
      BY <1>2, <1>8, <1>9, <3>1 DEF Holds, Storable, Usable
  <2>3. \A idx \in Pos : Holds(DataBlockAt(id, idx), "data")'
    <3>1. ASSUME NEW idx \in Pos
          PROVE  disk'[BlockOf(blocks, entries, idx)].kind = "data"
      <4>1. disk'[BlockOf(blocks, entries, idx)] = DataBlock(CellsOf(content, idx))
        BY <1>1
      <4>2. QED
        BY <4>1 DEF DataBlock
    <3>2. QED
      BY <1>2, <1>11, <3>1 DEF Holds, Storable, Usable, Pos
  <2>4. \A x, y \in Pos : DataBlockAt(id, x)' = DataBlockAt(id, y)' => x = y
    BY <1>2, <1>11 DEF Storable, Pos
  <2>5. QED
    BY <1>7, <2>1, <2>2, <2>3, <2>4 DEF FileSound
<1>15. QED
  BY <1>4, <1>6, <1>7, <1>8, <1>9, <1>11, <1>12, <1>13, <1>14 DEF n

LEMMA StoreTyped ==
  ASSUME IInv, NEW id \in Live, NEW content, NEW blocks, NEW entries, NEW bits,
         Stores(id, content, blocks, entries, bits)
  PROVE  TypeOK'
<1> DEFINE n == calculate_block_sz(Len(content))
<1>1. /\ disk'[home[id]] = InodeBlock(InodeOf(id).type, Len(content), blocks)
      /\ n > NDirect => disk'[blocks[NDirect]] = IndirectBlock(entries)
      /\ \A idx \in 0 .. n - 1 :
           disk'[BlockOf(blocks, entries, idx)] = DataBlock(CellsOf(content, idx))
  BY StoreEffect
<1>2. disk'[home[id]] \in Inodes
  BY <1>1, LiveInode DEF InodeBlock, Inodes, Stores, StorePlan
<1>3. n > NDirect => disk'[blocks[NDirect]] \in IndirectBlocks
  BY <1>1 DEF IndirectBlock, IndirectBlocks, Stores, StorePlan
<1>4. n \in Nat
  BY BlockCount DEF Stores, StorePlan
<1> HIDE DEF n
<1>5. ASSUME NEW idx \in 0 .. n - 1
      PROVE  disk'[BlockOf(blocks, entries, idx)] \in FileBlocks
  <2>1. disk'[BlockOf(blocks, entries, idx)] = DataBlock(CellsOf(content, idx))
    BY <1>1
  <2>2. CellsOf(content, idx) \in [0 .. BlockSize - 1 -> Cells]
    BY <1>4, CellsOfTyped DEF Stores, StorePlan
  <2>3. QED
    BY <2>1, <2>2 DEF DataBlock, FileBlocks
<1>6. DOMAIN disk' = DataBlocks
  BY DEF Stores, Left
<1>7. ASSUME NEW b \in DataBlocks,
             ~(n > NDirect /\ b = blocks[NDirect]), b # home[id],
             \A idx \in 0 .. n - 1 : BlockOf(blocks, entries, idx) # b
      PROVE  disk'[b] = Stale \/ disk'[b] = disk[b]
  BY <1>7 DEF Stores, Left, Rewritten, n
<1>8. ASSUME NEW b \in DataBlocks
      PROVE  disk'[b] \in {Stale} \cup Inodes \cup IndirectBlocks \cup FileBlocks
  <2>1. disk[b] \in {Stale} \cup Inodes \cup IndirectBlocks \cup FileBlocks
    BY DEF IInv, TypeOK
  <2>2. QED
    BY <1>2, <1>3, <1>5, <1>7, <2>1
<1>9. disk' \in [DataBlocks -> {Stale} \cup Inodes \cup IndirectBlocks \cup FileBlocks]
  <2>1. disk' = [b \in DataBlocks |-> disk'[b]]
    BY DEF Stores, Left
  <2>2. QED
    BY <1>8, <2>1
<1>10. QED
  BY <1>9 DEF TypeOK, IInv, Stores, StorePlan, Storable

(* A Store that finds usable blocks keeps the invariant. *)
LEMMA StoreIInv ==
  ASSUME IInv, NEW id \in Live, NEW content, NEW blocks, NEW entries, NEW bits,
         Stores(id, content, blocks, entries, bits)
  PROVE  IInv'
<1> DEFINE n == calculate_block_sz(Len(content))
<1>1. TypeOK'
  BY StoreTyped
<1>2. Storable(id, n, blocks, entries, bits) /\ home' = home /\ used' = bits
  BY DEF Stores, StorePlan
<1>3. Reserved \subseteq used'
  BY <1>2, BlocksDiffer DEF Storable, IInv, DataBlocks
<1>4. \A i \in Live \ {id} : \A b \in BlocksOf(i) : b \in used' /\ disk'[b] = disk[b]
  BY <1>2, StoreEffect
<1>5. /\ FileSound(id)' /\ FileShaped(id)'
      /\ BlocksOf(id)' =
           {home[id]} \cup {BlockOf(blocks, entries, idx) : idx \in 0 .. n - 1}
             \cup {b \in DataBlocks : n > NDirect /\ b = blocks[NDirect]}
  BY StoredFile
<1>6. \A b \in BlocksOf(id)' : b \in used => b \in BlocksOf(id)
  BY <1>2, <1>5, BlocksDiffer DEF Storable, Usable
<1>7. id \in InodeIds
  BY DEF Live
<1>8. QED
  BY <1>1, <1>2, <1>3, <1>4, <1>5, <1>6, <1>7, OneFileChanges

(* Free blocks are data blocks that no file refers to. *)
LEMMA FreeBlocksAreData ==
  ASSUME IInv, NEW n \in 1 .. Cardinality(Free)
  PROVE  /\ NthFree(n) \in DataBlocks /\ NthFree(n) \notin used
         /\ NthFree(n) # KInvalidBlockID
<1>1. NthFree(n) \in Free
  BY NthFreeIsFree
<1>2. QED
  BY <1>1, NoDataBlockZero DEF IInv, Free, DataBlocks

(* The entries an inode's indirect entry leads to, with or without one.     *)
LEMMA EntriesTyped ==
  ASSUME IInv, NEW id \in Live
  PROVE  EntriesAt(InodeOf(id).blocks[NDirect]) \in
           [0 .. NIndirect - 1 -> {KInvalidBlockID, Garbage} \cup DataBlocks]
<1>1. CASE HasIndirect(id)
  BY <1>1, LiveIndirect DEF Indirect
<1>2. CASE ~HasIndirect(id)
  BY <1>2, NoDataBlockZero DEF HasIndirect, EntriesAt
<1>3. QED
  BY <1>1, <1>2

(* Growing finds usable blocks whenever there are enough free ones.         *)
LEMMA GrownStores ==
  ASSUME IInv, NEW id \in Live, NEW content \in Seq(Cells),
         Len(content) \in 0 .. MaxFileSize,
         calculate_block_sz(Len(content)) > calculate_block_sz(InodeOf(id).size),
         Grown(id, content).code = "OK"
  PROVE  \E blocks, entries, bits :
           /\ StorePlan(id, content, blocks, entries, bits)
           /\ Grown(id, content) = Store(id, content, blocks, entries, bits)
           /\ used \subseteq bits
<1> DEFINE inode == InodeOf(id)
           old == calculate_block_sz(inode.size)
           new == calculate_block_sz(Len(content))
           adds == new > NDirect /\ inode.blocks[NDirect] = KInvalidBlockID
           first == IF old > NDirect THEN old ELSE NDirect
           taken == (new - old) + IF adds THEN 1 ELSE 0
           rank(idx) == (idx - old) + IF adds /\ idx > first THEN 2 ELSE 1
           fresh(idx) == NthFree(rank(idx))
           blocks == [idx \in 0 .. NDirect |->
                        CASE idx < NDirect /\ idx \in old .. new - 1 -> fresh(idx)
                          [] idx = NDirect /\ adds -> NthFree(first - old + 2)
                          [] OTHER -> inode.blocks[idx]]
           before == EntriesAt(inode.blocks[NDirect])
           entries == [k \in 0 .. NIndirect - 1 |->
                         IF k + NDirect \in old .. new - 1 THEN fresh(k + NDirect)
                                                           ELSE before[k]]
           bits == used \cup {NthFree(n) : n \in 1 .. taken}
           B(idx) == BlockOf(blocks, entries, idx)
<1>1. Grown(id, content) = IF taken > Cardinality(Free)
                             THEN Unwritten("OUT_OF_RESOURCE", Blocks)
                             ELSE Store(id, content, blocks, entries, bits)
  BY DEF Grown
<1>2. ~(taken > Cardinality(Free))
  BY <1>1 DEF Unwritten
<1>3. Grown(id, content) = Store(id, content, blocks, entries, bits)
  <2> HIDE DEF blocks, entries, bits, taken
  <2>1. QED
    BY <1>1, <1>2
<1>4. /\ old \in 0 .. NDirect + NIndirect /\ new \in Nat /\ old < new
      /\ new <= NDirect + NIndirect
      /\ Cardinality(Free) \in Nat /\ NDirect \in Nat
  BY LiveInode, BlockCount, BlockCountBound, FreeIsFinite, LayoutAssumption
<1>5. adds <=> new > NDirect /\ old <= NDirect
  BY <1>4 DEF IInv, FileShaped, HasIndirect
<1>6. /\ inode.blocks \in [0 .. NDirect -> {KInvalidBlockID} \cup DataBlocks]
      /\ before \in [0 .. NIndirect - 1 -> {KInvalidBlockID, Garbage} \cup DataBlocks]
      /\ home[id] \in used /\ home[id] \in DataBlocks
  BY LiveInode, EntriesTyped
<1>7. /\ \A idx \in 0 .. NDirect - 1 : inode.blocks[idx] # KInvalidBlockID <=> idx < old
      /\ HasIndirect(id) <=> old > NDirect
      /\ HasIndirect(id) <=> inode.blocks[NDirect] # KInvalidBlockID
  BY DEF IInv, FileShaped, HasIndirect
<1>8. /\ \A idx \in 0 .. old - 1 : /\ DataBlockAt(id, idx) \in BlocksOf(id)
                                   /\ DataBlockAt(id, idx) # home[id]
      /\ \A x, y \in 0 .. old - 1 : DataBlockAt(id, x) = DataBlockAt(id, y) => x = y
      /\ HasIndirect(id) =>
           /\ inode.blocks[NDirect] \in BlocksOf(id)
           /\ inode.blocks[NDirect] # home[id]
           /\ \A idx \in 0 .. old - 1 : DataBlockAt(id, idx) # inode.blocks[NDirect]
      /\ BlocksOf(id) \subseteq used \cap DataBlocks
  BY BlocksDiffer DEF IInv, FileSound, Positions, Indirect
<1>9. \A idx \in 0 .. old - 1 : idx < NDirect => DataBlockAt(id, idx) = inode.blocks[idx]
  BY DEF DataBlockAt, BlockOf
<1>10. \A idx \in 0 .. old - 1 :
         ~(idx < NDirect) => DataBlockAt(id, idx) = before[idx - NDirect]
  BY DEF DataBlockAt, BlockOf
<1> HIDE DEF inode, old, new, before
(* The order in which the free blocks are used up. *)
<1>11. /\ taken \in Nat /\ taken <= Cardinality(Free)
       /\ \A idx \in old .. new - 1 : rank(idx) \in 1 .. taken
       /\ \A x, y \in old .. new - 1 : rank(x) = rank(y) => x = y
       /\ adds => /\ first - old + 2 \in 1 .. taken
                  /\ \A idx \in old .. new - 1 : rank(idx) # first - old + 2
  BY <1>2, <1>4, <1>5
<1>12. ASSUME NEW m \in 1 .. taken, ~(adds /\ m = first - old + 2)
       PROVE  \E idx \in old .. new - 1 : m = rank(idx)
  <2>1. CASE ~adds \/ m <= first - old + 1
    <3>1. old + m - 1 \in old .. new - 1 /\ rank(old + m - 1) = m
      BY <1>4, <1>5, <2>1
    <3>2. QED
      BY <3>1
  <2>2. CASE adds /\ m > first - old + 2
    <3>1. old + m - 2 \in old .. new - 1 /\ rank(old + m - 2) = m
      BY <1>4, <1>5, <2>2
    <3>2. QED
      BY <3>1
  <2>3. first \in Int /\ old \in Int /\ m \in Int
    BY <1>4
  <2>4. m # first - old + 2 \/ ~adds
    BY <1>12
  <2> HIDE DEF rank, taken, first, adds
  <2>5. ~adds \/ m <= first - old + 1 \/ m > first - old + 2
    BY <2>3, <2>4
  <2>6. QED
    BY <2>1, <2>2, <2>5
<1> HIDE DEF rank, taken, first, adds
<1>13. \A m \in 1 .. taken :
         /\ NthFree(m) \in DataBlocks /\ NthFree(m) \notin used
         /\ NthFree(m) # KInvalidBlockID /\ NthFree(m) \in bits
  BY <1>4, <1>11, FreeBlocksAreData
<1>14. \A m, k \in 1 .. taken : NthFree(m) = NthFree(k) => m = k
  BY <1>4, <1>11, NthFreeIsFresh
(* The entries of the grown file. *)
<1>15. \A idx \in 0 .. NDirect - 1 :
         blocks[idx] = IF idx \in old .. new - 1 THEN fresh(idx) ELSE inode.blocks[idx]
  BY <1>4
<1>16. blocks[NDirect] = IF adds THEN NthFree(first - old + 2) ELSE inode.blocks[NDirect]
  BY <1>4
<1>17. \A k \in 0 .. NIndirect - 1 :
         entries[k] = IF k + NDirect \in old .. new - 1 THEN fresh(k + NDirect) ELSE before[k]
  OBVIOUS
<1>18. blocks \in [0 .. NDirect -> {KInvalidBlockID} \cup DataBlocks]
  <2>1. \A idx \in 0 .. NDirect : blocks[idx] \in {KInvalidBlockID} \cup DataBlocks
    BY <1>4, <1>6, <1>11, <1>13, <1>15, <1>16
  <2>2. QED
    BY <2>1
<1>19. entries \in [0 .. NIndirect - 1 -> {KInvalidBlockID, Garbage} \cup DataBlocks]
  <2>1. \A k \in 0 .. NIndirect - 1 :
          entries[k] \in {KInvalidBlockID, Garbage} \cup DataBlocks
    BY <1>4, <1>6, <1>11, <1>13, <1>17
  <2>2. QED
    BY <2>1
<1> HIDE DEF blocks, entries, fresh
<1>20. \A idx \in 0 .. old - 1 : B(idx) = DataBlockAt(id, idx)
  <2> SUFFICES ASSUME NEW idx \in 0 .. old - 1 PROVE B(idx) = DataBlockAt(id, idx)
    OBVIOUS
  <2>1. CASE idx < NDirect
    BY <1>4, <1>9, <1>15, <2>1 DEF BlockOf
  <2>2. CASE ~(idx < NDirect)
    <3>1. idx - NDirect \in 0 .. NIndirect - 1 /\ (idx - NDirect) + NDirect = idx
      BY <1>4, <2>2, LayoutAssumption
    <3>2. idx \notin old .. new - 1
      BY <1>4
    <3>3. QED
      BY <1>10, <1>17, <2>2, <3>1, <3>2 DEF BlockOf
  <2>3. QED
    BY <2>1, <2>2
<1>21. \A idx \in old .. new - 1 : B(idx) = NthFree(rank(idx))
  <2> SUFFICES ASSUME NEW idx \in old .. new - 1 PROVE B(idx) = NthFree(rank(idx))
    OBVIOUS
  <2>1. CASE idx < NDirect
    BY <1>4, <1>15, <2>1 DEF BlockOf, fresh
  <2>2. CASE ~(idx < NDirect)
    <3>1. idx - NDirect \in 0 .. NIndirect - 1 /\ (idx - NDirect) + NDirect = idx
      BY <1>4, <2>2, LayoutAssumption
    <3>2. QED
      BY <1>17, <2>2, <3>1 DEF BlockOf, fresh
  <2>3. QED
    BY <2>1, <2>2
(* They are what Store relies on. *)
<1>22. \A idx \in 0 .. new - 1 : idx \in 0 .. old - 1 \/ idx \in old .. new - 1
  BY <1>4
<1>23. /\ bits \subseteq Blocks /\ used \subseteq bits /\ home[id] \in bits
  BY <1>6, <1>13, NoDataBlockZero DEF IInv, TypeOK
<1>24. \A idx \in 0 .. new - 1 : Usable(id, B(idx), bits)
  BY <1>6, <1>8, <1>11, <1>13, <1>20, <1>21, <1>22, <1>23 DEF Usable
<1>25. \A x, y \in 0 .. new - 1 : B(x) = B(y) => x = y
  BY <1>8, <1>11, <1>13, <1>14, <1>20, <1>21, <1>22
<1>26. ASSUME new > NDirect
       PROVE  /\ Usable(id, blocks[NDirect], bits)
              /\ \A idx \in 0 .. new - 1 : B(idx) # blocks[NDirect]
  <2>1. CASE adds
    BY <1>6, <1>8, <1>11, <1>13, <1>14, <1>16, <1>20, <1>21, <1>22, <2>1 DEF Usable
  <2>2. CASE ~adds
    <3>1. HasIndirect(id)
      BY <1>4, <1>5, <1>7, <1>26, <2>2
    <3>2. blocks[NDirect] \in used /\ Usable(id, blocks[NDirect], bits)
      BY <1>8, <1>16, <1>23, <2>2, <3>1 DEF Usable
    <3>3. \A idx \in 0 .. old - 1 : B(idx) # blocks[NDirect]
      BY <1>8, <1>16, <1>20, <2>2, <3>1
    <3>4. \A idx \in old .. new - 1 : B(idx) # blocks[NDirect]
      BY <1>11, <1>13, <1>21, <3>2
    <3>5. QED
      BY <1>22, <3>2, <3>3, <3>4
  <2>3. QED
    BY <2>1, <2>2
<1>27. \A idx \in 0 .. NDirect - 1 : blocks[idx] # KInvalidBlockID <=> idx < new
  <2> SUFFICES ASSUME NEW idx \in 0 .. NDirect - 1
               PROVE  blocks[idx] # KInvalidBlockID <=> idx < new
    OBVIOUS
  <2>1. CASE idx \in old .. new - 1
    <3>1. blocks[idx] = NthFree(rank(idx)) /\ rank(idx) \in 1 .. taken
      BY <1>11, <1>15, <2>1 DEF fresh
    <3>2. idx < new
      BY <1>4, <2>1
    <3>3. QED
      BY <1>13, <3>1, <3>2
  <2>2. CASE idx \notin old .. new - 1
    <3>1. blocks[idx] = inode.blocks[idx]
      BY <1>15, <2>2
    <3>2. idx < old <=> idx < new
      BY <1>4, <2>2
    <3>3. QED
      BY <1>7, <3>1, <3>2
  <2>3. QED
    BY <2>1, <2>2
<1>28. blocks[NDirect] # KInvalidBlockID <=> new > NDirect
  BY <1>4, <1>5, <1>7, <1>11, <1>13, <1>16
<1>29. ASSUME NEW b \in bits, b \notin used \/ b \in BlocksOf(id)
       PROVE  \/ b = home[id] \/ (new > NDirect /\ b = blocks[NDirect])
              \/ \E idx \in 0 .. new - 1 : b = B(idx)
  <2>1. CASE b \notin used
    <3>1. PICK m \in 1 .. taken : b = NthFree(m)
      BY <2>1
    <3>2. CASE adds /\ m = first - old + 2
      BY <1>5, <1>16, <3>1, <3>2
    <3>3. CASE ~(adds /\ m = first - old + 2)
      <4>1. PICK idx \in old .. new - 1 : m = rank(idx)
        BY <1>12, <3>3
      <4>2. b = B(idx) /\ idx \in 0 .. new - 1
        BY <1>4, <1>21, <3>1, <4>1
      <4>3. QED
        BY <4>2
    <3>4. QED
      BY <3>2, <3>3
  <2>2. CASE b \in BlocksOf(id)
    <3>1. \/ b = home[id] \/ (\E idx \in 0 .. old - 1 : b = DataBlockAt(id, idx))
          \/ (HasIndirect(id) /\ b = inode.blocks[NDirect])
      BY <2>2 DEF BlocksOf, Positions, Indirect, old, inode
    <3>2. ASSUME NEW idx \in 0 .. old - 1, b = DataBlockAt(id, idx)
          PROVE  \E x \in 0 .. new - 1 : b = B(x)
      BY <1>4, <1>20, <3>2
    <3>3. ASSUME HasIndirect(id), b = inode.blocks[NDirect]
          PROVE  new > NDirect /\ b = blocks[NDirect]
      BY <1>4, <1>5, <1>7, <1>16, <3>3
    <3>4. QED
      BY <3>1, <3>2, <3>3
  <2>3. QED
    BY <1>29, <2>1, <2>2
<1>30. Storable(id, new, blocks, entries, bits)
  BY <1>23, <1>24, <1>25, <1>26, <1>27, <1>28, <1>29 DEF Storable
<1>31. StorePlan(id, content, blocks, entries, bits)
  BY <1>18, <1>19, <1>30 DEF StorePlan, new
<1>32. used \subseteq bits
  OBVIOUS
<1> HIDE DEF blocks, entries, bits
<1>33. QED
  BY <1>3, <1>31, <1>32

-----------------------------------------------------------------------------
(* Freeing lists of blocks. *)

Distinct(list) ==
  /\ Len(list) \in Nat /\ DOMAIN list = 1 .. Len(list)
  /\ \A j, k \in 1 .. Len(list) : list[j] = list[k] => j = k

(* Distinct allocated blocks are all freed: deallocate refuses none.        *)
LEMMA FreesAll ==
  ASSUME NEW list, Distinct(list), \A k \in 1 .. Len(list) : list[k] \in used
  PROVE  Refused(list) = {} /\ FreedOf(list) = {list[k] : k \in 1 .. Len(list)}
<1> USE DEF Distinct
<1>1. Refused(list) = {}
  <2>1. ASSUME NEW k \in 1 .. Len(list), NEW j \in 1 .. k - 1 PROVE list[j] # list[k]
    <3>1. j \in 1 .. Len(list) /\ j # k
      OBVIOUS
    <3>2. QED
      BY <3>1
  <2>2. QED
    BY <2>1 DEF Refused
<1>2. QED
  BY <1>1 DEF FreedOf

(* A list of n blocks, followed by one more if there is one. *)
LEMMA ListAndOneMore ==
  ASSUME NEW n \in Nat, NEW s, DOMAIN s = 1 .. n, s = [k \in 1 .. n |-> s[k]],
         NEW more \in BOOLEAN, NEW b
  PROVE  LET list == s \o IF more THEN <<b>> ELSE <<>>
         IN /\ Len(list) = n + IF more THEN 1 ELSE 0
            /\ DOMAIN list = 1 .. Len(list)
            /\ \A k \in 1 .. n : list[k] = s[k]
            /\ more => list[n + 1] = b
<1> DEFINE S == {s[k] : k \in 1 .. n} \cup {b}
           t == IF more THEN <<b>> ELSE <<>>
<1>1. s \in [1 .. n -> S]
  OBVIOUS
<1>2. s \in Seq(S) /\ Len(s) = n
  <2> HIDE DEF S
  <2>1. QED
    BY <1>1
<1>3. t \in Seq(S) /\ Len(t) = IF more THEN 1 ELSE 0
  <2>1. b \in S
    OBVIOUS
  <2> HIDE DEF S
  <2>2. CASE more
    <3>1. t = <<b>>
      BY <2>2
    <3>2. <<b>> \in Seq(S) /\ Len(<<b>>) = 1
      BY <2>1
    <3>3. QED
      BY <2>2, <3>1, <3>2
  <2>3. CASE ~more
    <3>1. t = <<>>
      BY <2>3
    <3>2. QED
      BY <2>3, <3>1, EmptySeq
  <2>4. QED
    BY <2>2, <2>3
<1>4. more => t[1] = b
  OBVIOUS
<1> HIDE DEF S, t
<1>5. /\ Len(s \o t) = Len(s) + Len(t)
      /\ \A k \in 1 .. Len(s) + Len(t) :
           (s \o t)[k] = IF k <= Len(s) THEN s[k] ELSE t[k - Len(s)]
  BY <1>2, <1>3, ConcatProperties
<1>6. more => (s \o t)[n + 1] = b
  BY <1>2, <1>3, <1>4, <1>5
<1>7. /\ Len(s \o t) = n + IF more THEN 1 ELSE 0
      /\ \A k \in 1 .. n : (s \o t)[k] = s[k]
  BY <1>2, <1>3, <1>5
<1>8. s \o t \in Seq(S)
  BY <1>2, <1>3, ConcatProperties
<1>9. DOMAIN (s \o t) = 1 .. Len(s \o t)
  BY <1>8
<1>10. QED
  BY <1>6, <1>7, <1>9 DEF t

(* What a file gives back when it shrinks: nothing deallocate refuses.      *)
LEMMA SurplusFreed ==
  ASSUME IInv, NEW id \in Live, NEW new \in Nat,
         new <= calculate_block_sz(InodeOf(id).size)
  PROVE  LET old == calculate_block_sz(InodeOf(id).size)
         IN /\ Refused(Surplus(id, new)) = {} /\ Distinct(Surplus(id, new))
            /\ FreedOf(Surplus(id, new)) =
                 {Surplus(id, new)[k] : k \in 1 .. Len(Surplus(id, new))}
            /\ FreedOf(Surplus(id, new)) =
                 {DataBlockAt(id, idx) : idx \in new .. old - 1}
                   \cup {b \in DataBlocks : DropsIndirect(old, new) /\ b = Indirect(id)}
<1> DEFINE old == calculate_block_sz(InodeOf(id).size)
           drops == DropsIndirect(old, new)
           n == old - new
           s == [k \in 1 .. n |-> DataBlockAt(id, new + k - 1)]
           list == Surplus(id, new)
<1>1. list = s \o IF drops THEN <<Indirect(id)>> ELSE <<>>
  BY DEF Surplus, DataBlockAt, Indirect
<1>2. old \in Nat /\ n \in Nat /\ new <= old /\ drops \in BOOLEAN
  BY LiveInode, LayoutAssumption DEF DropsIndirect
<1>3. drops => HasIndirect(id)
  BY DEF DropsIndirect, IInv, FileShaped
<1>4. /\ \A idx \in 0 .. old - 1 : DataBlockAt(id, idx) \in used
      /\ \A x, y \in 0 .. old - 1 : DataBlockAt(id, x) = DataBlockAt(id, y) => x = y
      /\ drops => /\ Indirect(id) \in used /\ Indirect(id) \in DataBlocks
                  /\ \A idx \in 0 .. old - 1 : DataBlockAt(id, idx) # Indirect(id)
  BY <1>3, BlocksDiffer DEF IInv, FileSound, Positions
<1> HIDE DEF drops, old
<1>5. /\ Len(list) = n + IF drops THEN 1 ELSE 0
      /\ DOMAIN list = 1 .. Len(list)
      /\ \A k \in 1 .. n : list[k] = s[k]
      /\ drops => list[n + 1] = Indirect(id)
  <2> HIDE DEF n, list
  <2>1. DOMAIN s = 1 .. n /\ s = [k \in 1 .. n |-> s[k]]
    OBVIOUS
  <2> HIDE DEF s
  <2>2. QED
    BY <1>1, <1>2, <2>1, ListAndOneMore
<1>6. \A k \in 1 .. n : list[k] = DataBlockAt(id, new + k - 1) /\ new + k - 1 \in 0 .. old - 1
  BY <1>2, <1>5
<1> HIDE DEF list, s
<1>7. \A k \in 1 .. Len(list) : k \in 1 .. n \/ (drops /\ k = n + 1)
  BY <1>2, <1>5
<1>8. Len(list) \in Nat /\ \A k \in 1 .. Len(list) : list[k] \in used
  BY <1>2, <1>4, <1>5, <1>6, <1>7
<1>9. \A j, k \in 1 .. Len(list) : list[j] = list[k] => j = k
  <2> SUFFICES ASSUME NEW j \in 1 .. Len(list), NEW k \in 1 .. Len(list), list[j] = list[k]
               PROVE  j = k
    OBVIOUS
  <2>1. CASE j \in 1 .. n /\ k \in 1 .. n
    <3>1. new + j - 1 = new + k - 1
      BY <1>4, <1>6, <2>1
    <3>2. QED
      BY <1>2, <2>1, <3>1
  <2>2. CASE drops /\ (j = n + 1 \/ k = n + 1)
    BY <1>4, <1>5, <1>6, <1>7, <2>2
  <2>3. QED
    BY <1>7, <2>1, <2>2
<1>10. /\ Distinct(list) /\ Refused(list) = {}
       /\ FreedOf(list) = {list[k] : k \in 1 .. Len(list)}
  <2>1. Distinct(list)
    BY <1>5, <1>8, <1>9 DEF Distinct
  <2>2. QED
    BY <1>8, <2>1, FreesAll
<1>11. {list[k] : k \in 1 .. Len(list)} =
         {DataBlockAt(id, idx) : idx \in new .. old - 1}
           \cup {b \in DataBlocks : drops /\ b = Indirect(id)}
  <2>1. ASSUME NEW k \in 1 .. Len(list)
        PROVE  \/ \E idx \in new .. old - 1 : list[k] = DataBlockAt(id, idx)
               \/ drops /\ list[k] = Indirect(id) /\ list[k] \in DataBlocks
    <3>1. CASE k \in 1 .. n
      <4>1. new + k - 1 \in new .. old - 1
        BY <1>2, <3>1
      <4>2. QED
        BY <1>6, <3>1, <4>1
    <3>2. CASE drops /\ k = n + 1
      BY <1>4, <1>5, <3>2
    <3>3. QED
      BY <1>7, <3>1, <3>2
  <2>2. ASSUME NEW idx \in new .. old - 1
        PROVE  \E k \in 1 .. Len(list) : list[k] = DataBlockAt(id, idx)
    <3>1. idx - new + 1 \in 1 .. n /\ idx - new + 1 \in 1 .. Len(list)
      BY <1>2, <1>5
    <3>2. new + (idx - new + 1) - 1 = idx
      BY <1>2
    <3>3. QED
      BY <1>6, <3>1, <3>2
  <2>3. drops => /\ n + 1 \in 1 .. Len(list) /\ list[n + 1] = Indirect(id)
                 /\ Indirect(id) \in DataBlocks
    BY <1>2, <1>4, <1>5
  <2> HIDE DEF n
  <2>4. QED
    BY ONLY <2>1, <2>2, <2>3
<1>12. QED
  BY <1>10, <1>11 DEF list, drops, old

(* Shrinking keeps the first blocks, and the indirect block when it is      *)
(* still needed; nothing it gives back is used any more.                    *)
LEMMA ShrunkStores ==
  ASSUME IInv, NEW id \in Live, NEW content \in Seq(Cells),
         Len(content) \in 0 .. MaxFileSize,
         ~(calculate_block_sz(Len(content)) > calculate_block_sz(InodeOf(id).size))
  PROVE  \E blocks, entries, bits :
           /\ StorePlan(id, content, blocks, entries, bits)
           /\ Shrunk(id, content) = Store(id, content, blocks, entries, bits)
           /\ bits = used \ FreedOf(Surplus(id, calculate_block_sz(Len(content))))
<1> DEFINE inode == InodeOf(id)
           old == calculate_block_sz(inode.size)
           new == calculate_block_sz(Len(content))
           drops == DropsIndirect(old, new)
           before == EntriesAt(inode.blocks[NDirect])
           list == Surplus(id, new)
           blocks == [idx \in 0 .. NDirect |->
                        IF \/ idx < NDirect /\ idx \in new .. old - 1
                           \/ idx = NDirect /\ drops
                          THEN KInvalidBlockID ELSE inode.blocks[idx]]
           entries == [k \in 0 .. NIndirect - 1 |->
                         IF k + NDirect \in new .. old - 1 THEN KInvalidBlockID
                                                           ELSE before[k]]
           bits == used \ FreedOf(list)
           B(idx) == BlockOf(blocks, entries, idx)
<1>1. Shrunk(id, content) = IF Refused(list) # {}
                              THEN Unwritten("INVALID_ARG", bits)
                              ELSE Store(id, content, blocks, entries, bits)
  BY DEF Shrunk
<1>2. /\ old \in 0 .. NDirect + NIndirect /\ new \in Nat /\ new <= old
      /\ NDirect \in Nat
  BY LiveInode, BlockCount, LayoutAssumption
<1>3. /\ Refused(list) = {}
      /\ FreedOf(list) = {DataBlockAt(id, idx) : idx \in new .. old - 1}
                           \cup {b \in DataBlocks : drops /\ b = Indirect(id)}
  BY <1>2, SurplusFreed
<1>4. Shrunk(id, content) = Store(id, content, blocks, entries, bits)
  <2> HIDE DEF blocks, entries, bits, list
  <2>1. QED
    BY <1>1, <1>3
<1>5. /\ inode.blocks \in [0 .. NDirect -> {KInvalidBlockID} \cup DataBlocks]
      /\ before \in [0 .. NIndirect - 1 -> {KInvalidBlockID, Garbage} \cup DataBlocks]
      /\ home[id] \in used /\ home[id] \in DataBlocks
  BY LiveInode, EntriesTyped
<1>6. /\ \A idx \in 0 .. NDirect - 1 : inode.blocks[idx] # KInvalidBlockID <=> idx < old
      /\ HasIndirect(id) <=> old > NDirect
      /\ HasIndirect(id) <=> inode.blocks[NDirect] # KInvalidBlockID
      /\ Indirect(id) = inode.blocks[NDirect]
  BY DEF IInv, FileShaped, HasIndirect, Indirect
<1>7. drops <=> old > NDirect /\ new <= NDirect
  BY DEF DropsIndirect
<1>8. /\ \A idx \in 0 .. old - 1 : /\ DataBlockAt(id, idx) \in BlocksOf(id)
                                   /\ DataBlockAt(id, idx) # home[id]
      /\ \A x, y \in 0 .. old - 1 : DataBlockAt(id, x) = DataBlockAt(id, y) => x = y
      /\ HasIndirect(id) =>
           /\ Indirect(id) \in BlocksOf(id) /\ Indirect(id) # home[id]
           /\ \A idx \in 0 .. old - 1 : DataBlockAt(id, idx) # Indirect(id)
      /\ BlocksOf(id) \subseteq used \cap DataBlocks /\ home[id] \in BlocksOf(id)
  BY BlocksDiffer DEF IInv, FileSound, Positions
<1>9. \A idx \in 0 .. old - 1 : idx < NDirect => DataBlockAt(id, idx) = inode.blocks[idx]
  BY DEF DataBlockAt, BlockOf
<1>10. \A idx \in 0 .. old - 1 :
         ~(idx < NDirect) => DataBlockAt(id, idx) = before[idx - NDirect]
  BY DEF DataBlockAt, BlockOf
<1>11. \A b : b \in BlocksOf(id) <=>
                \/ b = home[id] \/ (\E idx \in 0 .. old - 1 : b = DataBlockAt(id, idx))
                \/ (HasIndirect(id) /\ b = Indirect(id) /\ b \in DataBlocks)
  BY DEF BlocksOf, Positions
<1> HIDE DEF inode, old, new, before, drops, list
(* The entries of the shrunk file. *)
<1>12. \A idx \in 0 .. NDirect - 1 :
         blocks[idx] = IF idx \in new .. old - 1 THEN KInvalidBlockID ELSE inode.blocks[idx]
  BY <1>2
<1>13. blocks[NDirect] = IF drops THEN KInvalidBlockID ELSE inode.blocks[NDirect]
  BY <1>2
<1>14. \A k \in 0 .. NIndirect - 1 :
         entries[k] = IF k + NDirect \in new .. old - 1 THEN KInvalidBlockID ELSE before[k]
  OBVIOUS
<1>15. blocks \in [0 .. NDirect -> {KInvalidBlockID} \cup DataBlocks]
  BY <1>5
<1>16. entries \in [0 .. NIndirect - 1 -> {KInvalidBlockID, Garbage} \cup DataBlocks]
  BY <1>5
<1> HIDE DEF blocks, entries
<1>17. \A idx \in 0 .. new - 1 : B(idx) = DataBlockAt(id, idx) /\ idx \in 0 .. old - 1
  <2> SUFFICES ASSUME NEW idx \in 0 .. new - 1
               PROVE  B(idx) = DataBlockAt(id, idx) /\ idx \in 0 .. old - 1
    OBVIOUS
  <2>1. idx \in 0 .. old - 1 /\ idx \notin new .. old - 1
    BY <1>2
  <2>2. CASE idx < NDirect
    BY <1>2, <1>9, <1>12, <2>1, <2>2 DEF BlockOf
  <2>3. CASE ~(idx < NDirect)
    <3>1. idx - NDirect \in 0 .. NIndirect - 1 /\ (idx - NDirect) + NDirect = idx
      BY <1>2, <2>1, <2>3, LayoutAssumption
    <3>2. QED
      BY <1>10, <1>14, <2>1, <2>3, <3>1 DEF BlockOf
  <2>4. QED
    BY <2>2, <2>3
(* They are what Store relies on. *)
<1>18. \A b : b \in bits <=>
         /\ b \in used /\ \A idx \in new .. old - 1 : b # DataBlockAt(id, idx)
         /\ ~(b \in DataBlocks /\ drops /\ b = Indirect(id))
  BY <1>3
<1> HIDE DEF bits
<1>19. new .. old - 1 \subseteq 0 .. old - 1
  BY <1>2
<1>20. drops => HasIndirect(id)
  BY <1>2, <1>6, <1>7
<1>21. bits \subseteq Blocks /\ used \ BlocksOf(id) \subseteq bits /\ home[id] \in bits
  <2>1. bits \subseteq Blocks
    BY <1>18 DEF IInv, TypeOK
  <2>2. used \ BlocksOf(id) \subseteq bits
    BY <1>8, <1>18, <1>19, <1>20
  <2>3. home[id] \in bits
    BY <1>5, <1>8, <1>18, <1>19, <1>20
  <2>4. QED
    BY <2>1, <2>2, <2>3
<1>22. ASSUME NEW idx \in 0 .. new - 1 PROVE Usable(id, B(idx), bits)
  <2>1. /\ B(idx) = DataBlockAt(id, idx) /\ idx \in 0 .. old - 1
        /\ \A x \in new .. old - 1 : x # idx
    BY <1>2, <1>17
  <2>2. B(idx) \in bits
    BY <1>8, <1>18, <1>19, <1>20, <2>1
  <2>3. QED
    BY <1>8, <2>1, <2>2 DEF Usable
<1>23. \A x, y \in 0 .. new - 1 : B(x) = B(y) => x = y
  BY <1>8, <1>17
<1>24. ASSUME new > NDirect
       PROVE  /\ Usable(id, blocks[NDirect], bits)
              /\ \A idx \in 0 .. new - 1 : B(idx) # blocks[NDirect]
  <2>1. HasIndirect(id) /\ ~drops /\ blocks[NDirect] = Indirect(id)
    BY <1>2, <1>6, <1>7, <1>13, <1>24
  <2>2. blocks[NDirect] \in bits
    BY <1>8, <1>18, <1>19, <2>1
  <2>3. QED
    BY <1>8, <1>17, <2>1, <2>2 DEF Usable
<1>25. \A idx \in 0 .. NDirect - 1 : blocks[idx] # KInvalidBlockID <=> idx < new
  BY <1>2, <1>6, <1>12
<1>26. blocks[NDirect] # KInvalidBlockID <=> new > NDirect
  BY <1>2, <1>6, <1>7, <1>13
<1>27. ASSUME NEW b \in bits, b \notin used \/ b \in BlocksOf(id)
       PROVE  \/ b = home[id] \/ (new > NDirect /\ b = blocks[NDirect])
              \/ \E idx \in 0 .. new - 1 : b = B(idx)
  <2>1. b \in BlocksOf(id)
    BY <1>18, <1>27
  <2>2. ASSUME NEW idx \in 0 .. old - 1, b = DataBlockAt(id, idx)
        PROVE  \E x \in 0 .. new - 1 : b = B(x)
    <3>1. idx \in 0 .. new - 1
      BY <1>2, <1>18, <2>2
    <3>2. QED
      BY <1>17, <2>2, <3>1
  <2>3. ASSUME HasIndirect(id), b = Indirect(id), b \in DataBlocks
        PROVE  new > NDirect /\ b = blocks[NDirect]
    BY <1>2, <1>6, <1>7, <1>13, <1>18, <2>3
  <2>4. QED
    BY <1>11, <2>1, <2>2, <2>3
<1>28. Storable(id, new, blocks, entries, bits)
  BY <1>21, <1>22, <1>23, <1>24, <1>25, <1>26, <1>27 DEF Storable
<1>29. StorePlan(id, content, blocks, entries, bits)
  BY <1>15, <1>16, <1>28 DEF StorePlan, new
<1>30. bits = used \ FreedOf(Surplus(id, calculate_block_sz(Len(content))))
  BY DEF bits, list, new
<1>31. QED
  BY <1>4, <1>29, <1>30

-----------------------------------------------------------------------------
(* The calls. *)

LEMMA ReadableIsLive ==
  ASSUME NEW id \in InodeIds, Readable(id)
  PROVE  id \in Live
  BY DEF Readable, Live

(* How a write_file ends: it stored the content, or it changed no block and *)
(* cleared no bit; that the arguments are invalid is only said of an id     *)
(* that cannot be read, never because deallocate refused a block.           *)
LEMMA WritePlan ==
  ASSUME IInv, NEW id \in InodeIds, NEW content \in Seq(Cells)
  PROVE  LET effect == write_file(id, content)
         IN \/ /\ effect.code = "OK" /\ Readable(id)
               /\ \E blocks, entries, bits :
                    /\ StorePlan(id, content, blocks, entries, bits)
                    /\ effect = Store(id, content, blocks, entries, bits)
                    /\ \/ used \subseteq bits
                       \/ /\ ~(calculate_block_sz(Len(content))
                                  > calculate_block_sz(InodeOf(id).size))
                          /\ bits = used \ FreedOf(Surplus(id, calculate_block_sz(Len(content))))
            \/ /\ effect.code \in {"OUT_OF_RESOURCE", "INVALID_ARG"}
               /\ effect.code = "INVALID_ARG" => ~Readable(id)
               /\ effect.disk = disk /\ used \subseteq effect.used /\ effect.used \subseteq Blocks
<1>1. Len(content) \in Nat /\ MaxFileSize \in Nat
  BY LayoutAssumption DEF MaxFileSize
<1>2. used \subseteq Blocks
  BY DEF IInv, TypeOK
<1>3. CASE ~Readable(id)
  <2>1. write_file(id, content) = Unwritten("INVALID_ARG", used)
    BY <1>3 DEF write_file
  <2>2. QED
    BY <1>2, <1>3, <2>1 DEF Unwritten
<1>4. CASE Readable(id) /\ Len(content) > MaxFileSize
  <2>1. write_file(id, content) = Unwritten("OUT_OF_RESOURCE", used)
    BY <1>4 DEF write_file
  <2>2. QED
    BY <1>2, <2>1 DEF Unwritten
<1>5. CASE Readable(id) /\ ~(Len(content) > MaxFileSize)
  <2>1. Len(content) \in 0 .. MaxFileSize /\ id \in Live
    BY <1>1, <1>5, ReadableIsLive
  <2>2. write_file(id, content) =
          IF calculate_block_sz(Len(content)) > calculate_block_sz(InodeOf(id).size)
            THEN Grown(id, content) ELSE Shrunk(id, content)
    BY <1>5 DEF write_file
  <2>3. CASE ~(calculate_block_sz(Len(content)) > calculate_block_sz(InodeOf(id).size))
    <3>1. write_file(id, content) = Shrunk(id, content)
      BY <2>2, <2>3
    <3>2. PICK blocks, entries, bits :
            /\ StorePlan(id, content, blocks, entries, bits)
            /\ write_file(id, content) = Store(id, content, blocks, entries, bits)
            /\ bits = used \ FreedOf(Surplus(id, calculate_block_sz(Len(content))))
      BY <2>1, <2>3, <3>1, ShrunkStores
    <3>3. write_file(id, content).code = "OK"
      BY <3>2, StoreFields
    <3>4. QED
      BY <1>5, <2>3, <3>2, <3>3
  <2>4. CASE calculate_block_sz(Len(content)) > calculate_block_sz(InodeOf(id).size)
    <3>1. write_file(id, content) = Grown(id, content)
      BY <2>2, <2>4
    <3>2. CASE Grown(id, content).code = "OK"
      <4>1. PICK blocks, entries, bits :
              /\ StorePlan(id, content, blocks, entries, bits)
              /\ write_file(id, content) = Store(id, content, blocks, entries, bits)
              /\ used \subseteq bits
        BY <2>1, <2>4, <3>1, <3>2, GrownStores
      <4>2. QED
        BY <1>5, <3>1, <3>2, <4>1
    <3>3. CASE Grown(id, content).code # "OK"
      <4>1. \/ Grown(id, content) = Unwritten("OUT_OF_RESOURCE", Blocks)
            \/ \E blocks, entries, bits :
                 Grown(id, content) = Store(id, content, blocks, entries, bits)
        BY DEF Grown
      <4>2. Grown(id, content) = Unwritten("OUT_OF_RESOURCE", Blocks)
        BY <3>3, <4>1, StoreFields
      <4>3. QED
        BY <1>2, <3>1, <4>2 DEF Unwritten
    <3>4. QED
      BY <3>2, <3>3
  <2>5. QED
    BY <2>3, <2>4
<1>6. QED
  BY <1>3, <1>4, <1>5

LEMMA WriteOutcome ==
  ASSUME IInv, NEW id \in InodeIds, NEW content \in Seq(Cells),
         used' = write_file(id, content).used, disk' = write_file(id, content).disk,
         home' = home, up' \in BOOLEAN
  PROVE  \/ /\ write_file(id, content).code = "OK" /\ Readable(id)
            /\ \E blocks, entries, bits : Stores(id, content, blocks, entries, bits)
         \/ /\ write_file(id, content).code \in {"OUT_OF_RESOURCE", "INVALID_ARG"}
            /\ write_file(id, content).code = "INVALID_ARG" => ~Readable(id)
            /\ disk' = disk /\ used \subseteq used' /\ used' \subseteq Blocks
<1>1. CASE /\ write_file(id, content).code = "OK" /\ Readable(id)
           /\ \E blocks, entries, bits :
                /\ StorePlan(id, content, blocks, entries, bits)
                /\ write_file(id, content) = Store(id, content, blocks, entries, bits)
  <2>1. id \in Live
    BY <1>1, ReadableIsLive
  <2>2. PICK blocks, entries, bits :
          /\ StorePlan(id, content, blocks, entries, bits)
          /\ write_file(id, content) = Store(id, content, blocks, entries, bits)
    BY <1>1
  <2>3. used' = bits /\ disk' = Store(id, content, blocks, entries, bits).disk
    BY <2>2, StoreFields
  <2>4. Left(id, content, blocks, entries, bits, disk')
    BY <2>1, <2>2, <2>3, StoreLeaves
  <2>5. Stores(id, content, blocks, entries, bits)
    BY <2>2, <2>3, <2>4 DEF Stores
  <2>6. QED
    BY <1>1, <2>5
<1>2. CASE /\ write_file(id, content).code \in {"OUT_OF_RESOURCE", "INVALID_ARG"}
           /\ write_file(id, content).code = "INVALID_ARG" => ~Readable(id)
           /\ write_file(id, content).disk = disk
           /\ used \subseteq write_file(id, content).used
           /\ write_file(id, content).used \subseteq Blocks
  BY <1>2
<1>3. QED
  BY <1>1, <1>2, WritePlan

LEMMA WrittenIInv ==
  ASSUME IInv, NEW id \in InodeIds, NEW content \in Seq(Cells), NEW op, NEW at, NEW data,
         up, Written(id, content, op, at, data)
  PROVE  IInv'
<1>1. /\ used' = write_file(id, content).used /\ disk' = write_file(id, content).disk
      /\ home' = home /\ up' \in BOOLEAN
  BY DEF Written, IInv, TypeOK
<1>2. CASE /\ Readable(id)
           /\ \E blocks, entries, bits : Stores(id, content, blocks, entries, bits)
  <2>1. id \in Live
    BY <1>2, ReadableIsLive
  <2>2. PICK blocks, entries, bits : Stores(id, content, blocks, entries, bits)
    BY <1>2
  <2>3. QED
    BY <2>1, <2>2, StoreIInv
<1>3. CASE disk' = disk /\ used \subseteq used' /\ used' \subseteq Blocks
  BY <1>1, <1>3, OnlyMarks
<1>4. QED
  BY <1>1, <1>2, <1>3, WriteOutcome

(* What write_file_w_off and resize hand to write_file is a content. *)
LEMMA PatchedTyped ==
  ASSUME NEW content \in Seq(Cells), NEW data \in Seq(Cells), NEW offset \in Nat
  PROVE  Patched(content, data, offset) \in Seq(Cells)
<1> DEFINE size == IF offset + Len(data) > Len(content) THEN offset + Len(data)
                                                        ELSE Len(content)
           cell(k) == IF k \in offset + 1 .. offset + Len(data) THEN data[k - offset]
                      ELSE IF k <= Len(content) THEN content[k] ELSE Zero
<1>1. size \in Nat
  OBVIOUS
<1>2. ASSUME NEW k \in 1 .. size PROVE cell(k) \in Cells
  <2>1. CASE k \in offset + 1 .. offset + Len(data)
    <3>1. k - offset \in 1 .. Len(data)
      BY <2>1
    <3>2. QED
      BY <2>1, <3>1
  <2>2. CASE k \notin offset + 1 .. offset + Len(data)
    <3>1. k <= Len(content) => k \in 1 .. Len(content)
      BY <1>1
    <3>2. QED
      BY <2>2, <3>1, LayoutAssumption
  <2>3. QED
    BY <2>1, <2>2
<1>3. Patched(content, data, offset) = [k \in 1 .. size |-> cell(k)]
  BY DEF Patched
<1> HIDE DEF size, cell
<1>4. QED
  BY <1>1, <1>2, <1>3

LEMMA ResizedTyped ==
  ASSUME NEW content \in Seq(Cells), NEW sz \in Nat
  PROVE  Resized(content, sz) \in Seq(Cells)
<1>1. ASSUME NEW k \in 1 .. sz
      PROVE  (IF k <= Len(content) THEN content[k] ELSE Zero) \in Cells
  BY LayoutAssumption
<1>2. QED
  BY <1>1 DEF Resized

LEMMA EmptyInodeTyped ==
  ASSUME NEW type \in Types
  PROVE  EmptyInode(type) \in Inodes
<1>1. 0 \in 0 .. MaxFileSize
  BY LayoutAssumption DEF MaxFileSize
<1>2. QED
  BY <1>1 DEF EmptyInode, InodeBlock, Inodes

(* A new inode takes a free id and a free block, and nothing else. *)
LEMMA AllocOutcome ==
  ASSUME IInv, NEW type \in Types, alloc_inode(type)
  PROVE  \E new \in FreeIds, b \in DataBlocks \ used :
           /\ used' = used \cup {b} /\ home' = [home EXCEPT ![new] = b]
           /\ disk' = [disk EXCEPT ![b] = EmptyInode(type)] /\ up' = up
           /\ ret' = Call("create", new, 0, <<>>, "OK")
<1> DEFINE new == CHOOSE i \in FreeIds : \A j \in FreeIds : i <= j
           b == NthFree(1)
<1>1. new \in FreeIds
  BY LowestFreeId DEF alloc_inode
<1>2. 1 \in 1 .. Cardinality(Free)
  BY FreeIsFinite, FS_EmptySet DEF alloc_inode
<1>3. b \in DataBlocks \ used
  BY <1>2, FreeBlocksAreData
<1>4. /\ used' = used \cup {b} /\ home' = [home EXCEPT ![new] = b]
      /\ disk' = [disk EXCEPT ![b] = EmptyInode(type)] /\ up' = up
      /\ ret' = Call("create", new, 0, <<>>, "OK")
  BY DEF alloc_inode, Allocated
<1> HIDE DEF new, b
<1>5. QED
  BY <1>1, <1>3, <1>4

LEMMA FileMade ==
  ASSUME IInv, NEW type \in Types, NEW new \in FreeIds, NEW b \in DataBlocks \ used,
         used' = used \cup {b}, home' = [home EXCEPT ![new] = b],
         disk' = [disk EXCEPT ![b] = EmptyInode(type)], up' \in BOOLEAN
  PROVE  IInv'
<1>1. b \in DataBlocks /\ b \notin used /\ b # KInvalidBlockID
  BY NoDataBlockZero
<1>2. new \in InodeIds /\ home[new] = KInvalidBlockID /\ new \notin Live
  BY DEF FreeIds, Live
<1>3. home'[new] = b /\ disk'[b] = EmptyInode(type)
  BY <1>1, <1>2 DEF IInv, TypeOK
<1>4. EmptyInode(type) \in Inodes
  BY EmptyInodeTyped
<1>5. TypeOK'
  BY <1>1, <1>2, <1>4, NoDataBlockZero DEF IInv, TypeOK
<1>6. InodeOf(new)' = EmptyInode(type)
  BY <1>3 DEF InodeOf
<1>7. /\ InodeOf(new)'.size = 0
      /\ InodeOf(new)'.blocks = [idx \in 0 .. NDirect |-> KInvalidBlockID]
      /\ InodeOf(new)'.kind = "inode"
  BY <1>6 DEF EmptyInode, InodeBlock
<1>8. calculate_block_sz(InodeOf(new)'.size) = 0
  BY <1>7, BlockCount
<1>9. Positions(new)' = {} /\ ~HasIndirect(new)'
  BY <1>7, <1>8, LayoutAssumption DEF Positions, HasIndirect
<1>10. FileShaped(new)'
  BY <1>7, <1>8, <1>9, LayoutAssumption DEF FileShaped
<1>11. FileSound(new)'
  <2>1. Holds(home[new], "inode")'
    BY <1>1, <1>3, <1>6, <1>7 DEF Holds
  <2>2. QED
    BY <1>9, <2>1 DEF FileSound
<1>12. BlocksOf(new)' = {b}
  BY <1>3, <1>9 DEF BlocksOf
<1>13. \A i \in Live \ {new} : \A c \in BlocksOf(i) : c \in used' /\ disk'[c] = disk[c]
  BY <1>1, BlocksDiffer DEF IInv, TypeOK
<1>14. \A i \in InodeIds \ {new} : home'[i] = home[i]
  BY DEF IInv, TypeOK
<1>15. Reserved \subseteq used'
  BY DEF IInv
<1>16. QED
  BY <1>1, <1>2, <1>5, <1>10, <1>11, <1>12, <1>13, <1>14, <1>15, OneFileChanges

LEMMA AllocIInv ==
  ASSUME IInv, NEW type \in Types, alloc_inode(type)
  PROVE  IInv'
<1>1. PICK new \in FreeIds, b \in DataBlocks \ used :
        /\ used' = used \cup {b} /\ home' = [home EXCEPT ![new] = b]
        /\ disk' = [disk EXCEPT ![b] = EmptyInode(type)] /\ up' = up
  BY AllocOutcome
<1>2. up' \in BOOLEAN
  BY <1>1 DEF IInv, TypeOK
<1>3. QED
  BY <1>1, <1>2, FileMade

(* Removing a file without an indirect block frees exactly its blocks: the  *)
(* direct entries up to the first empty one, and the inode's own block.     *)
LEMMA RemoveFrees ==
  ASSUME IInv, NEW id \in Live, ~HasIndirect(id)
  PROVE  /\ Refused(FreeSet(id)) = {} /\ FreedOf(FreeSet(id)) = BlocksOf(id)
         /\ Distinct(FreeSet(id))
         /\ BlocksOf(id) = {FreeSet(id)[k] : k \in 1 .. Len(FreeSet(id))}
<1> DEFINE inode == InodeOf(id)
           n == calculate_block_sz(inode.size)
           direct == {i \in 0 .. NDirect - 1 :
                        \A j \in 0 .. i : inode.blocks[j] # KInvalidBlockID}
           s == [k \in 1 .. n |-> inode.blocks[k - 1]]
           list == FreeSet(id)
<1>1. /\ n \in Nat /\ n <= NDirect
      /\ \A idx \in 0 .. NDirect - 1 : inode.blocks[idx] # KInvalidBlockID <=> idx < n
  BY LiveInode, LayoutAssumption DEF IInv, FileShaped
<1>2. \A idx \in 0 .. n - 1 : DataBlockAt(id, idx) = inode.blocks[idx]
  BY <1>1, LayoutAssumption DEF DataBlockAt, BlockOf
<1>3. /\ \A idx \in 0 .. n - 1 : /\ DataBlockAt(id, idx) \in used
                                 /\ DataBlockAt(id, idx) # home[id]
      /\ \A x, y \in 0 .. n - 1 : DataBlockAt(id, x) = DataBlockAt(id, y) => x = y
      /\ home[id] \in used
  BY BlocksDiffer DEF IInv, FileSound, Positions
<1>4. BlocksOf(id) = {home[id]} \cup {DataBlockAt(id, idx) : idx \in 0 .. n - 1}
  BY DEF BlocksOf, Positions
<1>5. list = [k \in 1 .. Cardinality(direct) |-> inode.blocks[k - 1]] \o <<home[id]>>
  BY DEF FreeSet
<1> HIDE DEF inode, n, list
<1>6. direct = 0 .. n - 1
  <2>1. ASSUME NEW i \in direct PROVE i \in 0 .. n - 1
    <3>1. i \in 0 .. i /\ i \in 0 .. NDirect - 1
      BY LayoutAssumption
    <3>2. QED
      BY <1>1, <3>1, LayoutAssumption
  <2>2. ASSUME NEW i \in 0 .. n - 1 PROVE i \in direct
    BY <1>1, LayoutAssumption
  <2>3. QED
    BY <2>1, <2>2
<1> HIDE DEF direct
<1>7. Cardinality(direct) = n
  <2>1. 0 \in Int /\ n - 1 \in Int
    BY <1>1
  <2>2. Cardinality(0 .. n - 1) = IF 0 > n - 1 THEN 0 ELSE n - 1 - 0 + 1
    BY <2>1, FS_Interval
  <2>3. Cardinality(0 .. n - 1) = n
    BY <1>1, <2>2
  <2>4. QED
    BY <1>6, <2>3
<1>8. /\ Len(list) = n + 1 /\ list[n + 1] = home[id]
      /\ DOMAIN list = 1 .. Len(list)
      /\ \A k \in 1 .. n : list[k] = s[k]
  <2>1. DOMAIN s = 1 .. n /\ s = [k \in 1 .. n |-> s[k]]
    OBVIOUS
  <2>2. list = s \o IF TRUE THEN <<home[id]>> ELSE <<>>
    BY <1>5, <1>7
  <2> HIDE DEF s
  <2>3. QED
    BY <1>1, <2>1, <2>2, ListAndOneMore
<1>9. \A k \in 1 .. n : list[k] = DataBlockAt(id, k - 1) /\ k - 1 \in 0 .. n - 1
  BY <1>1, <1>2, <1>8
<1> HIDE DEF s
<1>10. \A k \in 1 .. Len(list) : k \in 1 .. n \/ k = n + 1
  BY <1>1, <1>8
<1>11. Len(list) \in Nat /\ \A k \in 1 .. Len(list) : list[k] \in used
  BY <1>1, <1>3, <1>8, <1>9, <1>10
<1>12. \A j, k \in 1 .. Len(list) : list[j] = list[k] => j = k
  <2> SUFFICES ASSUME NEW j \in 1 .. Len(list), NEW k \in 1 .. Len(list), list[j] = list[k]
               PROVE  j = k
    OBVIOUS
  <2>1. CASE j \in 1 .. n /\ k \in 1 .. n
    <3>1. j - 1 = k - 1
      BY <1>3, <1>9, <2>1
    <3>2. QED
      BY <1>1, <2>1, <3>1
  <2>2. CASE j = n + 1 \/ k = n + 1
    BY <1>3, <1>8, <1>9, <1>10, <2>2
  <2>3. QED
    BY <1>10, <2>1, <2>2
<1>13. /\ Distinct(list) /\ Refused(list) = {}
       /\ FreedOf(list) = {list[k] : k \in 1 .. Len(list)}
  <2>1. Distinct(list)
    BY <1>8, <1>11, <1>12 DEF Distinct
  <2>2. QED
    BY <1>11, <2>1, FreesAll
<1>14. {list[k] : k \in 1 .. Len(list)} = BlocksOf(id)
  <2>1. ASSUME NEW k \in 1 .. Len(list) PROVE list[k] \in BlocksOf(id)
    BY <1>4, <1>8, <1>9, <1>10
  <2>2. ASSUME NEW idx \in 0 .. n - 1
        PROVE  \E k \in 1 .. Len(list) : list[k] = DataBlockAt(id, idx)
    <3>1. idx + 1 \in 1 .. n /\ idx + 1 \in 1 .. Len(list) /\ (idx + 1) - 1 = idx
      BY <1>1, <1>8
    <3>2. QED
      BY <1>9, <3>1
  <2>3. n + 1 \in 1 .. Len(list)
    BY <1>1, <1>8
  <2>4. QED
    BY <1>4, <1>8, <2>1, <2>2, <2>3
<1>15. QED
  BY <1>13, <1>14 DEF list

(* A file without its entry and its blocks is gone, and nothing else is.    *)
LEMMA FileGone ==
  ASSUME IInv, NEW id \in Live,
         used' = used \ BlocksOf(id), home' = [home EXCEPT ![id] = KInvalidBlockID],
         disk' = [b \in DataBlocks |-> IF b \in BlocksOf(id) THEN Stale ELSE disk[b]],
         up' \in BOOLEAN
  PROVE  IInv'
<1>1. TypeOK'
  BY DEF IInv, TypeOK
<1>2. Reserved \subseteq used'
  BY BlocksDiffer DEF IInv, DataBlocks
<1>3. id \notin Live'
  BY DEF IInv, TypeOK, Live
<1>4. \A i \in InodeIds \ {id} : home'[i] = home[i]
  BY DEF IInv, TypeOK
<1>5. \A i \in Live \ {id} : \A b \in BlocksOf(i) : b \in used' /\ disk'[b] = disk[b]
  <2> SUFFICES ASSUME NEW i \in Live \ {id}, NEW b \in BlocksOf(i)
               PROVE  b \in used' /\ disk'[b] = disk[b]
    OBVIOUS
  <2>1. b \in used /\ b \in DataBlocks /\ b \notin BlocksOf(id)
    BY BlocksDiffer DEF IInv, FilesApart
  <2>2. QED
    BY <2>1
<1>6. QED
  BY <1>1, <1>2, <1>3, <1>4, <1>5, OneFileChanges DEF Live

LEMMA RemoveIInv ==
  ASSUME IInv, NEW id \in InodeIds, remove_file(id)
  PROVE  IInv'
<1>1. id \in Live /\ ~HasIndirect(id)
  BY ReadableIsLive DEF remove_file
<1>2. FreedOf(FreeSet(id)) = BlocksOf(id)
  BY <1>1, RemoveFrees
<1>3. /\ used' = used \ BlocksOf(id) /\ home' = [home EXCEPT ![id] = KInvalidBlockID]
      /\ disk' = [b \in DataBlocks |-> IF b \in BlocksOf(id) THEN Stale ELSE disk[b]]
      /\ up' = up
  BY <1>2 DEF remove_file, Removed
<1>4. up' \in BOOLEAN
  BY <1>3 DEF IInv, TypeOK
<1>5. QED
  BY <1>1, <1>3, <1>4, FileGone

LEMMA InitIInv == Init => IInv
<1> SUFFICES ASSUME Init PROVE IInv
  OBVIOUS
<1>1. TypeOK
  BY LayoutAssumption DEF Init, TypeOK, Reserved, Blocks
<1>2. Live = {}
  BY DEF Init, Live
<1>3. QED
  BY <1>1, <1>2 DEF Init, IInv, FilesApart

LEMMA NextIInv == IInv /\ [Next]_vars => IInv'
<1> SUFFICES ASSUME IInv, [Next]_vars PROVE IInv'
  OBVIOUS
<1>1. ASSUME UNCHANGED <<used, home, disk>>, up' \in BOOLEAN PROVE IInv'
  BY <1>1, OnlyMarks DEF IInv, TypeOK
<1>2. ASSUME NEW type \in Types, alloc_inode(type) PROVE IInv'
  BY <1>2, AllocIInv
<1>3. CASE alloc_inode_table_full
  <2>1. 1 \in 1 .. Cardinality(Free)
    BY <1>3, FreeIsFinite, FS_EmptySet DEF alloc_inode_table_full
  <2>2. used' \subseteq Blocks
    BY <1>3, <2>1, FreeBlocksAreData, NoDataBlockZero
       DEF alloc_inode_table_full, IInv, TypeOK
  <2>3. QED
    BY <1>3, <2>2, OnlyMarks DEF alloc_inode_table_full, IInv, TypeOK
<1>4. CASE alloc_inode_no_block
  BY <1>1, <1>4 DEF alloc_inode_no_block
<1>5. ASSUME NEW id \in InodeIds, NEW content \in Contents, WriteFile(id, content)
      PROVE  IInv'
  BY <1>5, WrittenIInv, LayoutAssumption DEF WriteFile
<1>6. ASSUME NEW id \in InodeIds, NEW data \in Contents, NEW offset \in Offsets,
             write_file_w_off(id, data, offset)
      PROVE  IInv'
  <2>1. CASE Readable(id) /\ Resizable(offset + Len(data))
    <3>1. Patched(read_file(id), data, offset) \in Seq(Cells)
      BY <2>1, ReadableIsLive, ReadTyped, PatchedTyped, LayoutAssumption
    <3>2. PICK content : content = Patched(read_file(id), data, offset)
      OBVIOUS
    <3>3. Written(id, content, "write_file_w_off", offset, data) /\ up
      BY <1>6, <2>1, <3>2 DEF write_file_w_off
    <3>4. QED
      BY <3>1, <3>2, <3>3, WrittenIInv
  <2>2. CASE ~Readable(id)
    BY <1>1, <1>6, <2>2 DEF write_file_w_off, Failed, IInv, TypeOK
  <2>3. CASE Readable(id) /\ ~Resizable(offset + Len(data))
    BY <1>1, <1>6, <2>3 DEF write_file_w_off, Throws
  <2>4. QED
    BY <2>1, <2>2, <2>3
<1>7. ASSUME NEW id \in InodeIds, NEW sz \in Offsets, resize(id, sz) PROVE IInv'
  <2>1. CASE ~Readable(id)
    BY <1>1, <1>7, <2>1 DEF resize, Failed, IInv, TypeOK
  <2>2. CASE Readable(id) /\ InodeOf(id).size = sz
    BY <1>1, <1>7, <2>2 DEF resize, IInv, TypeOK
  <2>3. CASE Readable(id) /\ InodeOf(id).size # sz /\ Resizable(sz)
    <3>1. Resized(read_file(id), sz) \in Seq(Cells)
      BY <2>3, ReadableIsLive, ReadTyped, ResizedTyped, LayoutAssumption
    <3>2. PICK content : content = Resized(read_file(id), sz)
      OBVIOUS
    <3>3. Written(id, content, "resize", sz, <<>>) /\ up
      BY <1>7, <2>3, <3>2 DEF resize
    <3>4. QED
      BY <3>1, <3>2, <3>3, WrittenIInv
  <2>4. CASE Readable(id) /\ InodeOf(id).size # sz /\ ~Resizable(sz)
    BY <1>1, <1>7, <2>4 DEF resize, Throws
  <2>5. QED
    BY <2>1, <2>2, <2>3, <2>4
<1>8. ASSUME NEW id \in InodeIds, remove_file(id) PROVE IInv'
  BY <1>8, RemoveIInv
<1>9. ASSUME NEW id \in InodeIds, remove_file_indirect(id) PROVE IInv'
  BY <1>1, <1>9 DEF remove_file_indirect
<1>10. ASSUME NEW id \in InodeIds, remove_file_fails(id) PROVE IInv'
  BY <1>1, <1>10 DEF remove_file_fails, Failed, IInv, TypeOK
<1>11. CASE create_from_raw
  BY <1>1, <1>11 DEF create_from_raw
<1>12. CASE UNCHANGED vars
  BY <1>1, <1>12 DEF vars, IInv, TypeOK
<1>13. QED
  BY <1>2, <1>3, <1>4, <1>5, <1>6, <1>7, <1>8, <1>9, <1>10, <1>11, <1>12 DEF Next

-----------------------------------------------------------------------------
(* The invariants. *)

LEMMA SpecIInv == Spec => []IInv
  BY InitIInv, NextIInv, PTL DEF Spec

(* Whatever sequence of calls is made, every block holds what the blocks of *)
(* its kind hold, and every table entry is a data block or none.            *)
THEOREM TypeCorrect == Spec => []TypeOK
<1>1. IInv => TypeOK
  BY DEF IInv
<1>2. QED
  BY <1>1, SpecIInv, PTL

(* No block is referred to twice, no file refers to a free, a reserved or a *)
(* foreign block, and every reference finds a block of the kind it expects: *)
(* on every device, after any sequence of calls, failures and mounts.       *)
THEOREM Ownership == Spec => []BlockOwnership
  BY OwnershipOfPlaces, SpecIInv, PTL

(* The size of an inode, its first empty direct entry and its indirect      *)
(* entry always agree on where the file ends.                               *)
THEOREM Shape == Spec => []InodeShape
  BY ShapeOfFiles, SpecIInv, PTL

-----------------------------------------------------------------------------
(* Blocks that are lost. *)

(* The orphans are the allocated data blocks that are no file's. *)
OrphansByFile ==
  Orphans = {b \in used \ Reserved : \A i \in Live : b \notin BlocksOf(i)}

LEMMA OrphansOfFiles == IInv => OrphansByFile
<1> SUFFICES ASSUME IInv PROVE OrphansByFile
  OBVIOUS
<1>1. ASSUME NEW p \in Places PROVE p[1] \in Live /\ Target(p) \in BlocksOf(p[1])
  <2>1. /\ p[1] \in Live
        /\ \/ Target(p) = home[p[1]]
           \/ HasIndirect(p[1]) /\ Target(p) = Indirect(p[1])
           \/ p[3] \in Positions(p[1]) /\ Target(p) = DataBlockAt(p[1], p[3])
    BY DEF Places, Target, Indirect
  <2>2. QED
    BY <2>1, BlocksDiffer
<1>2. ASSUME NEW i \in Live, NEW b \in BlocksOf(i)
      PROVE  \E p \in Places : b = Target(p)
  <2>1. CASE b = home[i]
    <3>1. <<i, "inode", 0>> \in Places /\ Target(<<i, "inode", 0>>) = home[i]
      BY DEF Places, Target
    <3>2. QED
      BY <2>1, <3>1
  <2>2. CASE HasIndirect(i) /\ b = Indirect(i)
    <3>1. <<i, "indirect", 0>> \in Places /\ Target(<<i, "indirect", 0>>) = Indirect(i)
      BY <2>2 DEF Places, Target, Indirect
    <3>2. QED
      BY <2>2, <3>1
  <2>3. ASSUME NEW idx \in Positions(i), b = DataBlockAt(i, idx)
        PROVE  \E p \in Places : b = Target(p)
    <3>1. /\ <<i, "data", idx>> \in Places
          /\ Target(<<i, "data", idx>>) = DataBlockAt(i, idx)
      BY DEF Places, Target
    <3>2. QED
      BY <2>3, <3>1
  <2>4. QED
    BY <1>2, <2>1, <2>2, <2>3 DEF BlocksOf
<1>3. \A b : b \in {Target(p) : p \in Places} <=> \E i \in Live : b \in BlocksOf(i)
  BY <1>1, <1>2
<1>4. QED
  BY <1>3 DEF Orphans, OrphansByFile

LEMMA OrphansOfFilesNext == IInv' => OrphansByFile'
  BY OrphansOfFiles, PTL

(* A step that changes one file loses nothing when every block it leaves    *)
(* marked is reserved, the file's, or was marked and not the file's before. *)
LEMMA NoneLost ==
  ASSUME IInv, IInv', NEW id \in InodeIds,
         \A i \in InodeIds \ {id} : home'[i] = home[i],
         \A i \in Live \ {id} : \A b \in BlocksOf(i) : disk'[b] = disk[b],
         \A b \in used' : \/ b \in Reserved \/ (id \in Live' /\ b \in BlocksOf(id)')
                          \/ b \in used /\ (id \in Live => b \notin BlocksOf(id))
  PROVE  Orphans' \subseteq Orphans
<1>1. /\ Orphans = {b \in used \ Reserved : \A i \in Live : b \notin BlocksOf(i)}
      /\ Orphans' = {b \in used' \ Reserved : \A i \in Live' : b \notin BlocksOf(i)'}
  BY OrphansOfFiles, OrphansOfFilesNext DEF OrphansByFile, Reserved
<1>2. SUFFICES ASSUME NEW b \in Orphans' PROVE b \in Orphans
  OBVIOUS
<1>3. b \in used' /\ b \notin Reserved /\ \A i \in Live' : b \notin BlocksOf(i)'
  BY <1>1
<1>4. b \in used /\ (id \in Live => b \notin BlocksOf(id))
  BY <1>3
<1>5. ASSUME NEW i \in Live, i # id PROVE b \notin BlocksOf(i)
  <2>1. home'[i] = home[i] /\ \A c \in BlocksOf(i) : disk'[c] = disk[c]
    BY <1>5 DEF Live
  <2>2. i \in Live' /\ BlocksOf(i)' = BlocksOf(i)
    BY <2>1, Untouched
  <2>3. QED
    BY <1>3, <2>2
<1>6. QED
  BY <1>1, <1>3, <1>4, <1>5

LEMMA StoreLosesNone ==
  ASSUME IInv, NEW id \in Live, NEW content, NEW blocks, NEW entries, NEW bits,
         Stores(id, content, blocks, entries, bits)
  PROVE  Orphans' \subseteq Orphans
<1> DEFINE n == calculate_block_sz(Len(content))
<1>1. IInv' /\ id \in InodeIds
  BY StoreIInv DEF Live
<1>2. Storable(id, n, blocks, entries, bits) /\ home' = home /\ used' = bits
  BY DEF Stores, StorePlan
<1>3. \A i \in Live \ {id} : \A b \in BlocksOf(i) : disk'[b] = disk[b]
  BY StoreEffect
<1>4. /\ id \in Live'
      /\ BlocksOf(id)' =
           {home[id]} \cup {BlockOf(blocks, entries, idx) : idx \in 0 .. n - 1}
             \cup {b \in DataBlocks : n > NDirect /\ b = blocks[NDirect]}
  BY StoredFile
<1> HIDE DEF n
<1>5. ASSUME NEW b \in bits, b \notin used \/ b \in BlocksOf(id)
      PROVE  b \in BlocksOf(id)'
  <2>1. \/ b = home[id] \/ (n > NDirect /\ b = blocks[NDirect])
        \/ \E idx \in 0 .. n - 1 : b = BlockOf(blocks, entries, idx)
    BY <1>2, <1>5 DEF Storable
  <2>2. n > NDirect => blocks[NDirect] \in DataBlocks
    BY <1>2 DEF Storable, Usable
  <2>3. QED
    BY <1>4, <2>1, <2>2
<1>6. QED
  BY <1>1, <1>2, <1>3, <1>4, <1>5, NoneLost

LEMMA WrittenLosesNone ==
  ASSUME IInv, NEW id \in InodeIds, NEW content \in Seq(Cells), NEW op, NEW at, NEW data,
         up, Written(id, content, op, at, data), ret'.code \in {"OK", "MOUNTED"}
  PROVE  Orphans' \subseteq Orphans
<1>1. /\ used' = write_file(id, content).used /\ disk' = write_file(id, content).disk
      /\ home' = home /\ up' \in BOOLEAN
      /\ write_file(id, content).code \in {"OK", "MOUNTED"}
  BY DEF Written, Call, IInv, TypeOK
<1>2. Readable(id) /\ \E blocks, entries, bits : Stores(id, content, blocks, entries, bits)
  BY <1>1, WriteOutcome
<1>3. QED
  BY <1>2, ReadableIsLive, StoreLosesNone

LEMMA NextLosesNone ==
  IInv /\ [Next]_vars =>
    [ret'.code \in {"OK", "MOUNTED"} => Orphans' \subseteq Orphans]_vars
<1> SUFFICES ASSUME IInv, Next, ret'.code \in {"OK", "MOUNTED"}
             PROVE  Orphans' \subseteq Orphans
  OBVIOUS
<1>0. IInv'
  BY NextIInv
<1>1. ASSUME UNCHANGED <<used, home, disk>> PROVE Orphans' \subseteq Orphans
  <2>1. Orphans' = Orphans
    BY <1>1 DEF Orphans, Places, Target, Live, Positions, HasIndirect, DataBlockAt,
                EntriesAt, InodeOf
  <2>2. QED
    BY <2>1
<1>2. ASSUME NEW type \in Types, alloc_inode(type) PROVE Orphans' \subseteq Orphans
  <2>1. PICK new \in FreeIds, b \in DataBlocks \ used :
          /\ used' = used \cup {b} /\ home' = [home EXCEPT ![new] = b]
          /\ disk' = [disk EXCEPT ![b] = EmptyInode(type)]
    BY <1>2, AllocOutcome
  <2>2. new \in InodeIds /\ new \notin Live /\ home'[new] = b /\ new \in Live'
    BY <2>1, NoDataBlockZero DEF FreeIds, Live, IInv, TypeOK
  <2>3. b \in BlocksOf(new)'
    BY <2>2 DEF BlocksOf
  <2>4. \A i \in InodeIds \ {new} : home'[i] = home[i]
    BY <2>1 DEF IInv, TypeOK
  <2>5. \A i \in Live \ {new} : \A c \in BlocksOf(i) : disk'[c] = disk[c]
    BY <2>1, BlocksDiffer DEF IInv, TypeOK
  <2>6. QED
    BY <1>0, <2>1, <2>2, <2>3, <2>4, <2>5, NoneLost
<1>3. CASE alloc_inode_table_full
  BY <1>3 DEF alloc_inode_table_full, Call
<1>4. CASE alloc_inode_no_block
  BY <1>1, <1>4 DEF alloc_inode_no_block
<1>5. ASSUME NEW id \in InodeIds, NEW content \in Contents, WriteFile(id, content)
      PROVE  Orphans' \subseteq Orphans
  BY <1>5, WrittenLosesNone, LayoutAssumption DEF WriteFile
<1>6. ASSUME NEW id \in InodeIds, NEW data \in Contents, NEW offset \in Offsets,
             write_file_w_off(id, data, offset)
      PROVE  Orphans' \subseteq Orphans
  <2>1. CASE Readable(id) /\ Resizable(offset + Len(data))
    <3>1. Patched(read_file(id), data, offset) \in Seq(Cells)
      BY <2>1, ReadableIsLive, ReadTyped, PatchedTyped, LayoutAssumption
    <3>2. PICK content : content = Patched(read_file(id), data, offset)
      OBVIOUS
    <3>3. Written(id, content, "write_file_w_off", offset, data) /\ up
      BY <1>6, <2>1, <3>2 DEF write_file_w_off
    <3>4. QED
      BY <3>1, <3>2, <3>3, WrittenLosesNone
  <2>2. CASE ~Readable(id)
    BY <1>1, <1>6, <2>2 DEF write_file_w_off, Failed
  <2>3. CASE Readable(id) /\ ~Resizable(offset + Len(data))
    BY <1>1, <1>6, <2>3 DEF write_file_w_off, Throws
  <2>4. QED
    BY <2>1, <2>2, <2>3
<1>7. ASSUME NEW id \in InodeIds, NEW sz \in Offsets, resize(id, sz)
      PROVE  Orphans' \subseteq Orphans
  <2>1. CASE ~Readable(id)
    BY <1>1, <1>7, <2>1 DEF resize, Failed
  <2>2. CASE Readable(id) /\ InodeOf(id).size = sz
    BY <1>1, <1>7, <2>2 DEF resize
  <2>3. CASE Readable(id) /\ InodeOf(id).size # sz /\ Resizable(sz)
    <3>1. Resized(read_file(id), sz) \in Seq(Cells)
      BY <2>3, ReadableIsLive, ReadTyped, ResizedTyped, LayoutAssumption
    <3>2. PICK content : content = Resized(read_file(id), sz)
      OBVIOUS
    <3>3. Written(id, content, "resize", sz, <<>>) /\ up
      BY <1>7, <2>3, <3>2 DEF resize
    <3>4. QED
      BY <3>1, <3>2, <3>3, WrittenLosesNone
  <2>4. CASE Readable(id) /\ InodeOf(id).size # sz /\ ~Resizable(sz)
    BY <1>1, <1>7, <2>4 DEF resize, Throws
  <2>5. QED
    BY <2>1, <2>2, <2>3, <2>4
<1>8. ASSUME NEW id \in InodeIds, remove_file(id) PROVE Orphans' \subseteq Orphans
  <2>1. id \in Live /\ ~HasIndirect(id)
    BY <1>8, ReadableIsLive DEF remove_file
  <2>2. FreedOf(FreeSet(id)) = BlocksOf(id)
    BY <2>1, RemoveFrees
  <2>3. /\ used' = used \ BlocksOf(id) /\ home' = [home EXCEPT ![id] = KInvalidBlockID]
        /\ disk' = [b \in DataBlocks |-> IF b \in BlocksOf(id) THEN Stale ELSE disk[b]]
    BY <1>8, <2>2 DEF remove_file, Removed
  <2>4. \A i \in InodeIds \ {id} : home'[i] = home[i]
    BY <2>3 DEF IInv, TypeOK
  <2>5. \A i \in Live \ {id} : \A b \in BlocksOf(i) : disk'[b] = disk[b]
    BY <2>1, <2>3, BlocksDiffer DEF IInv, FilesApart
  <2>6. QED
    BY <1>0, <2>3, <2>4, <2>5, NoneLost
<1>9. ASSUME NEW id \in InodeIds, remove_file_indirect(id)
      PROVE  Orphans' \subseteq Orphans
  BY <1>1, <1>9 DEF remove_file_indirect
<1>10. ASSUME NEW id \in InodeIds, remove_file_fails(id)
       PROVE  Orphans' \subseteq Orphans
  BY <1>1, <1>10 DEF remove_file_fails, Failed
<1>11. CASE create_from_raw
  BY <1>1, <1>11 DEF create_from_raw
<1>12. QED
  BY <1>2, <1>3, <1>4, <1>5, <1>6, <1>7, <1>8, <1>9, <1>10, <1>11 DEF Next

(* A call that reports success, and a mount, never leave a block allocated  *)
(* that no file refers to, beyond those that earlier failures have lost.    *)
THEOREM NoLeak == Spec => LosesBlocksOnlyOnFailure
  BY SpecIInv, NextLosesNone, PTL DEF Spec, LosesBlocksOnlyOnFailure

-----------------------------------------------------------------------------
(* The file layer implements FileStore: what callers see of the files is    *)
(* what they wrote, whatever the blocks, the sizes and the failures.        *)

(* The visible files in terms of the state. *)

LEMMA VisibleFile ==
  ASSUME NEW id \in InodeIds
  PROVE  /\ VisibleFiles[id] = IF Readable(id)
              THEN [type |-> InodeOf(id).type, content |-> read_file(id)] ELSE Stale
         /\ Readable(id) <=> VisibleFiles[id] # Stale
<1>1. VisibleFiles[id] = IF Readable(id)
        THEN [type |-> InodeOf(id).type, content |-> read_file(id)] ELSE Stale
  BY DEF VisibleFiles
<1>2. [type |-> InodeOf(id).type, content |-> read_file(id)] # Stale
  BY DEF Stale
<1>3. QED
  BY <1>1, <1>2

(* ReadTyped, in the next state. *)
ReadsCells ==
  \A id \in Live :
    /\ read_file(id) \in Seq(Cells)
    /\ Len(read_file(id)) = InodeOf(id).size
    /\ \A k \in 1 .. InodeOf(id).size :
         /\ (k - 1) \div BlockSize \in Positions(id)
         /\ read_file(id)[k] =
              disk[DataBlockAt(id, (k - 1) \div BlockSize)].cells[(k - 1) % BlockSize]

LEMMA ReadsCellsNow == IInv => ReadsCells
  BY ReadTyped DEF ReadsCells

LEMMA ReadsCellsNext == IInv' => ReadsCells'
  BY ReadsCellsNow, PTL

(* A file none of whose blocks changed reads as it did. *)
LEMMA UntouchedContent ==
  ASSUME IInv, IInv', NEW i \in InodeIds, home'[i] = home[i],
         i \in Live => \A b \in BlocksOf(i) : disk'[b] = disk[b]
  PROVE  VisibleFiles'[i] = VisibleFiles[i]
<1>1. CASE ~Readable(i)
  <2>1. ~Readable(i)'
    BY <1>1 DEF Readable
  <2>2. QED
    BY <1>1, <2>1 DEF VisibleFiles, Stale
<1>2. CASE Readable(i)
  <2>1. i \in Live /\ Readable(i)'
    BY <1>2, ReadableIsLive DEF Readable
  <2>2. /\ InodeOf(i)' = InodeOf(i) /\ i \in Live'
        /\ \A idx \in Positions(i) : DataBlockAt(i, idx)' = DataBlockAt(i, idx)
    BY <2>1, Untouched
  <2>3. \A idx \in Positions(i) : disk'[DataBlockAt(i, idx)] = disk[DataBlockAt(i, idx)]
    BY <2>1, BlocksDiffer
  <2> DEFINE sz == InodeOf(i).size
  <2>4. /\ read_file(i) \in Seq(Cells) /\ Len(read_file(i)) = sz
        /\ \A k \in 1 .. sz :
             /\ (k - 1) \div BlockSize \in Positions(i)
             /\ read_file(i)[k] =
                  disk[DataBlockAt(i, (k - 1) \div BlockSize)].cells[(k - 1) % BlockSize]
    BY <2>1, ReadTyped
  <2>5. /\ read_file(i)' \in Seq(Cells) /\ Len(read_file(i)') = sz
        /\ \A k \in 1 .. sz :
             read_file(i)'[k] =
               disk'[DataBlockAt(i, (k - 1) \div BlockSize)'].cells[(k - 1) % BlockSize]
    BY <2>2, ReadsCellsNext DEF ReadsCells
  <2>6. \A k \in 1 .. sz : read_file(i)'[k] = read_file(i)[k]
    BY <2>2, <2>3, <2>4, <2>5
  <2>7. read_file(i)' = read_file(i)
    BY <2>4, <2>5, <2>6, SeqEqual
  <2>8. QED
    BY <1>2, <2>1, <2>2, <2>7 DEF VisibleFiles
<1>3. QED
  BY <1>1, <1>2

(* A stored content is read back, cell by cell. *)
LEMMA StoredContent ==
  ASSUME IInv, NEW id \in Live, NEW content, NEW blocks, NEW entries, NEW bits,
         Stores(id, content, blocks, entries, bits)
  PROVE  read_file(id)' = content /\ InodeOf(id)'.type = InodeOf(id).type
<1> DEFINE n == calculate_block_sz(Len(content))
<1>1. /\ id \in Live'
      /\ InodeOf(id)' = InodeBlock(InodeOf(id).type, Len(content), blocks)
      /\ \A idx \in 0 .. n - 1 : DataBlockAt(id, idx)' = BlockOf(blocks, entries, idx)
  BY StoredFile
<1>2. \A idx \in 0 .. n - 1 :
        disk'[BlockOf(blocks, entries, idx)] = DataBlock(CellsOf(content, idx))
  BY StoreEffect
<1>3. content \in Seq(Cells) /\ Len(content) \in Nat
  BY DEF Stores, StorePlan
<1>4. InodeOf(id)'.size = Len(content) /\ InodeOf(id)'.type = InodeOf(id).type
  BY <1>1 DEF InodeBlock
<1>5. IInv'
  BY StoreIInv
<1>6. /\ read_file(id)' \in Seq(Cells) /\ Len(read_file(id)') = Len(content)
      /\ \A k \in 1 .. Len(content) :
           read_file(id)'[k] =
             disk'[DataBlockAt(id, (k - 1) \div BlockSize)'].cells[(k - 1) % BlockSize]
  BY <1>1, <1>4, <1>5, ReadsCellsNext DEF ReadsCells
<1>7. ASSUME NEW k \in 1 .. Len(content) PROVE read_file(id)'[k] = content[k]
  <2> DEFINE q == (k - 1) \div BlockSize
             r == (k - 1) % BlockSize
  <2>1. q \in 0 .. n - 1 /\ r \in 0 .. BlockSize - 1 /\ q * BlockSize + r = k - 1
    BY <1>3, PlaceOfCell
  <2>2. disk'[DataBlockAt(id, q)'] = DataBlock(CellsOf(content, q))
    BY <1>1, <1>2, <2>1
  <2>3. read_file(id)'[k] = disk'[DataBlockAt(id, q)'].cells[r]
    BY <1>6
  <2> HIDE DEF q, r
  <2>4. CellsOf(content, q)[r] = content[k]
    <3>1. q * BlockSize + r < Len(content) /\ q * BlockSize + r + 1 = k
      BY <1>3, <2>1
    <3>2. QED
      BY <2>1, <3>1 DEF CellsOf
  <2>5. QED
    BY <2>2, <2>3, <2>4 DEF DataBlock
<1>8. read_file(id)' = content
  BY <1>3, <1>6, <1>7, SeqEqual
<1>9. QED
  BY <1>4, <1>8

(* A step that leaves the blocks of every other file alone changes at most  *)
(* the one file that callers see.                                           *)
LEMMA OneVisible ==
  ASSUME IInv, IInv', NEW id \in InodeIds, NEW file,
         \A i \in InodeIds \ {id} : home'[i] = home[i],
         \A i \in Live \ {id} : \A b \in BlocksOf(i) : disk'[b] = disk[b],
         VisibleFiles'[id] = file
  PROVE  VisibleFiles' = [VisibleFiles EXCEPT ![id] = file]
<1>1. \A i \in InodeIds \ {id} : VisibleFiles'[i] = VisibleFiles[i]
  BY UntouchedContent
<1>2. /\ VisibleFiles = [i \in InodeIds |-> VisibleFiles[i]]
      /\ VisibleFiles' = [i \in InodeIds |-> VisibleFiles'[i]]
  BY DEF VisibleFiles
<1> HIDE DEF VisibleFiles
<1>3. QED
  BY <1>1, <1>2

LEMMA NoneVisible ==
  ASSUME home' = home, disk' = disk
  PROVE  VisibleFiles' = VisibleFiles
<1>1. ASSUME NEW b PROVE EntriesAt(b)' = EntriesAt(b)
  BY DEF EntriesAt
<1>2. ASSUME NEW b, NEW k PROVE CellAt(b, k)' = CellAt(b, k)
  BY DEF CellAt
<1>3. QED
  BY <1>1, <1>2 DEF VisibleFiles, Readable, InodeOf, read_file, EntriesAt, CellAt

(* Storing a content changes the file's content, and nothing else callers   *)
(* see.                                                                     *)
LEMMA StoredVisible ==
  ASSUME IInv, NEW id \in InodeIds, Readable(id),
         NEW content, NEW blocks, NEW entries, NEW bits,
         Stores(id, content, blocks, entries, bits)
  PROVE  VisibleFiles' = [VisibleFiles EXCEPT ![id].content = content]
<1>1. id \in Live /\ IInv'
  BY ReadableIsLive, StoreIInv
<1>2. home' = home
  BY DEF Stores
<1>3. \A i \in Live \ {id} : \A b \in BlocksOf(i) : disk'[b] = disk[b]
  BY <1>1, StoreEffect
<1>4. Readable(id)'
  BY <1>2 DEF Readable
<1>5. VisibleFiles[id] = [type |-> InodeOf(id).type, content |-> read_file(id)]
  BY VisibleFile
<1>6. VisibleFiles'[id] = [type |-> InodeOf(id)'.type, content |-> read_file(id)']
  BY <1>4 DEF VisibleFiles
<1>7. VisibleFiles'[id] = [VisibleFiles[id] EXCEPT !.content = content]
  BY <1>1, <1>5, <1>6, StoredContent
<1>8. VisibleFiles' = [VisibleFiles EXCEPT ![id] = [VisibleFiles[id] EXCEPT !.content = content]]
  BY <1>1, <1>2, <1>3, <1>7, OneVisible
<1>9. QED
  BY <1>8

-----------------------------------------------------------------------------
(* The steps. *)

LEMMA InitRefines == Init => Abstract!Init
<1> SUFFICES ASSUME Init PROVE Abstract!Init
  OBVIOUS
<1>1. \A id \in InodeIds : ~Readable(id)
  BY DEF Init, Readable
<1>2. VisibleFiles = [id \in InodeIds |-> Stale]
  BY <1>1 DEF VisibleFiles
<1>3. QED
  BY <1>2 DEF Init, Abstract!Init, Abstract!Call, Call

(* The end of the three calls that write: the content is stored, or no file *)
(* changes and the code says why.                                           *)
LEMMA WrittenRefines ==
  ASSUME IInv, NEW id \in InodeIds, NEW content \in Seq(Cells), NEW op, NEW at, NEW data,
         up, Written(id, content, op, at, data)
  PROVE  \/ /\ ret' = Abstract!Call(op, id, at, data, "OK") /\ Readable(id)
            /\ VisibleFiles' = [VisibleFiles EXCEPT ![id].content = content]
         \/ Abstract!Missing
         \/ Abstract!Harmless
<1>1. /\ used' = write_file(id, content).used /\ disk' = write_file(id, content).disk
      /\ home' = home /\ up' \in BOOLEAN
      /\ ret' = Call(op, id, at, data, write_file(id, content).code)
  BY DEF Written, IInv, TypeOK
<1>2. ASSUME write_file(id, content).code = "OK", Readable(id),
             \E blocks, entries, bits : Stores(id, content, blocks, entries, bits)
      PROVE  /\ ret' = Abstract!Call(op, id, at, data, "OK") /\ Readable(id)
             /\ VisibleFiles' = [VisibleFiles EXCEPT ![id].content = content]
  <2>1. PICK blocks, entries, bits : Stores(id, content, blocks, entries, bits)
    BY <1>2
  <2>2. QED
    BY <1>1, <1>2, <2>1, StoredVisible DEF Abstract!Call, Call
<1>3. ASSUME write_file(id, content).code \in {"OUT_OF_RESOURCE", "INVALID_ARG"},
             write_file(id, content).code = "INVALID_ARG" => ~Readable(id),
             disk' = disk
      PROVE  Abstract!Missing \/ Abstract!Harmless
  <2>1. VisibleFiles' = VisibleFiles
    BY <1>1, <1>3, NoneVisible
  <2>2. ret'.code = write_file(id, content).code /\ ret'.id = id
    BY <1>1 DEF Call
  <2>3. ~Readable(id) => VisibleFiles[id] = Stale
    BY VisibleFile
  <2>4. QED
    BY <1>3, <2>1, <2>2, <2>3 DEF Abstract!Missing, Abstract!Harmless, Abstract!Exists
<1>4. QED
  BY <1>1, <1>2, <1>3, WriteOutcome

(* The content the code computes is the one FileStore describes. *)
LEMMA PatchedOverwrites ==
  ASSUME NEW content \in Seq(Cells), NEW data \in Seq(Cells), NEW offset \in Nat
  PROVE  Patched(content, data, offset) = Abstract!Overwritten(content, offset, data)
<1>1. Len(content) \in Nat /\ Len(data) \in Nat
  OBVIOUS
<1>2. \A k \in Nat : k \in offset + 1 .. offset + Len(data)
                       <=> k > offset /\ k <= offset + Len(data)
  BY <1>1
<1>3. QED
  BY <1>1, <1>2 DEF Patched, Abstract!Overwritten

LEMMA ResizedSizes ==
  ASSUME NEW content \in Seq(Cells), NEW sz \in Nat
  PROVE  /\ Resized(content, sz) = Abstract!Sized(content, sz)
         /\ Len(content) = sz => Abstract!Sized(content, sz) = content
<1>1. Resized(content, sz) = Abstract!Sized(content, sz)
  BY DEF Resized, Abstract!Sized
<1>2. ASSUME Len(content) = sz PROVE Resized(content, sz) = content
  <2>1. Resized(content, sz) \in Seq(Cells) /\ Len(Resized(content, sz)) = sz
    <3>1. Resized(content, sz) \in Seq(Cells)
      BY ResizedTyped
    <3>2. DOMAIN Resized(content, sz) = 1 .. sz
      BY DEF Resized
    <3>3. QED
      BY <3>1, <3>2
  <2>2. \A k \in 1 .. sz : Resized(content, sz)[k] = content[k]
    BY <1>2 DEF Resized
  <2>3. QED
    BY <1>2, <2>1, <2>2, SeqEqual
<1>3. QED
  BY <1>1, <1>2

(* read_inode refuses the two highest ids, which alloc_inode hands out last:*)
(* a file with one of them is created and cannot be read.                   *)
LEMMA CreateRefines ==
  ASSUME IInv, IInv', NEW type \in Types, alloc_inode(type)
  PROVE  Abstract!Create(type) \/ Abstract!CreateUnusable
<1>1. PICK id \in FreeIds, b \in DataBlocks \ used :
        /\ used' = used \cup {b} /\ home' = [home EXCEPT ![id] = b]
        /\ disk' = [disk EXCEPT ![b] = EmptyInode(type)] /\ up' = up
        /\ ret' = Call("create", id, 0, <<>>, "OK")
  BY AllocOutcome
<1>2. /\ id \in InodeIds /\ ~Readable(id) /\ id \notin Live
      /\ home'[id] = b /\ b # KInvalidBlockID
      /\ \A i \in InodeIds \ {id} : home'[i] = home[i]
  BY <1>1, NoDataBlockZero DEF FreeIds, Readable, Live, IInv, TypeOK
<1>3. id \in Live' /\ (Readable(id)' <=> id < MaxInodes - 1)
  BY <1>2 DEF Live, Readable
<1>4. InodeOf(id)' = EmptyInode(type)
  BY <1>1, <1>2 DEF InodeOf, IInv, TypeOK
<1>5. InodeOf(id)'.size = 0 /\ InodeOf(id)'.type = type
  BY <1>4 DEF EmptyInode, InodeBlock
<1>6. read_file(id)' = <<>>
  <2>1. read_file(id)' \in Seq(Cells) /\ Len(read_file(id)') = 0
    BY <1>3, <1>5, ReadsCellsNext DEF ReadsCells
  <2>2. QED
    BY <2>1, EmptySeq
<1> DEFINE file == IF id < MaxInodes - 1 THEN [type |-> type, content |-> <<>>] ELSE Stale
<1>7. VisibleFiles'[id] = file
  BY <1>2, <1>3, <1>5, <1>6 DEF VisibleFiles
<1>8. \A i \in Live \ {id} : \A c \in BlocksOf(i) : disk'[c] = disk[c]
  BY <1>1, BlocksDiffer DEF IInv, TypeOK
<1> HIDE DEF file
<1>9. VisibleFiles' = [VisibleFiles EXCEPT ![id] = file]
  BY <1>2, <1>7, <1>8, OneVisible
<1>10. VisibleFiles[id] = Stale
  BY <1>2, VisibleFile
<1>11. CASE id < MaxInodes - 1
  BY <1>1, <1>2, <1>9, <1>10, <1>11
     DEF file, Abstract!Create, Abstract!Call, Call, Abstract!Exists
<1>12. CASE ~(id < MaxInodes - 1)
  <2>1. file = VisibleFiles[id]
    BY <1>10, <1>12 DEF file
  <2>2. VisibleFiles' = VisibleFiles
    BY <1>9, <2>1 DEF VisibleFiles
  <2>3. QED
    BY <1>1, <1>2, <1>12, <2>2 DEF Abstract!CreateUnusable, Abstract!Call, Call
<1>13. QED
  BY <1>11, <1>12

LEMMA RemoveRefines ==
  ASSUME IInv, IInv', NEW id \in InodeIds, remove_file(id)
  PROVE  Abstract!Remove(id)
<1>1. id \in Live /\ ~HasIndirect(id) /\ Readable(id)
  BY ReadableIsLive DEF remove_file
<1>2. Refused(FreeSet(id)) = {} /\ FreedOf(FreeSet(id)) = BlocksOf(id)
  BY <1>1, RemoveFrees
<1>3. /\ home' = [home EXCEPT ![id] = KInvalidBlockID]
      /\ disk' = [b \in DataBlocks |-> IF b \in BlocksOf(id) THEN Stale ELSE disk[b]]
      /\ ret' = Call("remove", id, 0, <<>>, "OK")
  BY <1>2 DEF remove_file, Removed
<1>4. /\ \A i \in InodeIds \ {id} : home'[i] = home[i]
      /\ ~Readable(id)'
  BY <1>3 DEF IInv, TypeOK, Readable
<1>5. \A i \in Live \ {id} : \A b \in BlocksOf(i) : disk'[b] = disk[b]
  <2> SUFFICES ASSUME NEW i \in Live \ {id}, NEW b \in BlocksOf(i)
               PROVE  disk'[b] = disk[b]
    OBVIOUS
  <2>1. b \in DataBlocks /\ b \notin BlocksOf(id)
    BY <1>1, BlocksDiffer DEF IInv, FilesApart
  <2>2. QED
    BY <1>3, <2>1
<1>6. VisibleFiles'[id] = Stale
  BY <1>4 DEF VisibleFiles
<1>7. VisibleFiles' = [VisibleFiles EXCEPT ![id] = Stale]
  BY <1>4, <1>5, <1>6, OneVisible
<1>8. VisibleFiles[id] # Stale
  BY <1>1, VisibleFile
<1>9. QED
  BY <1>3, <1>7, <1>8 DEF Abstract!Remove, Abstract!Call, Call, Abstract!Exists

LEMMA FailedRefines ==
  ASSUME NEW op, NEW id \in InodeIds, NEW at, NEW data,
         ~Readable(id), Failed(op, id, at, data)
  PROVE  Abstract!Missing
<1>1. VisibleFiles' = VisibleFiles
  BY NoneVisible DEF Failed
<1>2. VisibleFiles[id] = Stale
  BY VisibleFile
<1>3. QED
  BY <1>1, <1>2 DEF Failed, Call, Abstract!Missing, Abstract!Exists

LEMMA WriteFileRefines ==
  ASSUME IInv, NEW id \in InodeIds, NEW content \in Contents, WriteFile(id, content)
  PROVE  Abstract!Replace(id, content) \/ Abstract!Missing \/ Abstract!Harmless
<1>1. content \in Seq(Cells) /\ up /\ Written(id, content, "write_file", 0, content)
  BY LayoutAssumption DEF WriteFile
<1>2. \/ /\ ret' = Abstract!Call("write_file", id, 0, content, "OK") /\ Readable(id)
         /\ VisibleFiles' = [VisibleFiles EXCEPT ![id].content = content]
      \/ Abstract!Missing \/ Abstract!Harmless
  BY <1>1, WrittenRefines
<1>3. Readable(id) => VisibleFiles[id] # Stale
  BY VisibleFile
<1>4. QED
  BY <1>2, <1>3 DEF Abstract!Replace, Abstract!Exists

(* A failed creation, a death or a mount changes no file. *)
LEMMA HarmlessStep ==
  ASSUME home' = home, disk' = disk,
         ret'.code \in {"OUT_OF_RESOURCE", "SEGV", "EXCEPTION", "MOUNTED"}
  PROVE  Abstract!Harmless
BY NoneVisible DEF Abstract!Harmless

LEMMA ThrowRefines ==
  ASSUME NEW op, NEW id, NEW at, NEW data, Throws(op, id, at, data)
  PROVE  Abstract!Harmless
BY HarmlessStep DEF Throws, Call

LEMMA WriteAtRefines ==
  ASSUME IInv, NEW id \in InodeIds, NEW data \in Contents, NEW offset \in Offsets,
         write_file_w_off(id, data, offset)
  PROVE  Abstract!WriteAt(id, offset, data) \/ Abstract!Missing \/ Abstract!Harmless
<1>1. CASE ~Readable(id)
  BY <1>1, FailedRefines DEF write_file_w_off
<1>2. CASE Readable(id) /\ Resizable(offset + Len(data))
  <2>1. /\ read_file(id) \in Seq(Cells) /\ VisibleFiles[id] # Stale
        /\ VisibleFiles[id] = [type |-> InodeOf(id).type, content |-> read_file(id)]
    BY <1>2, ReadableIsLive, ReadTyped, VisibleFile
  <2>2. PICK content : content = Patched(read_file(id), data, offset)
    OBVIOUS
  <2>3. /\ content \in Seq(Cells)
        /\ content = Abstract!Overwritten(read_file(id), offset, data)
    BY <2>1, <2>2, PatchedTyped, PatchedOverwrites, LayoutAssumption
  <2>4. up /\ Written(id, content, "write_file_w_off", offset, data)
    BY <1>2, <2>2 DEF write_file_w_off
  <2>5. \/ /\ ret' = Abstract!Call("write_file_w_off", id, offset, data, "OK")
           /\ VisibleFiles' = [VisibleFiles EXCEPT ![id].content = content]
        \/ Abstract!Missing \/ Abstract!Harmless
    BY <2>3, <2>4, WrittenRefines
  <2>6. QED
    BY <2>1, <2>3, <2>5 DEF Abstract!WriteAt, Abstract!Exists
<1>3. CASE Readable(id) /\ ~Resizable(offset + Len(data))
  BY <1>3, ThrowRefines DEF write_file_w_off
<1>4. QED
  BY <1>1, <1>2, <1>3

LEMMA ResizeRefines ==
  ASSUME IInv, NEW id \in InodeIds, NEW sz \in Offsets, resize(id, sz)
  PROVE  Abstract!Resize(id, sz) \/ Abstract!Missing \/ Abstract!Harmless
<1>1. CASE ~Readable(id)
  BY <1>1, FailedRefines DEF resize
<1>2. ASSUME Readable(id)
      PROVE  /\ read_file(id) \in Seq(Cells) /\ Len(read_file(id)) = InodeOf(id).size
             /\ VisibleFiles[id] = [type |-> InodeOf(id).type, content |-> read_file(id)]
             /\ VisibleFiles[id] # Stale /\ sz \in Nat
  BY <1>2, ReadableIsLive, ReadTyped, VisibleFile, LayoutAssumption
<1>3. CASE Readable(id) /\ InodeOf(id).size = sz
  <2>1. ret' = Call("resize", id, sz, <<>>, "OK") /\ home' = home /\ disk' = disk
    BY <1>3 DEF resize
  <2>2. VisibleFiles' = VisibleFiles
    BY <2>1, NoneVisible
  <2>3. VisibleFiles[id].content = Abstract!Sized(VisibleFiles[id].content, sz)
    BY <1>2, <1>3, ResizedSizes
  <2>4. VisibleFiles = [VisibleFiles EXCEPT ![id].content = VisibleFiles[id].content]
    <3>1. VisibleFiles[id] = [VisibleFiles[id] EXCEPT !.content = VisibleFiles[id].content]
      BY <1>2, <1>3
    <3>2. VisibleFiles = [i \in InodeIds |-> VisibleFiles[i]]
      BY DEF VisibleFiles
    <3> HIDE DEF VisibleFiles
    <3>3. QED
      BY <3>1, <3>2
  <2>5. QED
    BY <1>2, <1>3, <2>1, <2>2, <2>3, <2>4
       DEF Abstract!Resize, Abstract!Call, Call, Abstract!Exists
<1>4. CASE Readable(id) /\ InodeOf(id).size # sz /\ Resizable(sz)
  <2>1. PICK content : content = Resized(read_file(id), sz)
    OBVIOUS
  <2>2. content \in Seq(Cells) /\ content = Abstract!Sized(read_file(id), sz)
    BY <1>2, <1>4, <2>1, ResizedTyped, ResizedSizes
  <2>3. up /\ Written(id, content, "resize", sz, <<>>)
    BY <1>4, <2>1 DEF resize
  <2>4. \/ /\ ret' = Abstract!Call("resize", id, sz, <<>>, "OK")
           /\ VisibleFiles' = [VisibleFiles EXCEPT ![id].content = content]
        \/ Abstract!Missing \/ Abstract!Harmless
    BY <2>2, <2>3, WrittenRefines
  <2>5. QED
    BY <1>2, <1>4, <2>2, <2>4 DEF Abstract!Resize, Abstract!Exists
<1>5. CASE Readable(id) /\ InodeOf(id).size # sz /\ ~Resizable(sz)
  BY <1>5, ThrowRefines DEF resize
<1>6. QED
  BY <1>1, <1>3, <1>4, <1>5

LEMMA NextRefines ==
  IInv /\ IInv' /\ [Next]_vars => [Abstract!Next]_(Abstract!vars)
<1> SUFFICES ASSUME IInv, IInv', [Next]_vars
             PROVE  [Abstract!Next]_(Abstract!vars)
  OBVIOUS
<1>1. ASSUME NEW type \in Types, alloc_inode(type) PROVE Abstract!Next
  BY <1>1, CreateRefines DEF Abstract!Next
<1>2. CASE alloc_inode_table_full
  BY <1>2, HarmlessStep DEF alloc_inode_table_full, Call, Abstract!Next
<1>3. CASE alloc_inode_no_block
  BY <1>3, HarmlessStep DEF alloc_inode_no_block, Call, Abstract!Next
<1>4. ASSUME NEW id \in InodeIds, NEW content \in Contents, WriteFile(id, content)
      PROVE  Abstract!Next
  BY <1>4, WriteFileRefines DEF Abstract!Next
<1>5. ASSUME NEW id \in InodeIds, NEW data \in Contents, NEW offset \in Offsets,
             write_file_w_off(id, data, offset)
      PROVE  Abstract!Next
  BY <1>5, WriteAtRefines DEF Abstract!Next
<1>6. ASSUME NEW id \in InodeIds, NEW sz \in Offsets, resize(id, sz)
      PROVE  Abstract!Next
  BY <1>6, ResizeRefines DEF Abstract!Next
<1>7. ASSUME NEW id \in InodeIds, remove_file(id) PROVE Abstract!Next
  BY <1>7, RemoveRefines DEF Abstract!Next
<1>8. ASSUME NEW id \in InodeIds, remove_file_indirect(id) PROVE Abstract!Next
  BY <1>8, HarmlessStep DEF remove_file_indirect, Call, Abstract!Next
<1>9. ASSUME NEW id \in InodeIds, remove_file_fails(id) PROVE Abstract!Next
  BY <1>9, FailedRefines DEF remove_file_fails, Abstract!Next
<1>10. CASE create_from_raw
  BY <1>10, HarmlessStep DEF create_from_raw, Call, Abstract!Next
<1>11. CASE UNCHANGED vars
  BY <1>11, NoneVisible DEF vars, Abstract!vars
<1>12. QED
  BY <1>1, <1>2, <1>3, <1>4, <1>5, <1>6, <1>7, <1>8, <1>9, <1>10, <1>11 DEF Next

(* Callers see files that change as FileStore says: a successful call       *)
(* changes the one file it names, in the way it was asked to, a failure or  *)
(* the death of the process changes none, and an id is refused only if it   *)
(* names no file.  A new file can be read unless its id is one of the last  *)
(* two, which no call ever finds.                                           *)
THEOREM Refinement == Spec => ImplementsFileStore
BY SpecIInv, InitRefines, NextRefines, PTL DEF Spec, ImplementsFileStore, Abstract!Spec
=============================================================================
