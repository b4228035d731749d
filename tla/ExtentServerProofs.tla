------------------------- MODULE ExtentServerProofs -------------------------
(***************************************************************************)
(* The extent server for any disk, any number of inodes and handlers, and  *)
(* any data.  What holds whatever the handlers do to each other comes      *)
(* first; that a block has one owner, that none is lost and that each      *)
(* extent keeps what was put into it is for behaviours without the faults  *)
(* that NoFault names.                                                     *)
(***************************************************************************)
EXTENDS ExtentInvariant, SequenceTheorems, FiniteSetTheorems, WellFoundedInduction, TLAPS

\* Inodes have blocks of their own, in front of the data.
LEMMA InodeTable ==
  /\ FirstData \in Nat /\ FirstData < BLOCK_NUM
  /\ BLOCK_NUM \in Nat /\ INODE_NUM \in Nat /\ NDIRECT \in Nat /\ NINDIRECT \in Nat
  /\ \A i \in Inums : IBLOCK(i, BLOCK_NUM) \in BlockIds \ DataArea
  /\ \A i, j \in Inums : IBLOCK(i, BLOCK_NUM) = IBLOCK(j, BLOCK_NUM) => i = j
<1> DEFINE q == BLOCK_NUM \div BPB
<1>1. /\ BLOCK_NUM \in Nat /\ BPB \in Nat \ {0} /\ INODE_NUM \in Nat
      /\ NDIRECT \in Nat /\ NINDIRECT \in Nat
  BY Geometry
<1>2. q \in Nat
  BY <1>1
<1>3. FirstData = q + INODE_NUM + 3 + 1
  BY DEF FirstData, IBLOCK
<1>4. \A i : IBLOCK(i, BLOCK_NUM) = q + i + 3
  BY DEF IBLOCK
<1> HIDE DEF q
<1> QED
  BY <1>1, <1>2, <1>3, <1>4, Geometry DEF Inums, BlockIds, DataArea

\* Of some of n things, one is the last: nothing is above it, since what is above one
\* that is not the last is less than what is above another.
LEMMA LastExists ==
  ASSUME NEW n \in Nat, NEW S, S \subseteq 1 .. n, S # {}
  PROVE  \E k \in S : \A j \in S : j <= k
<1> DEFINE Above(k) == {j \in S : j > k}
           T == {Above(k) : k \in S}
<1>1. IsFiniteSet(1 .. n)
  BY FS_Interval
<1>2. T \subseteq FiniteSubsetsOf(S) /\ T # {}
  <2>1. \A k : Above(k) \in SUBSET S /\ Above(k) \in SUBSET (1 .. n)
    OBVIOUS
  <2>2. \A k : IsFiniteSet(Above(k))
    BY <1>1, <2>1, FS_Subset
  <2> HIDE DEF Above
  <2> QED
    BY <2>1, <2>2 DEF FiniteSubsetsOf
<1>3. PICK U \in T : \A V \in T : <<V, U>> \notin StrictSubsetOrdering(S)
  <2> HIDE DEF T
  <2> QED
    BY <1>2, FS_StrictSubsetOrderingWellFounded, WFMin
<1>4. PICK k \in S : U = Above(k)
  BY <1>3
<1>5. ASSUME NEW j \in S, ~(j <= k)
      PROVE  FALSE
  <2>1. j \in Int /\ k \in Int /\ \A i \in S : i \in Int
    OBVIOUS
  <2>2. j \in Above(k) /\ j \notin Above(j) /\ Above(j) \subseteq Above(k)
    <3>1. j > k /\ ~(j > j) /\ \A i \in S : i > j => i > k
      BY <1>5, <2>1
    <3> QED
      BY <3>1, Zenon
  <2>3. Above(j) \in T /\ Above(j) \subseteq S /\ Above(k) \subseteq S
    OBVIOUS
  <2> HIDE DEF Above, T
  <2>4. <<Above(j), U>> \in StrictSubsetOrdering(S)
    BY <2>2, <2>3, <1>4 DEF StrictSubsetOrdering
  <2> QED
    BY <1>3, <2>3, <2>4
<1> QED
  BY <1>5

-----------------------------------------------------------------------------
\* What is on the disk and what the handlers have in hand, whatever they do.

\* Whatever a block holds amounts to an inode.
LEMMA BlocksHoldInodes ==
  ASSUME NEW b, BlockOK(b)
  PROVE  AsInode(b) \in Inodes
<1>1. CASE b.kind = "inode"
  BY <1>1 DEF BlockOK, AsInode
<1>2. CASE b.kind = "zero"
  BY <1>2 DEF AsInode, Inodes, Types
<1>3. CASE b.kind \notin {"inode", "zero"}
  BY <1>3, Geometry DEF AsInode, Inodes, Types
<1> QED
  BY <1>1, <1>2, <1>3

LEMMA DiskHoldsInodes ==
  ASSUME NEW bs, DiskOK(bs)
  PROVE  /\ \A b \in BlockIds : bs[b].kind \in {"zero", "data", "inode", "table"}
         /\ \A i \in Inums : AsInode(bs[IBLOCK(i, BLOCK_NUM)]) \in Inodes
BY InodeTable, BlocksHoldInodes DEF DiskOK, BlockOK

\* put_inode changes one inode and nothing else.
LEMMA InodeIsPut ==
  ASSUME NEW bs, DiskOK(bs), NEW i \in Inums, NEW x \in Inodes, blocks' = InodePut(bs, i, x)
  PROVE  /\ DiskOK(blocks')
         /\ get_inode(i)' = x
         /\ \A j \in Inums \ {i} : get_inode(j)' = AsInode(bs[IBLOCK(j, BLOCK_NUM)])
         /\ \A b \in BlockIds \ {IBLOCK(i, BLOCK_NUM)} : blocks'[b] = bs[b]
<1> DEFINE k == IBLOCK(i, BLOCK_NUM)
<1>1. k \in BlockIds
  BY InodeTable
<1>2. blocks' = [bs EXCEPT ![k] = InodeBlock(x)]
  BY DEF InodePut
<1> HIDE DEF k
<1>3. /\ blocks' = [b \in BlockIds |-> blocks'[b]]
      /\ blocks'[k] = InodeBlock(x)
      /\ \A b \in BlockIds \ {k} : blocks'[b] = bs[b]
  BY <1>1, <1>2 DEF DiskOK
<1>4. BlockOK(InodeBlock(x)) /\ AsInode(InodeBlock(x)) = x
  BY DEF BlockOK, InodeBlock, AsInode
<1>5. DiskOK(blocks')
  BY <1>3, <1>4 DEF DiskOK
<1>6. get_inode(i)' = x
  BY <1>3, <1>4 DEF get_inode, k
<1>7. \A j \in Inums \ {i} : get_inode(j)' = AsInode(bs[IBLOCK(j, BLOCK_NUM)])
  BY <1>3, InodeTable DEF get_inode, k
<1> QED
  BY <1>3, <1>5, <1>6, <1>7 DEF k

\* An inode that is in use stays in use.
LEMMA InodeInUseIsPut ==
  ASSUME NEW bs, DiskOK(bs), NEW i \in Inums, NEW x \in Inodes, blocks' = InodePut(bs, i, x),
         NEW j \in Inums, AsInode(bs[IBLOCK(j, BLOCK_NUM)]).type # 0, i = j => x.type # 0
  PROVE  ~IsFree(j)'
BY InodeIsPut DEF IsFree

\* Types of the disk as a whole.
DiskTypeOK ==
    /\ \A b \in BlockIds : blocks[b].kind \in {"zero", "data", "inode", "table"}
    /\ \A i \in Inums : get_inode(i) \in Inodes

LEMMA DiskTypes ==
  ASSUME DiskOK(blocks')
  PROVE  DiskTypeOK'
BY DiskHoldsInodes DEF DiskTypeOK, get_inode

LEMMA NoInodeIsInode == NoInode \in Inodes
BY BlocksHoldInodes DEF NoInode, BlockOK, ZeroBlock

\* The inode for a new extent is in use and has no blocks.
LEMMA NewInodes ==
  ASSUME NEW i, get_inode(i) \in Inodes, NEW type \in NewTypes
  PROVE  /\ NewInode(i, type) \in Inodes
         /\ NewInode(i, type).type = type /\ type # 0
         /\ NewInode(i, type).size = 0
<1>1. type \in Types /\ type # 0
  BY DataFit DEF Types
<1>2. ASSUME NEW x \in Inodes
      PROVE  /\ [x EXCEPT !.type = type, !.size = 0] \in Inodes
             /\ [x EXCEPT !.type = type, !.size = 0].type = type
             /\ [x EXCEPT !.type = type, !.size = 0].size = 0
  BY <1>1 DEF Inodes
<1> QED
  BY <1>1, <1>2 DEF NewInode

\* A step after which the process still runs.
Works == status = "runs" /\ UNCHANGED status

LEMMA ExitIsFar == Works => ExitsOnlyWhenFull' /\ status' \in {"runs", "full", "refused"}
BY DEF Works, ExitsOnlyWhenFull

LEMMA FindInodeKeeps ==
  ASSUME ServerInv, Works, NEW h \in Handler, NEW type \in NewTypes, FindInode(h, type)
  PROVE  ServerInv'
<1> USE DEF ServerInv, blockVars
<1>1. PICK i \in Inums : /\ inum' = [inum EXCEPT ![h] = i]
                         /\ ino' = [ino EXCEPT ![h] = NewInode(i, type)]
  BY DEF FindInode
<1>2. /\ at' = [at EXCEPT ![h] = "take_inode"]
      /\ UNCHANGED <<blocks, using_blocks, next_block, next_inum, data, nth, found>>
      /\ at[h] = "idle"
  BY DEF FindInode
<1>3. NewInode(i, type) \in Inodes /\ NewInode(i, type).type # 0
  BY NewInodes DEF ServerTypeOK
<1>4. ServerTypeOK'
  BY ExitIsFar, <1>1, <1>2, <1>3 DEF ServerTypeOK, get_inode
<1>5. HandlersOK'
  BY <1>1, <1>2, <1>3 DEF HandlersOK, Busy, ServerTypeOK
<1>6. DiskOK(blocks') /\ ~IsFree(1)'
  BY <1>2 DEF IsFree, get_inode
<1>7. ExitsOnlyWhenFull'
  BY ExitIsFar
<1> QED
  BY <1>4, <1>5, <1>6, <1>7

LEMMA ExitKeeps ==
  ASSUME ServerInv, NEW reason \in {"full", "refused"}, Exit(reason),
         reason = "full" => DataArea \subseteq using_blocks \/ \A i \in Inums : ~IsFree(i)
  PROVE  ServerInv'
<1> USE DEF ServerInv, blockVars, handlerVars
<1>1. /\ status' = reason
      /\ UNCHANGED <<blocks, using_blocks, next_block, next_inum, at, inum, ino, data, nth, found>>
  BY DEF Exit
<1>2. ServerTypeOK'
  BY <1>1 DEF ServerTypeOK, get_inode
<1>3. HandlersOK'
  BY <1>1 DEF HandlersOK, Busy
<1>4. DiskOK(blocks') /\ \A i : IsFree(i)' = IsFree(i)
  BY <1>1 DEF IsFree, get_inode
<1>5. ExitsOnlyWhenFull'
  BY <1>1, <1>4 DEF ExitsOnlyWhenFull
<1> QED
  BY <1>2, <1>3, <1>4, <1>5

LEMMA NoInodeLeftKeeps ==
  ASSUME ServerInv, NEW h \in Handler, NoInodeLeft(h)
  PROVE  ServerInv'
<1>1. next_inum \in 2 .. INODE_NUM /\ INODE_NUM \in Nat
  BY InodeTable DEF ServerInv, ServerTypeOK
<1>2. \A i \in Inums : ~IsFree(i)
  <2> SUFFICES ASSUME NEW i \in Inums, i # 1 PROVE ~IsFree(i)
    BY DEF ServerInv
  <2>1. InodesAhead = {} /\ InodesBefore = {}
    BY DEF NoInodeLeft, InodesAreUsedUp
  <2>2. i \in next_inum .. INODE_NUM \/ i \in 2 .. next_inum - 1
    BY <1>1 DEF Inums
  <2> QED
    BY <2>1, <2>2 DEF InodesAhead, InodesBefore
<1> QED
  BY <1>2, ExitKeeps DEF NoInodeLeft

LEMMA NoBlockLeftKeeps ==
  ASSUME ServerInv, NEW h \in Handler, NoBlockLeft(h)
  PROVE  ServerInv'
<1>1. next_block \in Nat /\ FirstData \in Nat /\ BLOCK_NUM \in Nat
  BY InodeTable DEF ServerInv, ServerTypeOK
<1>2. NextFit = {} /\ FirstFit = {}
  BY DEF NoBlockLeft, DiskIsFull
<1>3. ASSUME NEW b \in DataArea
      PROVE  b \in using_blocks
  <2>1. b \in next_block .. BLOCK_NUM - 1 \/ b \in FirstData .. next_block - 1
    BY <1>1 DEF DataArea
  <2> QED
    BY <1>2, <2>1 DEF NextFit, FirstFit
<1> QED
  BY <1>3, ExitKeeps DEF NoBlockLeft

\* A handler that has answered has nothing in hand.
LEMMA AnswerKeeps ==
  ASSUME ServerInv, Works, NEW h \in Handler, Answer(h),
         DiskOK(blocks'), ~IsFree(1)',
         UNCHANGED <<using_blocks, next_block>>, next_inum' \in 2 .. INODE_NUM
  PROVE  ServerInv'
<1> USE DEF ServerInv
<1>1. /\ at' = [at EXCEPT ![h] = "idle"]
      /\ inum' = [inum EXCEPT ![h] = 0]
      /\ ino' = [ino EXCEPT ![h] = NoInode]
      /\ data' = [data EXCEPT ![h] = <<>>]
      /\ nth' = [nth EXCEPT ![h] = 0]
      /\ found' = [found EXCEPT ![h] = 0]
  BY DEF Answer
<1>2. MAXFILE \in Nat
  BY InodeTable DEF MAXFILE
<1>3. DiskTypeOK'
  BY DiskTypes
<1>4. ServerTypeOK'
  BY ExitIsFar, <1>1, <1>2, <1>3, NoInodeIsInode DEF ServerTypeOK, DiskTypeOK
<1>5. HandlersOK'
  BY <1>1 DEF HandlersOK, Busy, ServerTypeOK
<1>6. ExitsOnlyWhenFull'
  BY ExitIsFar
<1> QED
  BY <1>4, <1>5, <1>6

LEMMA TakeInodeKeeps ==
  ASSUME ServerInv, Works, NEW h \in Handler, TakeInode(h)
  PROVE  ServerInv'
<1>1. /\ at[h] = "take_inode" /\ inum[h] \in Inums /\ ino[h] \in Inodes /\ ino[h].type # 0
      /\ blocks' = InodePut(blocks, inum[h], ino[h])
      /\ next_inum' = NextInum(inum[h])
      /\ Answer(h) /\ UNCHANGED <<using_blocks, next_block>>
  BY DEF TakeInode, ServerInv, HandlersOK, Busy, ServerTypeOK
<1>2. DiskOK(blocks) /\ get_inode(1).type # 0 /\ 1 \in Inums
  BY InodeTable, Geometry DEF ServerInv, IsFree, Inums
<1>3. DiskOK(blocks') /\ ~IsFree(1)'
  BY <1>1, <1>2, InodeIsPut, InodeInUseIsPut DEF get_inode
<1>4. next_inum' \in 2 .. INODE_NUM
  BY <1>1, InodeTable, Geometry DEF NextInum, Inums
<1> QED
  BY <1>1, <1>3, <1>4, AnswerKeeps

LEMMA StartPutKeeps ==
  ASSUME ServerInv, Works, NEW h \in Handler, NEW i \in Inums, NEW d \in Data, StartPut(h, i, d)
  PROVE  ServerInv'
<1> DEFINE file == get_inode(i)
           l == IF Len(d) > file.size THEN "find_block" ELSE "store"
           n == IF Len(d) < file.size THEN Len(d) ELSE file.size
<1>1. /\ at[h] = "idle" /\ ~IsFree(i)
      /\ using_blocks' = using_blocks \ BlocksOf(file, Len(d), file.size)
      /\ inum' = [inum EXCEPT ![h] = i]
      /\ ino' = [ino EXCEPT ![h] = file]
      /\ data' = [data EXCEPT ![h] = d]
      /\ nth' = [nth EXCEPT ![h] = n]
      /\ at' = [at EXCEPT ![h] = l]
      /\ UNCHANGED <<blocks, next_block, next_inum, found>>
  BY DEF StartPut, Serves, FreeBlocks
<1>2. file \in Inodes /\ file.type # 0 /\ file.size \in Nat
  BY <1>1 DEF ServerInv, ServerTypeOK, IsFree, Inodes
<1>3. Len(d) \in Nat /\ Len(d) <= MAXFILE /\ MAXFILE \in Nat
  BY DataFit, InodeTable, LenProperties DEF MAXFILE
<1>4. /\ l \in {"find_block", "store"}
      /\ n \in 0 .. MAXFILE
      /\ l = "find_block" => n < Len(d)
  BY <1>2, <1>3
<1> HIDE DEF l, n, file
<1> USE DEF ServerInv
<1>5. ServerTypeOK'
  BY ExitIsFar, <1>1, <1>2, <1>4 DEF ServerTypeOK, get_inode
<1>6. HandlersOK'
  BY <1>1, <1>2, <1>4 DEF HandlersOK, Busy, ServerTypeOK
<1>7. DiskOK(blocks') /\ ~IsFree(1)'
  BY <1>1 DEF IsFree, get_inode
<1>8. ExitsOnlyWhenFull'
  BY ExitIsFar
<1> QED
  BY <1>5, <1>6, <1>7, <1>8

LEMMA FindBlockKeeps ==
  ASSUME ServerInv, Works, NEW h \in Handler, FindBlock(h)
  PROVE  ServerInv'
<1> USE DEF ServerInv, blockVars
<1>1. PICK b \in NextFit \cup FirstFit : found' = [found EXCEPT ![h] = b]
  BY DEF FindBlock
<1>2. /\ at[h] = "find_block" /\ at' = [at EXCEPT ![h] = "take_block"]
      /\ UNCHANGED <<blocks, using_blocks, next_block, next_inum, inum, ino, data, nth>>
  BY DEF FindBlock
<1>3. b \in Nat
  BY InodeTable DEF NextFit, FirstFit, ServerTypeOK
<1>4. ServerTypeOK'
  BY ExitIsFar, <1>1, <1>2, <1>3 DEF ServerTypeOK, get_inode
<1>5. HandlersOK'
  BY <1>2 DEF HandlersOK, Busy, ServerTypeOK
<1>6. DiskOK(blocks') /\ ~IsFree(1)'
  BY <1>2 DEF IsFree, get_inode
<1>7. ExitsOnlyWhenFull'
  BY ExitIsFar
<1> QED
  BY <1>4, <1>5, <1>6, <1>7

\* A block that is allocated becomes the nth of the file, and the rest is as before.
LEMMA NthBlockIsSet ==
  ASSUME NEW x \in Inodes, NEW n \in Nat, NEW b \in Nat
  PROVE  /\ WithNthBlock(x, n, b) \in Inodes
         /\ WithNthBlock(x, n, b).type = x.type
         /\ n < NDIRECT => /\ WithNthBlock(x, n, b).blocks[n] = b
                           /\ \A m \in 0 .. NDIRECT - 1 :
                                 m # n => WithNthBlock(x, n, b).blocks[m] = x.blocks[m]
<1>1. CASE n < NDIRECT
  <2>1. n \in 0 .. NDIRECT
    BY <1>1, InodeTable
  <2>2. WithNthBlock(x, n, b) = [x EXCEPT !.blocks[n] = b]
    BY <1>1 DEF WithNthBlock
  <2>3. /\ [x EXCEPT !.blocks[n] = b] \in Inodes
        /\ [x EXCEPT !.blocks[n] = b].type = x.type
        /\ [x EXCEPT !.blocks[n] = b].blocks = [x.blocks EXCEPT ![n] = b]
    BY <2>1 DEF Inodes
  <2>4. x.blocks \in [0 .. NDIRECT -> Nat]
    BY DEF Inodes
  <2>5. /\ [x.blocks EXCEPT ![n] = b][n] = b
        /\ \A m \in 0 .. NDIRECT - 1 :
              m # n => [x.blocks EXCEPT ![n] = b][m] = x.blocks[m]
    BY <2>1, <2>4, InodeTable
  <2> QED
    BY <2>2, <2>3, <2>5
<1>2. CASE ~(n < NDIRECT)
  BY <1>2 DEF WithNthBlock
<1> QED
  BY <1>1, <1>2

\* An address table may be written anywhere, and what was there is no free inode then.
LEMMA TableIsWritten ==
  ASSUME NEW x, NEW n, NEW b, DiskOK(blocks), blocks' = TableWritten(x, n, b),
         get_inode(1).type # 0
  PROVE  DiskOK(blocks') /\ ~IsFree(1)'
<1>1. CASE blocks' = blocks
  BY <1>1 DEF IsFree, get_inode
<1>2. CASE blocks' # blocks
  <2>1. PICK t, ids : t \in BlockIds /\ blocks' = [blocks EXCEPT ![t] = TableBlock(ids)]
    <3> DEFINE t == x.blocks[NDIRECT]
               ids == [AsTable(Read(t)) EXCEPT ![n - NDIRECT] = b]
    <3>1. blocks' = Written(blocks, t, TableBlock(ids))
      BY <1>2 DEF TableWritten
    <3> HIDE DEF t, ids
    <3>2. t \in BlockIds /\ blocks' = [blocks EXCEPT ![t] = TableBlock(ids)]
      BY <1>2, <3>1 DEF Written
    <3> QED
      BY <3>2
  <2>2. BlockOK(TableBlock(ids)) /\ AsInode(TableBlock(ids)).type = 2
    <3>1. TableBlock(ids).kind = "table"
      BY DEF TableBlock
    <3> QED
      BY <3>1 DEF BlockOK, AsInode
  <2>3. /\ blocks' = [c \in BlockIds |-> blocks'[c]]
        /\ \A c \in BlockIds : blocks'[c] \in {blocks[c], TableBlock(ids)}
    BY <2>1 DEF DiskOK
  <2>4. DiskOK(blocks')
    BY <2>2, <2>3 DEF DiskOK
  <2>5. IBLOCK(1, BLOCK_NUM) \in BlockIds
    BY InodeTable, Geometry DEF Inums
  <2> QED
    BY <2>2, <2>3, <2>4, <2>5 DEF IsFree, get_inode
<1> QED
  BY <1>1, <1>2

LEMMA TakeBlockKeeps ==
  ASSUME ServerInv, Works, NEW h \in Handler, TakeBlock(h)
  PROVE  ServerInv'
<1> DEFINE x == WithNthBlock(ino[h], nth[h], found[h])
           l == IF nth[h] + 1 < Len(data[h]) THEN "find_block" ELSE "store"
<1>1. /\ at[h] = "take_block"
      /\ using_blocks' = using_blocks \cup {found[h]}
      /\ next_block' \in {FirstData, found[h] + 1}
      /\ ino' = [ino EXCEPT ![h] = x]
      /\ blocks' = TableWritten(ino[h], nth[h], found[h])
      /\ nth' = [nth EXCEPT ![h] = nth[h] + 1]
      /\ at' = [at EXCEPT ![h] = l]
      /\ found' = [found EXCEPT ![h] = 0]
      /\ UNCHANGED <<next_inum, inum, data>>
  BY DEF TakeBlock, Take, ServerInv, ServerTypeOK
<1>2. ino[h] \in Inodes /\ nth[h] \in Nat /\ found[h] \in Nat /\ ino[h].type # 0
  BY <1>1 DEF ServerInv, ServerTypeOK, HandlersOK, Busy
<1>3. x \in Inodes /\ x.type # 0
  <2>1. x \in Inodes /\ x.type = ino[h].type
    BY <1>2, NthBlockIsSet, Zenon
  <2> HIDE DEF x
  <2> QED
    BY <1>2, <2>1
<1>4. /\ nth[h] < Len(data[h]) /\ nth[h] \in Nat /\ MAXFILE \in Nat
      /\ Len(data[h]) \in Nat /\ Len(data[h]) <= MAXFILE
  <2>1. data[h] \in Data \cup {<<>>} /\ nth[h] < Len(data[h])
    BY <1>1 DEF ServerInv, ServerTypeOK, HandlersOK
  <2>2. MAXFILE \in Nat
    BY InodeTable DEF MAXFILE
  <2>3. \A d \in Data : Len(d) \in Nat /\ Len(d) <= MAXFILE
    BY DataFit, LenProperties
  <2>4. Len(<<>>) = 0
    BY EmptySeq
  <2> QED
    BY <1>2, <2>1, <2>2, <2>3, <2>4
<1>5. /\ l \in {"find_block", "store"}
      /\ l = "find_block" => nth[h] + 1 < Len(data[h])
      /\ nth[h] + 1 \in 0 .. MAXFILE
  BY <1>4
<1> HIDE DEF x, l
<1>6. DiskOK(blocks') /\ ~IsFree(1)'
  BY <1>1, TableIsWritten DEF ServerInv, IsFree
<1>7. DiskTypeOK'
  BY <1>6, DiskTypes
<1> USE DEF ServerInv
<1>8. ServerTypeOK'
  <2>1. using_blocks' \subseteq Nat
    BY <1>1, <1>2 DEF ServerTypeOK
  <2>2. next_block' \in Nat
    BY <1>1, <1>2, InodeTable
  <2>3. /\ next_inum' \in 2 .. INODE_NUM
        /\ inum' \in [Handler -> Inums \cup {0}]
        /\ data' \in [Handler -> Data \cup {<<>>}]
        /\ found' \in [Handler -> Nat]
    BY <1>1 DEF ServerTypeOK
  <2>4. ino' \in [Handler -> Inodes] /\ nth' \in [Handler -> 0 .. MAXFILE]
    BY <1>1, <1>3, <1>5 DEF ServerTypeOK
  <2>5. at' \in [Handler -> {"idle", "take_inode", "find_block", "take_block", "store"}]
    BY <1>1, <1>5 DEF ServerTypeOK
  <2> QED
    BY <1>7, <2>1, <2>2, <2>3, <2>4, <2>5, ExitIsFar DEF ServerTypeOK, DiskTypeOK
<1>9. HandlersOK'
  BY <1>1, <1>3, <1>5 DEF HandlersOK, Busy, ServerTypeOK
<1>10. ExitsOnlyWhenFull'
  BY ExitIsFar
<1> QED
  BY <1>6, <1>8, <1>9, <1>10

\* Data go to blocks of data, whatever was in them.
LEMMA DataAreWritten ==
  ASSUME DiskOK(blocks), NEW x, NEW d \in Data \cup {<<>>}
  PROVE  /\ DiskOK(DataWritten(x, d))
         /\ \A b \in BlockIds : \/ DataWritten(x, d)[b] = blocks[b]
                                \/ DataWritten(x, d)[b].kind = "data"
<1>1. /\ Len(d) \in Nat
      /\ \A k \in 1 .. Len(d) : \E v \in Value : d[k] = DataBlock(v)
  <2>1. CASE d = <<>>
    BY <2>1, EmptySeq
  <2>2. CASE d \in Data
    <3>1. d \in Seq({DataBlock(v) : v \in Value})
      BY <2>2, DataFit
    <3> QED
      BY <3>1, LenProperties, ElementOfSeq
  <2> QED
    BY <2>1, <2>2
<1>2. \A v : DataBlock(v).kind = "data"
  BY DEF DataBlock
<1> DEFINE Places(b) == {k \in 1 .. Len(d) : get_nth_block(x, k - 1) = b}
           put(b) == d[CHOOSE k \in Places(b) : \A j \in Places(b) : j <= k]
<1>3. ASSUME NEW b, Places(b) # {}
      PROVE  put(b).kind = "data"
  <2>1. \E k \in Places(b) : \A j \in Places(b) : j <= k
    <3>1. Places(b) \subseteq 1 .. Len(d)
      OBVIOUS
    <3> HIDE DEF Places
    <3> QED
      BY <1>1, <1>3, <3>1, LastExists
  <2>2. (CHOOSE k \in Places(b) : \A j \in Places(b) : j <= k) \in Places(b)
    BY <2>1
  <2> QED
    BY <1>1, <1>2, <2>2
<1>4. DataWritten(x, d) = [b \in BlockIds |-> IF Places(b) = {} THEN blocks[b] ELSE put(b)]
  BY DEF DataWritten
<1> HIDE DEF Places, put
<1> QED
  BY <1>3, <1>4 DEF DiskOK, BlockOK

LEMMA StoreFileKeeps ==
  ASSUME ServerInv, Works, NEW h \in Handler, StoreFile(h)
  PROVE  ServerInv'
<1> DEFINE bs == DataWritten(ino[h], data[h])
           x == [ino[h] EXCEPT !.size = Len(data[h])]
<1>1. /\ at[h] = "store" /\ inum[h] \in Inums
      /\ ino[h] \in Inodes /\ ino[h].type # 0
      /\ data[h] \in Data \cup {<<>>}
      /\ blocks' = InodePut(bs, inum[h], x)
      /\ Answer(h) /\ UNCHANGED <<using_blocks, next_block, next_inum>>
  BY DEF StoreFile, ServerInv, HandlersOK, Busy, ServerTypeOK
<1>2. DiskOK(bs) /\ \A b \in BlockIds : bs[b] = blocks[b] \/ bs[b].kind = "data"
  BY <1>1, DataAreWritten DEF ServerInv
<1>3. Len(data[h]) \in Nat
  BY <1>1, DataFit, LenProperties, EmptySeq
<1>4. x \in Inodes /\ x.type # 0
  BY <1>1, <1>3 DEF Inodes
<1> HIDE DEF bs, x
<1>5. 1 \in Inums /\ IBLOCK(1, BLOCK_NUM) \in BlockIds
  BY InodeTable, Geometry DEF Inums
<1>6. AsInode(bs[IBLOCK(1, BLOCK_NUM)]).type # 0
  <2>1. \A b : b.kind = "data" => AsInode(b).type = 2
    BY DEF AsInode
  <2> QED
    BY <1>2, <1>5, <2>1 DEF ServerInv, IsFree, get_inode
<1>7. DiskOK(blocks') /\ ~IsFree(1)'
  BY <1>1, <1>2, <1>4, <1>5, <1>6, InodeIsPut, InodeInUseIsPut
<1>8. next_inum' \in 2 .. INODE_NUM
  BY <1>1 DEF ServerInv, ServerTypeOK
<1> QED
  BY <1>1, <1>7, <1>8, AnswerKeeps

LEMMA RemoveKeeps ==
  ASSUME ServerInv, Works, NEW h \in Handler, NEW i \in Inums \ {1}, Remove(h, i)
  PROVE  ServerInv'
<1> DEFINE x == [get_inode(i) EXCEPT !.type = 0]
<1>1. /\ at[h] = "idle"
      /\ using_blocks' \subseteq using_blocks
      /\ blocks' = InodePut(blocks, i, x)
      /\ UNCHANGED <<next_block, next_inum, at, inum, ino, data, nth, found>>
  BY DEF Remove, Serves, FreeBlocks, handlerVars
<1>2. x \in Inodes
  <2>1. \A y \in Inodes : [y EXCEPT !.type = 0] \in Inodes
    BY DEF Inodes, Types
  <2> QED
    BY <2>1 DEF ServerInv, ServerTypeOK
<1> HIDE DEF x
<1>3. DiskOK(blocks') /\ ~IsFree(1)'
  <2>1. 1 \in Inums /\ i # 1
    BY Geometry DEF Inums
  <2> QED
    BY <1>1, <1>2, <2>1, InodeIsPut, InodeInUseIsPut DEF ServerInv, IsFree, get_inode
<1> USE DEF ServerInv
<1>4. ServerTypeOK'
  BY ExitIsFar, <1>1, <1>3, DiskTypes DEF ServerTypeOK, DiskTypeOK
<1>5. HandlersOK'
  BY <1>1 DEF HandlersOK, Busy
<1>6. ExitsOnlyWhenFull'
  BY ExitIsFar
<1> QED
  BY <1>3, <1>4, <1>5, <1>6

LEMMA ServerStarts == ServerInit => ServerInv
<1> SUFFICES ASSUME ServerInit PROVE ServerInv
  OBVIOUS
<1> DEFINE root == [type |-> T_DIR, size |-> 0, blocks |-> [n \in 0 .. NDIRECT |-> StaleBlock]]
<1>1. root \in Inodes /\ root.type = 1
  BY Geometry DEF Inodes, Types, T_DIR
<1>2. blocks = [b \in BlockIds |-> IF b = IBLOCK(1, BLOCK_NUM) THEN InodeBlock(root)
                                                               ELSE ZeroBlock]
  BY DEF ServerInit, InodeInit
<1> HIDE DEF root
<1>3. BlockOK(InodeBlock(root)) /\ BlockOK(ZeroBlock) /\ AsInode(InodeBlock(root)) = root
  BY <1>1 DEF BlockOK, InodeBlock, ZeroBlock, AsInode
<1>4. DiskOK(blocks)
  BY <1>2, <1>3 DEF DiskOK
<1>5. ~IsFree(1)
  BY <1>1, <1>2, <1>3, InodeTable, Geometry DEF IsFree, get_inode, Inums
<1>6. ServerTypeOK
  <2>1. DiskTypeOK
    BY <1>4, DiskHoldsInodes DEF DiskTypeOK, get_inode
  <2>2. using_blocks \subseteq Nat /\ next_inum \in 2 .. INODE_NUM
    BY Geometry DEF ServerInit, InodeInit
  <2>3. next_block \in Nat
    <3>1. StaleNblocks \div BPB \in Nat
      BY Geometry
    <3> QED
      BY <3>1, InodeTable DEF ServerInit, InodeInit, IBLOCK
  <2>4. MAXFILE \in Nat
    BY InodeTable DEF MAXFILE
  <2> QED
    BY <2>1, <2>2, <2>3, <2>4, NoInodeIsInode DEF ServerInit, ServerTypeOK, DiskTypeOK
<1>7. HandlersOK /\ ExitsOnlyWhenFull
  BY DEF ServerInit, HandlersOK, ExitsOnlyWhenFull, Busy
<1> QED
  BY <1>4, <1>5, <1>6, <1>7 DEF ServerInv

LEMMA ServerStutters ==
  ASSUME ServerInv, UNCHANGED extentServerVars
  PROVE  ServerInv'
BY DEF ServerInv, ServerTypeOK, HandlersOK, ExitsOnlyWhenFull, Busy, IsFree, get_inode,
       extentServerVars, blockVars, handlerVars

LEMMA ServerStepKeeps ==
  ASSUME ServerInv, NEW h \in Handler, HandlerStep(h)
  PROVE  ServerInv'
<1>1. CASE Works /\ Work(h)
  BY <1>1, FindInodeKeeps, TakeInodeKeeps, StartPutKeeps, FindBlockKeeps, TakeBlockKeeps,
     StoreFileKeeps, RemoveKeeps DEF Work
<1>2. CASE GiveUp(h)
  <2>1. ASSUME Exit("refused")
        PROVE  ServerInv'
    BY <2>1, ExitKeeps
  <2> QED
    BY <1>2, <2>1, NoInodeLeftKeeps, NoBlockLeftKeeps DEF GiveUp, Refuse
<1> QED
  BY <1>1, <1>2 DEF HandlerStep, Works

\* The invariant of the server holds for any handlers and any data.
THEOREM ServerInvariance == ServerSpec => []ServerInv
<1>1. ServerInv /\ [ServerNext]_extentServerVars => ServerInv'
  BY ServerStepKeeps, ServerStutters DEF ServerNext
<1> QED
  BY ServerStarts, <1>1, PTL DEF ServerSpec

\* The disk holds well-formed inodes and the handlers' variables are in their ranges,
\* even where threads overwrite each other's blocks.
THEOREM ServerTypeCorrect == ServerSpec => []ServerTypeOK
BY ServerInvariance, PTL DEF ServerInv

\* alloc_block and alloc_inode exit only when there is nothing left to find: the two
\* scans cover the whole disk and all inodes.
THEOREM ExitsForAReason == ServerSpec => []ExitsOnlyWhenFull
<1>1. ServerInv => ExitsOnlyWhenFull
  BY DEF ServerInv
<1> QED
  BY ServerInvariance, <1>1, PTL

-----------------------------------------------------------------------------
\* Where the search for blocks starts is what keeps data out of the inode table.

LEMMA FindBlockKeepsArea ==
  ASSUME ServerInv, AreaInv, NEW h \in Handler, FindBlock(h)
  PROVE  AreaInv'
<1>1. PICK b \in NextFit \cup FirstFit : found' = [found EXCEPT ![h] = b]
  BY DEF FindBlock
<1>2. at' = [at EXCEPT ![h] = "take_block"] /\ UNCHANGED <<using_blocks, next_block>>
  BY DEF FindBlock, blockVars
<1>3. b \in DataArea
  BY InodeTable DEF NextFit, FirstFit, AreaInv, DataArea
<1> QED
  BY <1>1, <1>2, <1>3 DEF AreaInv, ServerInv, ServerTypeOK

LEMMA TakeBlockKeepsArea ==
  ASSUME ServerInv, AreaInv, NEW h \in Handler, TakeBlock(h)
  PROVE  AreaInv'
<1>1. /\ at[h] = "take_block"
      /\ using_blocks' = using_blocks \cup {found[h]}
      /\ next_block' = IF found[h] + 1 = BLOCK_NUM THEN FirstData ELSE found[h] + 1
      /\ \A g \in Handler : at'[g] = "take_block" => at[g] = "take_block" /\ g # h
      /\ found' = [found EXCEPT ![h] = 0]
  BY DEF TakeBlock, Take, ServerInv, ServerTypeOK
<1>2. found[h] \in DataArea
  BY <1>1 DEF AreaInv
<1>3. next_block' \in DataArea
  BY <1>1, <1>2, InodeTable DEF DataArea
<1>4. \A g \in Handler \ {h} : found'[g] = found[g]
  BY <1>1 DEF ServerInv, ServerTypeOK
<1> QED
  BY <1>1, <1>2, <1>3, <1>4 DEF AreaInv

LEMMA AreaStepKeeps ==
  ASSUME ServerInv, AreaInv, NEW h \in Handler, HandlerStep(h)
  PROVE  AreaInv'
<1> USE DEF AreaInv, ServerInv, ServerTypeOK, blockVars
<1>1. ASSUME NEW type \in NewTypes, FindInode(h, type)
      PROVE  AreaInv'
  BY <1>1 DEF FindInode
<1>2. ASSUME NEW reason, Exit(reason)
      PROVE  AreaInv'
  BY <1>2 DEF Exit, handlerVars
<1>3. ASSUME Answer(h), UNCHANGED <<using_blocks, next_block>>
      PROVE  AreaInv'
  BY <1>3 DEF Answer
<1>4. ASSUME NEW i \in Inums, NEW d \in Data, StartPut(h, i, d)
      PROVE  AreaInv'
  <2>1. \E l : l # "take_block" /\ at' = [at EXCEPT ![h] = l]
    BY <1>4 DEF StartPut
  <2>2. using_blocks' \subseteq using_blocks /\ UNCHANGED <<next_block, found>>
    BY <1>4 DEF StartPut, FreeBlocks
  <2> QED
    BY <2>1, <2>2
<1>5. ASSUME NEW i \in Inums \ {1}, Remove(h, i)
      PROVE  AreaInv'
  BY <1>5 DEF Remove, FreeBlocks, handlerVars
<1>6. \/ \E type \in NewTypes : FindInode(h, type)
      \/ \E reason : Exit(reason)
      \/ Answer(h) /\ UNCHANGED <<using_blocks, next_block>>
      \/ \E i \in Inums, d \in Data : StartPut(h, i, d)
      \/ FindBlock(h)
      \/ TakeBlock(h)
      \/ \E i \in Inums \ {1} : Remove(h, i)
  BY DEF HandlerStep, Work, GiveUp, NoInodeLeft, TakeInode, NoBlockLeft, StoreFile,
         Refuse
<1> QED
  BY <1>1, <1>2, <1>3, <1>4, <1>5, <1>6, FindBlockKeepsArea, TakeBlockKeepsArea

LEMMA AreaIsKept == ServerInv /\ AreaInv /\ [ServerNext]_extentServerVars => AreaInv'
<1>1. ASSUME AreaInv, UNCHANGED extentServerVars
      PROVE  AreaInv'
  BY <1>1 DEF AreaInv, extentServerVars, blockVars, handlerVars
<1> QED
  BY <1>1, AreaStepKeeps DEF ServerNext

LEMMA AreaStarts == StartsInDataArea /\ ServerInit => AreaInv
BY DEF ServerInit, InodeInit, AreaInv, StartsInDataArea

\* Whatever the handlers do to each other, the blocks they give out are in the area of
\* data, if the first search starts there.
THEOREM AreaInvariance == ASSUME StartsInDataArea PROVE ServerSpec => []AreaInv
BY AreaStarts, AreaIsKept, ServerInvariance, PTL DEF ServerSpec

\* Data never get into the inode table, for any number of handlers and files of any
\* length, once the search starts behind it: the uninitialized sb.nblocks alone is why
\* they may in the code.
THEOREM DataStayBehindInodes ==
  ASSUME StartsInDataArea PROVE ServerSpec => []DataFollowInodeTable
<1>1. AreaInv => DataFollowInodeTable
  BY DEF AreaInv, DataFollowInodeTable
<1> QED
  BY AreaInvariance, <1>1, PTL

-----------------------------------------------------------------------------
\* The blocks of the extents, when no fault interferes.

\* The size of an inode is changed and nothing else of it.
LEMMA SizeIsSet ==
  ASSUME NEW x \in Inodes, NEW n \in Nat
  PROVE  /\ [x EXCEPT !.size = n] \in Inodes
         /\ [x EXCEPT !.size = n].size = n
         /\ [x EXCEPT !.size = n].type = x.type
         /\ [x EXCEPT !.size = n].blocks = x.blocks
BY DEF Inodes

LEMMA InodeFields ==
  ASSUME NEW x \in Inodes
  PROVE  x.size \in Nat /\ x.type \in Types /\ x.blocks \in [0 .. NDIRECT -> Nat]
BY DEF Inodes

LEMMA DirectBlocks ==
  ASSUME NEW x, NEW k \in Nat, k < NDIRECT
  PROVE  get_nth_block(x, k) = x.blocks[k]
BY DEF get_nth_block

\* A put holds the blocks that it has so far, other extents hold what is on the disk.
HoldsWhatItHas ==
    \A i \in Inums : \A m, b :
        /\ \A h \in Handler :
              Putting(h, i) =>
                (Holds(i, m, b) <=>
                   ~IsFree(i) /\ m \in 0 .. nth[h] - 1 /\ ino[h].blocks[m] = b)
        /\ ~IsPut(i) =>
              (Holds(i, m, b) <=>
                 /\ ~IsFree(i)
                 /\ m \in 0 .. get_inode(i).size - 1 /\ get_inode(i).blocks[m] = b)

\* The contents are those that are put, or read from the addresses in the inode.
ReadsWhatItHas ==
    \A i \in Inums :
        /\ \A h \in Handler : Putting(h, i) => Contents[i] = data[h]
        /\ ~IsPut(i) =>
              Contents[i] = IF IsFree(i)
                              THEN NoExtent
                              ELSE [k \in 1 .. get_inode(i).size |->
                                      Read(get_inode(i).blocks[k - 1])]

Known == HoldsWhatItHas /\ ReadsWhatItHas

LEMMA PutIsFound ==
  OnePutEach => \A h \in Handler, i \in Inums : Putting(h, i) => IsPut(i) /\ PutOf(i) = h
<1> SUFFICES ASSUME OnePutEach, NEW h \in Handler, NEW i \in Inums, Putting(h, i)
             PROVE  IsPut(i) /\ PutOf(i) = h
  OBVIOUS
<1>1. \A g \in Handler : Putting(g, i) <=> g = h
  BY DEF OnePutEach
<1> QED
  BY <1>1 DEF IsPut, PutOf

LEMMA HoldsIs == OnePutEach /\ ServerTypeOK => HoldsWhatItHas
<1> SUFFICES ASSUME OnePutEach, ServerTypeOK, NEW i \in Inums, NEW m, NEW b
             PROVE  /\ \A h \in Handler :
                          Putting(h, i) =>
                            (Holds(i, m, b) <=>
                               ~IsFree(i) /\ m \in 0 .. nth[h] - 1 /\ ino[h].blocks[m] = b)
                    /\ ~IsPut(i) =>
                          (Holds(i, m, b) <=>
                             /\ ~IsFree(i)
                             /\ m \in 0 .. get_inode(i).size - 1 /\ get_inode(i).blocks[m] = b)
  BY DEF HoldsWhatItHas
<1>1. Holds(i, m, b) <=> ~IsFree(i) /\ m \in 0 .. Current(i).size - 1 /\ Current(i).blocks[m] = b
  BY DEF Holds, Extents
<1>2. ASSUME NEW h \in Handler, Putting(h, i)
      PROVE  Current(i).size = nth[h] /\ Current(i).blocks = ino[h].blocks
  <2>1. PICK x, n : x = ino[h] /\ n = nth[h]
    OBVIOUS
  <2>2. Current(i) = [x EXCEPT !.size = n]
    BY <1>2, <2>1, PutIsFound DEF Current
  <2>3. x \in Inodes /\ n \in Nat
    BY <2>1 DEF ServerTypeOK
  <2> QED
    BY <2>1, <2>2, <2>3, SizeIsSet
<1>3. ~IsPut(i) => Current(i) = get_inode(i)
  BY DEF Current
<1> QED
  BY <1>1, <1>2, <1>3

LEMMA ReadIs == OnePutEach /\ ServerTypeOK /\ SizesAreSmall => ReadsWhatItHas
<1> SUFFICES ASSUME OnePutEach, ServerTypeOK, SizesAreSmall, NEW i \in Inums
             PROVE  /\ \A h \in Handler : Putting(h, i) => Contents[i] = data[h]
                    /\ read_file(get_inode(i)) = [k \in 1 .. get_inode(i).size |->
                                                    Read(get_inode(i).blocks[k - 1])]
  BY DEF ReadsWhatItHas, Contents
<1> DEFINE x == get_inode(i)
<1>1. x.size \in Nat /\ x.size <= NDIRECT /\ NDIRECT \in Nat
  BY InodeFields, InodeTable DEF ServerTypeOK, SizesAreSmall
<1> HIDE DEF x
<1>2. \A k \in 1 .. x.size : get_nth_block(x, k - 1) = x.blocks[k - 1]
  BY <1>1, DirectBlocks
<1>3. read_file(x) = [k \in 1 .. x.size |-> Read(x.blocks[k - 1])]
  BY <1>2 DEF read_file
<1>4. \A h \in Handler : Putting(h, i) => Contents[i] = data[h]
  BY PutIsFound DEF Contents
<1> QED
  BY <1>3, <1>4 DEF x

LEMMA FilesAreKnown == OnePutEach /\ ServerTypeOK /\ SizesAreSmall => Known
BY HoldsIs, ReadIs DEF Known

\* The same after a step.
LEMMA FilesBecomeKnown ==
  ASSUME OnePutEach', ServerTypeOK', SizesAreSmall'
  PROVE  Known'
<1>1. (OnePutEach /\ ServerTypeOK /\ SizesAreSmall => Known)'
  BY FilesAreKnown, PTL
<1> QED
  BY <1>1

\* Who owns which block, apart from where it is written.
OwnersOK == OwnersAreUnique /\ HeldIsUsed /\ UsedIsHeld

LEMMA OwnersStay ==
  ASSUME OwnersOK, using_blocks' = using_blocks, using_blocks \subseteq Nat,
         \A i \in Inums, m \in Nat, b \in Nat : Holds(i, m, b)' <=> Holds(i, m, b)
  PROVE  OwnersOK'
<1>1. OwnersAreUnique' /\ HeldIsUsed'
  BY DEF OwnersOK, OwnersAreUnique, HeldIsUsed
<1>2. UsedIsHeld'
  BY DEF OwnersOK, UsedIsHeld
<1> QED
  BY <1>1, <1>2 DEF OwnersOK

\* When an extent gives up its blocks from the nth on, these are the blocks to free.
LEMMA OwnersShrink ==
  ASSUME OwnersOK, NEW i \in Inums, NEW n \in Nat,
         using_blocks \subseteq Nat,
         \A j \in Inums, m \in Nat, b \in Nat :
            Holds(j, m, b)' <=> Holds(j, m, b) /\ ~(j = i /\ m >= n),
         using_blocks' = {b \in using_blocks : ~(\E m \in Nat : m >= n /\ Holds(i, m, b))}
  PROVE  OwnersOK'
<1>1. OwnersAreUnique'
  BY DEF OwnersOK, OwnersAreUnique
<1>2. HeldIsUsed'
  <2> SUFFICES ASSUME NEW j \in Inums, NEW m \in Nat, NEW b \in Nat, Holds(j, m, b)'
               PROVE  b \in using_blocks'
    BY DEF HeldIsUsed
  <2>1. Holds(j, m, b) /\ ~(j = i /\ m >= n) /\ b \in using_blocks
    BY DEF OwnersOK, HeldIsUsed
  <2>2. ASSUME NEW k \in Nat, k >= n, Holds(i, k, b)
        PROVE  FALSE
    BY <2>1, <2>2 DEF OwnersOK, OwnersAreUnique
  <2> QED
    BY <2>1, <2>2
<1>3. UsedIsHeld'
  <2> SUFFICES ASSUME NEW b \in using_blocks'
               PROVE  \E j \in Inums, m \in Nat : Holds(j, m, b)'
    BY DEF UsedIsHeld
  <2>1. b \in Nat /\ b \in using_blocks /\ ~(\E m \in Nat : m >= n /\ Holds(i, m, b))
    OBVIOUS
  <2>2. PICK j \in Inums, m \in Nat : Holds(j, m, b)
    BY <2>1 DEF OwnersOK, UsedIsHeld
  <2>3. Holds(j, m, b)'
    BY <2>1, <2>2
  <2> QED
    BY <2>3
<1> QED
  BY <1>1, <1>2, <1>3 DEF OwnersOK

\* A free block may be given to any extent.
LEMMA OwnersGrow ==
  ASSUME OwnersOK, NEW i \in Inums, NEW n \in Nat, NEW c \in Nat,
         using_blocks \subseteq Nat, c \notin using_blocks,
         using_blocks' = using_blocks \cup {c},
         \A j \in Inums, m \in Nat, b \in Nat :
            Holds(j, m, b)' <=> Holds(j, m, b) \/ (j = i /\ m = n /\ b = c)
  PROVE  OwnersOK'
<1>1. OwnersAreUnique'
  <2> SUFFICES ASSUME NEW j \in Inums, NEW k \in Inums, NEW m \in Nat, NEW l \in Nat,
                      NEW b \in Nat, Holds(j, m, b)', Holds(k, l, b)'
               PROVE  j = k /\ m = l
    BY DEF OwnersAreUnique
  <2>1. CASE b = c
    <3>1. ~Holds(j, m, b) /\ ~Holds(k, l, b)
      BY <2>1 DEF OwnersOK, HeldIsUsed
    <3> QED
      BY <3>1
  <2>2. CASE b # c
    <3>1. Holds(j, m, b) /\ Holds(k, l, b)
      BY <2>2
    <3> QED
      BY <3>1 DEF OwnersOK, OwnersAreUnique
  <2> QED
    BY <2>1, <2>2
<1>2. HeldIsUsed'
  BY DEF OwnersOK, HeldIsUsed
<1>3. UsedIsHeld'
  <2> SUFFICES ASSUME NEW b \in using_blocks'
               PROVE  \E j \in Inums, m \in Nat : Holds(j, m, b)'
    BY DEF UsedIsHeld
  <2>1. CASE b = c
    BY <2>1
  <2>2. CASE b # c
    BY <2>2 DEF OwnersOK, UsedIsHeld
  <2> QED
    BY <2>1, <2>2
<1> QED
  BY <1>1, <1>2, <1>3 DEF OwnersOK

\* A step that leaves the disk alone leaves the inodes alone.
LEMMA DiskIsLeftAlone ==
  ASSUME blocks' = blocks
  PROVE  /\ \A i : get_inode(i)' = get_inode(i) /\ IsFree(i)' = IsFree(i)
         /\ Extents' = Extents
<1>1. \A i : get_inode(i)' = get_inode(i) /\ IsFree(i)' = IsFree(i)
  BY DEF get_inode, IsFree
<1> QED
  BY <1>1 DEF Extents

-----------------------------------------------------------------------------
\* What a step of one handler on one extent means to the others.

SafeInv == ServerInv /\ AreaInv /\ FilesInv

\* A step keeps the files apart, and does to them what a store of extents may do.
Kept == FilesInv' /\ [Store!Next]_Contents

\* Handler h has extent i to itself.
StepOn(h, i) ==
    /\ \A g \in Handler \ {h} :
          /\ at'[g] = at[g] /\ inum'[g] = inum[g] /\ ino'[g] = ino[g]
          /\ data'[g] = data[g] /\ nth'[g] = nth[g] /\ found'[g] = found[g]
          /\ ~Putting(g, i)
    /\ \A j \in Inums \ {i} :
          ~Putting(h, j) /\ ~Putting(h, j)' /\ get_inode(j)' = get_inode(j)
    /\ get_inode(i)'.size <= NDIRECT

LEMMA OthersAreLeftAlone ==
  ASSUME SafeInv, ServerTypeOK', NEW h \in Handler, NEW i \in Inums, StepOn(h, i)
  PROVE  /\ OnePutEach' /\ SizesAreSmall' /\ Known /\ Known'
         /\ \A j \in Inums \ {i} : /\ IsFree(j)' = IsFree(j)
                                   /\ \A g \in Handler : Putting(g, j)' <=> Putting(g, j)
                                   /\ \A m, b : Holds(j, m, b)' <=> Holds(j, m, b)
         /\ \A g \in Handler \ {h} : OnItsWay(g)'
<1>1. \A g \in Handler \ {h}, j \in Inums : Putting(g, j)' <=> Putting(g, j)
  BY DEF StepOn, Putting
<1>2. \A j \in Inums \ {i}, g \in Handler : Putting(g, j)' <=> Putting(g, j)
  BY <1>1 DEF StepOn
<1>3. OnePutEach'
  <2> SUFFICES ASSUME NEW f \in Handler, NEW g \in Handler, NEW j \in Inums,
                      Putting(f, j)', Putting(g, j)'
               PROVE  f = g
    BY DEF OnePutEach
  <2>1. CASE j = i
    BY <1>1, <2>1 DEF StepOn
  <2>2. CASE j # i
    BY <1>2, <2>2 DEF SafeInv, FilesInv, OnePutEach
  <2> QED
    BY <2>1, <2>2
<1>4. SizesAreSmall'
  BY DEF StepOn, SafeInv, FilesInv, SizesAreSmall
<1>5. Known /\ Known'
  BY <1>3, <1>4, FilesAreKnown, FilesBecomeKnown DEF SafeInv, ServerInv, FilesInv
<1>6. \A j \in Inums \ {i} : IsFree(j)' = IsFree(j)
  BY DEF StepOn, IsFree
<1>7. ASSUME NEW j \in Inums \ {i}, NEW m, NEW b
      PROVE  Holds(j, m, b)' <=> Holds(j, m, b)
  <2>1. CASE IsPut(j)
    <3>1. PICK g \in Handler : Putting(g, j)
      BY <2>1 DEF IsPut
    <3>2. g # h /\ Putting(g, j)' /\ nth'[g] = nth[g] /\ ino'[g] = ino[g]
      BY <1>2, <3>1 DEF StepOn
    <3> QED
      BY <1>5, <1>6, <3>1, <3>2 DEF Known, HoldsWhatItHas
  <2>2. CASE ~IsPut(j)
    <3>1. ~IsPut(j)'
      BY <1>2, <2>2 DEF IsPut
    <3>2. get_inode(j)' = get_inode(j)
      BY DEF StepOn
    <3> QED
      BY <1>5, <1>6, <2>2, <3>1, <3>2 DEF Known, HoldsWhatItHas
  <2> QED
    BY <2>1, <2>2
<1>8. ASSUME NEW g \in Handler \ {h}
      PROVE  OnItsWay(g)'
  <2> SUFFICES ASSUME at[g] \in {"find_block", "take_block", "store"}
               PROVE  OnItsWay(g)'
    BY DEF OnItsWay, StepOn
  <2>1. OnItsWay(g)
    BY DEF SafeInv, FilesInv, PutsAreOnTheirWay
  <2>2. inum[g] \in Inums \ {i}
    BY <2>1 DEF OnItsWay, Extents, StepOn, Putting
  <2>3. get_inode(inum[g])' = get_inode(inum[g]) /\ inum'[g] = inum[g] /\ inum'[g] \in Extents'
    <3>1. inum'[g] = inum[g]
      BY DEF StepOn
    <3>2. \A j \in Inums \ {i} : j \in Extents' <=> j \in Extents
      BY <1>6 DEF Extents
    <3>3. \A j \in Inums \ {i} : AsInode(blocks'[IBLOCK(j, BLOCK_NUM)]) = get_inode(j)
      BY DEF StepOn, get_inode
    <3> QED
      BY <2>1, <2>2, <3>1, <3>2, <3>3 DEF OnItsWay, get_inode
  <2> QED
    BY <2>1, <2>3 DEF OnItsWay, StepOn
<1> QED
  BY <1>2, <1>3, <1>4, <1>5, <1>6, <1>7, <1>8

\* What is held is a block of data.
LEMMA HeldAreData ==
  ASSUME SafeInv, NEW i \in Inums, NEW m \in Nat, NEW b \in Nat, Holds(i, m, b)
  PROVE  b \in DataArea /\ b \in BlockIds
<1>1. b \in DataArea
  BY DEF SafeInv, FilesInv, HeldIsUsed, AreaInv
<1> QED
  BY <1>1, InodeTable DEF DataArea, BlockIds

\* Where only the blocks of extent i are written, other extents read what they read before.
LEMMA OthersKeepContents ==
  ASSUME SafeInv, ServerTypeOK', NEW h \in Handler, NEW i \in Inums, StepOn(h, i),
         \A b \in DataArea : (\A m \in Nat : ~Holds(i, m, b)) => blocks'[b] = blocks[b]
  PROVE  \A j \in Inums \ {i} : Contents'[j] = Contents[j]
<1> SUFFICES ASSUME NEW j \in Inums \ {i}
             PROVE  Contents'[j] = Contents[j]
  OBVIOUS
<1>1. /\ Known /\ Known' /\ IsFree(j)' = IsFree(j) /\ get_inode(j)' = get_inode(j)
      /\ \A g \in Handler : Putting(g, j)' <=> Putting(g, j)
  BY OthersAreLeftAlone DEF StepOn
<1>2. CASE IsPut(j)
  <2>1. PICK g \in Handler : Putting(g, j)
    BY <1>2 DEF IsPut
  <2>2. Putting(g, j)' /\ data'[g] = data[g]
    BY <1>1, <2>1 DEF StepOn
  <2> QED
    BY <1>1, <2>1, <2>2 DEF Known, ReadsWhatItHas
<1>3. ~IsPut(j) => ~IsPut(j)'
  BY <1>1 DEF IsPut
<1>4. CASE ~IsPut(j) /\ IsFree(j)
  BY <1>1, <1>3, <1>4 DEF Known, ReadsWhatItHas
<1>5. CASE ~IsPut(j) /\ ~IsFree(j)
  <2>1. /\ Contents[j] = [k \in 1 .. get_inode(j).size |-> Read(get_inode(j).blocks[k - 1])]
        /\ Contents'[j] = [k \in 1 .. get_inode(j).size |-> Read(get_inode(j).blocks[k - 1])']
    BY <1>1, <1>3, <1>5 DEF Known, ReadsWhatItHas
  <2>2. ASSUME NEW k \in 1 .. get_inode(j).size
        PROVE  Read(get_inode(j).blocks[k - 1])' = Read(get_inode(j).blocks[k - 1])
    <3> DEFINE b == get_inode(j).blocks[k - 1]
    <3>1. /\ get_inode(j).size \in Nat /\ get_inode(j).size <= NDIRECT /\ NDIRECT \in Nat
          /\ get_inode(j).blocks \in [0 .. NDIRECT -> Nat]
      BY InodeFields, InodeTable DEF SafeInv, FilesInv, SizesAreSmall, ServerInv, ServerTypeOK
    <3>2. k - 1 \in Nat /\ k - 1 \in 0 .. get_inode(j).size - 1 /\ b \in Nat
      BY <3>1
    <3>3. Holds(j, k - 1, b)
      BY <1>1, <1>5, <3>2 DEF Known, HoldsWhatItHas
    <3>4. b \in DataArea /\ b \in BlockIds
      BY <3>2, <3>3, HeldAreData
    <3>5. \A m \in Nat : ~Holds(i, m, b)
      BY <3>2, <3>3 DEF SafeInv, FilesInv, OwnersAreUnique
    <3>6. blocks'[b] = blocks[b]
      BY <3>4, <3>5
    <3>7. get_inode(j)'.blocks[k - 1] = b
      BY <1>1
    <3> HIDE DEF b
    <3>8. Read(get_inode(j).blocks[k - 1])' = blocks'[b]
      BY <3>4, <3>7 DEF Read
    <3>9. Read(get_inode(j).blocks[k - 1]) = blocks[b]
      BY <3>4 DEF Read, b
    <3> QED
      BY <3>6, <3>8, <3>9
  <2> QED
    BY <2>1, <2>2
<1> QED
  BY <1>2, <1>4, <1>5

LEMMA ContentsChange ==
  ASSUME NEW i \in Inums, NEW v, Contents'[i] = v,
         \A j \in Inums \ {i} : Contents'[j] = Contents[j]
  PROVE  Contents' = [Contents EXCEPT ![i] = v]
<1>1. Contents' = [j \in Inums |-> Contents'[j]] /\ Contents = [j \in Inums |-> Contents[j]]
  BY DEF Contents
<1> HIDE DEF Contents
<1> QED
  BY <1>1

LEMMA ContentsStay ==
  ASSUME \A j \in Inums : Contents'[j] = Contents[j]
  PROVE  Contents' = Contents
<1>1. Contents' = [j \in Inums |-> Contents'[j]] /\ Contents = [j \in Inums |-> Contents[j]]
  BY DEF Contents
<1> HIDE DEF Contents
<1> QED
  BY <1>1

\* What a step may do to the contents of the extent it is on.
MayDo(i) ==
    \/ Contents'[i] = Contents[i] /\ IsFree(i)' = IsFree(i)
    \/ Contents[i] = NoExtent /\ Contents'[i] = <<>>
    \/ ~IsFree(i) /\ ~IsFree(i)' /\ Contents'[i] \in Data
    \/ ~IsFree(i) /\ IsFree(i)' /\ Contents'[i] = NoExtent

\* What is left to show for a step of handler h on extent i.
LEMMA KeptByStep ==
  ASSUME SafeInv, ServerTypeOK', NEW h \in Handler, NEW i \in Inums, StepOn(h, i),
         \A b \in DataArea : (\A m \in Nat : ~Holds(i, m, b)) => blocks'[b] = blocks[b],
         \/ using_blocks' \subseteq using_blocks
         \/ \A g \in Handler \ {h} : at[g] # "take_block",
         IsFree(i) => IsFree(i)' \/ \A g \in Handler \ {h} : at[g] # "take_inode",
         OwnersOK', OnItsWay(h)', FindIsFree(h)', MayDo(i)
  PROVE  Kept
<1>1. /\ OnePutEach' /\ SizesAreSmall'
      /\ \A j \in Inums \ {i} : IsFree(j)' = IsFree(j)
      /\ \A g \in Handler \ {h} : OnItsWay(g)'
  BY OthersAreLeftAlone
<1>2. PutsAreOnTheirWay'
  BY <1>1 DEF PutsAreOnTheirWay
<1>3. FindsAreFree'
  <2> SUFFICES ASSUME NEW g \in Handler \ {h} PROVE FindIsFree(g)'
    BY DEF FindsAreFree
  <2>1. /\ FindIsFree(g)
        /\ at'[g] = at[g] /\ found'[g] = found[g] /\ inum'[g] = inum[g] /\ ino'[g] = ino[g]
    BY DEF SafeInv, FilesInv, FindsAreFree, StepOn
  <2>2. at[g] = "take_block" => found[g] \notin using_blocks'
    BY <2>1 DEF FindIsFree
  <2>3. ASSUME at[g] = "take_inode"
        PROVE  IsFree(inum[g])'
    <3>1. inum[g] \in Inums /\ IsFree(inum[g])
      BY <2>1, <2>3 DEF FindIsFree, SafeInv, ServerInv, HandlersOK, Busy
    <3>2. \A j \in Inums : j = inum[g] => IsFree(j)'
      BY <1>1, <2>3, <3>1
    <3>3. \A j \in Inums : j = inum'[g] => IsFree(j)'
      BY <2>1, <3>2
    <3> QED
      BY <2>1, <3>1, <3>2, <3>3 DEF IsFree, get_inode
  <2> QED
    BY <2>1, <2>2, <2>3 DEF FindIsFree, IsFree, get_inode
<1>4. \A j \in Inums \ {i} : Contents'[j] = Contents[j]
  BY OthersKeepContents
<1>5. HoldsPuts'
  <2>1. \A j \in Inums \ {i} : j \in Extents' => j \in Extents
    BY <1>1 DEF Extents
  <2>2. i \in Extents' => Contents'[i] \in Data \cup {<<>>}
    BY DEF MayDo, Extents, SafeInv, FilesInv, HoldsPuts
  <2> QED
    BY <1>4, <2>1, <2>2 DEF SafeInv, FilesInv, HoldsPuts, Extents
<1>6. [Store!Next]_Contents
  <2>1. ~IsFree(i) => Contents[i] # NoExtent
    BY DataFit DEF SafeInv, FilesInv, HoldsPuts, Extents
  <2>2. \A v : Contents'[i] = v => Contents' = [Contents EXCEPT ![i] = v]
    BY <1>4, ContentsChange
  <2>3. CASE Contents'[i] = Contents[i]
    BY <1>4, <2>3, ContentsStay
  <2>4. CASE Contents[i] = NoExtent /\ Contents'[i] = <<>>
    BY <2>2, <2>4 DEF Store!Next, Store!Create
  <2>5. CASE ~IsFree(i) /\ Contents'[i] \in Data
    <3>1. PICK d \in Data : Contents'[i] = d
      BY <2>5
    <3>2. Store!Put(i, d)
      BY <2>1, <2>2, <2>5, <3>1 DEF Store!Put
    <3> QED
      BY <3>2 DEF Store!Next
  <2>6. CASE ~IsFree(i) /\ Contents'[i] = NoExtent
    BY <2>1, <2>2, <2>6 DEF Store!Next, Store!Remove
  <2> QED
    BY <2>3, <2>4, <2>5, <2>6 DEF MayDo
<1> QED
  BY <1>1, <1>2, <1>3, <1>5, <1>6 DEF Kept, FilesInv, OwnersOK

-----------------------------------------------------------------------------
\* The steps, one after the other.

\* Nobody puts into an inode that is free.
LEMMA FreeIsNotPut ==
  ASSUME SafeInv, NEW i \in Inums, IsFree(i)
  PROVE  /\ ~IsPut(i) /\ \A g \in Handler : ~Putting(g, i)
         /\ \A m, b : ~Holds(i, m, b)
<1>1. \A g \in Handler : ~Putting(g, i)
  BY DEF SafeInv, FilesInv, PutsAreOnTheirWay, OnItsWay, Putting, Extents
<1> QED
  BY <1>1 DEF IsPut, Holds, Extents

\* A step that changes neither the disk nor who holds what.
LEMMA QuietStep ==
  ASSUME SafeInv, ServerTypeOK', NEW h \in Handler, NEW i \in Inums, StepOn(h, i),
         blocks' = blocks, using_blocks' = using_blocks, Contents'[i] = Contents[i],
         \A m \in Nat, b \in Nat : Holds(i, m, b)' <=> Holds(i, m, b),
         OnItsWay(h)', FindIsFree(h)'
  PROVE  Kept
<1>1. \A j \in Inums, m \in Nat, b \in Nat : Holds(j, m, b)' <=> Holds(j, m, b)
  BY OthersAreLeftAlone
<1>2. OwnersOK'
  BY <1>1, OwnersStay DEF SafeInv, FilesInv, OwnersOK, ServerInv, ServerTypeOK
<1>3. IsFree(i)' = IsFree(i)
  BY DiskIsLeftAlone
<1>4. MayDo(i)
  BY <1>3 DEF MayDo
<1> QED
  BY <1>2, <1>3, <1>4, KeptByStep

LEMMA FindInodeIsSafe ==
  ASSUME SafeInv, ServerTypeOK', NEW h \in Handler, NEW type \in NewTypes,
         FindInode(h, type)
  PROVE  Kept
<1>1. PICK i \in Inums : /\ FindsInode(i)
                         /\ inum' = [inum EXCEPT ![h] = i]
                         /\ ino' = [ino EXCEPT ![h] = NewInode(i, type)]
  BY DEF FindInode
<1>2. /\ at[h] = "idle" /\ at' = [at EXCEPT ![h] = "take_inode"]
      /\ blocks' = blocks /\ using_blocks' = using_blocks
      /\ UNCHANGED <<data, nth, found>>
  BY DEF FindInode, blockVars
<1>3. /\ at'[h] = "take_inode" /\ inum'[h] = i /\ ino'[h] = NewInode(i, type)
      /\ \A g \in Handler \ {h} : at'[g] = at[g] /\ inum'[g] = inum[g] /\ ino'[g] = ino[g]
  BY <1>1, <1>2 DEF SafeInv, ServerInv, ServerTypeOK
<1>4. IsFree(i) /\ NewInode(i, type).size = 0
  BY <1>1, NewInodes DEF FindsInode, InodesAhead, InodesBefore, SafeInv, ServerInv, ServerTypeOK
<1>5. /\ \A j : get_inode(j)' = get_inode(j) /\ IsFree(j)' = IsFree(j)
      /\ Extents' = Extents
  BY <1>2, DiskIsLeftAlone
<1>6. \A j \in Inums : ~Putting(h, j) /\ ~Putting(h, j)'
  BY <1>2, <1>3 DEF Putting
<1>7. StepOn(h, i)
  <2>1. \A g \in Handler : ~Putting(g, i)
    BY <1>4, FreeIsNotPut
  <2>2. get_inode(i)'.size <= NDIRECT
    BY <1>5 DEF SafeInv, FilesInv, SizesAreSmall
  <2> QED
    BY <1>2, <1>3, <1>5, <1>6, <2>1, <2>2 DEF StepOn
<1>8. \A m, b : ~Holds(i, m, b) /\ ~Holds(i, m, b)'
  BY <1>4, <1>5 DEF Holds, Extents
<1>9. Contents'[i] = Contents[i]
  <2>1. ~IsPut(i) /\ ~IsPut(i)'
    BY <1>3, <1>4, <1>6, FreeIsNotPut DEF IsPut, Putting
  <2> QED
    BY <1>4, <1>5, <1>7, <2>1, OthersAreLeftAlone DEF Known, ReadsWhatItHas
<1>10. OnItsWay(h)'
  BY <1>3 DEF OnItsWay
<1>11. FindIsFree(h)'
  <2>1. IsFree(i)'
    BY <1>4, <1>5
  <2> QED
    BY <1>3, <1>4, <2>1 DEF FindIsFree, IsFree, get_inode
<1> QED
  BY <1>2, <1>7, <1>8, <1>9, <1>10, <1>11, QuietStep

LEMMA FindBlockIsSafe ==
  ASSUME SafeInv, ServerTypeOK', NEW h \in Handler, FindBlock(h)
  PROVE  Kept
<1>0. PICK i : i = inum[h]
  OBVIOUS
<1>1. PICK b \in NextFit \cup FirstFit : found' = [found EXCEPT ![h] = b]
  BY DEF FindBlock
<1>2. /\ at[h] = "find_block" /\ at' = [at EXCEPT ![h] = "take_block"]
      /\ UNCHANGED <<blocks, using_blocks, inum, ino, data, nth>>
  BY DEF FindBlock, blockVars
<1>3. /\ at'[h] = "take_block" /\ found'[h] = b
      /\ \A g \in Handler \ {h} : at'[g] = at[g] /\ found'[g] = found[g]
  BY <1>1, <1>2 DEF SafeInv, ServerInv, ServerTypeOK
<1>4. /\ \A j : get_inode(j)' = get_inode(j) /\ IsFree(j)' = IsFree(j)
      /\ Extents' = Extents
  BY <1>2, DiskIsLeftAlone
<1>5. i \in Inums /\ \A j \in Inums : (Putting(h, j) <=> j = i) /\ (Putting(h, j)' <=> j = i)
  BY <1>0, <1>2, <1>3 DEF Putting, SafeInv, ServerInv, HandlersOK, Busy
<1>6. StepOn(h, i)
  <2>1. \A g \in Handler \ {h} : ~Putting(g, i)
    BY <1>5 DEF SafeInv, FilesInv, OnePutEach
  <2>2. get_inode(i)'.size <= NDIRECT
    BY <1>4, <1>5 DEF SafeInv, FilesInv, SizesAreSmall
  <2> QED
    BY <1>2, <1>3, <1>4, <1>5, <2>1, <2>2 DEF StepOn
<1>7. Known /\ Known'
  BY <1>5, <1>6, OthersAreLeftAlone
<1>8. \A m, c : Holds(i, m, c)' <=> Holds(i, m, c)
  BY <1>2, <1>4, <1>5, <1>7 DEF Known, HoldsWhatItHas
<1>9. Contents'[i] = Contents[i]
  BY <1>2, <1>5, <1>7 DEF Known, ReadsWhatItHas
<1>10. OnItsWay(h)'
  <2>1. OnItsWay(h)
    BY DEF SafeInv, FilesInv, PutsAreOnTheirWay
  <2>2. get_inode(inum[h])' = get_inode(inum[h])
    BY <1>2 DEF get_inode
  <2> QED
    BY <1>2, <1>3, <1>4, <2>1, <2>2 DEF OnItsWay
<1>11. FindIsFree(h)'
  <2>1. b \notin using_blocks
    BY DEF NextFit, FirstFit
  <2> QED
    BY <1>2, <1>3, <2>1 DEF FindIsFree
<1> QED
  BY <1>2, <1>5, <1>6, <1>8, <1>9, <1>10, <1>11, QuietStep

\* Data are a sequence.
LEMMA DataLengths ==
  ASSUME NEW d \in Data
  PROVE  Len(d) \in Nat /\ d = [k \in 1 .. Len(d) |-> d[k]]
<1>1. d \in Seq({DataBlock(v) : v \in Value})
  BY DataFit
<1> QED
  BY <1>1, LenProperties

\* write_file frees what the file had behind its new end.
LEMMA StartPutIsSafe ==
  ASSUME SafeInv, FilesAreDirect', ServerTypeOK', NEW h \in Handler, NEW i \in Inums,
         NEW d \in Data, StartPut(h, i, d)
  PROVE  Kept
<1> DEFINE file == get_inode(i)
           l == IF Len(d) > file.size THEN "find_block" ELSE "store"
           n == IF Len(d) < file.size THEN Len(d) ELSE file.size
<1>1. /\ at[h] = "idle" /\ ~IsPut(i) /\ ~IsFree(i)
      /\ using_blocks' = using_blocks \ BlocksOf(file, Len(d), file.size)
      /\ inum' = [inum EXCEPT ![h] = i]
      /\ ino' = [ino EXCEPT ![h] = file]
      /\ data' = [data EXCEPT ![h] = d]
      /\ nth' = [nth EXCEPT ![h] = n]
      /\ at' = [at EXCEPT ![h] = l]
      /\ blocks' = blocks /\ found' = found
  BY DEF StartPut, Serves, FreeBlocks
<1>2. /\ inum'[h] = i /\ ino'[h] = file /\ data'[h] = d /\ nth'[h] = n /\ at'[h] = l
      /\ \A g \in Handler \ {h} : /\ at'[g] = at[g] /\ inum'[g] = inum[g] /\ ino'[g] = ino[g]
                                  /\ data'[g] = data[g] /\ nth'[g] = nth[g]
  BY <1>1 DEF SafeInv, ServerInv, ServerTypeOK
<1>3. /\ file.size \in Nat /\ file.size <= NDIRECT /\ NDIRECT \in Nat
      /\ file.blocks \in [0 .. NDIRECT -> Nat]
      /\ Len(d) \in Nat /\ Len(d) <= NDIRECT
  <2>1. Len(d) <= NDIRECT
    BY <1>2 DEF FilesAreDirect
  <2> QED
    BY <2>1, InodeFields, DataLengths, InodeTable
       DEF SafeInv, ServerInv, ServerTypeOK, FilesInv, SizesAreSmall
<1>4. /\ l \in {"find_block", "store"}
      /\ l = "find_block" => n = file.size
      /\ l = "store" => n = Len(d)
      /\ n \in Nat /\ n <= file.size
      /\ \A m \in Nat : m \in 0 .. n - 1 <=> m \in 0 .. file.size - 1 /\ ~(m >= Len(d))
  BY <1>3
<1>5. \A m \in 0 .. file.size - 1 : get_nth_block(file, m) = file.blocks[m]
  <2> HIDE DEF file
  <2> QED
    BY <1>3, DirectBlocks
<1> HIDE DEF l, n, file
<1>6. \A j \in Inums : ~Putting(h, j) /\ (Putting(h, j)' <=> j = i)
  BY <1>1, <1>2, <1>4 DEF Putting
<1>7. /\ \A j : get_inode(j)' = get_inode(j) /\ IsFree(j)' = IsFree(j)
      /\ Extents' = Extents
  BY <1>1, DiskIsLeftAlone
<1>8. StepOn(h, i)
  <2>1. \A g \in Handler : ~Putting(g, i)
    BY <1>1 DEF IsPut
  <2>2. get_inode(i)'.size <= NDIRECT
    BY <1>3, <1>7 DEF file
  <2> QED
    BY <1>1, <1>2, <1>6, <1>7, <2>1, <2>2 DEF StepOn
<1>9. /\ Known /\ Known'
      /\ \A j \in Inums \ {i} : \A m, b : Holds(j, m, b)' <=> Holds(j, m, b)
  BY <1>8, OthersAreLeftAlone
<1>10. \A m, b : Holds(i, m, b) <=> m \in 0 .. file.size - 1 /\ file.blocks[m] = b
  BY <1>1, <1>9 DEF Known, HoldsWhatItHas, file
<1>11. \A j \in Inums, m \in Nat, b \in Nat :
          Holds(j, m, b)' <=> Holds(j, m, b) /\ ~(j = i /\ m >= Len(d))
  <2>1. \A m, b : Holds(i, m, b)' <=> m \in 0 .. n - 1 /\ file.blocks[m] = b
    BY <1>1, <1>2, <1>6, <1>7, <1>9 DEF Known, HoldsWhatItHas
  <2>2. \A m \in Nat, b \in Nat : Holds(i, m, b)' <=> Holds(i, m, b) /\ ~(m >= Len(d))
    BY <1>4, <1>10, <2>1
  <2> QED
    BY <1>9, <2>2
<1>12. using_blocks' = {b \in using_blocks : ~(\E m \in Nat : m >= Len(d) /\ Holds(i, m, b))}
  <2>1. \A b : b \in BlocksOf(file, Len(d), file.size) <=>
                 \E m \in Nat : m >= Len(d) /\ Holds(i, m, b)
    <3>1. \A b : b \in BlocksOf(file, Len(d), file.size) <=>
                   \E m \in Len(d) .. file.size - 1 : file.blocks[m] = b
      <4>1. \A m \in Len(d) .. file.size - 1 : m \in 0 .. file.size - 1
        BY <1>3
      <4>2. \A m \in Len(d) .. file.size - 1 : get_nth_block(file, m) = file.blocks[m]
        BY <1>5, <4>1
      <4> QED
        BY <4>2 DEF BlocksOf
    <3>2. \A m : m \in Len(d) .. file.size - 1 <=>
                  m \in Nat /\ m >= Len(d) /\ m \in 0 .. file.size - 1
      BY <1>3
    <3> QED
      BY <1>10, <3>1, <3>2
  <2> QED
    BY <1>1, <2>1
<1>13. OwnersOK'
  BY <1>3, <1>11, <1>12, OwnersShrink
     DEF SafeInv, FilesInv, OwnersOK, ServerInv, ServerTypeOK
<1>14. OnItsWay(h)'
  <2>1. get_inode(i)' = file /\ i \in Extents'
    BY <1>1, <1>7 DEF file, Extents
  <2>2. at'[h] # "store" => file.size <= n
    BY <1>2, <1>3, <1>4
  <2> QED
    BY <1>2, <1>4, <2>1, <2>2 DEF OnItsWay
<1>15. FindIsFree(h)'
  BY <1>2, <1>4 DEF FindIsFree
<1>16. MayDo(i)
  <2>1. Contents'[i] = d
    BY <1>2, <1>6, <1>9 DEF Known, ReadsWhatItHas
  <2> QED
    BY <1>1, <1>7, <2>1 DEF MayDo
<1> QED
  BY <1>1, <1>8, <1>13, <1>14, <1>15, <1>16, KeptByStep

\* The block found goes to the file that is being put.
LEMMA TakeBlockIsSafe ==
  ASSUME SafeInv, FilesAreDirect, AllocationsAreApart, ServerTypeOK', NEW h \in Handler,
         TakeBlock(h)
  PROVE  Kept
<1>0. PICK i, x, d, n, c :
         i = inum[h] /\ x = ino[h] /\ d = data[h] /\ n = nth[h] /\ c = found[h]
  OBVIOUS
<1> DEFINE y == WithNthBlock(x, n, c)
           l == IF n + 1 < Len(d) THEN "find_block" ELSE "store"
<1>1. /\ at[h] = "take_block"
      /\ using_blocks' = using_blocks \cup {c}
      /\ ino' = [ino EXCEPT ![h] = y]
      /\ blocks' = TableWritten(x, n, c)
      /\ nth' = [nth EXCEPT ![h] = n + 1]
      /\ at' = [at EXCEPT ![h] = l]
      /\ found' = [found EXCEPT ![h] = 0]
      /\ UNCHANGED <<inum, data>>
  BY <1>0 DEF TakeBlock, Take, SafeInv, ServerInv, ServerTypeOK
<1>2. /\ x \in Inodes /\ n \in Nat /\ c \in Nat /\ c \notin using_blocks
      /\ i \in Inums /\ ~IsFree(i)
      /\ d \in Data /\ n < Len(d)
      /\ get_inode(i).size <= n /\ get_inode(i).size \in Nat
      /\ \A m \in 0 .. get_inode(i).size - 1 :
            m < n => x.blocks[m] = get_inode(i).blocks[m]
  <2>1. /\ x \in Inodes /\ n \in Nat /\ c \in Nat
    BY <1>0 DEF SafeInv, ServerInv, ServerTypeOK
  <2>2. c \notin using_blocks
    BY <1>0, <1>1 DEF SafeInv, FilesInv, FindsAreFree, FindIsFree
  <2>3. i \in Inums /\ n < Len(d)
    BY <1>0, <1>1 DEF SafeInv, ServerInv, HandlersOK, Busy
  <2>4. /\ ~IsFree(i) /\ d \in Data /\ get_inode(i).size <= n
        /\ \A m \in 0 .. get_inode(i).size - 1 :
              m < n => x.blocks[m] = get_inode(i).blocks[m]
    BY <1>0, <1>1 DEF SafeInv, FilesInv, PutsAreOnTheirWay, OnItsWay, Extents
  <2>5. get_inode(i).size \in Nat
    BY <2>3, InodeFields DEF SafeInv, ServerInv, ServerTypeOK
  <2> QED
    BY <2>1, <2>2, <2>3, <2>4, <2>5
<1>3. Len(d) \in Nat /\ n < NDIRECT /\ NDIRECT \in Nat
  <2>1. Len(d) <= NDIRECT
    BY <1>0 DEF FilesAreDirect
  <2> QED
    BY <1>2, <2>1, DataLengths, InodeTable
<1>4. /\ inum'[h] = i /\ data'[h] = d /\ ino'[h] = y /\ nth'[h] = n + 1 /\ at'[h] = l
      /\ \A g \in Handler \ {h} : /\ at'[g] = at[g] /\ ino'[g] = ino[g] /\ nth'[g] = nth[g]
                                  /\ found'[g] = found[g]
  BY <1>0, <1>1 DEF SafeInv, ServerInv, ServerTypeOK
<1>5. blocks' = blocks
  BY <1>1, <1>3 DEF TableWritten
<1>6. /\ y.blocks[n] = c
      /\ \A m \in 0 .. NDIRECT - 1 : m # n => y.blocks[m] = x.blocks[m]
  <2>1. x \in Inodes /\ n \in Nat /\ c \in Nat /\ n < NDIRECT
    BY <1>2, <1>3
  <2> QED
    BY <2>1, NthBlockIsSet
<1>7. l \in {"find_block", "store"} /\ (l = "store" => n + 1 = Len(d))
  BY <1>2, <1>3
<1>8. \A j \in Inums : (Putting(h, j) <=> j = i) /\ (Putting(h, j)' <=> j = i)
  BY <1>0, <1>1, <1>4, <1>7 DEF Putting
<1> HIDE DEF y, l
<1>9. /\ \A j : get_inode(j)' = get_inode(j) /\ IsFree(j)' = IsFree(j)
      /\ Extents' = Extents
  BY <1>5, DiskIsLeftAlone
<1>10. StepOn(h, i)
  <2>1. \A g \in Handler \ {h} : ~Putting(g, i)
    BY <1>2, <1>8 DEF SafeInv, FilesInv, OnePutEach
  <2>2. get_inode(i)'.size <= NDIRECT
    BY <1>2, <1>9 DEF SafeInv, FilesInv, SizesAreSmall
  <2> QED
    BY <1>1, <1>4, <1>8, <1>9, <2>1, <2>2 DEF StepOn
<1>11. /\ Known /\ Known'
       /\ \A j \in Inums \ {i} : \A m, b : Holds(j, m, b)' <=> Holds(j, m, b)
  BY <1>2, <1>10, OthersAreLeftAlone
<1>12. \A j \in Inums, m \in Nat, b \in Nat :
          Holds(j, m, b)' <=> Holds(j, m, b) \/ (j = i /\ m = n /\ b = c)
  <2>1. ASSUME NEW m \in Nat, NEW b \in Nat
        PROVE  Holds(i, m, b)' <=> Holds(i, m, b) \/ (m = n /\ b = c)
    <3>1. Holds(i, m, b) <=> m \in 0 .. n - 1 /\ x.blocks[m] = b
      BY <1>0, <1>2, <1>8, <1>11 DEF Known, HoldsWhatItHas
    <3>2. Holds(i, m, b)' <=> m \in 0 .. n + 1 - 1 /\ y.blocks[m] = b
      BY <1>2, <1>4, <1>8, <1>9, <1>11 DEF Known, HoldsWhatItHas
    <3>3. m \in 0 .. n + 1 - 1 <=> m \in 0 .. n - 1 \/ m = n
      BY <1>2
    <3>4. m \in 0 .. n - 1 => y.blocks[m] = x.blocks[m] /\ m # n
      BY <1>2, <1>3, <1>6
    <3> QED
      BY <1>6, <3>1, <3>2, <3>3, <3>4
  <2> QED
    BY <1>11, <2>1
<1>13. OwnersOK'
  <2>1. OwnersOK /\ using_blocks \subseteq Nat
    BY DEF SafeInv, FilesInv, OwnersOK, ServerInv, ServerTypeOK
  <2>2. i \in Inums /\ n \in Nat /\ c \in Nat /\ c \notin using_blocks
    BY <1>2
  <2>3. using_blocks' = using_blocks \cup {c}
    BY <1>1
  <2> QED
    BY <1>12, <2>1, <2>2, <2>3, OwnersGrow
<1>14. OnItsWay(h)'
  <2>1. get_inode(i)' = get_inode(i) /\ i \in Extents'
    BY <1>2, <1>9 DEF Extents
  <2>2. \A m \in 0 .. get_inode(i).size - 1 :
           m < n + 1 => y.blocks[m] = get_inode(i).blocks[m]
    BY <1>2, <1>3, <1>6
  <2>3. get_inode(i).size <= n + 1
    BY <1>2
  <2> QED
    BY <1>2, <1>4, <1>7, <2>1, <2>2, <2>3 DEF OnItsWay
<1>15. FindIsFree(h)'
  BY <1>4, <1>7 DEF FindIsFree
<1>16. MayDo(i)
  <2>1. Contents'[i] = d /\ Contents[i] = d
    BY <1>0, <1>2, <1>4, <1>8, <1>11 DEF Known, ReadsWhatItHas
  <2> QED
    BY <1>9, <2>1 DEF MayDo
<1>17. \A g \in Handler \ {h} : at[g] # "take_block"
  BY <1>1 DEF AllocationsAreApart
<1>18. i \in Inums /\ (IsFree(i) => IsFree(i)')
  BY <1>2
<1> QED
  BY <1>5, <1>10, <1>13, <1>14, <1>15, <1>16, <1>17, <1>18, KeptByStep

\* Data reach their blocks, when no two of them go to the same.
LEMMA DataReachTheirBlocks ==
  ASSUME NEW x, NEW d, Len(d) \in Nat, Len(d) <= NDIRECT,
         \A k, l \in 1 .. Len(d) : x.blocks[k - 1] = x.blocks[l - 1] => k = l
  PROVE  /\ \A k \in 1 .. Len(d) :
               x.blocks[k - 1] \in BlockIds => DataWritten(x, d)[x.blocks[k - 1]] = d[k]
         /\ \A b \in BlockIds :
               (\A k \in 1 .. Len(d) : x.blocks[k - 1] # b) => DataWritten(x, d)[b] = blocks[b]
<1> DEFINE Places(b) == {k \in 1 .. Len(d) : get_nth_block(x, k - 1) = b}
           put(b) == d[CHOOSE k \in Places(b) : \A j \in Places(b) : j <= k]
<1>1. \A k \in 1 .. Len(d) : get_nth_block(x, k - 1) = x.blocks[k - 1]
  BY DirectBlocks, InodeTable
<1>2. \A b \in BlockIds : DataWritten(x, d)[b] = IF Places(b) = {} THEN blocks[b] ELSE put(b)
  BY DEF DataWritten
<1>3. ASSUME NEW k \in 1 .. Len(d), x.blocks[k - 1] \in BlockIds
      PROVE  DataWritten(x, d)[x.blocks[k - 1]] = d[k]
  <2> DEFINE b == x.blocks[k - 1]
  <2>1. Places(b) = {k}
    BY <1>1
  <2>2. k <= k
    OBVIOUS
  <2> HIDE DEF Places
  <2>3. (CHOOSE m \in Places(b) : \A j \in Places(b) : j <= m) = k
    BY <2>1, <2>2
  <2>4. put(b) = d[k]
    BY <2>3
  <2> HIDE DEF put, b
  <2>5. Places(b) # {}
    BY <2>1
  <2>6. b \in BlockIds
    BY <1>3 DEF b
  <2>7. DataWritten(x, d)[b] = put(b)
    BY <1>2, <2>5, <2>6
  <2> QED
    BY <2>4, <2>7 DEF b
<1>4. ASSUME NEW b \in BlockIds, \A k \in 1 .. Len(d) : x.blocks[k - 1] # b
      PROVE  DataWritten(x, d)[b] = blocks[b]
  <2>1. Places(b) = {}
    BY <1>1, <1>4
  <2> HIDE DEF Places, put
  <2> QED
    BY <1>2, <2>1
<1> QED
  BY <1>3, <1>4

\* The inode that is taken was nobody's, and its file is empty.
LEMMA TakeInodeIsSafe ==
  ASSUME SafeInv, AllocationsAreApart, ServerTypeOK', NEW h \in Handler, TakeInode(h)
  PROVE  Kept
<1>0. PICK i, x : i = inum[h] /\ x = ino[h]
  OBVIOUS
<1>1. /\ at[h] = "take_inode"
      /\ blocks' = InodePut(blocks, i, x)
      /\ using_blocks' = using_blocks
      /\ Answer(h)
  BY <1>0 DEF TakeInode
<1>2. /\ i \in Inums /\ x \in Inodes /\ x.type # 0 /\ x.size = 0 /\ IsFree(i) /\ DiskOK(blocks)
  BY <1>0, <1>1 DEF SafeInv, ServerInv, HandlersOK, Busy, ServerTypeOK, FilesInv, FindsAreFree,
     FindIsFree
<1>3. /\ at'[h] = "idle"
      /\ \A g \in Handler \ {h} : /\ at'[g] = at[g] /\ inum'[g] = inum[g] /\ ino'[g] = ino[g]
                                  /\ data'[g] = data[g] /\ nth'[g] = nth[g]
                                  /\ found'[g] = found[g]
  BY <1>1 DEF Answer, SafeInv, ServerInv, ServerTypeOK
<1>4. \A j \in Inums : ~Putting(h, j) /\ ~Putting(h, j)'
  BY <1>1, <1>3 DEF Putting
<1>5. /\ get_inode(i)' = x
      /\ \A j \in Inums \ {i} : get_inode(j)' = get_inode(j)
      /\ \A b \in BlockIds \ {IBLOCK(i, BLOCK_NUM)} : blocks'[b] = blocks[b]
  BY <1>1, <1>2, InodeIsPut DEF get_inode
<1>6. ~IsFree(i)'
  BY <1>2, <1>5 DEF IsFree
<1>7. ~IsPut(i) /\ \A g \in Handler : ~Putting(g, i)
  BY <1>2, FreeIsNotPut
<1>8. StepOn(h, i)
  BY <1>2, <1>3, <1>4, <1>5, <1>7, InodeTable DEF StepOn
<1>9. /\ Known /\ Known'
      /\ \A j \in Inums \ {i} : \A m, b : Holds(j, m, b)' <=> Holds(j, m, b)
  BY <1>2, <1>8, OthersAreLeftAlone
<1>10. ~IsPut(i)'
  BY <1>3, <1>4, <1>7 DEF IsPut, Putting
<1>11. \A m, b : ~Holds(i, m, b) /\ ~Holds(i, m, b)'
  <2>1. \A m, b : ~Holds(i, m, b)
    BY <1>2, FreeIsNotPut
  <2>2. \A m : m \notin 0 .. 0 - 1
    OBVIOUS
  <2>3. \A m, b : ~Holds(i, m, b)'
    BY <1>2, <1>5, <1>9, <1>10, <2>2 DEF Known, HoldsWhatItHas
  <2> QED
    BY <2>1, <2>3
<1>12. OwnersOK'
  <2>1. \A j \in Inums, m \in Nat, b \in Nat : Holds(j, m, b)' <=> Holds(j, m, b)
    BY <1>9, <1>11
  <2> QED
    BY <1>1, <2>1, OwnersStay DEF SafeInv, FilesInv, OwnersOK, ServerInv, ServerTypeOK
<1>13. MayDo(i)
  <2>1. Contents[i] = NoExtent
    BY <1>2, <1>7, <1>9 DEF Known, ReadsWhatItHas
  <2>2. Contents'[i] = [k \in 1 .. get_inode(i).size |-> Read(get_inode(i).blocks[k - 1])]'
    BY <1>2, <1>6, <1>9, <1>10 DEF Known, ReadsWhatItHas
  <2>3. 1 .. get_inode(i)'.size = {}
    BY <1>2, <1>5
  <2>4. Contents'[i] = <<>>
    BY <2>2, <2>3
  <2> QED
    BY <2>1, <2>4 DEF MayDo
<1>14. OnItsWay(h)' /\ FindIsFree(h)'
  BY <1>3 DEF OnItsWay, FindIsFree
<1>15. \A g \in Handler \ {h} : at[g] # "take_inode"
  BY <1>1 DEF AllocationsAreApart
<1>16. \A b \in DataArea : blocks'[b] = blocks[b]
  BY <1>2, <1>5, InodeTable DEF DataArea, BlockIds
<1>17. using_blocks' \subseteq using_blocks
  BY <1>1
<1> QED
  BY <1>2, <1>8, <1>12, <1>13, <1>14, <1>15, <1>16, <1>17, KeptByStep

\* An inode that becomes free keeps its addresses, and its blocks are nobody's.
LEMMA RemoveIsSafe ==
  ASSUME SafeInv, ServerTypeOK', NEW h \in Handler, NEW i \in Inums \ {1}, Remove(h, i)
  PROVE  Kept
<1> DEFINE file == get_inode(i)
           x == [file EXCEPT !.type = 0]
<1>1. /\ at[h] = "idle" /\ ~IsPut(i) /\ ~IsFree(i)
      /\ using_blocks' = using_blocks \ BlocksOf(file, 0, file.size)
      /\ blocks' = InodePut(blocks, i, x)
      /\ UNCHANGED <<at, inum, ino, data, nth, found>>
  BY DEF Remove, Serves, FreeBlocks, handlerVars
<1>2. /\ file \in Inodes /\ file.size \in Nat /\ file.size <= NDIRECT /\ NDIRECT \in Nat
      /\ DiskOK(blocks)
  BY InodeFields, InodeTable DEF SafeInv, ServerInv, ServerTypeOK, FilesInv, SizesAreSmall
<1>3. x \in Inodes /\ x.type = 0 /\ x.size = file.size
  <2> HIDE DEF file
  <2> QED
    BY <1>2 DEF Inodes, Types
<1>4. \A m \in 0 .. file.size - 1 : get_nth_block(file, m) = file.blocks[m]
  <2> HIDE DEF file
  <2> QED
    BY <1>2, DirectBlocks
<1> HIDE DEF x, file
<1>5. \A g \in Handler, j \in Inums : Putting(g, j)' <=> Putting(g, j)
  BY <1>1 DEF Putting
<1>6. /\ \A j \in Inums : ~Putting(h, j) /\ ~Putting(h, j)'
      /\ \A g \in Handler : ~Putting(g, i)
  BY <1>1, <1>5 DEF Putting, IsPut
<1>7. /\ get_inode(i)' = x
      /\ \A j \in Inums \ {i} : get_inode(j)' = get_inode(j)
      /\ \A b \in BlockIds \ {IBLOCK(i, BLOCK_NUM)} : blocks'[b] = blocks[b]
  BY <1>1, <1>2, <1>3, InodeIsPut DEF get_inode
<1>8. IsFree(i)'
  BY <1>3, <1>7 DEF IsFree
<1>9. StepOn(h, i)
  BY <1>1, <1>2, <1>3, <1>6, <1>7 DEF StepOn
<1>10. /\ Known /\ Known'
       /\ \A j \in Inums \ {i} : \A m, b : Holds(j, m, b)' <=> Holds(j, m, b)
  BY <1>9, OthersAreLeftAlone
<1>11. \A m, b : Holds(i, m, b) <=> m \in 0 .. file.size - 1 /\ file.blocks[m] = b
  BY <1>1, <1>10 DEF Known, HoldsWhatItHas, file
<1>12. \A j \in Inums, m \in Nat, b \in Nat :
          Holds(j, m, b)' <=> Holds(j, m, b) /\ ~(j = i /\ m >= 0)
  <2>1. \A m, b : ~Holds(i, m, b)'
    BY <1>8 DEF Holds, Extents
  <2> QED
    BY <1>10, <2>1
<1>13. using_blocks' = {b \in using_blocks : ~(\E m \in Nat : m >= 0 /\ Holds(i, m, b))}
  <2>1. \A b : b \in BlocksOf(file, 0, file.size) <=>
                 \E m \in 0 .. file.size - 1 : file.blocks[m] = b
    BY <1>4 DEF BlocksOf
  <2>2. \A m \in 0 .. file.size - 1 : m \in Nat /\ m >= 0
    BY <1>2
  <2>3. \A b : b \in BlocksOf(file, 0, file.size) <=>
                 \E m \in Nat : m >= 0 /\ Holds(i, m, b)
    BY <1>11, <2>1, <2>2
  <2> QED
    BY <1>1, <2>3
<1>14. OwnersOK'
  <2>1. OwnersOK /\ using_blocks \subseteq Nat
    BY DEF SafeInv, FilesInv, OwnersOK, ServerInv, ServerTypeOK
  <2> QED
    BY <1>12, <1>13, <2>1, OwnersShrink
<1>15. MayDo(i)
  <2>1. ~IsPut(i)'
    BY <1>5, <1>6 DEF IsPut
  <2>2. Contents'[i] = NoExtent
    BY <1>8, <1>10, <2>1 DEF Known, ReadsWhatItHas
  <2> QED
    BY <1>1, <1>8, <2>2 DEF MayDo
<1>16. \A b \in DataArea : blocks'[b] = blocks[b]
  BY <1>7, InodeTable DEF DataArea, BlockIds
<1>17. OnItsWay(h)' /\ FindIsFree(h)'
  BY <1>1 DEF OnItsWay, FindIsFree
<1>18. using_blocks' \subseteq using_blocks
  BY <1>1
<1> QED
  BY <1>1, <1>9, <1>14, <1>15, <1>16, <1>17, <1>18, KeptByStep

\* The data go to the blocks of this file, which are no other's.
LEMMA StoreFileIsSafe ==
  ASSUME SafeInv, FilesAreDirect, ServerTypeOK', NEW h \in Handler, StoreFile(h)
  PROVE  Kept
<1>0. PICK i, x, d : i = inum[h] /\ x = ino[h] /\ d = data[h]
  OBVIOUS
<1> DEFINE bs == DataWritten(x, d)
           y == [x EXCEPT !.size = Len(d)]
<1>1. /\ at[h] = "store"
      /\ blocks' = InodePut(bs, i, y)
      /\ using_blocks' = using_blocks
      /\ Answer(h)
  BY <1>0 DEF StoreFile
<1>2. /\ i \in Inums /\ x \in Inodes /\ x.type # 0 /\ ~IsFree(i)
      /\ d \in Data /\ nth[h] = Len(d) /\ DiskOK(blocks)
  BY <1>0, <1>1 DEF SafeInv, ServerInv, HandlersOK, Busy, ServerTypeOK, FilesInv,
     PutsAreOnTheirWay, OnItsWay, Extents
<1>3. Len(d) \in Nat /\ Len(d) <= NDIRECT /\ d = [k \in 1 .. Len(d) |-> d[k]] /\ NDIRECT \in Nat
  <2>1. Len(d) <= NDIRECT
    BY <1>0 DEF FilesAreDirect
  <2> QED
    BY <1>2, <2>1, DataLengths, InodeTable
<1>4. y \in Inodes /\ y.type # 0 /\ y.size = Len(d) /\ y.blocks = x.blocks
  BY <1>2, <1>3, SizeIsSet
<1>5. x.blocks \in [0 .. NDIRECT -> Nat]
  BY <1>2, InodeFields
<1>6. DiskOK(bs)
  BY <1>2, DataAreWritten
<1> HIDE DEF bs, y
<1>7. /\ at'[h] = "idle"
      /\ \A g \in Handler \ {h} : /\ at'[g] = at[g] /\ inum'[g] = inum[g] /\ ino'[g] = ino[g]
                                  /\ data'[g] = data[g] /\ nth'[g] = nth[g]
                                  /\ found'[g] = found[g]
  BY <1>1 DEF Answer, SafeInv, ServerInv, ServerTypeOK
<1>8. \A j \in Inums : (Putting(h, j) <=> j = i) /\ ~Putting(h, j)'
  BY <1>0, <1>1, <1>7 DEF Putting
<1>9. \A g \in Handler \ {h} : ~Putting(g, i)
  BY <1>2, <1>8 DEF SafeInv, FilesInv, OnePutEach
<1>10. \A m, b : Holds(i, m, b) <=> m \in 0 .. Len(d) - 1 /\ x.blocks[m] = b
  BY <1>0, <1>2, <1>8, FilesAreKnown
     DEF Known, HoldsWhatItHas, SafeInv, ServerInv, FilesInv
<1>11. \A k \in 1 .. Len(d) :
          /\ k - 1 \in Nat /\ x.blocks[k - 1] \in Nat
          /\ Holds(i, k - 1, x.blocks[k - 1])
          /\ x.blocks[k - 1] \in DataArea /\ x.blocks[k - 1] \in BlockIds
  <2> TAKE k \in 1 .. Len(d)
  <2>1. k - 1 \in Nat /\ k - 1 \in 0 .. Len(d) - 1 /\ k - 1 \in 0 .. NDIRECT
    BY <1>3
  <2>2. x.blocks[k - 1] \in Nat /\ Holds(i, k - 1, x.blocks[k - 1])
    BY <1>5, <1>10, <2>1
  <2> QED
    BY <1>2, <2>1, <2>2, HeldAreData
<1>12. \A k, l \in 1 .. Len(d) : x.blocks[k - 1] = x.blocks[l - 1] => k = l
  <2> SUFFICES ASSUME NEW k \in 1 .. Len(d), NEW l \in 1 .. Len(d),
                      x.blocks[k - 1] = x.blocks[l - 1]
               PROVE  k = l
    OBVIOUS
  <2>1. k - 1 = l - 1
    <3>1. /\ Holds(i, k - 1, x.blocks[k - 1]) /\ Holds(i, l - 1, x.blocks[k - 1])
          /\ k - 1 \in Nat /\ l - 1 \in Nat /\ x.blocks[k - 1] \in Nat
      BY <1>11
    <3> QED
      BY <1>2, <3>1 DEF SafeInv, FilesInv, OwnersAreUnique
  <2> QED
    BY <1>3, <2>1
<1>13. /\ \A k \in 1 .. Len(d) : bs[x.blocks[k - 1]] = d[k]
       /\ \A b \in BlockIds : (\A m \in Nat : ~Holds(i, m, b)) => bs[b] = blocks[b]
  <2>1. /\ \A k \in 1 .. Len(d) :
              x.blocks[k - 1] \in BlockIds => bs[x.blocks[k - 1]] = d[k]
        /\ \A b \in BlockIds :
              (\A k \in 1 .. Len(d) : x.blocks[k - 1] # b) => bs[b] = blocks[b]
    BY <1>3, <1>12, DataReachTheirBlocks DEF bs
  <2> QED
    BY <1>11, <2>1
<1>14. \A j \in Inums : bs[IBLOCK(j, BLOCK_NUM)] = blocks[IBLOCK(j, BLOCK_NUM)]
  <2> TAKE j \in Inums
  <2>1. IBLOCK(j, BLOCK_NUM) \in BlockIds \ DataArea /\ IBLOCK(j, BLOCK_NUM) \in Nat
    BY InodeTable DEF BlockIds
  <2>2. \A m \in Nat : ~Holds(i, m, IBLOCK(j, BLOCK_NUM))
    BY <1>2, <2>1, HeldAreData
  <2> QED
    BY <1>13, <2>1, <2>2
<1>15. /\ get_inode(i)' = y
       /\ \A j \in Inums \ {i} : get_inode(j)' = get_inode(j)
       /\ \A b \in BlockIds \ {IBLOCK(i, BLOCK_NUM)} : blocks'[b] = bs[b]
  BY <1>1, <1>2, <1>4, <1>6, <1>14, InodeIsPut DEF get_inode
<1>16. IsFree(i)' = IsFree(i)
  BY <1>2, <1>4, <1>15 DEF IsFree
<1>17. StepOn(h, i)
  BY <1>3, <1>4, <1>7, <1>8, <1>9, <1>15 DEF StepOn
<1>18. /\ Known /\ Known'
       /\ \A j \in Inums \ {i} : \A m, b : Holds(j, m, b)' <=> Holds(j, m, b)
  BY <1>2, <1>17, OthersAreLeftAlone
<1>19. ~IsPut(i)'
  BY <1>7, <1>8, <1>9 DEF IsPut, Putting
<1>20. OwnersOK'
  <2>1. \A m, b : Holds(i, m, b)' <=> Holds(i, m, b)
    BY <1>2, <1>4, <1>10, <1>15, <1>16, <1>18, <1>19 DEF Known, HoldsWhatItHas
  <2>2. \A j \in Inums, m \in Nat, b \in Nat : Holds(j, m, b)' <=> Holds(j, m, b)
    BY <1>18, <2>1
  <2> QED
    BY <1>1, <2>2, OwnersStay DEF SafeInv, FilesInv, OwnersOK, ServerInv, ServerTypeOK
<1>21. \A b \in DataArea : (\A m \in Nat : ~Holds(i, m, b)) => blocks'[b] = blocks[b]
  BY <1>2, <1>13, <1>15, InodeTable DEF DataArea, BlockIds
<1>22. Contents'[i] = d
  <2>1. Contents'[i] = [k \in 1 .. get_inode(i).size |-> Read(get_inode(i).blocks[k - 1])]'
    BY <1>2, <1>16, <1>18, <1>19 DEF Known, ReadsWhatItHas
  <2>2. ASSUME NEW k \in 1 .. Len(d)
        PROVE  Read(get_inode(i).blocks[k - 1])' = d[k]
    <3>1. Read(get_inode(i).blocks[k - 1])' = blocks'[x.blocks[k - 1]]
      BY <1>4, <1>11, <1>15 DEF Read
    <3>2. blocks'[x.blocks[k - 1]] = bs[x.blocks[k - 1]]
      BY <1>2, <1>11, <1>15, InodeTable
    <3> QED
      BY <1>13, <3>1, <3>2
  <2>3. get_inode(i)'.size = Len(d)
    BY <1>4, <1>15
  <2>4. Contents'[i] = [k \in 1 .. Len(d) |-> d[k]]
    BY <2>1, <2>2, <2>3
  <2> QED
    BY <1>3, <2>4
<1>23. MayDo(i)
  <2>1. Contents[i] = d
    BY <1>0, <1>2, <1>8, <1>18 DEF Known, ReadsWhatItHas
  <2> QED
    BY <1>16, <1>22, <2>1 DEF MayDo
<1>24. OnItsWay(h)' /\ FindIsFree(h)'
  BY <1>7 DEF OnItsWay, FindIsFree
<1>25. using_blocks' \subseteq using_blocks
  BY <1>1
<1> QED
  BY <1>2, <1>17, <1>20, <1>21, <1>23, <1>24, <1>25, KeptByStep

\* An exit changes no file.
LEMMA FilesStutter ==
  ASSUME SafeInv, ServerTypeOK', UNCHANGED <<blockVars, next_inum, handlerVars>>
  PROVE  Kept
<1>1. UNCHANGED <<blocks, using_blocks, at, inum, ino, data, nth, found>>
  BY DEF blockVars, handlerVars
<1>2. /\ \A i : get_inode(i)' = get_inode(i) /\ IsFree(i)' = IsFree(i)
      /\ Extents' = Extents
  BY <1>1, DiskIsLeftAlone
<1>3. OnePutEach' /\ SizesAreSmall'
  BY <1>1, <1>2 DEF SafeInv, FilesInv, OnePutEach, SizesAreSmall, Putting
<1>4. PutsAreOnTheirWay' /\ FindsAreFree'
  BY <1>1 DEF SafeInv, FilesInv, PutsAreOnTheirWay, OnItsWay, FindsAreFree, FindIsFree, Extents,
     IsFree, get_inode
<1>5. \A i \in Inums, m \in Nat, b \in Nat : Holds(i, m, b)' <=> Holds(i, m, b)
  BY <1>1 DEF Holds, Current, Extents, IsFree, get_inode, IsPut, PutOf, Putting
<1>6. OwnersOK'
  BY <1>1, <1>5, OwnersStay DEF SafeInv, FilesInv, OwnersOK, ServerInv, ServerTypeOK
<1>7. Contents' = Contents
  BY <1>1 DEF Contents, IsFree, get_inode, read_file, get_nth_block, Read, IsPut, PutOf, Putting
<1> QED
  BY <1>2, <1>3, <1>4, <1>6, <1>7 DEF Kept, SafeInv, FilesInv, OwnersOK, HoldsPuts

LEMMA FilesStart == ServerInit => FilesInv /\ Store!Init
<1> SUFFICES ASSUME ServerInit PROVE FilesInv /\ Store!Init
  OBVIOUS
<1> DEFINE root == [type |-> T_DIR, size |-> 0, blocks |-> [n \in 0 .. NDIRECT |-> StaleBlock]]
<1>1. blocks = [b \in BlockIds |-> IF b = IBLOCK(1, BLOCK_NUM) THEN InodeBlock(root)
                                                               ELSE ZeroBlock]
  BY DEF ServerInit, InodeInit
<1>2. root.type = 1 /\ root.size = 0
  BY DEF T_DIR
<1> HIDE DEF root
<1>3. AsInode(InodeBlock(root)) = root
  BY DEF InodeBlock, AsInode
<1>4. AsInode(ZeroBlock).type = 0 /\ AsInode(ZeroBlock).size = 0
  BY DEF ZeroBlock, AsInode
<1>5. 1 \in Inums
  BY Geometry DEF Inums
<1>6. get_inode(1) = root /\ \A i \in Inums \ {1} : get_inode(i) = AsInode(ZeroBlock)
  BY <1>1, <1>3, <1>5, InodeTable DEF get_inode
<1>7. \A i \in Inums : get_inode(i).size = 0 /\ (IsFree(i) <=> i # 1)
  BY <1>2, <1>4, <1>6 DEF IsFree
<1>8. SizesAreSmall
  BY <1>7, InodeTable DEF SizesAreSmall
<1>9. OnePutEach /\ PutsAreOnTheirWay /\ FindsAreFree /\ \A i \in Inums : ~IsPut(i)
  BY DEF ServerInit, OnePutEach, PutsAreOnTheirWay, OnItsWay, FindsAreFree, FindIsFree, IsPut,
         Putting
<1>10. \A i \in Inums : \A m, b : ~Holds(i, m, b)
  <2> SUFFICES ASSUME NEW i \in Inums, NEW m, NEW b, Holds(i, m, b) PROVE FALSE
    OBVIOUS
  <2>1. Current(i) = get_inode(i)
    BY <1>9 DEF Current
  <2>2. 0 .. 0 - 1 = {}
    OBVIOUS
  <2> QED
    BY <1>7, <2>1, <2>2 DEF Holds
<1>11. OwnersAreUnique /\ HeldIsUsed
  BY <1>10 DEF OwnersAreUnique, HeldIsUsed
<1>12. UsedIsHeld
  BY DEF UsedIsHeld, ServerInit, InodeInit
<1>13. \A i \in Inums : Contents[i] = IF i = 1 THEN <<>> ELSE NoExtent
  <2>1. \A x : x.size = 0 => read_file(x) = <<>>
    <3> SUFFICES ASSUME NEW x, x.size = 0 PROVE read_file(x) = <<>>
      OBVIOUS
    <3>1. 1 .. x.size = {}
      OBVIOUS
    <3> QED
      BY <3>1 DEF read_file
  <2> QED
    BY <1>7, <1>9, <2>1 DEF Contents
<1>14. Store!Init
  <2>1. Contents = [i \in Inums |-> Contents[i]]
    BY DEF Contents
  <2> HIDE DEF Contents
  <2> QED
    BY <1>13, <2>1 DEF Store!Init
<1>15. HoldsPuts
  BY <1>7, <1>13 DEF HoldsPuts, Extents
<1> QED
  BY <1>8, <1>9, <1>11, <1>12, <1>14, <1>15 DEF FilesInv

LEMMA StepIsSafe ==
  ASSUME SafeInv, NoFault, NoFault', ServerTypeOK', [ServerNext]_extentServerVars
  PROVE  Kept
<1>1. ASSUME NEW h \in Handler, Work(h)
      PROVE  Kept
  BY <1>1, FindInodeIsSafe, TakeInodeIsSafe, StartPutIsSafe, FindBlockIsSafe,
     TakeBlockIsSafe, StoreFileIsSafe, RemoveIsSafe DEF Work, NoFault
<1>2. ASSUME NEW h \in Handler, GiveUp(h)
      PROVE  Kept
  <2>1. UNCHANGED <<blockVars, next_inum, handlerVars>>
    BY <1>2 DEF GiveUp, NoInodeLeft, NoBlockLeft, Refuse, Exit
  <2> QED
    BY <2>1, FilesStutter
<1>3. CASE UNCHANGED extentServerVars
  BY <1>3, FilesStutter DEF extentServerVars
<1> QED
  BY <1>1, <1>2, <1>3 DEF ServerNext, HandlerStep

\* Any number of handlers keep what is in use and what is held in agreement, as long as no
\* two of them allocate at once, no file needs an indirect block and data start behind the
\* inodes.  The code sees to none of the three.
THEOREM FilesInvariance == ServerSpec /\ []NoFault => []SafeInv
<1>1. ServerInit /\ NoFault => AreaInv
  BY AreaStarts DEF NoFault
<1>2. SafeInv /\ NoFault /\ NoFault' /\ ServerTypeOK' /\ [ServerNext]_extentServerVars
      => FilesInv'
  BY StepIsSafe DEF Kept
<1>3. ServerInv => ServerTypeOK
  BY DEF ServerInv
<1> QED
  BY <1>1, <1>2, <1>3, FilesStart, AreaIsKept, ServerInvariance, PTL DEF ServerSpec, SafeInv

\* No extent needs an indirect block, not even while it grows.
LEMMA CurrentIsSmall ==
  ASSUME SafeInv, FilesAreDirect, NEW i \in Inums
  PROVE  Current(i) \in Inodes /\ Current(i).size \in Nat /\ Current(i).size <= NDIRECT
<1>1. CASE IsPut(i)
  <2>1. PICK h \in Handler : Putting(h, i)
    BY <1>1 DEF IsPut
  <2>2. PICK x, n : x = ino[h] /\ n = nth[h]
    OBVIOUS
  <2>3. Current(i) = [x EXCEPT !.size = n]
    BY <2>1, <2>2, PutIsFound DEF Current, SafeInv, FilesInv
  <2>4. x \in Inodes /\ n \in Nat
    BY <2>2 DEF SafeInv, ServerInv, ServerTypeOK
  <2>5. /\ data[h] \in Data
        /\ at[h] = "store" => n = Len(data[h])
        /\ at[h] # "store" => n < Len(data[h])
    BY <2>1, <2>2
       DEF Putting, SafeInv, FilesInv, PutsAreOnTheirWay, OnItsWay, ServerInv, HandlersOK
  <2>6. n <= NDIRECT
    BY <2>4, <2>5, DataLengths, InodeTable DEF FilesAreDirect
  <2> QED
    BY <2>3, <2>4, <2>6, SizeIsSet
<1>2. CASE ~IsPut(i)
  <2>1. Current(i) = get_inode(i)
    BY <1>2 DEF Current
  <2> QED
    BY <2>1, InodeFields DEF SafeInv, ServerInv, ServerTypeOK, FilesInv, SizesAreSmall
<1> QED
  BY <1>1, <1>2

LEMMA ExtentsHold ==
  ASSUME SafeInv, FilesAreDirect, NEW i \in Extents
  PROVE  /\ \A m \in 0 .. Current(i).size - 1 :
               /\ m \in Nat /\ get_nth_block(Current(i), m) \in Nat
               /\ Holds(i, m, get_nth_block(Current(i), m))
         /\ \A m, b : Holds(i, m, b) => b \in BlocksUsedBy(i)
<1> DEFINE x == Current(i)
<1>1. i \in Inums
  BY DEF Extents
<1>2. x \in Inodes /\ x.size \in Nat /\ x.size <= NDIRECT /\ NDIRECT \in Nat
  BY <1>1, CurrentIsSmall, InodeTable
<1> HIDE DEF x
<1>3. ASSUME NEW m \in 0 .. x.size - 1
      PROVE  m \in Nat /\ get_nth_block(x, m) = x.blocks[m] /\ x.blocks[m] \in Nat
  <2>1. m \in Nat /\ m < NDIRECT /\ m \in 0 .. NDIRECT
    BY <1>2
  <2> QED
    BY <1>2, <2>1, DirectBlocks, InodeFields
<1>4. \A m, b : Holds(i, m, b) <=> m \in 0 .. x.size - 1 /\ x.blocks[m] = b
  BY DEF Holds, x
<1>5. BlocksUsedBy(i) = {get_nth_block(x, m) : m \in 0 .. x.size - 1}
  BY DEF BlocksUsedBy, BlocksOf, x
<1> QED
  BY <1>3, <1>4, <1>5 DEF x

\* A block gets two owners only after one of the faults: when a handler alone allocates,
\* alloc_block and what write_file and remove_file free are right, however many puts and
\* removes are under way, for files without an indirect block and data behind the inodes.
THEOREM BlocksAreOwned == ServerSpec /\ []NoFault => []BlocksHaveOneOwner
<1>1. SafeInv /\ NoFault => BlocksHaveOneOwner
  <2> SUFFICES ASSUME SafeInv, FilesAreDirect, NEW i \in Extents, NEW j \in Extents,
                      NEW m \in 0 .. Current(i).size - 1, NEW n \in 0 .. Current(j).size - 1,
                      get_nth_block(Current(i), m) = get_nth_block(Current(j), n)
               PROVE  i = j /\ m = n
    BY DEF BlocksHaveOneOwner, NoFault
  <2>1. PICK b : b = get_nth_block(Current(i), m)
    OBVIOUS
  <2>2. m \in Nat /\ n \in Nat /\ b \in Nat /\ Holds(i, m, b) /\ Holds(j, n, b)
    BY <2>1, ExtentsHold
  <2>3. i \in Inums /\ j \in Inums
    BY DEF Extents
  <2> QED
    BY <2>2, <2>3 DEF SafeInv, FilesInv, OwnersAreUnique
<1> QED
  BY <1>1, FilesInvariance, PTL

\* Without the faults a block is in use exactly as long as a file has it: growing,
\* shrinking, removing and creating again lose no block.  An overlap of two allocations,
\* an indirect block or data in the inode table may lose one.
THEOREM BlocksAreKept == ServerSpec /\ []NoFault => []NoBlockIsLost
<1>1. SafeInv /\ NoFault => NoBlockIsLost
  <2> SUFFICES ASSUME SafeInv, FilesAreDirect
               PROVE  using_blocks = UNION {BlocksUsedBy(i) : i \in Extents}
    BY DEF NoBlockIsLost, NoFault
  <2>1. ASSUME NEW b \in using_blocks
        PROVE  \E i \in Extents : b \in BlocksUsedBy(i)
    <3>1. PICK i \in Inums, m \in Nat : Holds(i, m, b)
      BY DEF SafeInv, FilesInv, UsedIsHeld
    <3>2. i \in Extents
      BY <3>1 DEF Holds
    <3> QED
      BY <3>1, <3>2, ExtentsHold
  <2>2. ASSUME NEW i \in Extents, NEW b \in BlocksUsedBy(i)
        PROVE  b \in using_blocks
    <3>1. PICK m \in 0 .. Current(i).size - 1 : b = get_nth_block(Current(i), m)
      BY DEF BlocksUsedBy, BlocksOf
    <3>2. m \in Nat /\ b \in Nat /\ Holds(i, m, b) /\ i \in Inums
      BY <3>1, ExtentsHold DEF Extents
    <3> QED
      BY <3>2 DEF SafeInv, FilesInv, HeldIsUsed
  <2> QED
    BY <2>1, <2>2
<1> QED
  BY <1>1, FilesInvariance, PTL

\* Without the faults what get returns is what was put last, whatever any number of
\* handlers put, create or remove elsewhere in the meantime: the inodes and blocks
\* implement a store of extents.  With any of them, extents overwrite each other.
THEOREM ExtentsAreStored == ServerSpec /\ []NoFault => ImplementsExtentStore
<1>1. ServerInit => Store!Init
  BY FilesStart
<1>2. SafeInv /\ NoFault /\ NoFault' /\ ServerTypeOK' /\ [ServerNext]_extentServerVars
      => [Store!Next]_Contents
  BY StepIsSafe DEF Kept
<1> QED
  BY <1>1, <1>2, FilesInvariance, ServerInvariance, PTL
     DEF ServerSpec, ServerInv, ImplementsExtentStore, Store!Spec

=============================================================================
