---------------------------- MODULE BlockManager ----------------------------
(***************************************************************************)
(* The disk and block layers of the extent server.  The disk is an array   *)
(* of blocks in memory; a block holds one unit of data here, and a size    *)
(* counts blocks: the bytes of a last block that a file does not fill      *)
(* are not distinguished.                                                  *)
(***************************************************************************)
EXTENDS Naturals

CONSTANTS
    BLOCK_NUM,      \* blocks of the disk
    INODE_NUM,      \* inodes 1 .. INODE_NUM
    BPB,            \* bits of the bitmap in a block
    NDIRECT,        \* block addresses in an inode
    NINDIRECT,      \* block addresses in an indirect block
    StaleNblocks,   \* what sb.nblocks holds before the constructor sets it
    StaleBlock      \* what an uninitialized block address holds

\* Inodes take a block each (IPB is 1).
IBLOCK(i, nblocks) == nblocks \div BPB + i + 3

\* The first block behind the inode table, "start" in alloc_block.
FirstData == IBLOCK(INODE_NUM, BLOCK_NUM) + 1

ASSUME Geometry ==
    /\ {BLOCK_NUM, INODE_NUM, BPB, NDIRECT, NINDIRECT} \subseteq Nat \ {0}
    /\ {StaleNblocks, StaleBlock} \subseteq Nat
    /\ INODE_NUM > 1
    /\ FirstData < BLOCK_NUM

BlockIds == 0 .. BLOCK_NUM - 1
DataArea == FirstData .. BLOCK_NUM - 1

VARIABLES
    blocks,         \* disk::blocks
    using_blocks,   \* the ids that the map using_blocks has a 1 for
    next_block

blockVars == <<blocks, using_blocks, next_block>>

\* What a block may hold, and the inode or the table of block addresses that its
\* bytes amount to.  Data are taken for an inode that is in use.
ZeroBlock == [kind |-> "zero"]
StrayBlock == [kind |-> "stray"]     \* a buffer that was never filled
DataBlock(v) == [kind |-> "data", value |-> v]
InodeBlock(ino) == [kind |-> "inode", ino |-> ino]
TableBlock(ids) == [kind |-> "table", ids |-> ids]

AsInode(b) ==
    CASE b.kind = "inode" -> b.ino
      [] b.kind = "zero"  -> [type |-> 0, size |-> 0, blocks |-> [n \in 0 .. NDIRECT |-> 0]]
      [] OTHER -> [type |-> 2, size |-> NDIRECT + NINDIRECT + 1,
                   blocks |-> [n \in 0 .. NDIRECT |-> StaleBlock]]

AsTable(b) ==
    CASE b.kind = "table" -> b.ids
      [] b.kind = "zero"  -> [n \in 0 .. NINDIRECT - 1 |-> 0]
      [] OTHER -> [n \in 0 .. NINDIRECT - 1 |-> StaleBlock]

\* Ids off the disk are read and written without any effect.
Read(b) == IF b \in BlockIds THEN blocks[b] ELSE StrayBlock

Written(bs, b, v) == IF b \in BlockIds THEN [bs EXCEPT ![b] = v] ELSE bs

-----------------------------------------------------------------------------
\* alloc_block finds the first free block from next_block on, or else the first
\* one before it.
NextFit == {b \in next_block .. BLOCK_NUM - 1 : b \notin using_blocks}
FirstFit == {b \in FirstData .. next_block - 1 : b \notin using_blocks}

Finds(b) ==
    \/ b \in NextFit /\ \A k \in NextFit : b <= k
    \/ NextFit = {} /\ b \in FirstFit /\ \A k \in FirstFit : b <= k

\* Mutant: there is no second scan.
DiskIsFullAhead == NextFit = {}

DiskIsFull == NextFit \cup FirstFit = {}

\* Mutant: the block is not marked.
TakeUnmarked(b) ==
    /\ UNCHANGED using_blocks
    /\ next_block' = IF b + 1 = BLOCK_NUM THEN FirstData ELSE b + 1

\* Mutant: the search for a free block starts over at the front of the disk.
TakeAndWrapToZero(b) ==
    /\ using_blocks' = using_blocks \cup {b}
    /\ next_block' = IF b + 1 = BLOCK_NUM THEN 0 ELSE b + 1

\* ... and marks it.
Take(b) ==
    /\ using_blocks' = using_blocks \cup {b}
    /\ next_block' = IF b + 1 = BLOCK_NUM THEN FirstData ELSE b + 1

\* Mutant: free_block does nothing.
FreeNoBlocks(ids) == UNCHANGED using_blocks

FreeBlocks(ids) == using_blocks' = using_blocks \ ids

=============================================================================
