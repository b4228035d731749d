---------------------------- MODULE InodeManager ----------------------------
(***************************************************************************)
(* The inode layer: inodes in their blocks of the disk, the blocks of a    *)
(* file, the choice of a free inode.  Block addresses beyond the NDIRECT   *)
(* of the inode are in the block that blocks[NDIRECT] names, an address    *)
(* that nothing ever sets.  Times are left out.                            *)
(***************************************************************************)
EXTENDS BlockManager, Sequences

VARIABLE next_inum

Inums == 1 .. INODE_NUM
MAXFILE == NDIRECT + NINDIRECT

T_DIR == 1
Types == 0 .. 3      \* 0, that of a free inode, and extent_protocol::types

Inodes == [type : Types, size : Nat, blocks : [0 .. NDIRECT -> Nat]]

get_inode(i) == AsInode(blocks[IBLOCK(i, BLOCK_NUM)])

\* The disk after put_inode.
InodePut(bs, i, ino) == [bs EXCEPT ![IBLOCK(i, BLOCK_NUM)] = InodeBlock(ino)]

-----------------------------------------------------------------------------
\* Past the table, where only the size of a garbled inode leads, is memory never filled.
get_nth_block(ino, n) ==
    IF n < NDIRECT THEN ino.blocks[n]
    ELSE IF n < MAXFILE THEN AsTable(Read(ino.blocks[NDIRECT]))[n - NDIRECT]
    ELSE StaleBlock

BlocksOf(ino, first, end) == {get_nth_block(ino, n) : n \in first .. end - 1}

\* read_file
read_file(ino) == [k \in 1 .. ino.size |-> Read(get_nth_block(ino, k - 1))]

\* The block b becomes the nth of the file: the inode and the disk after that.
WithNthBlock(ino, n, b) ==
    IF n < NDIRECT THEN [ino EXCEPT !.blocks[n] = b] ELSE ino

TableWritten(ino, n, b) ==
    IF n < NDIRECT
      THEN blocks
      ELSE LET t == ino.blocks[NDIRECT]
           IN  Written(blocks, t, TableBlock([AsTable(Read(t)) EXCEPT ![n - NDIRECT] = b]))

\* The disk after the data have been written to the blocks of the file.
DataWritten(ino, data) ==
    [b \in BlockIds |->
       LET at == {k \in 1 .. Len(data) : get_nth_block(ino, k - 1) = b}
       IN  IF at = {} THEN blocks[b]
                      ELSE data[CHOOSE k \in at : \A j \in at : j <= k]]

-----------------------------------------------------------------------------
\* alloc_inode takes the first free inode from next_inum on, or else from 2 on.
IsFree(i) == get_inode(i).type = 0
InodesAhead == {i \in next_inum .. INODE_NUM : IsFree(i)}
InodesBefore == {i \in 2 .. next_inum - 1 : IsFree(i)}

FindsInode(i) ==
    \/ i \in InodesAhead /\ \A k \in InodesAhead : i <= k
    \/ InodesAhead = {} /\ i \in InodesBefore /\ \A k \in InodesBefore : i <= k

\* Mutant: the inode keeps the size of the file that was removed.
NewInodeOfOldSize(i, type) == [get_inode(i) EXCEPT !.type = type]

NewInode(i, type) == [get_inode(i) EXCEPT !.type = type, !.size = 0]

\* Mutant: the search does not wrap around.
NextInumUnwrapped(i) == i + 1

NextInum(i) == IF i + 1 > INODE_NUM THEN 2 ELSE i + 1

InodesAreUsedUp == InodesAhead \cup InodesBefore = {}

\* The constructors: next_block is computed before sb.nblocks is set, and the
\* root's block addresses are not set at all.
InodeInit ==
    /\ using_blocks = {}
    /\ next_block = IBLOCK(INODE_NUM, StaleNblocks) + 1
    /\ blocks = [b \in BlockIds |->
                   IF b = IBLOCK(1, BLOCK_NUM)
                     THEN InodeBlock([type |-> T_DIR, size |-> 0,
                                      blocks |-> [n \in 0 .. NDIRECT |-> StaleBlock]])
                     ELSE ZeroBlock]
    /\ next_inum = 2

=============================================================================
