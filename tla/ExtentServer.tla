---------------------------- MODULE ExtentServer ----------------------------
(***************************************************************************)
(* The handlers of the extent server on its inodes and blocks.  There is   *)
(* no mutex: threads of the RPC server run handlers at the same time, and  *)
(* alloc_block and alloc_inode look for what is free in one step and take  *)
(* it in another.  The lock service keeps requests for the same extent     *)
(* apart, but not those for different ones.                                *)
(*                                                                         *)
(* get and getattr change nothing but times: they are the operators        *)
(* read_file and get_inode here.  The process exits when nothing is free,  *)
(* and when a request makes no sense to it.                                *)
(***************************************************************************)
EXTENDS InodeManager

CONSTANTS
    Handler,    \* threads that run handlers
    NewTypes,   \* the types that extents are created with
    Value,      \* what a block of data holds
    Data,       \* what is put into an extent, sequences of data blocks
    NoExtent    \* stands for the contents of an inode that is free

\* write_file does not check that the data fit a file.
ASSUME DataFit ==
    /\ NewTypes \subseteq 1 .. 3
    /\ Data \subseteq Seq({DataBlock(v) : v \in Value})
    /\ \A d \in Data : Len(d) <= MAXFILE
    /\ NoExtent \notin Data \cup {<<>>}

VARIABLES
    at,         \* where the handler of a thread is
    inum,       \* its local variables: the inode number,
    ino,        \* the copy of the inode,
    data,       \* what is put,
    nth,        \* the blocks that the copy of the inode has so far,
    found,      \* and the free block that has been found
    status      \* "runs", or why the process has exited

handlerVars == <<at, inum, ino, data, nth, found>>
extentServerVars == <<blockVars, next_inum, handlerVars, status>>

NoInode == AsInode(ZeroBlock)

ServerInit ==
    /\ InodeInit
    /\ at = [h \in Handler |-> "idle"]
    /\ inum = [h \in Handler |-> 0]
    /\ ino = [h \in Handler |-> NoInode]
    /\ data = [h \in Handler |-> <<>>]
    /\ nth = [h \in Handler |-> 0]
    /\ found = [h \in Handler |-> 0]
    /\ status = "runs"

\* The request is answered, and the local variables are gone.
Answer(h) ==
    /\ at' = [at EXCEPT ![h] = "idle"]
    /\ inum' = [inum EXCEPT ![h] = 0]
    /\ ino' = [ino EXCEPT ![h] = NoInode]
    /\ data' = [data EXCEPT ![h] = <<>>]
    /\ nth' = [nth EXCEPT ![h] = 0]
    /\ found' = [found EXCEPT ![h] = 0]

\* exit(0): no thread takes another step.
Exit(reason) ==
    /\ status' = reason
    /\ UNCHANGED <<blockVars, next_inum, handlerVars>>

\* A put into extent i is under way.
Putting(h, i) == at[h] \in {"find_block", "take_block", "store"} /\ inum[h] = i
IsPut(i) == \E h \in Handler : Putting(h, i)
PutOf(i) == CHOOSE h \in Handler : Putting(h, i)

\* A client that has the lock of extent i sends a request for it: no other one with that
\* lock is served.  A create has no lock: it may be about to take the same inode.
Serves(h, i) == at[h] = "idle" /\ ~IsPut(i)

-----------------------------------------------------------------------------
\* create: alloc_inode finds a free inode ...
FindInode(h, type) ==
    /\ at[h] = "idle"
    /\ \E i \in Inums :
          /\ FindsInode(i)
          /\ inum' = [inum EXCEPT ![h] = i]
          /\ ino' = [ino EXCEPT ![h] = NewInode(i, type)]
    /\ at' = [at EXCEPT ![h] = "take_inode"]
    /\ UNCHANGED <<blockVars, next_inum, data, nth, found>>

NoInodeLeft(h) == at[h] = "idle" /\ InodesAreUsedUp /\ Exit("full")

\* ... and takes it.
TakeInode(h) ==
    /\ at[h] = "take_inode"
    /\ next_inum' = NextInum(inum[h])
    /\ blocks' = InodePut(blocks, inum[h], ino[h])
    /\ Answer(h)
    /\ UNCHANGED <<using_blocks, next_block>>

\* put: write_file frees the blocks that a shorter file does not need ...  Puts into
\* an extent that has been removed are left out: a client's remove never gets this far.
StartPut(h, i, d) ==
    /\ Serves(h, i)
    /\ ~IsFree(i)
    /\ LET file == get_inode(i)
       IN  /\ FreeBlocks(BlocksOf(file, Len(d), file.size))
           /\ inum' = [inum EXCEPT ![h] = i]
           /\ ino' = [ino EXCEPT ![h] = file]
           /\ data' = [data EXCEPT ![h] = d]
           /\ nth' = [nth EXCEPT ![h] = IF Len(d) < file.size THEN Len(d) ELSE file.size]
           /\ at' = [at EXCEPT ![h] = IF Len(d) > file.size THEN "find_block" ELSE "store"]
    /\ UNCHANGED <<blocks, next_block, next_inum, found>>

\* ... allocates, one by one, those that a longer one needs ...
FindBlock(h) ==
    /\ at[h] = "find_block"
    /\ \E b \in NextFit \cup FirstFit :
          Finds(b) /\ found' = [found EXCEPT ![h] = b]
    /\ at' = [at EXCEPT ![h] = "take_block"]
    /\ UNCHANGED <<blockVars, next_inum, inum, ino, data, nth>>

NoBlockLeft(h) == at[h] = "find_block" /\ DiskIsFull /\ Exit("full")

TakeBlock(h) ==
    /\ at[h] = "take_block"
    /\ Take(found[h])
    /\ ino' = [ino EXCEPT ![h] = WithNthBlock(ino[h], nth[h], found[h])]
    /\ blocks' = TableWritten(ino[h], nth[h], found[h])
    /\ nth' = [nth EXCEPT ![h] = @ + 1]
    /\ at' = [at EXCEPT ![h] = IF nth[h] + 1 < Len(data[h]) THEN "find_block" ELSE "store"]
    /\ found' = [found EXCEPT ![h] = 0]
    /\ UNCHANGED <<next_inum, inum, data>>

\* ... and writes the data and the inode.
StoreFile(h) ==
    /\ at[h] = "store"
    /\ blocks' = InodePut(DataWritten(ino[h], data[h]), inum[h],
                          [ino[h] EXCEPT !.size = Len(data[h])])
    /\ Answer(h)
    /\ UNCHANGED <<using_blocks, next_block, next_inum>>

\* remove: the blocks are freed, the inode keeps its size.
Remove(h, i) ==
    /\ Serves(h, i)
    /\ ~IsFree(i)
    /\ LET file == get_inode(i)
       IN  /\ FreeBlocks(BlocksOf(file, 0, file.size))
           /\ blocks' = InodePut(blocks, i, [file EXCEPT !.type = 0])
    /\ UNCHANGED <<next_block, next_inum, handlerVars>>

\* free_inode exits where there is nothing to remove, read_file where the size of an inode
\* is none of a file.
Refuse(h, i) ==
    /\ Serves(h, i)
    /\ IsFree(i) \/ get_inode(i).size > MAXFILE
    /\ Exit("refused")

Work(h) ==
    \/ \E type \in NewTypes : FindInode(h, type)
    \/ TakeInode(h)
    \/ \E i \in Inums, d \in Data : StartPut(h, i, d)
    \/ FindBlock(h)
    \/ TakeBlock(h)
    \/ StoreFile(h)
    \/ \E i \in Inums \ {1} : Remove(h, i)

GiveUp(h) ==
    \/ NoInodeLeft(h)
    \/ NoBlockLeft(h)
    \/ \E i \in Inums : Refuse(h, i)

HandlerStep(h) ==
    /\ status = "runs"
    /\ \/ Work(h) /\ UNCHANGED status
       \/ GiveUp(h)

ServerNext == \E h \in Handler : HandlerStep(h)

ServerSpec == ServerInit /\ [][ServerNext]_extentServerVars

-----------------------------------------------------------------------------
\* Three conditions that the code sees to by nothing: between finding a block, or an
\* inode, and taking it a handler is alone; the first search for blocks starts where the
\* data start, whatever sb.nblocks holds; and files need no indirect block.
AllocationsAreApart ==
    \A g, h \in Handler : at[g] = at[h] /\ at[h] \in {"take_block", "take_inode"} => g = h

StartsInDataArea == IBLOCK(INODE_NUM, StaleNblocks) + 1 \in DataArea

FilesAreDirect == \A h \in Handler : Len(data[h]) <= NDIRECT

NoFault == AllocationsAreApart /\ StartsInDataArea /\ FilesAreDirect

\* The behaviours in which they hold.
FaultlessSpec == ServerInit /\ [][ServerNext /\ NoFault']_extentServerVars

-----------------------------------------------------------------------------
\* The inode of extent i, or the copy of it that a put has in hand.
Current(i) ==
    IF IsPut(i) THEN [ino[PutOf(i)] EXCEPT !.size = nth[PutOf(i)]] ELSE get_inode(i)

BlocksUsedBy(i) == BlocksOf(Current(i), 0, Current(i).size)

Extents == {i \in Inums : ~IsFree(i)}

ServerTypeOK ==
    /\ \A b \in BlockIds : blocks[b].kind \in {"zero", "data", "inode", "table"}
    /\ \A i \in Inums : get_inode(i) \in Inodes
    /\ using_blocks \subseteq Nat
    /\ next_block \in Nat
    /\ next_inum \in 2 .. INODE_NUM
    /\ at \in [Handler -> {"idle", "take_inode", "find_block", "take_block", "store"}]
    /\ inum \in [Handler -> Inums \cup {0}]
    /\ ino \in [Handler -> Inodes]
    /\ data \in [Handler -> Data \cup {<<>>}]
    /\ nth \in [Handler -> 0 .. MAXFILE]
    /\ found \in [Handler -> Nat]
    /\ status \in {"runs", "full", "refused"}

\* A block belongs to one file: the blocks of all files, those of a put under way
\* included, are different ("Allocate a free disk block").
BlocksHaveOneOwner ==
    \A i, j \in Extents :
        \A m \in 0 .. Current(i).size - 1, n \in 0 .. Current(j).size - 1 :
            get_nth_block(Current(i), m) = get_nth_block(Current(j), n) => i = j /\ m = n

\* Every block in use belongs to a file, and every block of a file is in use:
\* growing, shrinking and removing files neither loses nor gives away a block.
NoBlockIsLost == using_blocks = UNION {BlocksUsedBy(i) : i \in Extents}

\* "|<-sb->|<-free block bitmap->|<-inode table->|<-data->|": data are written behind
\* the inode table.
DataFollowInodeTable == using_blocks \subseteq DataArea

\* alloc_block and alloc_inode give up only when all data blocks, or all inodes, are taken.
ExitsOnlyWhenFull ==
    status = "full" =>
        DataArea \subseteq using_blocks \/ \A i \in Inums : ~IsFree(i)

\* What get returns for each extent is what a store of extents holds.  A put takes effect
\* when it starts: until it is answered nobody else has the lock to get the extent.
Contents ==
    [i \in Inums |-> IF IsPut(i) THEN data[PutOf(i)]
                    ELSE IF IsFree(i) THEN NoExtent ELSE read_file(get_inode(i))]
Store == INSTANCE ExtentStore
           WITH Extent <- Inums, Root <- 1, store <- Contents
ImplementsExtentStore == Store!Spec

=============================================================================
