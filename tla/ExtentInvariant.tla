--------------------------- MODULE ExtentInvariant ---------------------------
(***************************************************************************)
(* Why the extent server is right: the inductive invariant that its        *)
(* proofs rest on, in three layers.  ServerInv holds whatever handlers do  *)
(* to each other.  AreaInv needs a search for blocks that starts where the *)
(* data start.  FilesInv needs in addition that no allocation overlaps     *)
(* with another one and that files need no indirect block.                 *)
(***************************************************************************)
EXTENDS ExtentServer

BlockOK(b) ==
    /\ b.kind \in {"zero", "data", "inode", "table"}
    /\ b.kind = "inode" => b.ino \in Inodes

DiskOK(bs) ==
    /\ bs = [b \in BlockIds |-> bs[b]]
    /\ \A b \in BlockIds : BlockOK(bs[b])

\* A handler has an inode in hand that is not free.
Busy(h) == at[h] \in {"take_inode", "find_block", "take_block", "store"}

HandlersOK ==
    \A h \in Handler :
        /\ Busy(h) => inum[h] \in Inums /\ ino[h].type # 0
        /\ at[h] \in {"find_block", "take_block"} => nth[h] < Len(data[h])

ServerInv ==
    /\ ServerTypeOK
    /\ DiskOK(blocks)
    /\ HandlersOK
    /\ ~IsFree(1)
    /\ ExitsOnlyWhenFull

-----------------------------------------------------------------------------
AreaInv ==
    /\ next_block \in DataArea
    /\ using_blocks \subseteq DataArea
    /\ \A h \in Handler : at[h] = "take_block" => found[h] \in DataArea

-----------------------------------------------------------------------------
\* A client's lock keeps the puts into an extent apart.
OnePutEach == \A g, h \in Handler, i \in Inums : Putting(g, i) /\ Putting(h, i) => g = h

\* Block b is the mth of extent i, which a put may have in hand.
Holds(i, m, b) ==
    /\ i \in Extents
    /\ m \in 0 .. Current(i).size - 1
    /\ Current(i).blocks[m] = b

SizesAreSmall == \A i \in Inums : get_inode(i).size <= NDIRECT

OwnersAreUnique ==
    \A i, j \in Inums : \A m, n \in Nat, b \in Nat :
        Holds(i, m, b) /\ Holds(j, n, b) => i = j /\ m = n

HeldIsUsed == \A i \in Inums, m \in Nat, b \in Nat : Holds(i, m, b) => b \in using_blocks

UsedIsHeld == \A b \in using_blocks : \E i \in Inums, m \in Nat : Holds(i, m, b)

\* A put has the inode that is on the disk, up to the blocks that it has added.
OnItsWay(h) ==
    at[h] \in {"find_block", "take_block", "store"} =>
        LET file == get_inode(inum[h])
        IN  /\ inum[h] \in Extents
            /\ data[h] \in Data
            /\ \A m \in 0 .. file.size - 1 : m < nth[h] => ino[h].blocks[m] = file.blocks[m]
            /\ at[h] = "store" => nth[h] = Len(data[h])
            /\ at[h] # "store" => file.size <= nth[h]

\* What has been found is still free when it is taken.
FindIsFree(h) ==
    /\ at[h] = "take_block" => found[h] \notin using_blocks
    /\ at[h] = "take_inode" => IsFree(inum[h]) /\ ino[h].size = 0

PutsAreOnTheirWay == \A h \in Handler : OnItsWay(h)
FindsAreFree == \A h \in Handler : FindIsFree(h)

\* An extent holds what was put into it.
HoldsPuts == \A i \in Extents : Contents[i] \in Data \cup {<<>>}

FilesInv ==
    /\ OnePutEach
    /\ SizesAreSmall
    /\ PutsAreOnTheirWay
    /\ FindsAreFree
    /\ OwnersAreUnique
    /\ HeldIsUsed
    /\ UsedIsHeld
    /\ HoldsPuts

=============================================================================
