------------------------------ MODULE NameSpace ------------------------------
(***************************************************************************)
(* What the directories of the file system promise: one listing of each,   *)
(* whatever client asks, in which a name is given and taken back in one    *)
(* step, to an inode that had no name before.                              *)
(***************************************************************************)
EXTENDS DirectoryData

CONSTANTS Inum, Root, Name

VARIABLES
    listing,    \* the entries of each directory
    made,       \* the inodes that there have been
    nameless    \* those of them that have not got their name yet

nameVars == <<listing, made, nameless>>

Init ==
    /\ listing = [d \in Inum |-> <<>>]
    /\ made = {Root}
    /\ nameless = {}

Make(i) ==
    /\ made' = made \cup {i}
    /\ nameless' = nameless \cup {i}
    /\ UNCHANGED listing

Link(i, d, n) ==
    /\ ~IsFound(listing[d], n)
    /\ listing' = [listing EXCEPT ![d] = AddEntry(listing[d], n, i)]
    /\ UNCHANGED made

Unlink(d, n) ==
    /\ listing' = [listing EXCEPT ![d] = WithoutName(listing[d], n)]
    /\ UNCHANGED <<made, nameless>>

NamesIn(d) == {listing[d][k].name : k \in DOMAIN listing[d]}

Next ==
    \/ \E i \in Inum \ made : Make(i)
    \/ \E i \in nameless :
          nameless' = nameless \ {i} /\ \E d \in Inum, n \in Name : Link(i, d, n)
    \/ \E d \in Inum : \E n \in NamesIn(d) : Unlink(d, n)

Spec == Init /\ [][Next]_nameVars

=============================================================================
