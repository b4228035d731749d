---------------------------- MODULE DirectoryData ----------------------------
(***************************************************************************)
(* What yfs_client does to the contents of a directory: entries of a name  *)
(* and an inode number, in the order in which they were added.             *)
(***************************************************************************)
EXTENDS Naturals, Sequences

\* addfile appends, whether or not the name is there.
AddEntry(dir, name, inum) == Append(dir, [name |-> name, inum |-> inum])

Matches(dir, name) == {k \in DOMAIN dir : dir[k].name = name}

IsFound(dir, name) == Matches(dir, name) # {}

\* find returns the first match.
FoundInum(dir, name) ==
    dir[CHOOSE k \in Matches(dir, name) : \A l \in Matches(dir, name) : k <= l].inum

\* Mutant: whatever the name is.
AllInums(dir, name) == {dir[k].inum : k \in DOMAIN dir}

\* unlink removes the extents of all matches ...
MatchingInums(dir, name) == {dir[k].inum : k \in Matches(dir, name)}

\* ... and keeps the other entries, in a loop over all of them.
WithoutName(dir, name) ==
    LET result[k \in 0 .. Len(dir)] ==
            IF k = 0 THEN <<>>
            ELSE IF dir[k].name = name THEN result[k - 1]
            ELSE Append(result[k - 1], dir[k])
    IN  result[Len(dir)]

=============================================================================
