---------------------------- MODULE MCClassTests ----------------------------
EXTENDS ClassTests, TLC
CONSTANTS c1, c2

InOrder == <<c1, c2>>

Passing == {SequentialTests, ConcurrentCreates, ConcurrentCreateDelete, SameFileSameServer,
            WritesToParts, SeparateDirectories, SymlinkTest} \cup Pairs
Bytes == Units \cup {NUL}

SameFile == {ConcurrentCreatesOfSameFile}
=============================================================================
