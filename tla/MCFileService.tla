---------------------------- MODULE MCFileService ----------------------------
EXTENDS FileInvariant, TLC
CONSTANTS c1, c2, t1, t2, x

OneThreadEach == t1 :> c1 @@ t2 :> c2

Contained == UNION {[1 .. n -> {NUL, x}] : n \in 0 .. 5}

Writes == {WriteRequest(0, <<x>>), WriteRequest(1, <<x>>)}
Setattrs == {SetattrRequest(0), SetattrRequest(2)}
AllRequests == {StatRequest, ReadRequest} \cup Writes \cup Setattrs
=============================================================================
