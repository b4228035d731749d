----------------------------- MODULE AtomicFile -----------------------------
(***************************************************************************)
(* What the clients of a file may rely on: there is one contents, and each *)
(* write and setattr acts on it as a whole, however many clients and       *)
(* caches there are.                                                       *)
(***************************************************************************)
EXTENDS FileData

CONSTANT Request

VARIABLE contents

Init == contents = <<>>

Write(off, data) == contents' = Overwrite(contents, off, data)

\* A file is cut or filled up with '\0', but from any size it may once have had: the
\* attributes of a setattr may be old.
Truncate(n) == \E a \in 0 .. n + 1 : contents' = SetSize(contents, a, n)

Next == \E r \in Request :
            \/ r.op = "write" /\ Write(r.off, r.data)
            \/ r.op = "setattr" /\ Truncate(r.size)

Spec == Init /\ [][Next]_contents

=============================================================================
