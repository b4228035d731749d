------------------------------ MODULE FileData ------------------------------
(***************************************************************************)
(* What yfs_client does to the contents of a file, a sequence of bytes, in *)
(* read, write and setattr.  Offsets count from 0, sequences from 1.       *)
(***************************************************************************)
EXTENDS Naturals, Sequences

CONSTANT NUL    \* the byte '\0'

Zeros(n) == [i \in 1 .. n |-> NUL]

\* std::string::resize(n, '\0') when it makes the string longer.
Extend(s, n) == IF n > Len(s) THEN s \o Zeros(n - Len(s)) ELSE s

\* Mutant: what follows the written bytes is cut off.
OverwriteAndCut(s, off, data) == SubSeq(Extend(s, off), 1, off) \o data

\* yfs_client::write, between its get and its put: the buffer is made long enough,
\* then buf.replace(off, data.size(), data).
Overwrite(s, off, data) ==
    LET grown == Extend(s, off + Len(data))
    IN  SubSeq(grown, 1, off) \o data \o SubSeq(grown, off + Len(data) + 1, Len(grown))

\* Mutant: the second argument of substr is taken for an end position.
SliceToEnd(s, off, n) == SubSeq(s, off + 1, IF n <= Len(s) THEN n ELSE Len(s))

\* yfs_client::read, after its get.
Slice(s, off, n) ==
    IF off <= Len(s)
      THEN SubSeq(s, off + 1, IF off + n <= Len(s) THEN off + n ELSE Len(s))
      ELSE <<>>

\* Mutant: a file is only ever made longer.
SetSizeExtendsOnly(s, a, n) == IF a < n THEN s \o Zeros(n - a) ELSE s

\* yfs_client::setattr, between its get and its put; a is the size that its
\* getattr returned.
SetSize(s, a, n) ==
    IF a < n THEN s \o Zeros(n - a)
    ELSE IF a > n THEN SubSeq(s, 1, IF n < Len(s) THEN n ELSE Len(s))
    ELSE s

=============================================================================
