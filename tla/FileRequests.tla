---------------------------- MODULE FileRequests ----------------------------
(***************************************************************************)
(* The operators of FileData applied to one file in any order, each result *)
(* compared byte by byte with what the comments of fuse.cc ask for.        *)
(***************************************************************************)
EXTENDS FileData

CONSTANTS
    Byte,
    Chunk,      \* the data of write requests
    MaxLength   \* bound: no request makes the file longer than this

ASSUME BytesAndChunks == NUL \in Byte /\ Chunk \subseteq Seq(Byte)

VARIABLES
    file,   \* contents
    old,    \* contents before the last request
    last    \* the last request, with the data that it returned

vars == <<file, old, last>>

Init == file = <<>> /\ old = <<>> /\ last = [op |-> "none"]

Write == \E off \in 0 .. MaxLength, data \in Chunk :
            /\ off + Len(data) <= MaxLength
            /\ file' = Overwrite(file, off, data)
            /\ last' = [op |-> "write", off |-> off, data |-> data]
            /\ old' = file

Setattr == \E n \in 0 .. MaxLength :
            /\ file' = SetSize(file, Len(file), n)
            /\ last' = [op |-> "setattr", size |-> n]
            /\ old' = file

\* An offset beyond the end, and a size beyond it, are asked for too.
Read == \E off, n \in 0 .. MaxLength + 1 :
            /\ last' = [op |-> "read", off |-> off, size |-> n,
                        data |-> Slice(file, off, n)]
            /\ old' = file
            /\ UNCHANGED file

Next == Write \/ Setattr \/ Read

Spec == Init /\ [][Next]_vars

-----------------------------------------------------------------------------
Longer(m, n) == IF m > n THEN m ELSE n
Shorter(m, n) == IF m < n THEN m ELSE n

\* "If @off + @size is greater than the current size of the file, the write
\* should cause the file to grow.  If @off is beyond the end of the file, fill the
\* gap with null bytes."  Bytes outside of the range stay.
WriteFillsGap ==
    last.op = "write" =>
        /\ Len(file) = Longer(Len(old), last.off + Len(last.data))
        /\ \A i \in 1 .. Len(file) :
              file[i] = IF i > last.off /\ i <= last.off + Len(last.data)
                          THEN last.data[i - last.off]
                        ELSE IF i <= Len(old) THEN old[i] ELSE NUL

\* "If there are fewer than @size bytes to read between @off and the end of the
\* file, read just that many bytes.  If @off is greater than or equal to the size
\* of the file, read zero bytes."
ReadStopsAtEnd ==
    last.op = "read" =>
        /\ Len(last.data) = IF last.off >= Len(file) THEN 0
                              ELSE Shorter(last.size, Len(file) - last.off)
        /\ \A i \in 1 .. Len(last.data) : last.data[i] = file[last.off + i]

\* "If the new size is bigger than the current file size, fill the new bytes with
\* '\0'", given the right size to begin with.
SetSizeFillsWithNul ==
    last.op = "setattr" =>
        /\ Len(file) = last.size
        /\ \A i \in 1 .. Len(file) : file[i] = IF i <= Len(old) THEN old[i] ELSE NUL

=============================================================================
