--------------------------- MODULE FileDataProofs ---------------------------
(***************************************************************************)
(* What write, read and setattr do to the contents of a file, for contents *)
(* and arguments of any length.                                            *)
(***************************************************************************)
EXTENDS FileRequests, SequenceTheorems, TLAPS

\* A buffer is filled up with '\0' and otherwise kept.
LEMMA ExtendBytes ==
  ASSUME NEW S, NUL \in S, NEW s \in Seq(S), NEW n \in Nat
  PROVE  /\ Extend(s, n) \in Seq(S)
         /\ Len(Extend(s, n)) = Longer(Len(s), n)
         /\ \A i \in 1 .. Len(Extend(s, n)) :
               Extend(s, n)[i] = IF i <= Len(s) THEN s[i] ELSE NUL
<1>1. CASE n > Len(s)
  <2> DEFINE z == Zeros(n - Len(s))
  <2>1. z \in Seq(S) /\ Len(z) = n - Len(s)
    BY <1>1 DEF Zeros
  <2>2. \A i \in 1 .. Len(z) : z[i] = NUL
    BY <1>1, <2>1 DEF Zeros
  <2>3. Extend(s, n) = s \o z
    BY <1>1 DEF Extend
  <2> QED
    BY <1>1, <2>1, <2>2, <2>3 DEF Longer
<1>2. CASE ~(n > Len(s))
  BY <1>2 DEF Extend, Longer
<1> QED
  BY <1>1, <1>2

\* write: the file is as long as it must be, has the data at their place, its old
\* bytes everywhere else, and '\0' in a gap (fuse.cc, fuseserver_write).
LEMMA OverwriteBytes ==
  ASSUME NEW S, NUL \in S, NEW s \in Seq(S), NEW off \in Nat, NEW data \in Seq(S)
  PROVE  LET w == Overwrite(s, off, data)
         IN  /\ w \in Seq(S)
             /\ Len(w) = Longer(Len(s), off + Len(data))
             /\ \A i \in 1 .. Len(w) :
                   w[i] = IF i > off /\ i <= off + Len(data) THEN data[i - off]
                          ELSE IF i <= Len(s) THEN s[i] ELSE NUL
<1> DEFINE g == Extend(s, off + Len(data))
           a == SubSeq(g, 1, off)
           b == SubSeq(g, off + Len(data) + 1, Len(g))
           w == Overwrite(s, off, data)
<1>1. /\ g \in Seq(S) /\ Len(g) = Longer(Len(s), off + Len(data))
      /\ Len(g) \in Nat /\ Len(g) >= off + Len(data)
      /\ \A i \in 1 .. Len(g) : g[i] = IF i <= Len(s) THEN s[i] ELSE NUL
  <2> DEFINE n == off + Len(data)
  <2>1. n \in Nat
    OBVIOUS
  <2> HIDE DEF n
  <2>2. /\ Extend(s, n) \in Seq(S)
        /\ Len(Extend(s, n)) = Longer(Len(s), n)
        /\ \A i \in 1 .. Len(Extend(s, n)) :
              Extend(s, n)[i] = IF i <= Len(s) THEN s[i] ELSE NUL
    BY <2>1, ExtendBytes
  <2>3. g = Extend(s, n)
    BY DEF n
  <2> HIDE DEF g
  <2>4. Longer(Len(s), n) \in Nat /\ Longer(Len(s), n) >= n
    BY <2>1 DEF Longer
  <2> QED
    BY <2>2, <2>3, <2>4 DEF n
<1>2. w = (a \o data) \o b
  BY DEF Overwrite
<1> HIDE DEF g, w
<1>3. /\ a \in Seq(S) /\ Len(a) = off
      /\ \A i \in 1 .. off : a[i] = g[i]
  BY <1>1
<1>4. /\ b \in Seq(S) /\ Len(b) = Len(g) - (off + Len(data))
      /\ \A i \in 1 .. Len(b) : b[i] = g[off + Len(data) + i]
  BY <1>1
<1> HIDE DEF a, b
<1>5. /\ a \o data \in Seq(S) /\ Len(a \o data) = off + Len(data)
      /\ \A i \in 1 .. off + Len(data) :
            (a \o data)[i] = IF i <= off THEN a[i] ELSE data[i - off]
  BY <1>3
<1>6. /\ w \in Seq(S) /\ Len(w) = Len(g)
      /\ \A i \in 1 .. off + Len(data) : w[i] = (a \o data)[i]
      /\ \A i \in 1 .. Len(b) : w[off + Len(data) + i] = b[i]
  <2> DEFINE h == a \o data
  <2>1. w = h \o b /\ h \in Seq(S) /\ Len(h) = off + Len(data) /\ b \in Seq(S)
    BY <1>2, <1>4, <1>5
  <2> HIDE DEF h
  <2>2. /\ w \in Seq(S) /\ Len(w) = Len(h) + Len(b)
        /\ \A i \in 1 .. Len(h) : w[i] = h[i]
        /\ \A i \in 1 .. Len(b) : w[Len(h) + i] = b[i]
    <3>0. h \in Seq(S) /\ b \in Seq(S)
      BY <2>1
    <3>1. /\ Len(h \o b) = Len(h) + Len(b) /\ h \o b \in Seq(S)
          /\ \A i \in 1 .. Len(h) + Len(b) :
                (h \o b)[i] = IF i <= Len(h) THEN h[i] ELSE b[i - Len(h)]
      BY <3>0, ConcatProperties
    <3>2. Len(h) \in Nat /\ Len(b) \in Nat
      BY <2>1
    <3>3. ASSUME NEW i \in 1 .. Len(b)
          PROVE  /\ Len(h) + i \in 1 .. Len(h) + Len(b)
                 /\ ~(Len(h) + i <= Len(h)) /\ (Len(h) + i) - Len(h) = i
      BY <3>2
    <3> QED
      BY <2>1, <3>1, <3>2, <3>3
  <2>3. Len(h) + Len(b) = Len(g)
    BY <2>1, <1>1, <1>4
  <2> QED
    BY <2>1, <2>2, <2>3 DEF h
<1>7. ASSUME NEW i \in 1 .. Len(g)
      PROVE  w[i] = IF i > off /\ i <= off + Len(data) THEN data[i - off]
                    ELSE IF i <= Len(s) THEN s[i] ELSE NUL
  <2>1. CASE i <= off
    <3>1. w[i] = (a \o data)[i] /\ (a \o data)[i] = a[i] /\ a[i] = g[i]
      BY <2>1, <1>3, <1>5, <1>6
    <3> QED
      BY <2>1, <3>1, <1>1
  <2>2. CASE i > off /\ i <= off + Len(data)
    BY <2>2, <1>1, <1>5, <1>6
  <2>3. CASE i > off + Len(data)
    <3>1. i - (off + Len(data)) \in 1 .. Len(b)
      BY <2>3, <1>1, <1>4
    <3>2. PICK k \in 1 .. Len(b) : i = off + Len(data) + k
      BY <3>1, <1>1
    <3>3. w[i] = b[k] /\ b[k] = g[i]
      BY <3>2, <1>4, <1>6
    <3> QED
      BY <2>3, <3>3, <1>1
  <2> QED
    BY <2>1, <2>2, <2>3, <1>1
<1> QED
  BY <1>1, <1>6, <1>7 DEF w

\* read: no byte beyond the end, and no other than the file's.
LEMMA SliceBytes ==
  ASSUME NEW S, NEW s \in Seq(S), NEW off \in Nat, NEW n \in Nat
  PROVE  LET r == Slice(s, off, n)
         IN  /\ r \in Seq(S)
             /\ Len(r) = IF off >= Len(s) THEN 0 ELSE Shorter(n, Len(s) - off)
             /\ \A i \in 1 .. Len(r) : r[i] = s[off + i]
<1> DEFINE e == IF off + n <= Len(s) THEN off + n ELSE Len(s)
           r == Slice(s, off, n)
<1>1. CASE off <= Len(s)
  <2>1. r = SubSeq(s, off + 1, e)
    BY <1>1 DEF Slice
  <2>2. e \in Nat /\ e >= off /\ e <= Len(s)
    BY <1>1
  <2>3. e - off = IF off >= Len(s) THEN 0 ELSE Shorter(n, Len(s) - off)
    BY <1>1 DEF Shorter
  <2> HIDE DEF e, r
  <2>4. /\ SubSeq(s, off + 1, e) \in Seq(S) /\ Len(SubSeq(s, off + 1, e)) = e - off
        /\ \A i \in 1 .. e - off : SubSeq(s, off + 1, e)[i] = s[off + i]
    BY <1>1, <2>2
  <2> QED
    BY <2>1, <2>3, <2>4 DEF r
<1>2. CASE off > Len(s)
  BY <1>2 DEF Slice
<1> QED
  BY <1>1, <1>2

\* setattr, when getattr has returned the size the file has.
LEMMA SetSizeBytes ==
  ASSUME NEW S, NUL \in S, NEW s \in Seq(S), NEW n \in Nat
  PROVE  LET w == SetSize(s, Len(s), n)
         IN  /\ w \in Seq(S)
             /\ Len(w) = n
             /\ \A i \in 1 .. n : w[i] = IF i <= Len(s) THEN s[i] ELSE NUL
<1>1. CASE Len(s) < n
  <2>1. SetSize(s, Len(s), n) = Extend(s, n) /\ Longer(Len(s), n) = n
    BY <1>1 DEF SetSize, Extend, Longer
  <2>2. /\ Extend(s, n) \in Seq(S)
        /\ Len(Extend(s, n)) = Longer(Len(s), n)
        /\ \A i \in 1 .. Len(Extend(s, n)) :
              Extend(s, n)[i] = IF i <= Len(s) THEN s[i] ELSE NUL
    BY ExtendBytes
  <2> QED
    BY <2>1, <2>2
<1>2. CASE ~(Len(s) < n)
  <2>1. SetSize(s, Len(s), n) = SubSeq(s, 1, n)
    BY <1>2 DEF SetSize
  <2> QED
    BY <1>2, <2>1
<1> QED
  BY <1>1, <1>2

-----------------------------------------------------------------------------
FileInv == file \in Seq(Byte)

AsSpecified == WriteFillsGap /\ ReadStopsAtEnd /\ SetSizeFillsWithNul

LEMMA StepIsAsSpecified ==
  ASSUME FileInv, Next, MaxLength \in Nat
  PROVE  FileInv' /\ AsSpecified'
<1> USE BytesAndChunks DEF FileInv
<1>1. CASE Write
  <2>1. PICK off \in 0 .. MaxLength, data \in Chunk :
           /\ file' = Overwrite(file, off, data)
           /\ last' = [op |-> "write", off |-> off, data |-> data]
           /\ old' = file
    BY <1>1 DEF Write
  <2>2. off \in Nat /\ data \in Seq(Byte)
    OBVIOUS
  <2>3. /\ file' \in Seq(Byte)
        /\ Len(file') = Longer(Len(file), off + Len(data))
        /\ \A i \in 1 .. Len(file') :
              file'[i] = IF i > off /\ i <= off + Len(data) THEN data[i - off]
                         ELSE IF i <= Len(file) THEN file[i] ELSE NUL
    BY <2>1, <2>2, OverwriteBytes
  <2>4. last'.op = "write" /\ last'.off = off /\ last'.data = data
    BY <2>1
  <2>5. WriteFillsGap'
    BY <2>1, <2>3, <2>4 DEF WriteFillsGap
  <2> QED
    BY <2>3, <2>4, <2>5 DEF AsSpecified, ReadStopsAtEnd, SetSizeFillsWithNul
<1>2. CASE Setattr
  <2>1. PICK n \in 0 .. MaxLength :
           /\ file' = SetSize(file, Len(file), n)
           /\ last' = [op |-> "setattr", size |-> n]
           /\ old' = file
    BY <1>2 DEF Setattr
  <2>2. n \in Nat
    OBVIOUS
  <2>3. /\ file' \in Seq(Byte) /\ Len(file') = n
        /\ \A i \in 1 .. n : file'[i] = IF i <= Len(file) THEN file[i] ELSE NUL
    BY <2>1, <2>2, SetSizeBytes
  <2>4. last'.op = "setattr" /\ last'.size = n
    BY <2>1
  <2>5. SetSizeFillsWithNul'
    BY <2>1, <2>3, <2>4 DEF SetSizeFillsWithNul
  <2> QED
    BY <2>3, <2>4, <2>5 DEF AsSpecified, ReadStopsAtEnd, WriteFillsGap
<1>3. CASE Read
  <2>1. PICK off \in 0 .. MaxLength + 1, n \in 0 .. MaxLength + 1 :
           /\ last' = [op |-> "read", off |-> off, size |-> n, data |-> Slice(file, off, n)]
           /\ file' = file
    BY <1>3 DEF Read
  <2>2. off \in Nat /\ n \in Nat
    OBVIOUS
  <2> DEFINE r == Slice(file, off, n)
  <2>3. /\ Len(r) = IF off >= Len(file) THEN 0 ELSE Shorter(n, Len(file) - off)
        /\ \A i \in 1 .. Len(r) : r[i] = file[off + i]
    BY <2>2, SliceBytes
  <2>4. last'.op = "read" /\ last'.off = off /\ last'.size = n /\ last'.data = r
    BY <2>1
  <2> HIDE DEF r
  <2>5. ReadStopsAtEnd'
    BY <2>1, <2>3, <2>4 DEF ReadStopsAtEnd
  <2> QED
    BY <2>1, <2>4, <2>5 DEF AsSpecified, WriteFillsGap, SetSizeFillsWithNul
<1> QED
  BY <1>1, <1>2, <1>3 DEF Next

\* In every sequence of requests, each write, read and setattr of yfs_client that
\* works on the right data and size gives what the comments of fuse.cc ask for.
THEOREM RequestsAreAsSpecified ==
  ASSUME MaxLength \in Nat
  PROVE  Spec => [](WriteFillsGap /\ ReadStopsAtEnd /\ SetSizeFillsWithNul)
<1>1. Init => FileInv /\ AsSpecified
  BY DEF Init, FileInv, AsSpecified, WriteFillsGap, ReadStopsAtEnd, SetSizeFillsWithNul
<1>2. FileInv /\ AsSpecified /\ [Next]_vars => FileInv' /\ AsSpecified'
  <2>1. ASSUME FileInv, AsSpecified, UNCHANGED vars
        PROVE  FileInv' /\ AsSpecified'
    BY <2>1 DEF vars, FileInv, AsSpecified, WriteFillsGap, ReadStopsAtEnd, SetSizeFillsWithNul
  <2> QED
    BY <2>1, StepIsAsSpecified
<1> QED
  BY <1>1, <1>2, PTL DEF Spec, AsSpecified

\* A write grows the file to its end and no further, the gap before it holds null bytes,
\* and the other bytes stay.
THEOREM WritesFillGaps ==
  ASSUME MaxLength \in Nat
  PROVE  Spec => []WriteFillsGap
BY RequestsAreAsSpecified, PTL

\* A read returns the bytes there are, and none beyond the end.
THEOREM ReadsStopAtEnd ==
  ASSUME MaxLength \in Nat
  PROVE  Spec => []ReadStopsAtEnd
BY RequestsAreAsSpecified, PTL

\* Setting the size cuts the file, or fills it up with null bytes.
THEOREM SizesFillWithNul ==
  ASSUME MaxLength \in Nat
  PROVE  Spec => []SetSizeFillsWithNul
BY RequestsAreAsSpecified, PTL

=============================================================================
