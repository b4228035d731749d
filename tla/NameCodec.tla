------------------------------ MODULE NameCodec ------------------------------
(***************************************************************************)
(* encode and uncode of yfs_client: a file name as it stands in the text   *)
(* of a directory, two letters for each byte.  A char is signed, and the   *)
(* division of C++ rounds towards zero, so a byte above 127 is written     *)
(* with letters before 'a'.  The text is read back with >>, which ends a   *)
(* name at white space.                                                    *)
(***************************************************************************)
EXTENDS Integers, Sequences, TLAPS

Char == -128 .. 127
a == 97
WhiteSpace == {9, 10, 11, 12, 13, 32}

\* / and % of C++ by 16.
Quotient(c) == IF c >= 0 THEN c \div 16 ELSE -((-c) \div 16)
Remainder(c) == c - 16 * Quotient(c)

encode(code) ==
    [k \in 1 .. 2 * Len(code) |->
        IF k % 2 = 1 THEN a + Quotient(code[(k + 1) \div 2])
                     ELSE a + Remainder(code[(k + 1) \div 2])]

\* Of what encode has written: letters in pairs, which give a char.
uncode(code) ==
    [k \in 1 .. Len(code) \div 2 |->
        (code[2 * k - 1] - a) * 16 + code[2 * k] - a]

-----------------------------------------------------------------------------
\* The letters stay within a char and are no white space.
LEMMA Letters ==
    ASSUME NEW c \in Char
    PROVE  /\ Quotient(c) \in Int
           /\ a + Quotient(c) \in 89 .. 104
           /\ a + Remainder(c) \in 82 .. 112
BY DEF Char, a, Quotient, Remainder

LEMMA LettersGiveByte ==
    ASSUME NEW c \in Char, Quotient(c) \in Int
    PROVE  ((a + Quotient(c)) - a) * 16 + (a + Remainder(c)) - a = c
BY DEF Char, a, Remainder

LEMMA EncodedLength ==
    ASSUME NEW name \in Seq(Char)
    PROVE  /\ encode(name) \in Seq(Char \ WhiteSpace)
           /\ Len(encode(name)) = 2 * Len(name)
<1>1. Len(name) \in Nat
  OBVIOUS
<1>2. ASSUME NEW k \in 1 .. 2 * Len(name)
      PROVE  encode(name)[k] \in Char \ WhiteSpace
  <2>1. (k + 1) \div 2 \in 1 .. Len(name)
    BY <1>1
  <2>2. name[(k + 1) \div 2] \in Char
    BY <2>1
  <2>3. \/ encode(name)[k] = a + Quotient(name[(k + 1) \div 2])
        \/ encode(name)[k] = a + Remainder(name[(k + 1) \div 2])
    BY DEF encode
  <2>4. /\ a + Quotient(name[(k + 1) \div 2]) \in 89 .. 104
        /\ a + Remainder(name[(k + 1) \div 2]) \in 82 .. 112
    BY <2>2, Letters, Zenon
  <2>5. \A l \in 82 .. 112 : l \in Char \ WhiteSpace
    BY DEF Char, WhiteSpace
  <2>6. \A l \in 89 .. 104 : l \in 82 .. 112
    OBVIOUS
  <2>7. encode(name)[k] \in 82 .. 112
    BY <2>3, <2>4, <2>6, Zenon
  <2> QED
    BY <2>5, <2>7, Zenon
<1>3. encode(name) \in [1 .. 2 * Len(name) -> Char \ WhiteSpace]
  BY <1>2 DEF encode
<1> QED
  BY <1>1, <1>3

\* A name is one word of the directory's text, whatever its bytes are: a blank or a line
\* break in a name does not end it when find, readdir and unlink read it with >>.
THEOREM NamesAreWords ==
    \A name \in Seq(Char) : encode(name) \in Seq(Char \ WhiteSpace)
BY EncodedLength

\* Reading a name gives back the name that addfile has written, bytes above 127 included.
THEOREM NamesAreKept ==
    \A name \in Seq(Char) : uncode(encode(name)) = name
<1>1. SUFFICES ASSUME NEW name \in Seq(Char)
               PROVE  uncode(encode(name)) = name
  OBVIOUS
<1>2. Len(name) \in Nat /\ Len(encode(name)) = 2 * Len(name)
  BY EncodedLength
<1>3. Len(encode(name)) \div 2 = Len(name)
  BY <1>2
<1>4. ASSUME NEW k \in 1 .. Len(name)
      PROVE  (encode(name)[2 * k - 1] - a) * 16 + encode(name)[2 * k] - a = name[k]
  <2>1. /\ 2 * k - 1 \in 1 .. 2 * Len(name)
        /\ (2 * k - 1) % 2 = 1
        /\ (2 * k - 1 + 1) \div 2 = k
    BY <1>2
  <2>2. /\ 2 * k \in 1 .. 2 * Len(name)
        /\ (2 * k) % 2 = 0
        /\ (2 * k + 1) \div 2 = k
    BY <1>2
  <2>3. encode(name)[2 * k - 1] = a + Quotient(name[k])
    BY <2>1 DEF encode
  <2>4. encode(name)[2 * k] = a + Remainder(name[k])
    BY <2>2 DEF encode
  <2>5. name[k] \in Char
    BY <1>2
  <2>6. Quotient(name[k]) \in Int
    BY <2>5, Letters, Zenon
  <2>7. ((a + Quotient(name[k])) - a) * 16 + (a + Remainder(name[k])) - a = name[k]
    BY <2>5, <2>6, LettersGiveByte
  <2> QED
    BY <2>3, <2>4, <2>7, Zenon
<1>5. uncode(encode(name)) = [k \in 1 .. Len(name) |-> name[k]]
  BY <1>3, <1>4, Zenon DEF uncode
<1>6. name = [k \in 1 .. Len(name) |-> name[k]]
  OBVIOUS
<1> QED
  BY <1>5, <1>6

=============================================================================
