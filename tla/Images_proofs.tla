---------------------------- MODULE Images_proofs ----------------------------
(* What the recogniser makes of images.  ImageMessage, for a byte of any      *)
(* number of values, any bodies, any images and any memory: what this code    *)
(* wrote is read as it was, and of any body the sizes that are accepted are   *)
(* the body's, and the contents are for as far as it goes.                    *)
(* Preflight, for any number of places, any pixels and any threshold: what    *)
(* focus keeps.                                                               *)
EXTENDS MCNative, JzonParser_proofs, SequenceLemmas, FiniteSetTheorems, TLAPS

-----------------------------------------------------------------------------
(* Numbers, quotients and remainders.                                         *)

\* Products: the provers multiply, but do not compare products by themselves.
LEMMA Monotone == \A a, b \in Nat, c \in Nat : a <= b => a * c <= b * c /\ c * a <= c * b
  OBVIOUS

\* A product of numbers is a number.
LEMMA ProductNat == \A a, b \in Nat : a * b \in Nat
  OBVIOUS

\* A number has one quotient and one remainder.
LEMMA Unique ==
    ASSUME NEW d \in Nat, d > 0, NEW p \in Int, NEW q \in Int, NEW r \in 0 .. d - 1, NEW s \in 0 .. d - 1,
           p * d + r = q * d + s
    PROVE  p = q /\ r = s
<1>1. ASSUME NEW a \in Int, NEW b \in Int, NEW x \in 0 .. d - 1, NEW y \in 0 .. d - 1, a > b
      PROVE a * d + x > b * d + y
  <2>1. PICK k \in Nat : a = b + 1 + k
    <3>1. a - b - 1 \in Nat /\ a = b + 1 + (a - b - 1)
      BY <1>1
    <3> QED
      BY <3>1
  <2>2. a * d = b * d + d + k * d
    BY <2>1
  <2>3. k * d \in Nat
    BY ProductNat
  <2> QED
    BY <2>2, <2>3
<1>2. ~(p > q)
  BY <1>1
<1>3. ~(q > p)
  BY <1>1
<1> QED
  BY <1>2, <1>3

\* Quotient and remainder of a number that is written with them.
LEMMA Division ==
    ASSUME NEW d \in Nat, d > 0, NEW q \in Int, NEW r \in 0 .. d - 1
    PROVE  (q * d + r) \div d = q /\ (q * d + r) % d = r
<1> DEFINE n == q * d + r
<1>1. n \in Int
  OBVIOUS
<1>2. n = (n \div d) * d + (n % d) /\ n \div d \in Int /\ n % d \in 0 .. d - 1
  <2> HIDE DEF n
  <2> QED
  BY <1>1
<1>3. (n \div d) * d + (n % d) = q * d + r
  BY <1>2
<1> QED
  BY <1>2, <1>3, Unique

-----------------------------------------------------------------------------
(* Words and their bytes.                                                     *)

\* The word of four bytes.
WordOf(a, b, c, d) == a * (Radix * Radix * Radix) + b * (Radix * Radix) + c * Radix + d

\* Word is a number.
LEMMA RadixIsNat == Radix \in Nat /\ Radix > 0 /\ Word \in Nat
  BY RadixAssumption, ProductNat DEF Word

\* One more digit, behind a number of fewer digits.
LEMMA Digit ==
    ASSUME NEW m \in Nat, NEW a \in 0 .. m - 1, NEW b \in Byte
    PROVE  a * Radix + b \in 0 .. m * Radix - 1
<1>1. PICK k \in Nat : m = a + 1 + k
  <2>1. m - a - 1 \in Nat /\ m = a + 1 + (m - a - 1)
    OBVIOUS
  <2> QED
    BY <2>1
<1>2. m * Radix = a * Radix + Radix + k * Radix
  BY <1>1, RadixIsNat
<1>3. k * Radix \in Nat /\ a * Radix \in Nat /\ b \in Nat /\ b < Radix
  BY RadixIsNat, ProductNat DEF Byte
<1> QED
  BY <1>2, <1>3, RadixIsNat

\* Four bytes make a word, and are the bytes that are written for it.
LEMMA WordOfBytes ==
    ASSUME NEW a \in Byte, NEW b \in Byte, NEW c \in Byte, NEW d \in Byte
    PROVE  /\ WordOf(a, b, c, d) \in 0 .. Word - 1
           /\ WriteBEInt32(WordOf(a, b, c, d)) = <<a, b, c, d>>
<1>1. PICK r2 \in Nat, r3 \in Nat : r2 = Radix * Radix /\ r3 = r2 * Radix
  BY RadixIsNat, ProductNat
<1>2. PICK x \in Nat, y \in Nat, z \in Nat :
        /\ x = a * Radix + b /\ x \in 0 .. r2 - 1
        /\ y = x * Radix + c /\ y \in 0 .. r3 - 1
        /\ z = y * Radix + d /\ z \in 0 .. r3 * Radix - 1
  <2>1. PICK x : x = a * Radix + b /\ x \in 0 .. Radix * Radix - 1
    BY Digit, RadixIsNat DEF Byte
  <2>2. x \in 0 .. r2 - 1
    BY <1>1, <2>1
  <2>3. PICK y : y = x * Radix + c /\ y \in 0 .. r3 - 1
    BY <1>1, <2>2, Digit
  <2>4. PICK z : z = y * Radix + d /\ z \in 0 .. r3 * Radix - 1
    BY <2>3, Digit
  <2> QED
    BY <2>1, <2>2, <2>3, <2>4
<1>3. z = WordOf(a, b, c, d) /\ r3 * Radix = Word
  <2>1. y = a * r2 + b * Radix + c
    BY <1>1, <1>2, RadixIsNat DEF Byte
  <2>2. z = a * r3 + b * r2 + c * Radix + d
    BY <1>1, <1>2, <2>1, RadixIsNat DEF Byte
  <2>3. r3 = Radix * Radix * Radix
    BY <1>1
  <2> QED
    BY <1>1, <2>2, <2>3 DEF WordOf, Word
<1>4. z % Radix = d /\ z \div Radix = y
  BY <1>2, Division, RadixIsNat DEF Byte
<1>5. (z \div Radix) % Radix = c /\ y \div Radix = x
  BY <1>2, <1>4, Division, RadixIsNat DEF Byte
<1>6. (z \div r2) % Radix = b
  <2>1. PICK u \in Nat : u = c * Radix + d /\ u \in 0 .. r2 - 1
    BY <1>1, Digit, RadixIsNat DEF Byte
  <2>2. z = x * r2 + u
    BY <1>1, <1>2, <2>1, RadixIsNat DEF Byte
  <2>3. z \div r2 = x
    BY <2>1, <2>2, Division
  <2>4. (a * Radix + b) % Radix = b
    BY Division, RadixIsNat DEF Byte
  <2> QED
    BY <1>2, <2>3, <2>4
<1>7. (z \div r3) % Radix = a
  <2>1. PICK u \in Nat : u = b * Radix + c /\ u \in 0 .. r2 - 1
    BY <1>1, Digit, RadixIsNat DEF Byte
  <2>2. PICK v \in Nat : v = u * Radix + d /\ v \in 0 .. r3 - 1
    BY <1>1, <2>1, Digit
  <2>3. z = a * r3 + v
    BY <1>1, <1>2, <2>1, <2>2, RadixIsNat DEF Byte
  <2>4. z \div r3 = a
    <3>1. r3 > 0 /\ a \in Int
      BY <2>2 DEF Byte
    <3>2. (a * r3 + v) \div r3 = a
      BY <2>2, <3>1, Division
    <3> QED
      BY <2>3, <3>2
  <2>5. (0 * Radix + a) % Radix = a
    BY Division, RadixIsNat DEF Byte
  <2>6. 0 * Radix + a = a
    BY RadixIsNat DEF Byte
  <2> QED
    BY <2>4, <2>5, <2>6
<1>8. WriteBEInt32(z) = <<a, b, c, d>>
  BY <1>1, <1>4, <1>5, <1>6, <1>7 DEF WriteBEInt32
<1> QED
  BY <1>2, <1>3, <1>8

\* Every word is made of four bytes.
LEMMA BytesOfWord ==
    ASSUME NEW n \in 0 .. Word - 1
    PROVE  \E a, b, c, d \in Byte : n = WordOf(a, b, c, d)
<1>1. \A m \in Nat, k \in Nat : m \in 0 .. k * Radix - 1 =>
         /\ m \div Radix \in 0 .. k - 1 /\ m % Radix \in Byte
         /\ m = (m \div Radix) * Radix + (m % Radix)
  <2> SUFFICES ASSUME NEW m \in Nat, NEW k \in Nat, m \in 0 .. k * Radix - 1
               PROVE  /\ m \div Radix \in 0 .. k - 1 /\ m % Radix \in Byte
                      /\ m = (m \div Radix) * Radix + (m % Radix)
    OBVIOUS
  <2>1. /\ m \div Radix \in Nat /\ m % Radix \in Byte
        /\ m = (m \div Radix) * Radix + (m % Radix)
    BY RadixIsNat DEF Byte
  <2>2. PICK q \in Nat : q = m \div Radix
    BY <2>1
  <2>3. ~(q >= k)
    <3>1. q >= k => q * Radix >= k * Radix
      BY Monotone, RadixIsNat
    <3> QED
      BY <2>1, <2>2, <3>1, RadixIsNat DEF Byte
  <2> QED
    BY <2>1, <2>2, <2>3
<1>2. PICK r2 \in Nat, r3 \in Nat : r2 = Radix * Radix /\ r3 = r2 * Radix /\ Word = r3 * Radix
  BY RadixIsNat, ProductNat DEF Word
<1>3. PICK y \in Nat, d \in Byte : y \in 0 .. r3 - 1 /\ n = y * Radix + d
  BY <1>1, <1>2
<1>4. PICK x \in Nat, c \in Byte : x \in 0 .. r2 - 1 /\ y = x * Radix + c
  BY <1>1, <1>2, <1>3
<1>5. PICK a \in Byte, b \in Byte : x = a * Radix + b
  BY <1>1, <1>2, <1>4, RadixIsNat DEF Byte
<1>6. y = a * r2 + b * Radix + c
  BY <1>2, <1>4, <1>5, RadixIsNat DEF Byte
<1>7. n = a * r3 + b * r2 + c * Radix + d
  BY <1>2, <1>3, <1>6, RadixIsNat DEF Byte
<1>8. r3 = Radix * Radix * Radix
  BY <1>2
<1> QED
  BY <1>2, <1>7, <1>8 DEF WordOf

-----------------------------------------------------------------------------
(* Integers of the two programs.                                              *)

\* The limits of an int, in units of the smallest word there is (2^4).
LEMMA MaxIntProperties ==
    /\ MaxInt \in Nat /\ Word \in Nat /\ MaxInt < Word /\ Word >= 16 /\ MaxInt >= 7
<1>1. PICK r2 \in Nat : r2 = Radix * Radix /\ r2 >= 4
  <2>1. Radix * Radix >= 2 * Radix
    BY RadixAssumption, Monotone
  <2> QED
    BY <2>1, RadixAssumption, ProductNat
<1>2. PICK r4 \in Nat : r4 = r2 * r2 /\ r4 >= 16
  <2>1. r2 * r2 >= 4 * r2
    BY <1>1, Monotone
  <2> QED
    BY <1>1, <2>1, ProductNat
<1>3. Word = r4
  BY <1>1, <1>2, RadixIsNat DEF Word
<1> QED
  BY <1>2, <1>3 DEF MaxInt

\* An int is in its range, and is the word if that fits.
LEMMA AsIntProperties ==
    ASSUME NEW w \in 0 .. Word - 1
    PROVE  /\ AsInt(w) \in MaxInt + 1 - Word .. MaxInt
           /\ AsInt(w) >= 0 \/ w <= MaxInt => AsInt(w) = w
  BY MaxIntProperties DEF AsInt

\* So is a sum of ints.
LEMMA WrappedProperties ==
    ASSUME NEW n \in Int
    PROVE  /\ Wrapped(n) \in MaxInt + 1 - Word .. MaxInt
           /\ n \in 0 .. MaxInt => Wrapped(n) = n
<1>1. n % Word \in 0 .. Word - 1
  BY MaxIntProperties
<1>2. ASSUME n \in 0 .. MaxInt PROVE n % Word = n
  <2>1. (0 * Word + n) % Word = n
    BY <1>2, Division, MaxIntProperties
  <2>2. 0 * Word + n = n
    BY MaxIntProperties
  <2> QED
    BY <2>1, <2>2
<1> QED
  BY <1>1, <1>2, AsIntProperties DEF Wrapped

\* writeBEInt32 writes four bytes.
LEMMA WriteTyped ==
    ASSUME NEW n \in Int
    PROVE  WriteBEInt32(n) \in Seq(Byte) /\ Len(WriteBEInt32(n)) = 4
<1>1. \A m \in Int : m % Radix \in Byte
  BY RadixIsNat DEF Byte
<1>2. PICK r2 \in Nat, r3 \in Nat : r2 = Radix * Radix /\ r3 = Radix * Radix * Radix /\ r2 > 0 /\ r3 > 0
  <2>1. Radix * Radix >= 1 * Radix
    BY RadixAssumption, Monotone
  <2>2. PICK r2 \in Nat : r2 = Radix * Radix /\ r2 > 0
    BY <2>1, RadixAssumption, ProductNat
  <2>3. r2 * Radix >= 1 * Radix
    BY <2>2, RadixAssumption, Monotone
  <2> QED
    BY <2>2, <2>3, RadixAssumption, ProductNat
<1>3. PICK a \in Byte, b \in Byte, c \in Byte, d \in Byte : WriteBEInt32(n) = <<a, b, c, d>>
  <2>1. n \div r3 \in Int /\ n \div r2 \in Int /\ n \div Radix \in Int
    BY <1>2, RadixIsNat
  <2> QED
    BY <1>1, <1>2, <2>1 DEF WriteBEInt32
<1> QED
  BY <1>3

\* read yields the number whose bytes are there.
LEMMA ReadWordProperties ==
    ASSUME NEW buffer \in Seq(Byte), NEW offset \in Nat, CanRead(buffer, offset)
    PROVE  /\ ReadWord(buffer, offset) \in 0 .. Word - 1
           /\ WriteBEInt32(ReadWord(buffer, offset)) = SubSeq(buffer, offset + 1, offset + 4)
<1>1. PICK a \in Byte, b \in Byte, c \in Byte, d \in Byte :
        /\ a = buffer[offset + 1] /\ b = buffer[offset + 2]
        /\ c = buffer[offset + 3] /\ d = buffer[offset + 4]
  <2>1. \A k \in 1 .. Len(buffer) : buffer[k] \in Byte
    BY ElementOfSeq
  <2>2. Len(buffer) \in Nat
    BY LenProperties
  <2> QED
    BY <2>1, <2>2 DEF CanRead
<1>2. SubSeq(buffer, offset + 1, offset + 4) = <<a, b, c, d>>
  <2>1. \A k \in offset + 1 .. offset + 4 : buffer[k] \in Byte
    BY <1>1
  <2>2. PICK q : q = SubSeq(buffer, offset + 1, offset + 4)
    OBVIOUS
  <2>3. /\ q \in Seq(Byte) /\ Len(q) = 4
        /\ q[1] = a /\ q[2] = b /\ q[3] = c /\ q[4] = d
    BY <1>1, <2>1, <2>2, SubSeqProperties
  <2>4. PICK t : t = <<a, b, c, d>>
    OBVIOUS
  <2>5. t \in Seq(Byte) /\ Len(t) = 4 /\ t[1] = a /\ t[2] = b /\ t[3] = c /\ t[4] = d
    BY <2>4
  <2>6. \A k \in 1 .. 4 : q[k] = t[k]
    BY <2>3, <2>5
  <2>7. q = t
    BY <2>3, <2>5, <2>6, SeqEqual
  <2> QED
    BY <2>2, <2>4, <2>7
<1>3. ReadWord(buffer, offset) = WordOf(a, b, c, d)
  BY <1>1 DEF ReadWord, WordOf
<1>4. /\ WordOf(a, b, c, d) \in 0 .. Word - 1
      /\ WriteBEInt32(WordOf(a, b, c, d)) = <<a, b, c, d>>
  BY WordOfBytes
<1> QED
  BY <1>2, <1>3, <1>4, Zenon

\* A number that fits a word is read as it was written.
LEMMA ReadIsWritten ==
    ASSUME NEW buffer \in Seq(Byte), NEW offset \in Nat, CanRead(buffer, offset),
           NEW n \in 0 .. Word - 1, SubSeq(buffer, offset + 1, offset + 4) = WriteBEInt32(n)
    PROVE  ReadWord(buffer, offset) = n
<1>1. PICK m \in 0 .. Word - 1 : m = ReadWord(buffer, offset) /\ WriteBEInt32(m) = WriteBEInt32(n)
  BY ReadWordProperties
<1>2. PICK a, b, c, d \in Byte : n = WordOf(a, b, c, d)
  BY BytesOfWord
<1>3. PICK e, f, g, h \in Byte : m = WordOf(e, f, g, h)
  BY BytesOfWord
<1>4. <<a, b, c, d>> = <<e, f, g, h>>
  <2>1. WriteBEInt32(n) = <<a, b, c, d>>
    <3>1. WriteBEInt32(WordOf(a, b, c, d)) = <<a, b, c, d>>
      BY WordOfBytes
    <3> QED
      BY <1>2, <3>1, Zenon
  <2>2. WriteBEInt32(m) = <<e, f, g, h>>
    <3>1. WriteBEInt32(WordOf(e, f, g, h)) = <<e, f, g, h>>
      BY WordOfBytes
    <3> QED
      BY <1>3, <3>1, Zenon
  <2> QED
    BY <1>1, <2>1, <2>2, Zenon
<1>5. a = e /\ b = f /\ c = g /\ d = h
  BY <1>4
<1> QED
  BY <1>1, <1>2, <1>3, <1>5

-----------------------------------------------------------------------------
(* Where the parts of a message are.                                          *)

\* The second of three sequences is where the length of the first says.
LEMMA MiddlePart ==
    ASSUME NEW B, NEW a \in Seq(B), NEW b \in Seq(B), NEW c \in Seq(B)
    PROVE  /\ SubSeq((a \o b) \o c, Len(a) + 1, Len(a) + Len(b)) = b
           /\ Len((a \o b) \o c) = Len(a) + Len(b) + Len(c)
<1>1. PICK m \in Nat, n \in Nat, l \in Nat : m = Len(a) /\ n = Len(b) /\ l = Len(c)
  BY LenProperties
<1>2. PICK s \in Seq(B) : s = a \o b /\ Len(s) = m + n /\ \A k \in 1 .. n : s[m + k] = b[k]
  <2>1. /\ a \o b \in Seq(B) /\ Len(a \o b) = Len(a) + Len(b)
        /\ \A k \in 1 .. Len(a) + Len(b) :
              (a \o b)[k] = IF k <= Len(a) THEN a[k] ELSE b[k - Len(a)]
    BY ConcatProperties
  <2>2. PICK s : s = a \o b
    OBVIOUS
  <2>3. \A k \in 1 .. m + n : s[k] = IF k <= m THEN a[k] ELSE b[k - m]
    BY <1>1, <2>1, <2>2, Zenon
  <2>4. \A k \in 1 .. n : s[m + k] = b[k]
    BY <2>3
  <2> QED
    BY <1>1, <2>1, <2>2, <2>4, Zenon
<1>3. PICK t \in Seq(B) : /\ t = s \o c /\ Len(t) = m + n + l
                          /\ \A k \in 1 .. n : t[m + k] = b[k]
  <2>1. /\ s \o c \in Seq(B) /\ Len(s \o c) = Len(s) + Len(c)
        /\ \A k \in 1 .. Len(s) + Len(c) :
              (s \o c)[k] = IF k <= Len(s) THEN s[k] ELSE c[k - Len(s)]
    BY ConcatProperties
  <2>2. PICK t : t = s \o c
    OBVIOUS
  <2>3. \A k \in 1 .. (m + n) + l : t[k] = IF k <= m + n THEN s[k] ELSE c[k - (m + n)]
    BY <1>1, <1>2, <2>1, <2>2, Zenon
  <2>4. \A k \in 1 .. n : t[m + k] = b[k]
    <3>1. \A k \in 1 .. n : t[m + k] = s[m + k]
      BY <2>3
    <3> QED
      BY <1>2, <3>1, Zenon
  <2> QED
    BY <1>1, <1>2, <2>1, <2>2, <2>4, Zenon
<1>4. \A k \in m + 1 .. m + n : t[k] \in B
  BY <1>1, <1>3, LenProperties, ElementOfSeq
<1>5. PICK u \in Seq(B) : /\ u = SubSeq(t, m + 1, m + n) /\ Len(u) = n
                          /\ \A k \in 1 .. n : u[k] = t[m + k]
  <2>1. /\ SubSeq(t, m + 1, m + n) \in Seq(B)
        /\ Len(SubSeq(t, m + 1, m + n)) = IF m + 1 <= m + n THEN (m + n) - (m + 1) + 1 ELSE 0
        /\ \A k \in 1 .. (m + n) - (m + 1) + 1 : SubSeq(t, m + 1, m + n)[k] = t[(m + 1) + k - 1]
    BY <1>4, SubSeqProperties
  <2>2. PICK u : u = SubSeq(t, m + 1, m + n)
    OBVIOUS
  <2>3. /\ u \in Seq(B) /\ Len(u) = IF m + 1 <= m + n THEN (m + n) - (m + 1) + 1 ELSE 0
        /\ \A k \in 1 .. (m + n) - (m + 1) + 1 : u[k] = t[(m + 1) + k - 1]
    BY <2>1, <2>2, Zenon
  <2>4. Len(u) = n /\ \A k \in 1 .. n : u[k] = t[m + k]
    BY <2>3
  <2> QED
    BY <2>2, <2>3, <2>4
<1>6. \A k \in 1 .. Len(u) : u[k] = b[k]
  BY <1>3, <1>5
<1>7. u = b
  BY <1>1, <1>5, <1>6, SeqEqual
<1> QED
  BY <1>1, <1>2, <1>3, <1>5, <1>7

\* An Append leaves the beginning as it was.
LEMMA FirstOfAppend ==
    ASSUME NEW C, NEW s \in Seq(C), NEW e \in C, NEW k \in 0 .. Len(s)
    PROVE  SubSeq(Append(s, e), 1, k) = SubSeq(s, 1, k)
  OBVIOUS

\* Flattening the first k yields a beginning.
LEMMA FlattenPrefix ==
    ASSUME NEW B, NEW s \in Seq(Seq(B)), NEW k \in 0 .. Len(s)
    PROVE  \E t \in Seq(B) : FlattenSeq(s) = FlattenSeq(SubSeq(s, 1, k)) \o t
<1> DEFINE P == {r \in Seq(Seq(B)) : \A n \in 0 .. Len(r) :
                    \E t \in Seq(B) : FlattenSeq(r) = FlattenSeq(SubSeq(r, 1, n)) \o t}
<1>1. \A r \in Seq(Seq(B)) : \E t \in Seq(B) :
         FlattenSeq(r) = FlattenSeq(SubSeq(r, 1, Len(r))) \o t
  <2>1. TAKE r \in Seq(Seq(B))
  <2>2. SubSeq(r, 1, Len(r)) = r
    BY SubSeqFull
  <2>3. FlattenSeq(r) = FlattenSeq(r) \o <<>> /\ <<>> \in Seq(B)
    BY FlattenTyped, ConcatEmptySeq, EmptySeq
  <2> QED
    BY <2>2, <2>3, Zenon
<1>2. <<>> \in P
  <2>1. <<>> \in Seq(Seq(B)) /\ Len(<<>>) = 0
    BY EmptySeq
  <2>2. \E t \in Seq(B) : FlattenSeq(<<>>) = FlattenSeq(SubSeq(<<>>, 1, 0)) \o t
    BY <1>1, <2>1, Zenon
  <2>3. \A n \in 0 .. 0 : n = 0
    OBVIOUS
  <2> QED
    BY <2>1, <2>2, <2>3, Zenon
<1>3. ASSUME NEW r \in Seq(Seq(B)), NEW e \in Seq(B), r \in P PROVE Append(r, e) \in P
  <2>1. PICK m \in Nat : m = Len(r)
    BY LenProperties
  <2>2. Append(r, e) \in Seq(Seq(B)) /\ Len(Append(r, e)) = m + 1
    BY <2>1, AppendProperties
  <2>3. ASSUME NEW n \in 0 .. m
        PROVE  \E t \in Seq(B) :
                  FlattenSeq(Append(r, e)) = FlattenSeq(SubSeq(Append(r, e), 1, n)) \o t
    <3>1. SubSeq(Append(r, e), 1, n) = SubSeq(r, 1, n)
      BY <2>1, FirstOfAppend
    <3>2. PICK t \in Seq(B) : FlattenSeq(r) = FlattenSeq(SubSeq(r, 1, n)) \o t
      BY <1>3, <2>1, Zenon
    <3>3. SubSeq(r, 1, n) \in Seq(Seq(B))
      BY <2>1, SubSeqProperties, ElementOfSeq
    <3>4. PICK a \in Seq(B) : a = FlattenSeq(SubSeq(r, 1, n))
      BY <3>3, FlattenTyped
    <3>5. (a \o t) \o e = a \o (t \o e) /\ t \o e \in Seq(B)
      BY ConcatAssociative, ConcatProperties
    <3>6. FlattenSeq(Append(r, e)) = FlattenSeq(r) \o e
      BY FlattenAppend
    <3> QED
      BY <3>1, <3>2, <3>4, <3>5, <3>6, Zenon
  <2>4. \E t \in Seq(B) :
           FlattenSeq(Append(r, e)) = FlattenSeq(SubSeq(Append(r, e), 1, m + 1)) \o t
    BY <1>1, <2>2, Zenon
  <2>5. \A n \in 0 .. m + 1 : n \in 0 .. m \/ n = m + 1
    BY <2>1
  <2> QED
    BY <2>2, <2>3, <2>4, <2>5, Zenon
<1>4. Seq(Seq(B)) \subseteq P
  <2> HIDE DEF P
  <2> QED
    BY <1>2, <1>3, SequenceInduction
<1> QED
  BY <1>4

\* The first k are the first k - 1 and the next.
LEMMA FirstAndNext ==
    ASSUME NEW C, NEW s \in Seq(C), NEW k \in 1 .. Len(s)
    PROVE  SubSeq(s, 1, k) = Append(SubSeq(s, 1, k - 1), s[k])
<1>1. Len(s) \in Nat /\ s[k] \in C
  BY LenProperties, ElementOfSeq
<1>2. SubSeq(s, 1, k - 1) \in Seq(C)
  BY <1>1, SubSeqProperties, ElementOfSeq
<1>3. SubSeq(s, 1, k) = SubSeq(s, 1, k - 1) \o <<s[k]>>
  BY <1>1, SubSeqRecursiveSecond
<1>4. Append(SubSeq(s, 1, k - 1), s[k]) = SubSeq(s, 1, k - 1) \o <<s[k]>>
  BY <1>1, <1>2, AppendIsConcat
<1> QED
  BY <1>3, <1>4, Zenon

\* A member of the list is where the lengths of those before it say.
LEMMA PartOfFlatten ==
    ASSUME NEW B, NEW s \in Seq(Seq(B)), NEW k \in 1 .. Len(s)
    PROVE  \E a \in Seq(B), c \in Seq(B) :
              /\ Len(a) = Len(FlattenSeq(SubSeq(s, 1, k - 1)))
              /\ FlattenSeq(s) = Concat(Concat(a, s[k]), c)
<1>1. Len(s) \in Nat /\ s[k] \in Seq(B)
  BY LenProperties, ElementOfSeq
<1>2. SubSeq(s, 1, k - 1) \in Seq(Seq(B))
  BY <1>1, SubSeqProperties, ElementOfSeq
<1>3. SubSeq(s, 1, k) = Append(SubSeq(s, 1, k - 1), s[k])
  BY FirstAndNext
<1>4. PICK a \in Seq(B) : a = FlattenSeq(SubSeq(s, 1, k - 1))
  BY <1>2, FlattenTyped
<1>5. FlattenSeq(Append(SubSeq(s, 1, k - 1), s[k])) = a \o s[k]
  BY <1>1, <1>2, <1>4, FlattenAppend
<1>6. PICK c \in Seq(B) : FlattenSeq(s) = FlattenSeq(SubSeq(s, 1, k)) \o c
  <2>1. k \in 0 .. Len(s)
    BY <1>1
  <2> QED
    BY <2>1, FlattenPrefix, Zenon
<1> QED
  BY <1>3, <1>4, <1>5, <1>6, Zenon DEF Concat

-----------------------------------------------------------------------------
(* The sizes of images.                                                       *)

\* The sizes are as many as the images.
LEMMA SizesTyped ==
    ASSUME NEW ims \in Seq(Seq(Byte))
    PROVE  /\ Sizes(ims) \in Seq(Seq(Byte)) /\ Len(Sizes(ims)) = Len(ims)
           /\ \A k \in 1 .. Len(ims) :
                 Len(ims[k]) \in Nat /\ Sizes(ims)[k] = WriteBEInt32(Len(ims[k]))
<1>1. PICK n \in Nat : n = Len(ims) /\ DOMAIN ims = 1 .. n
  BY LenProperties
<1>2. \A k \in 1 .. n : Len(ims[k]) \in Nat
  BY <1>1, ElementOfSeq, LenProperties
<1>3. \A k \in 1 .. n : WriteBEInt32(Len(ims[k])) \in Seq(Byte)
  BY <1>2, WriteTyped
<1>4. PICK C : C = Seq(Byte)
  OBVIOUS
<1>5. PICK s : s = [k \in 1 .. n |-> WriteBEInt32(Len(ims[k]))]
  OBVIOUS
<1>6. s \in [1 .. n -> C]
  BY <1>3, <1>4, <1>5
<1>7. s \in Seq(C) /\ Len(s) = n
  BY <1>6
<1>8. Sizes(ims) = s
  BY <1>1, <1>5, Zenon DEF Sizes
<1>9. \A k \in 1 .. n : s[k] = WriteBEInt32(Len(ims[k]))
  BY <1>5
<1> QED
  BY <1>1, <1>2, <1>4, <1>7, <1>8, <1>9, Zenon

\* One more image, one more size.
LEMMA SizesAppend ==
    ASSUME NEW ims \in Seq(Seq(Byte)), NEW im \in Seq(Byte)
    PROVE  Sizes(Append(ims, im)) = Append(Sizes(ims), WriteBEInt32(Len(im)))
<1>1. PICK n \in Nat : n = Len(ims)
  BY LenProperties
<1>2. PICK C : C = Seq(Byte)
  OBVIOUS
<1>3. PICK e \in C : e = WriteBEInt32(Len(im))
  BY <1>2, WriteTyped, LenProperties
<1>4. PICK t : t = Append(ims, im)
  OBVIOUS
<1>5. /\ t \in Seq(C) /\ Len(t) = n + 1
      /\ t[n + 1] = im /\ \A k \in 1 .. n : t[k] = ims[k]
  BY <1>1, <1>2, <1>4, AppendProperties
<1>6. PICK s \in Seq(C) : /\ s = Sizes(ims) /\ Len(s) = n
                          /\ \A k \in 1 .. n : s[k] = WriteBEInt32(Len(ims[k]))
  BY <1>1, <1>2, SizesTyped, Zenon
<1>7. PICK u \in Seq(C) : /\ u = Sizes(t) /\ Len(u) = n + 1
                          /\ \A k \in 1 .. n + 1 : u[k] = WriteBEInt32(Len(t[k]))
  <2>1. t \in Seq(Seq(Byte))
    BY <1>2, <1>5
  <2> QED
    <3>1. /\ Sizes(t) \in Seq(Seq(Byte)) /\ Len(Sizes(t)) = Len(t)
          /\ \A k \in 1 .. Len(t) : Sizes(t)[k] = WriteBEInt32(Len(t[k]))
      BY <2>1, SizesTyped
    <3> QED
      BY <1>2, <1>5, <3>1, Zenon
<1>8. PICK v : v = Append(s, e)
  OBVIOUS
<1>9. /\ v \in Seq(C) /\ Len(v) = n + 1
      /\ v[n + 1] = e /\ \A k \in 1 .. n : v[k] = s[k]
  BY <1>6, <1>8, AppendProperties
<1>10. \A k \in 1 .. n + 1 : u[k] = v[k]
  <2>1. ASSUME NEW k \in 1 .. n PROVE u[k] = v[k]
    <3>1. k \in 1 .. n + 1
      OBVIOUS
    <3> QED
      BY <1>5, <1>6, <1>7, <1>9, <3>1, Zenon
  <2>2. u[n + 1] = v[n + 1]
    <3>1. n + 1 \in 1 .. n + 1
      OBVIOUS
    <3> QED
      BY <1>3, <1>5, <1>7, <1>9, <3>1, Zenon
  <2>3. \A k \in 1 .. n + 1 : k \in 1 .. n \/ k = n + 1
    OBVIOUS
  <2> QED
    BY <2>1, <2>2, <2>3, Zenon
<1>11. u = v
  BY <1>7, <1>9, <1>10, SeqEqual
<1> QED
  BY <1>3, <1>4, <1>6, <1>7, <1>8, <1>11, Zenon

\* The sizes of the first n images are the first n sizes.
LEMMA SizesFirst ==
    ASSUME NEW ims \in Seq(Seq(Byte)), NEW n \in 0 .. Len(ims)
    PROVE  /\ SubSeq(ims, 1, n) \in Seq(Seq(Byte)) /\ Len(SubSeq(ims, 1, n)) = n
           /\ Sizes(SubSeq(ims, 1, n)) = SubSeq(Sizes(ims), 1, n)
<1>1. PICK C : C = Seq(Byte)
  OBVIOUS
<1>2. Len(ims) \in Nat /\ ims \in Seq(C)
  BY <1>1, LenProperties
<1>3. PICK t \in Seq(C) : /\ t = SubSeq(ims, 1, n) /\ Len(t) = n
                          /\ \A k \in 1 .. n : t[k] = ims[k]
  <2>1. /\ SubSeq(ims, 1, n) \in Seq(C) /\ Len(SubSeq(ims, 1, n)) = n
        /\ \A k \in 1 .. n : SubSeq(ims, 1, n)[k] = ims[k]
    BY <1>2
  <2> QED
    BY <2>1
<1>4. PICK s \in Seq(C) : /\ s = Sizes(ims) /\ Len(s) = Len(ims)
                          /\ \A k \in 1 .. Len(ims) : s[k] = WriteBEInt32(Len(ims[k]))
  BY <1>1, SizesTyped, Zenon
<1>5. PICK u \in Seq(C) : /\ u = Sizes(t) /\ Len(u) = n
                          /\ \A k \in 1 .. n : u[k] = WriteBEInt32(Len(t[k]))
  <2>1. t \in Seq(Seq(Byte))
    BY <1>1
  <2> QED
    <3>1. /\ Sizes(t) \in Seq(Seq(Byte)) /\ Len(Sizes(t)) = Len(t)
          /\ \A k \in 1 .. Len(t) : Sizes(t)[k] = WriteBEInt32(Len(t[k]))
      BY <2>1, SizesTyped
    <3> QED
      BY <1>1, <1>3, <3>1, Zenon
<1>6. PICK v \in Seq(C) : v = SubSeq(s, 1, n) /\ Len(v) = n /\ \A k \in 1 .. n : v[k] = s[k]
  <2>1. /\ SubSeq(s, 1, n) \in Seq(C) /\ Len(SubSeq(s, 1, n)) = n
        /\ \A k \in 1 .. n : SubSeq(s, 1, n)[k] = s[k]
    BY <1>2, <1>4
  <2> QED
    BY <2>1
<1>7. \A k \in 1 .. n : u[k] = v[k]
  <2>1. TAKE k \in 1 .. n
  <2>2. k \in 1 .. Len(ims)
    BY <1>2
  <2> QED
    BY <1>3, <1>4, <1>5, <1>6, <2>2, Zenon
<1>8. u = v
  BY <1>5, <1>6, <1>7, SeqEqual
<1> QED
  BY <1>1, <1>3, <1>4, <1>5, <1>6, <1>8, Zenon

\* The sizes of n images take 4 * n bytes.
LEMMA SizesLength ==
    ASSUME NEW ims \in Seq(Seq(Byte))
    PROVE  Len(FlattenSeq(Sizes(ims))) = 4 * Len(ims)
<1> DEFINE P == {s \in Seq(Seq(Byte)) : Len(FlattenSeq(Sizes(s))) = 4 * Len(s)}
<1>1. <<>> \in P
  <2>1. <<>> \in Seq(Seq(Byte)) /\ Len(<<>>) = 0
    BY EmptySeq
  <2>2. Sizes(<<>>) \in Seq(Seq(Byte)) /\ Len(Sizes(<<>>)) = 0
    BY <2>1, SizesTyped
  <2>3. Sizes(<<>>) = <<>>
    BY <2>2, EmptySeq
  <2> QED
    BY <2>1, <2>3, FlattenEmpty
<1>2. ASSUME NEW s \in Seq(Seq(Byte)), NEW e \in Seq(Byte), s \in P PROVE Append(s, e) \in P
  <2>1. PICK w \in Seq(Byte) : w = WriteBEInt32(Len(e)) /\ Len(w) = 4
    BY WriteTyped, LenProperties
  <2>2. PICK z \in Seq(Seq(Byte)) : z = Sizes(s)
    BY SizesTyped
  <2>3. FlattenSeq(Sizes(Append(s, e))) = FlattenSeq(z) \o w
    BY <2>1, <2>2, SizesAppend, FlattenAppend, Zenon
  <2>4. PICK y \in Seq(Byte) : y = FlattenSeq(z)
    BY FlattenTyped
  <2>5. Len(y \o w) = Len(y) + 4
    <3>1. Len(y \o w) = Len(y) + Len(w)
      BY ConcatProperties
    <3> QED
      BY <2>1, <3>1
  <2>6. Append(s, e) \in Seq(Seq(Byte)) /\ Len(Append(s, e)) = Len(s) + 1 /\ Len(s) \in Nat
    BY AppendProperties, LenProperties
  <2>7. Len(y) = 4 * Len(s)
    BY <1>2, <2>2, <2>4
  <2>8. Len(FlattenSeq(Sizes(Append(s, e)))) = 4 * Len(s) + 4
    BY <2>3, <2>4, <2>5, <2>7
  <2>9. Len(FlattenSeq(Sizes(Append(s, e)))) = 4 * Len(Append(s, e))
    BY <2>6, <2>8
  <2> QED
    BY <2>6, <2>9
<1>3. Seq(Seq(Byte)) \subseteq P
  <2> HIDE DEF P
  <2> QED
    BY <1>1, <1>2, SequenceInduction
<1> QED
  BY <1>3

-----------------------------------------------------------------------------
(* A message and its parts.                                                   *)

\* An image is a vector of bytes.
Image == Seq(Byte)

\* Images are sequences, with a length.
LEMMA ImageTyped ==
    /\ \A a \in Image : Len(a) \in Nat /\ a \in Seq(Byte)
    /\ \A ims \in Seq(Seq(Byte)) : \A k \in 1 .. Len(ims) : ims[k] \in Image
  BY LenProperties, ElementOfSeq DEF Image

\* Images are joined to an image.
LEMMA ImagesJoined ==
    ASSUME NEW a \in Image, NEW b \in Image
    PROVE  /\ Concat(a, b) \in Image
           /\ Len(a) \in Nat /\ Len(b) \in Nat /\ Len(Concat(a, b)) = Len(a) + Len(b)
  BY ConcatProperties, LenProperties DEF Concat, Image

\* It does not matter in which order they are joined ...
LEMMA Associative ==
    ASSUME NEW a \in Image, NEW b \in Image, NEW c \in Image
    PROVE  Concat(Concat(a, b), c) = Concat(a, Concat(b, c))
<1>1. (a \o b) \o c = a \o (b \o c)
  BY ConcatAssociative DEF Image
<1> QED
  BY <1>1, Zenon DEF Concat

\* ... which brings a part of the middle to the middle.
LEMMA Regroup ==
    ASSUME NEW x \in Image, NEW a \in Image, NEW b \in Image, NEW c \in Image,
           NEW y \in Image
    PROVE  Concat(Concat(x, Concat(Concat(a, b), c)), y)
             = Concat(Concat(Concat(x, a), b), Concat(c, y))
<1>1. /\ Concat(a, b) \in Image /\ Concat(x, a) \in Image /\ Concat(c, y) \in Image
      /\ Concat(Concat(a, b), c) \in Image /\ Concat(Concat(x, a), b) \in Image
  BY ImagesJoined
<1>2. Concat(x, Concat(Concat(a, b), c)) = Concat(Concat(x, Concat(a, b)), c)
  BY <1>1, Associative
<1>3. Concat(x, Concat(a, b)) = Concat(Concat(x, a), b)
  BY Associative
<1>4. Concat(Concat(Concat(Concat(x, a), b), c), y)
        = Concat(Concat(Concat(x, a), b), Concat(c, y))
  BY <1>1, Associative
<1> QED
  BY <1>2, <1>3, <1>4, Zenon

\* The bytes of m, between others, are found at their place.
LEMMA Found ==
    ASSUME NEW s, NEW a \in Image, NEW m \in Image, NEW c \in Image,
           s = Concat(Concat(a, m), c)
    PROVE  /\ SubSeq(s, Len(a) + 1, Len(a) + Len(m)) = m
           /\ Len(a) + Len(m) <= Len(s)
<1>1. /\ SubSeq((a \o m) \o c, Len(a) + 1, Len(a) + Len(m)) = m
      /\ Len((a \o m) \o c) = Len(a) + Len(m) + Len(c)
  BY MiddlePart DEF Image
<1>2. SubSeq(s, Len(a) + 1, Len(a) + Len(m)) = m /\ Len(s) = Len(a) + Len(m) + Len(c)
  BY <1>1, Zenon DEF Concat
<1> QED
  BY <1>2, ImageTyped

\* The magic number has four bytes.
LEMMA MagicTyped == Magic \in Image /\ Len(Magic) = 4
<1>1. PICK n \in Nat : n = 4
  OBVIOUS
<1>2. PICK C : C = Byte
  OBVIOUS
<1>3. PICK m : m = Magic
  OBVIOUS
<1>4. m \in [1 .. n -> C]
  BY <1>1, <1>2, <1>3, MagicAssumption
<1>5. m \in Seq(C) /\ Len(m) = n
  BY <1>4
<1> QED
  BY <1>1, <1>2, <1>3, <1>5 DEF Image

\* The parts of a message: header, sizes, images.
LEMMA WrittenContents ==
    ASSUME NEW ims \in Seq(Seq(Byte))
    PROVE  \E h \in Image, z \in Image, f \in Image :
              /\ h = Concat(Magic, WriteBEInt32(Len(ims))) /\ Len(h) = 8
              /\ z = FlattenSeq(Sizes(ims)) /\ Len(z) = 4 * Len(ims)
              /\ f = FlattenSeq(ims)
              /\ WriteAmqpBytes(ims) = Concat(Concat(h, z), f)
<1>1. PICK w \in Image : w = WriteBEInt32(Len(ims)) /\ Len(w) = 4
  BY WriteTyped, LenProperties DEF Image
<1>2. PICK z \in Image : z = FlattenSeq(Sizes(ims)) /\ Len(z) = 4 * Len(ims)
  BY SizesTyped, FlattenTyped, SizesLength DEF Image
<1>3. PICK f \in Image : f = FlattenSeq(ims)
  BY FlattenTyped DEF Image
<1>4. Concat(Magic, w) \in Image /\ Len(Concat(Magic, w)) = Len(Magic) + Len(w)
  BY MagicTyped, ImagesJoined
<1>5. Len(Concat(Magic, w)) = 8
  BY <1>1, <1>4, MagicTyped
<1>6. WriteAmqpBytes(ims) = Concat(Concat(Concat(Magic, w), z), f)
  BY <1>1, <1>2, <1>3, Zenon DEF WriteAmqpBytes, Concat
<1> QED
  BY <1>1, <1>2, <1>3, <1>4, <1>5, <1>6, Zenon

\* A message is an image, in the sense of bytes, of this length.
LEMMA WriteProperties ==
    ASSUME NEW ims \in Seq(Seq(Byte))
    PROVE  /\ WriteAmqpBytes(ims) \in Image
           /\ Len(WriteAmqpBytes(ims)) = 8 + 4 * Len(ims) + Len(FlattenSeq(ims))
<1>1. PICK h \in Image, z \in Image, f \in Image :
        /\ Len(h) = 8 /\ Len(z) = 4 * Len(ims) /\ f = FlattenSeq(ims)
        /\ WriteAmqpBytes(ims) = Concat(Concat(h, z), f)
  BY WrittenContents, Zenon
<1>2. Concat(h, z) \in Image /\ Len(Concat(h, z)) = Len(h) + Len(z)
  BY ImagesJoined
<1>3. /\ Concat(Concat(h, z), f) \in Image
      /\ Len(Concat(Concat(h, z), f)) = Len(Concat(h, z)) + Len(f)
  BY <1>2, ImagesJoined
<1>4. Len(Concat(Concat(h, z), f)) = 8 + 4 * Len(ims) + Len(f)
  BY <1>1, <1>2, <1>3
<1> QED
  BY <1>1, <1>3, <1>4, Zenon

\* A message begins with its magic number and its count ...
LEMMA WrittenHeader ==
    ASSUME NEW ims \in Seq(Seq(Byte)), NEW b, b = WriteAmqpBytes(ims)
    PROVE  SubSeq(b, 1, 4) = Magic /\ SubSeq(b, 5, 8) = WriteBEInt32(Len(ims))
<1>1. PICK h \in Image, z \in Image, f \in Image :
        /\ h = Concat(Magic, WriteBEInt32(Len(ims)))
        /\ WriteAmqpBytes(ims) = Concat(Concat(h, z), f)
  BY WrittenContents, Zenon
<1>2. PICK w \in Image : w = WriteBEInt32(Len(ims)) /\ Len(w) = 4
  BY WriteTyped, LenProperties DEF Image
<1>3. PICK y \in Image : y = Concat(z, f)
  BY ImagesJoined
<1>4. Concat(Magic, w) \in Image /\ Magic \in Image
  BY MagicTyped, ImagesJoined
<1>5. Concat(Concat(Concat(Magic, w), z), f) = Concat(Concat(Magic, w), Concat(z, f))
  BY <1>4, Associative
<1>6. b = Concat(Concat(Magic, w), y)
  BY <1>1, <1>2, <1>3, <1>5, Zenon
<1>7. SubSeq(b, Len(Magic) + 1, Len(Magic) + Len(w)) = w /\ Len(Magic) + Len(w) <= Len(b)
  BY <1>4, <1>6, Found
<1>8. PICK x \in Image : x = <<>> /\ Len(x) = 0
  BY EmptySeq DEF Image
<1>9. Concat(x, Magic) = Magic
  BY <1>4, <1>8, ConcatEmptySeq DEF Concat, Image
<1>10. PICK v \in Image : v = Concat(w, y)
  BY ImagesJoined
<1>11. Concat(Concat(Magic, w), y) = Concat(Magic, Concat(w, y))
  BY <1>4, Associative
<1>12. b = Concat(Concat(x, Magic), v)
  BY <1>6, <1>9, <1>10, <1>11, Zenon
<1>13. SubSeq(b, Len(x) + 1, Len(x) + Len(Magic)) = Magic /\ Len(x) + Len(Magic) <= Len(b)
  BY <1>4, <1>12, Found
<1>14. SubSeq(b, 0 + 1, 0 + 4) = Magic /\ SubSeq(b, 4 + 1, 4 + 4) = w
  BY <1>2, <1>7, <1>8, <1>13, MagicTyped, Zenon
<1>15. 0 + 1 = 1 /\ 0 + 4 = 4 /\ 4 + 1 = 5 /\ 4 + 4 = 8
  OBVIOUS
<1> QED
  BY <1>2, <1>14, <1>15, Zenon

\* ... size k is where the constructor reads it ...
LEMMA WrittenSize ==
    ASSUME NEW ims \in Seq(Seq(Byte)), NEW b, b = WriteAmqpBytes(ims), NEW k \in 1 .. Len(ims)
    PROVE  SubSeq(b, 4 + 4 * k + 1, 4 + 4 * k + 4) = WriteBEInt32(Len(ims[k]))
<1>1. PICK h \in Image, z \in Image, f \in Image :
        /\ Len(h) = 8 /\ z = FlattenSeq(Sizes(ims))
        /\ WriteAmqpBytes(ims) = Concat(Concat(h, z), f)
  BY WrittenContents, Zenon
<1>2. PICK s \in Seq(Seq(Byte)) :
        s = Sizes(ims) /\ Len(s) = Len(ims) /\ s[k] = WriteBEInt32(Len(ims[k]))
  BY SizesTyped, Zenon
<1>3. PICK m \in Image : m = WriteBEInt32(Len(ims[k])) /\ Len(m) = 4
  <2>1. Len(ims[k]) \in Nat
    BY SizesTyped
  <2> QED
    BY <2>1, WriteTyped DEF Image
<1>4. Len(FlattenSeq(SubSeq(s, 1, k - 1))) = 4 * (k - 1)
  <2>1. k - 1 \in 0 .. Len(ims)
    BY LenProperties
  <2>2. PICK t : t = SubSeq(ims, 1, k - 1)
    OBVIOUS
  <2>3. t \in Seq(Seq(Byte)) /\ Len(t) = k - 1 /\ Sizes(t) = SubSeq(Sizes(ims), 1, k - 1)
    BY <2>1, <2>2, SizesFirst
  <2>4. Len(FlattenSeq(Sizes(t))) = 4 * Len(t)
    BY <2>3, SizesLength
  <2> QED
    BY <1>2, <2>3, <2>4, Zenon
<1>5. PICK a \in Image, c \in Image : Len(a) = 4 * (k - 1) /\ z = Concat(Concat(a, m), c)
  <2>1. k \in 1 .. Len(s)
    BY <1>2
  <2>2. PICK a \in Seq(Byte), c \in Seq(Byte) :
          /\ Len(a) = Len(FlattenSeq(SubSeq(s, 1, k - 1)))
          /\ FlattenSeq(s) = Concat(Concat(a, s[k]), c)
    BY <2>1, PartOfFlatten
  <2> QED
    BY <1>1, <1>2, <1>3, <1>4, <2>2, Zenon DEF Image
<1>6. b = Concat(Concat(Concat(h, a), m), Concat(c, f))
  <2>1. Concat(Concat(h, Concat(Concat(a, m), c)), f)
          = Concat(Concat(Concat(h, a), m), Concat(c, f))
    BY Regroup
  <2> QED
    BY <1>1, <1>5, <2>1, Zenon
<1>7. PICK x \in Image, y \in Image :
        x = Concat(h, a) /\ y = Concat(c, f) /\ Len(x) = Len(h) + Len(a)
  BY ImagesJoined
<1>8. SubSeq(b, Len(x) + 1, Len(x) + Len(m)) = m /\ Len(x) + Len(m) <= Len(b)
  <2>1. b = Concat(Concat(x, m), y)
    BY <1>6, <1>7, Zenon
  <2> QED
    BY <2>1, Found
<1>9. Len(x) = 4 + 4 * k
  BY <1>1, <1>5, <1>7
<1> QED
  BY <1>3, <1>8, <1>9, Zenon

\* ... and image k is behind those before it.
LEMMA WrittenImage ==
    ASSUME NEW ims \in Seq(Seq(Byte)), NEW b, b = WriteAmqpBytes(ims), NEW k \in 1 .. Len(ims),
           NEW p, p = 8 + 4 * Len(ims) + Len(FlattenSeq(SubSeq(ims, 1, k - 1)))
    PROVE  /\ SubSeq(b, p + 1, p + Len(ims[k])) = ims[k]
           /\ p + Len(ims[k]) <= Len(b)
<1>1. PICK h \in Image, z \in Image, f \in Image :
        /\ Len(h) = 8 /\ Len(z) = 4 * Len(ims) /\ f = FlattenSeq(ims)
        /\ WriteAmqpBytes(ims) = Concat(Concat(h, z), f)
  BY WrittenContents, Zenon
<1>2. PICK m \in Image : m = ims[k]
  BY ImageTyped
<1>3. PICK a \in Image, c \in Image :
        Len(a) = Len(FlattenSeq(SubSeq(ims, 1, k - 1))) /\ f = Concat(Concat(a, m), c)
  <2>1. PICK a \in Seq(Byte), c \in Seq(Byte) :
          /\ Len(a) = Len(FlattenSeq(SubSeq(ims, 1, k - 1)))
          /\ FlattenSeq(ims) = Concat(Concat(a, ims[k]), c)
    BY PartOfFlatten
  <2> QED
    BY <1>1, <1>2, <2>1, Zenon DEF Image
<1>4. PICK x \in Image : x = Concat(h, z) /\ Len(x) = Len(h) + Len(z)
  BY ImagesJoined
<1>5. PICK y \in Image : y = Concat(x, a) /\ Len(y) = Len(x) + Len(a)
  BY ImagesJoined
<1>6. b = Concat(Concat(y, m), c)
  <2>1. Concat(a, m) \in Image
    BY ImagesJoined
  <2>2. Concat(Concat(x, Concat(a, m)), c) = Concat(x, Concat(Concat(a, m), c))
    BY <2>1, Associative
  <2>3. Concat(Concat(x, a), m) = Concat(x, Concat(a, m))
    BY Associative
  <2> QED
    BY <1>1, <1>3, <1>4, <1>5, <2>2, <2>3, Zenon
<1>7. SubSeq(b, Len(y) + 1, Len(y) + Len(m)) = m /\ Len(y) + Len(m) <= Len(b)
  BY <1>6, Found
<1>8. Len(y) = p
  BY <1>1, <1>3, <1>4, <1>5
<1> QED
  BY <1>2, <1>7, <1>8, Zenon

-----------------------------------------------------------------------------
(* The inductive invariant.                                                   *)

\* The images ims, n of them, have the sizes that b says.
ReadSoFar(b, ims, n) ==
    /\ ims \in Seq(Seq(Byte)) /\ n = Len(ims) /\ 8 + 4 * n <= Len(b)
    /\ FlattenSeq(Sizes(ims)) = SubSeq(b, 9, 8 + 4 * n)

\* The bytes f are those of b from s on, for as far as b goes; the next come
\* from d, unless the end of b is passed.
ContentsSoFar(b, f, s, d) ==
    /\ \A k \in 1 .. Len(f) : s + k <= Len(b) => f[k] = b[s + k]
    /\ d = s + Len(f) \/ s + Len(f) > Len(b)

\* The contents begin behind the sizes, if they begin where an int can say.
ContentsInv ==
    8 + 4 * count \in 0 .. MaxInt =>
        ContentsSoFar(body, FlattenSeq(images), 8 + 4 * count, dataStart)

\* What was read so far is what the body says, as far as it was read.
BodyInv ==
    /\ reading = "header" => i = 0 /\ images = <<>>
    /\ reading \in {"images", "read", "served"} =>
          /\ CanRead(body, 4) /\ SubSeq(body, 1, 4) = Magic
          /\ count = AsInt(ReadWord(body, 4))
          /\ ReadSoFar(body, images, i)
          /\ ContentsInv
          /\ i # 0 => i <= count
          /\ reading # "images" => i >= count

\* What this code wrote is read image by image, to the end.
WrittenInv ==
    written # NotOurs =>
        /\ written \in Seq(Seq(Byte)) /\ body = WriteAmqpBytes(written)
        /\ reading \in {"images", "read", "served"} =>
              count = Len(written) /\ i <= count /\ images = SubSeq(written, 1, i)
        /\ reading \notin {"rejected", "crashed"}
        /\ reading = "headless" => written = <<>>

MessageInv == MessageTypeOK /\ BodyInv /\ WrittenInv

\* A message of no images, and a range of no bytes.
LEMMA NoImages ==
    /\ <<>> \in Seq(Seq(Byte)) /\ Len(<<>>) = 0 /\ Sizes(<<>>) = <<>> /\ FlattenSeq(<<>>) = <<>>
    /\ \A s, m : m \in Int => SubSeq(s, m + 1, m) = <<>>
<1>1. <<>> \in Seq(Seq(Byte)) /\ Len(<<>>) = 0
  BY EmptySeq
<1>2. Sizes(<<>>) \in Seq(Seq(Byte)) /\ Len(Sizes(<<>>)) = 0
  BY <1>1, SizesTyped
<1>3. Sizes(<<>>) = <<>>
  BY <1>2, EmptySeq
<1>4. ASSUME NEW s, NEW m \in Int PROVE SubSeq(s, m + 1, m) = <<>>
  <2>1. m < m + 1 /\ m + 1 \in Int
    OBVIOUS
  <2> QED
    BY <2>1, SubSeqEmpty
<1> QED
  BY <1>1, <1>3, <1>4, FlattenEmpty

\* The encoder of one image, in Scala, writes what writeAmqpBytes would.
LEMMA SingleImageWritten ==
    ASSUME NEW image \in Seq(Byte)
    PROVE  /\ <<image>> \in Seq(Seq(Byte)) /\ SingleImage(image) = WriteAmqpBytes(<<image>>)
           /\ Len(SingleImage(image)) = 12 + Len(image)
<1>1. PICK one : one = <<image>>
  OBVIOUS
<1>2. one \in Seq(Seq(Byte)) /\ Len(one) = 1 /\ one = Append(<<>>, image)
  BY <1>1
<1>3. PICK w \in Seq(Byte) : w = WriteBEInt32(Len(image))
  BY WriteTyped, LenProperties
<1>4. <<>> \o w = w /\ <<>> \o image = image
  BY ConcatEmptySeq
<1>5. Sizes(one) = Append(<<>>, w)
  BY <1>2, <1>3, NoImages, SizesAppend
<1>6. FlattenSeq(Append(<<>>, w)) = FlattenSeq(<<>>) \o w
  BY NoImages, FlattenAppend
<1>7. FlattenSeq(Append(<<>>, image)) = FlattenSeq(<<>>) \o image
  BY NoImages, FlattenAppend
<1>8. FlattenSeq(Sizes(one)) = w /\ FlattenSeq(one) = image
  BY <1>2, <1>4, <1>5, <1>6, <1>7, FlattenEmpty, Zenon
<1>9. SingleImage(image) = WriteAmqpBytes(one)
  BY <1>2, <1>3, <1>8, Zenon DEF SingleImage, WriteAmqpBytes
<1>10. Len(WriteAmqpBytes(one)) = 8 + 4 * Len(one) + Len(FlattenSeq(one))
  BY <1>2, WriteProperties
<1>11. Len(WriteAmqpBytes(one)) = 12 + Len(image)
  BY <1>2, <1>8, <1>10, LenProperties
<1> QED
  BY <1>1, <1>2, <1>9, <1>11, Zenon

\* A body that arrives is in one of two ways what the invariant says.
LEMMA MessageInitInv == MessageInit => MessageInv
<1> SUFFICES ASSUME MessageInit PROVE MessageInv
  OBVIOUS
<1>1. /\ count = 0 /\ i = 0 /\ dataStart = 0 /\ images = <<>> /\ reading = "header" /\ writes = 0
  BY DEF MessageInit
<1>2. /\ body \in Seq(Byte) /\ Len(body) <= MaxInt
      /\ written # NotOurs => written \in Seq(Seq(Byte)) /\ body = WriteAmqpBytes(written)
  <2>1. CASE body \in Bodies /\ written = NotOurs
    BY <2>1, BodiesAssumption
  <2>2. ASSUME NEW image \in Sent, body = SingleImage(image), written = <<image>>
        PROVE  /\ body \in Seq(Byte) /\ Len(body) <= MaxInt
               /\ written \in Seq(Seq(Byte)) /\ body = WriteAmqpBytes(written)
    <3>1. image \in Seq(Byte) /\ 12 + Len(image) <= MaxInt
      BY SentAssumption
    <3>2. /\ <<image>> \in Seq(Seq(Byte)) /\ SingleImage(image) = WriteAmqpBytes(<<image>>)
          /\ Len(SingleImage(image)) = 12 + Len(image)
      BY <3>1, SingleImageWritten
    <3>3. WriteAmqpBytes(<<image>>) \in Seq(Byte)
      BY <3>2, WriteProperties DEF Image
    <3> QED
      BY <2>2, <3>1, <3>2, <3>3
  <2> QED
    BY <2>1, <2>2 DEF MessageInit
<1>3. MessageTypeOK
  BY <1>1, <1>2, NoImages, MaxIntProperties, WritesAssumption DEF MessageTypeOK
<1>4. BodyInv /\ WrittenInv
  BY <1>1, <1>2 DEF BodyInv, WrittenInv
<1> QED
  BY <1>3, <1>4 DEF MessageInv

-----------------------------------------------------------------------------
(* The steps.                                                                 *)

\* A range of the body.
LEMMA RangeProperties ==
    ASSUME NEW b \in Image, NEW m \in Nat, NEW n \in m .. Len(b)
    PROVE  SubSeq(b, m + 1, n) \in Image /\ Len(SubSeq(b, m + 1, n)) = n - m
<1>1. Len(b) \in Nat /\ b \in Seq(Byte)
  BY ImageTyped
<1>2. \A k \in m + 1 .. n : b[k] \in Byte
  BY <1>1, ElementOfSeq
<1>3. /\ SubSeq(b, m + 1, n) \in Seq(Byte)
      /\ Len(SubSeq(b, m + 1, n)) = IF m + 1 <= n THEN n - (m + 1) + 1 ELSE 0
  BY <1>1, <1>2, SubSeqProperties
<1>4. PICK l : l = Len(SubSeq(b, m + 1, n))
  OBVIOUS
<1>5. l = IF m + 1 <= n THEN n - (m + 1) + 1 ELSE 0
  BY <1>3, <1>4, Zenon
<1>6. l = n - m
  BY <1>1, <1>5
<1> QED
  BY <1>3, <1>4, <1>6, Zenon DEF Image

\* Two ranges of the body that are next to each other.
LEMMA Adjacent ==
    ASSUME NEW b \in Image, NEW m \in Nat, NEW k \in Nat, NEW n \in Nat,
           m <= k, k <= n, n <= Len(b)
    PROVE  SubSeq(b, m + 1, k) \o SubSeq(b, k + 1, n) = SubSeq(b, m + 1, n)
<1>1. Len(b) \in Nat /\ b \in Seq(Byte)
  BY ImageTyped
<1>2. m + 1 \in 1 .. Len(b) + 1 /\ k \in (m + 1) - 1 .. Len(b) /\ n \in k .. Len(b)
  BY <1>1
<1> QED
  BY <1>1, <1>2, ConcatAdjacentSubSeq

\* Adjacent, as a relation.
Adjoin(b, m, k, n) == SubSeq(b, m + 1, k) \o SubSeq(b, k + 1, n) = SubSeq(b, m + 1, n)

\* The same of every body and all ranges.
LEMMA AdjoinParts ==
    \A b \in Image, m \in Nat, k \in Nat, n \in Nat :
       m <= k /\ k <= n /\ n <= Len(b) => Adjoin(b, m, k, n)
  BY Adjacent DEF Adjoin

\* The size of the next image is the next size.
LEMMA OneMoreSize ==
    ASSUME NEW b \in Image, NEW ims, NEW n \in Nat, NEW im \in Seq(Byte),
           ReadSoFar(b, ims, n), CanRead(b, 8 + 4 * n), Len(im) = ReadWord(b, 8 + 4 * n)
    PROVE  ReadSoFar(b, Append(ims, im), n + 1)
<1>1. PICK m \in Nat, e \in Nat, l \in Nat :
        m = 8 + 4 * n /\ e = 8 /\ l = m + 4 /\ l = 8 + 4 * (n + 1) /\ e + 1 = 9
  OBVIOUS
<1>2. l <= Len(b) /\ WriteBEInt32(Len(im)) = SubSeq(b, m + 1, l)
  <2>1. CanRead(b, m) /\ Len(im) = ReadWord(b, m)
    BY <1>1, Zenon
  <2>2. WriteBEInt32(ReadWord(b, m)) = SubSeq(b, m + 1, m + 4)
    BY <2>1, ReadWordProperties, ImageTyped
  <2>3. m + 4 <= Len(b)
    BY <2>1 DEF CanRead
  <2> QED
    BY <1>1, <2>1, <2>2, <2>3, Zenon
<1>3. /\ ims \in Seq(Seq(Byte)) /\ n = Len(ims)
      /\ FlattenSeq(Sizes(ims)) = SubSeq(b, e + 1, m)
  BY <1>1, Zenon DEF ReadSoFar
<1>4. Append(ims, im) \in Seq(Seq(Byte)) /\ Len(Append(ims, im)) = n + 1
  BY <1>3, AppendProperties
<1>5. Adjoin(b, e, m, l)
  <2>1. e <= m /\ m <= l
    BY <1>1
  <2> QED
    BY <1>2, <2>1, AdjoinParts
<1>6. FlattenSeq(Sizes(Append(ims, im))) = SubSeq(b, e + 1, l)
  <2>1. Sizes(Append(ims, im)) = Append(Sizes(ims), WriteBEInt32(Len(im)))
    BY <1>3, SizesAppend
  <2>2. Sizes(ims) \in Seq(Seq(Byte)) /\ WriteBEInt32(Len(im)) \in Seq(Byte)
    BY <1>3, SizesTyped, WriteTyped, LenProperties
  <2>3. FlattenSeq(Append(Sizes(ims), WriteBEInt32(Len(im))))
          = FlattenSeq(Sizes(ims)) \o WriteBEInt32(Len(im))
    BY <2>2, FlattenAppend
  <2> QED
    BY <1>2, <1>3, <1>5, <2>1, <2>3, Zenon DEF Adjoin
<1> QED
  BY <1>1, <1>2, <1>4, <1>6, Zenon DEF ReadSoFar

\* The bytes at d, as Copied takes them.
CopyOf(b, d, size, memory) ==
    [k \in 1 .. size |-> IF d + k \in DOMAIN b THEN b[d + k] ELSE memory[k]]

\* They are as many bytes as the size says ...
LEMMA CopyTyped ==
    ASSUME NEW b \in Image, NEW d \in Int, NEW size \in 0 .. MaxInt, NEW memory \in Memories
    PROVE  /\ CopyOf(b, d, size, memory) \in Seq(Byte) /\ Len(CopyOf(b, d, size, memory)) = size
           /\ \A k \in 1 .. size :
                 d + k \in 1 .. Len(b) => CopyOf(b, d, size, memory)[k] = b[d + k]
<1>1. b \in Seq(Byte) /\ DOMAIN b = 1 .. Len(b) /\ Len(b) \in Nat /\ size \in Nat
  BY ImageTyped, LenProperties, MaxIntProperties
<1>2. \A k \in 1 .. Len(b) : b[k] \in Byte
  BY <1>1, ElementOfSeq
<1>3. \A k \in 1 .. size : memory[k] \in Byte
  BY MemoriesAssumption, MaxIntProperties
<1>4. PICK C : C = Byte
  OBVIOUS
<1>5. PICK c : c = CopyOf(b, d, size, memory)
  OBVIOUS
<1>6. /\ c = [k \in 1 .. size |-> IF d + k \in DOMAIN b THEN b[d + k] ELSE memory[k]]
      /\ \A k \in 1 .. size : (IF d + k \in DOMAIN b THEN b[d + k] ELSE memory[k]) \in C
  BY <1>1, <1>2, <1>3, <1>4, <1>5, Zenon DEF CopyOf
<1>7. c \in [1 .. size -> C]
  BY <1>6
<1>8. c \in Seq(C) /\ Len(c) = size
  BY <1>1, <1>7
<1>9. \A k \in 1 .. size : d + k \in 1 .. Len(b) => c[k] = b[d + k]
  BY <1>1, <1>6
<1> QED
  BY <1>4, <1>5, <1>8, <1>9, Zenon

\* ... and, inside of the body, the bytes of the body.
LEMMA CopyInside ==
    ASSUME NEW b \in Image, NEW d \in Nat, NEW size \in 0 .. MaxInt, NEW memory \in Memories,
           d + size <= Len(b)
    PROVE  CopyOf(b, d, size, memory) = SubSeq(b, d + 1, d + size)
<1>0. PICK c : c = CopyOf(b, d, size, memory)
  OBVIOUS
<1>1. /\ c \in Seq(Byte) /\ Len(c) = size
      /\ \A k \in 1 .. size : d + k \in 1 .. Len(b) => c[k] = b[d + k]
  <2>1. d \in Int
    OBVIOUS
  <2>2. /\ CopyOf(b, d, size, memory) \in Seq(Byte) /\ Len(CopyOf(b, d, size, memory)) = size
        /\ \A k \in 1 .. size :
              d + k \in 1 .. Len(b) => CopyOf(b, d, size, memory)[k] = b[d + k]
    BY <2>1, CopyTyped
  <2> QED
    BY <1>0, <2>2, Zenon
<1>2. b \in Seq(Byte) /\ Len(b) \in Nat /\ size \in Nat
  BY ImageTyped, MaxIntProperties
<1>3. \A k \in d + 1 .. d + size : b[k] \in Byte
  BY <1>2, ElementOfSeq
<1>4. PICK u : u = SubSeq(b, d + 1, d + size)
  OBVIOUS
<1>5. /\ u \in Seq(Byte) /\ Len(u) = IF d + 1 <= d + size THEN (d + size) - (d + 1) + 1 ELSE 0
      /\ \A k \in 1 .. (d + size) - (d + 1) + 1 : u[k] = b[(d + 1) + k - 1]
  BY <1>2, <1>3, <1>4, SubSeqProperties
<1>6. Len(u) = size /\ \A k \in 1 .. size : u[k] = b[d + k]
  BY <1>2, <1>5
<1>7. ASSUME NEW k \in 1 .. size PROVE c[k] = u[k]
  <2>1. d + k \in 1 .. Len(b)
    BY <1>2
  <2> QED
    BY <1>1, <1>6, <2>1, Zenon
<1>8. c = u
  BY <1>1, <1>5, <1>6, <1>7, SeqEqual
<1> QED
  BY <1>0, <1>4, <1>8, Zenon

\* The next bytes follow those before them, as far as the body goes: if the sum
\* of the offsets wraps around, the end of the body has been passed.
LEMMA OneMoreContents ==
    ASSUME NEW b \in Image, Len(b) <= MaxInt, NEW f \in Image, NEW s \in Nat, NEW d \in Int,
           NEW size \in 0 .. MaxInt, NEW memory \in Memories, ContentsSoFar(b, f, s, d),
           NEW im, im = CopyOf(b, d, size, memory)
    PROVE  ContentsSoFar(b, f \o im, s, Wrapped(d + size))
<1>1. PICK m \in Nat, l \in Nat : m = Len(f) /\ l = Len(b)
  BY ImageTyped
<1>2. /\ im \in Seq(Byte) /\ Len(im) = size
      /\ \A k \in 1 .. size : d + k \in 1 .. l => im[k] = b[d + k]
  BY <1>1, CopyTyped
<1>3. PICK g : /\ g = f \o im /\ Len(g) = m + size
               /\ \A k \in 1 .. m + size : g[k] = IF k <= m THEN f[k] ELSE im[k - m]
  <2>1. /\ Len(f \o im) = Len(f) + Len(im)
        /\ \A k \in 1 .. Len(f) + Len(im) :
              (f \o im)[k] = IF k <= Len(f) THEN f[k] ELSE im[k - Len(f)]
    BY <1>2, ConcatProperties DEF Image
  <2> QED
    BY <1>1, <1>2, <2>1, Zenon
<1>4. size \in Nat /\ MaxInt \in Nat /\ l <= MaxInt
  BY <1>1, MaxIntProperties
<1>5. /\ \A k \in 1 .. m : s + k <= l => f[k] = b[s + k]
      /\ d = s + m \/ s + m > l
  BY <1>1, Zenon DEF ContentsSoFar
<1>6. ASSUME NEW k \in 1 .. m + size, s + k <= l PROVE g[k] = b[s + k]
  <2>1. CASE k <= m
    <3>1. k \in 1 .. m
      BY <2>1
    <3> QED
      BY <1>3, <1>5, <1>6, <2>1, <3>1
  <2>2. CASE k > m
    <3>1. d = s + m
      BY <1>4, <1>5, <1>6, <2>2
    <3>2. PICK j \in 1 .. size : j = k - m
      BY <1>4, <2>2
    <3>3. d + j = s + k /\ d + j \in 1 .. l
      BY <1>6, <2>2, <3>1, <3>2
    <3>4. im[j] = b[d + j]
      BY <1>2, <3>3
    <3>5. g[k] = im[k - m]
      BY <1>1, <1>3, <1>4, <2>2
    <3> QED
      BY <3>2, <3>3, <3>4, <3>5, Zenon
  <2> QED
    BY <1>4, <2>1, <2>2
<1>7. Wrapped(d + size) = s + (m + size) \/ s + (m + size) > l
  <2>1. CASE s + m > l
    BY <1>4, <2>1
  <2>2. CASE d = s + m
    <3>1. CASE d + size <= MaxInt
      <4>1. d + size \in 0 .. MaxInt /\ d + size = s + (m + size)
        BY <1>4, <2>2, <3>1
      <4>2. Wrapped(d + size) = d + size
        BY <4>1, WrappedProperties
      <4> QED
        BY <4>1, <4>2, Zenon
    <3>2. CASE d + size > MaxInt
      BY <1>4, <2>2, <3>2
    <3> QED
      BY <1>4, <3>1, <3>2
  <2> QED
    BY <1>5, <2>1, <2>2
<1> QED
  BY <1>1, <1>3, <1>6, <1>7, Zenon DEF ContentsSoFar

\* A message that has the header and the sizes of the body, and its contents as
\* far as it goes, agrees with it.
LEMMA AsTheBodySays ==
    ASSUME NEW b \in Image, NEW ims, NEW n \in Nat, NEW p \in Nat, p = 8 + 4 * n, NEW d,
           SubSeq(b, 1, 4) = Magic, ReadWord(b, 4) = n, ReadSoFar(b, ims, n),
           ContentsSoFar(b, FlattenSeq(ims), p, d)
    PROVE  Agree(WriteAmqpBytes(ims), b)
<1>1. PICK e \in Nat, m \in Nat, l \in Nat :
        /\ e = 0 /\ m = 4 /\ l = 8 /\ e + 1 = 1 /\ m + 4 = 8 /\ l + 1 = 9
        /\ e <= m /\ m <= l /\ e <= l /\ l <= p
        /\ m <= Len(b) /\ l <= Len(b) /\ p <= Len(b)
  BY ImageTyped DEF ReadSoFar
<1>2. WriteBEInt32(n) = SubSeq(b, m + 1, l)
  <2>1. CanRead(b, m) /\ b \in Seq(Byte)
    BY <1>1, ImageTyped DEF CanRead
  <2>2. WriteBEInt32(ReadWord(b, m)) = SubSeq(b, m + 1, m + 4)
    BY <2>1, ReadWordProperties
  <2> QED
    BY <1>1, <2>2, Zenon
<1>3. Adjoin(b, e, m, l) /\ Adjoin(b, e, l, p)
  BY <1>1, AdjoinParts
<1>4. PICK f \in Image : f = FlattenSeq(ims)
  BY FlattenTyped DEF ReadSoFar, Image
<1>5. PICK x \in Image : x = SubSeq(b, e + 1, p) /\ Len(x) = p /\ \A k \in 1 .. p : x[k] = b[k]
  <2>1. p \in 0 .. Len(b) /\ b \in Seq(Byte) /\ Len(b) \in Nat
    BY <1>1, ImageTyped
  <2>2. SubSeq(b, 0 + 1, p) \in Image /\ Len(SubSeq(b, 0 + 1, p)) = p - 0
    BY <2>1, RangeProperties
  <2>3. \A k \in 1 .. p : SubSeq(b, 1, p)[k] = b[k]
    BY <2>1
  <2>4. 0 + 1 = 1 /\ p - 0 = p
    OBVIOUS
  <2> QED
    BY <1>1, <2>2, <2>3, <2>4, Zenon
<1>6. WriteAmqpBytes(ims) = x \o f
  <2>1. WriteAmqpBytes(ims)
          = ((SubSeq(b, e + 1, m) \o SubSeq(b, m + 1, l)) \o SubSeq(b, l + 1, p)) \o f
    BY <1>1, <1>2, <1>4, Zenon DEF WriteAmqpBytes, ReadSoFar
  <2> QED
    BY <1>3, <1>5, <2>1, Zenon DEF Adjoin
<1>7. PICK w : w = x \o f
  OBVIOUS
<1>8. /\ DOMAIN w = 1 .. p + Len(f)
       /\ \A k \in 1 .. p + Len(f) : w[k] = IF k <= p THEN x[k] ELSE f[k - p]
  <2>1. /\ x \o f \in Seq(Byte) /\ Len(x \o f) = Len(x) + Len(f)
        /\ \A k \in 1 .. Len(x) + Len(f) :
              (x \o f)[k] = IF k <= Len(x) THEN x[k] ELSE f[k - Len(x)]
    BY ConcatProperties DEF Image
  <2>2. DOMAIN (x \o f) = 1 .. Len(x \o f)
    BY <2>1, LenProperties
  <2> QED
    BY <1>5, <1>7, <2>1, <2>2, Zenon
<1>9. PICK q \in Nat, r \in Nat : q = Len(f) /\ r = Len(b) /\ DOMAIN b = 1 .. r
  BY ImageTyped, LenProperties
<1>10. \A k \in 1 .. q : p + k <= r => f[k] = b[p + k]
  BY <1>4, <1>9, Zenon DEF ContentsSoFar
<1>11. ASSUME NEW k \in 1 .. p + q, k \in 1 .. r PROVE w[k] = b[k]
  <2>1. CASE k <= p
    <3>1. k \in 1 .. p
      BY <2>1
    <3> QED
      BY <1>5, <1>9, <1>8, <2>1, <3>1
  <2>2. CASE k > p
    <3>1. PICK j \in 1 .. q : j = k - p /\ p + j = k
      BY <2>2
    <3>2. f[j] = b[p + j]
      BY <1>10, <1>11, <3>1
    <3> QED
      BY <1>9, <1>8, <2>2, <3>1, <3>2
  <2> QED
    BY <2>1, <2>2
<1> QED
  BY <1>6, <1>7, <1>9, <1>11, <1>8, Zenon DEF Agree

\* Nothing changes.
LEMMA StutterInv == MessageInv /\ UNCHANGED messageVars => MessageInv'
  BY DEF messageVars, MessageInv, MessageTypeOK, BodyInv, WrittenInv, ContentsInv

\* assertMagic and the count: what this code wrote is never rejected.
LEMMA ReadHeaderInv == MessageInv /\ ReadHeader => MessageInv'
<1> SUFFICES ASSUME MessageInv, ReadHeader PROVE MessageInv'
  OBVIOUS
<1>1. /\ MessageTypeOK /\ BodyInv /\ WrittenInv /\ reading = "header" /\ i = 0 /\ images = <<>>
      /\ body' = body /\ i' = i /\ images' = images /\ written' = written /\ writes' = writes
  BY DEF MessageInv, BodyInv, ReadHeader
<1>2. body \in Image /\ body \in Seq(Byte) /\ Len(body) \in Nat /\ Len(body) <= MaxInt
  BY <1>1, LenProperties DEF MessageTypeOK, Image
<1>3. ASSUME written # NotOurs
      PROVE  /\ CanRead(body, 4) /\ SubSeq(body, 1, 4) = Magic
             /\ AsInt(ReadWord(body, 4)) = Len(written) /\ Len(written) \in Nat
             /\ written \in Seq(Seq(Byte)) /\ body = WriteAmqpBytes(written)
  <2>1. written \in Seq(Seq(Byte)) /\ body = WriteAmqpBytes(written)
    BY <1>1, <1>3 DEF WrittenInv
  <2>2. PICK n \in Nat : n = Len(written)
    BY <2>1, LenProperties
  <2>3. PICK l \in Nat : l = Len(FlattenSeq(written))
    BY <2>1, FlattenTyped, LenProperties
  <2>4. SubSeq(body, 1, 4) = Magic /\ SubSeq(body, 5, 8) = WriteBEInt32(n)
    BY <2>1, <2>2, WrittenHeader
  <2>5. Len(body) = 8 + 4 * n + l
    BY <2>1, <2>2, <2>3, WriteProperties, Zenon
  <2>6. n <= MaxInt /\ n \in 0 .. Word - 1 /\ 4 + 4 <= Len(body)
    BY <1>2, <2>5, MaxIntProperties
  <2>7. ReadWord(body, 4) = n
    <3>1. 4 + 1 = 5 /\ 4 + 4 = 8 /\ 4 \in Nat
      OBVIOUS
    <3>2. CanRead(body, 4) /\ SubSeq(body, 4 + 1, 4 + 4) = WriteBEInt32(n)
      BY <2>4, <2>6, <3>1 DEF CanRead
    <3> QED
      BY <1>2, <2>6, <3>1, <3>2, ReadIsWritten
  <2> QED
    BY <2>1, <2>2, <2>4, <2>6, <2>7, AsIntProperties DEF CanRead
<1>4. CASE CanRead(body, 4) /\ SubSeq(body, 1, 4) = Magic
  <2>1. PICK n : n = AsInt(ReadWord(body, 4))
    OBVIOUS
  <2>2. count' = n /\ dataStart' = Wrapped(8 + 4 * n) /\ reading' = "images"
    BY <1>4, <2>1 DEF ReadHeader
  <2>3. n \in MaxInt + 1 - Word .. MaxInt
    BY <1>2, <1>4, <2>1, ReadWordProperties, AsIntProperties
  <2>4. n \in Int
    BY <2>3, MaxIntProperties
  <2>5. dataStart' \in MaxInt + 1 - Word .. MaxInt /\ dataStart' \in Int
    BY <2>2, <2>4, WrappedProperties, MaxIntProperties
  <2>6. MessageTypeOK'
    BY <1>1, <2>2, <2>3, <2>5 DEF MessageTypeOK
  <2>7. FlattenSeq(Sizes(<<>>)) = SubSeq(body, 9, 8)
    <3>1. SubSeq(body, 8 + 1, 8) = <<>> /\ 8 + 1 = 9
      BY NoImages
    <3> QED
      BY <3>1, NoImages, Zenon
  <2>8. BodyInv'
    <3>1. 8 + 4 * 0 <= Len(body) /\ 8 + 4 * 0 = 8
      BY <1>2, <1>4 DEF CanRead
    <3>2. ReadSoFar(body, images, i)'
      BY <1>1, <2>7, <3>1, NoImages DEF ReadSoFar
    <3>3. ContentsInv'
      <4>1. Len(FlattenSeq(<<>>)) = 0 /\ FlattenSeq(images') = FlattenSeq(<<>>)
        BY <1>1, NoImages
      <4>2. ASSUME 8 + 4 * n \in 0 .. MaxInt PROVE dataStart' = 8 + 4 * n
        BY <2>2, <2>4, <4>2, WrappedProperties, MaxIntProperties
      <4> QED
        BY <1>1, <2>2, <2>4, <4>1, <4>2 DEF ContentsInv, ContentsSoFar
    <3> QED
      BY <1>1, <1>4, <2>1, <2>2, <3>2, <3>3 DEF BodyInv
  <2>9. WrittenInv'
    <3>1. ASSUME written # NotOurs PROVE <<>> = SubSeq(written, 1, 0) /\ 0 <= n /\ n = Len(written)
      <4>1. SubSeq(written, 0 + 1, 0) = <<>> /\ 0 + 1 = 1
        BY NoImages
      <4> QED
        BY <1>3, <2>1, <3>1, <4>1
    <3> QED
      BY <1>1, <1>3, <2>2, <3>1 DEF WrittenInv
  <2> QED
    BY <2>6, <2>8, <2>9 DEF MessageInv
<1>5. CASE ~(CanRead(body, 4) /\ SubSeq(body, 1, 4) = Magic)
  <2>1. reading' = "rejected" /\ count' = count /\ dataStart' = dataStart
    BY <1>5 DEF ReadHeader
  <2>2. written = NotOurs
    BY <1>3, <1>5
  <2> QED
    BY <1>1, <2>1, <2>2 DEF MessageInv, MessageTypeOK, BodyInv, WrittenInv
<1> QED
  BY <1>4, <1>5

\* What this code wrote has its next image where the constructor looks for it.
LEMMA NextIsWritten ==
    ASSUME MessageInv, reading = "images", i < count, written # NotOurs
    PROVE  /\ CanRead(body, 8 + 4 * i)
           /\ i + 1 \in 1 .. Len(written) /\ Len(written[i + 1]) \in 0 .. MaxInt
           /\ AsInt(ReadWord(body, 8 + 4 * i)) = Len(written[i + 1])
           /\ 0 <= dataStart /\ dataStart + Len(written[i + 1]) <= Len(body)
           /\ SubSeq(body, dataStart + 1, dataStart + Len(written[i + 1])) = written[i + 1]
<1>1. /\ MessageTypeOK /\ written \in Seq(Seq(Byte)) /\ body = WriteAmqpBytes(written)
      /\ count = Len(written) /\ images = SubSeq(written, 1, i) /\ i \in Nat
  BY DEF MessageInv, WrittenInv, MessageTypeOK
<1>2. PICK b \in Image : b = body /\ b \in Seq(Byte) /\ Len(b) \in Nat /\ Len(b) <= MaxInt
  BY <1>1, LenProperties DEF MessageTypeOK, Image
<1>3. PICK n \in Nat : n = Len(written) /\ n = count
  BY <1>1, LenProperties
<1>4. PICK l \in Nat : l = Len(FlattenSeq(written))
  BY <1>1, FlattenTyped, LenProperties
<1>5. Len(b) = 8 + 4 * n + l
  BY <1>1, <1>2, <1>3, <1>4, WriteProperties, Zenon
<1>6. PICK k \in 1 .. n : k = i + 1 /\ k - 1 = i
  BY <1>1, <1>3
<1>7. PICK w \in Image : w = written[k] /\ Len(w) \in Nat
  BY <1>1, <1>3, <1>6, ImageTyped
<1>8. ContentsSoFar(b, FlattenSeq(SubSeq(written, 1, k - 1)), 8 + 4 * n, dataStart)
  <2>1. 8 + 4 * count \in 0 .. MaxInt
    BY <1>2, <1>3, <1>5, MaxIntProperties
  <2>2. ContentsInv
    BY DEF MessageInv, BodyInv
  <2>3. ContentsSoFar(body, FlattenSeq(images), 8 + 4 * count, dataStart)
    BY <2>1, <2>2 DEF ContentsInv
  <2> QED
    BY <1>1, <1>2, <1>3, <1>6, <2>3, Zenon
<1>9. PICK f \in Nat : f = Len(FlattenSeq(SubSeq(written, 1, k - 1)))
  <2>1. k - 1 \in 0 .. Len(written)
    BY <1>3
  <2>2. SubSeq(written, 1, k - 1) \in Seq(Seq(Byte))
    BY <1>1, <2>1, SizesFirst
  <2> QED
    BY <2>2, FlattenTyped, LenProperties
<1>10. PICK p \in Nat : p = 8 + 4 * n + f
  OBVIOUS
<1>11. SubSeq(b, p + 1, p + Len(w)) = w /\ p + Len(w) <= Len(b)
  <2>1. k \in 1 .. Len(written) /\ b = WriteAmqpBytes(written)
    BY <1>1, <1>2, <1>3
  <2>2. p = 8 + 4 * Len(written) + Len(FlattenSeq(SubSeq(written, 1, k - 1)))
    BY <1>3, <1>9, <1>10, Zenon
  <2>3. /\ SubSeq(b, p + 1, p + Len(written[k])) = written[k]
        /\ p + Len(written[k]) <= Len(b)
    BY <1>1, <2>1, <2>2, WrittenImage
  <2> QED
    BY <1>7, <2>3, Zenon
<1>12. dataStart = p
  <2>1. PICK q \in Nat, r \in Nat : q = Len(w) /\ r = Len(b)
    BY <1>2, <1>7
  <2>2. dataStart = p \/ p > r
    BY <1>8, <1>9, <1>10, <2>1, Zenon DEF ContentsSoFar
  <2>3. p + q <= r
    BY <1>11, <2>1, Zenon
  <2> QED
    BY <2>2, <2>3, <1>10
<1>13. PICK o \in Nat : o = 8 + 4 * i /\ o = 4 + 4 * k /\ o + 4 <= Len(b)
  <2>1. 8 + 4 * (k - 1) = 4 + 4 * k /\ 4 + 4 * k + 4 <= Len(b)
    BY <1>5
  <2> QED
    BY <1>6, <2>1
<1>14. CanRead(b, o)
  BY <1>13 DEF CanRead
<1>15. Len(w) \in 0 .. Word - 1 /\ Len(w) \in 0 .. MaxInt
  BY <1>2, <1>7, <1>11, MaxIntProperties
<1>16. ReadWord(b, o) = Len(w)
  <2>1. SubSeq(b, 4 + 4 * k + 1, 4 + 4 * k + 4) = WriteBEInt32(Len(written[k]))
    <3>1. k \in 1 .. Len(written) /\ b = WriteAmqpBytes(written)
      BY <1>1, <1>2, <1>3
    <3> QED
      BY <1>1, <3>1, WrittenSize
  <2>2. SubSeq(b, o + 1, o + 4) = WriteBEInt32(Len(w))
    BY <1>7, <1>13, <2>1, Zenon
  <2>3. ASSUME NEW q \in 0 .. Word - 1, q = Len(w) PROVE ReadWord(b, o) = q
    <3>1. SubSeq(b, o + 1, o + 4) = WriteBEInt32(q)
      BY <2>2, <2>3, Zenon
    <3> QED
      BY <1>2, <1>14, <3>1, ReadIsWritten
  <2> QED
    BY <1>15, <2>3
<1>17. AsInt(Len(w)) = Len(w)
  BY <1>15 DEF AsInt
<1>18. 0 <= dataStart /\ dataStart + Len(w) <= Len(body)
  BY <1>2, <1>11, <1>12
<1>19. p = dataStart /\ k \in 1 .. Len(written)
  BY <1>3, <1>12
<1> QED
  BY <1>2, <1>6, <1>7, <1>11, <1>13, <1>14, <1>15, <1>16, <1>17, <1>18, <1>19, Zenon

\* One turn of the loop.
LEMMA ReadImageInv == MessageInv /\ ReadImage => MessageInv'
<1> SUFFICES ASSUME MessageInv, ReadImage PROVE MessageInv'
  OBVIOUS
<1>1. /\ MessageTypeOK /\ BodyInv /\ WrittenInv /\ reading = "images" /\ i < count
      /\ body' = body /\ count' = count /\ written' = written /\ writes' = writes
  BY DEF MessageInv, ReadImage
<1>2. PICK b \in Image : b = body /\ b \in Seq(Byte) /\ Len(b) \in Nat /\ Len(b) <= MaxInt
  BY <1>1, LenProperties DEF MessageTypeOK, Image
<1>3. i \in Nat /\ count \in Int /\ dataStart \in Int /\ images \in Seq(Seq(Byte))
  BY <1>1, MaxIntProperties DEF MessageTypeOK
<1>4. PICK size : size = AsInt(ReadWord(body, 8 + 4 * i))
  OBVIOUS
<1>5. CASE /\ reading' \in {"rejected", "crashed"} /\ UNCHANGED <<i, dataStart, images>>
           /\ ~(/\ CanRead(body, 8 + 4 * i)
                /\ 0 <= size /\ (size > 0 => 0 <= dataStart /\ dataStart + size <= Len(body)))
  <2>1. written = NotOurs
    <3>1. ASSUME written # NotOurs PROVE FALSE
      <4>1. PICK l \in 0 .. MaxInt : l = Len(written[i + 1])
        BY <1>1, <3>1, NextIsWritten
      <4>2. CanRead(body, 8 + 4 * i) /\ size = l /\ 0 <= dataStart /\ dataStart + l <= Len(body)
        BY <1>1, <1>4, <3>1, <4>1, NextIsWritten, Zenon
      <4> QED
        BY <1>5, <4>1, <4>2
    <3> QED
      BY <3>1
  <2> QED
    BY <1>1, <1>5, <2>1 DEF MessageInv, MessageTypeOK, BodyInv, WrittenInv
<1>6. ASSUME NEW memory \in Memories, CanRead(body, 8 + 4 * i), size >= 0,
             images' = Append(images, Copied(size, memory)),
             dataStart' = Wrapped(dataStart + size), i' = i + 1, reading' = reading
      PROVE  MessageInv'
  <2>1. PICK n \in Nat, d \in Int : n = i /\ d = dataStart
    BY <1>3
  <2>2. size \in 0 .. MaxInt /\ size = ReadWord(b, 8 + 4 * n) /\ CanRead(b, 8 + 4 * n)
    <3>1. CanRead(b, 8 + 4 * n) /\ size = AsInt(ReadWord(b, 8 + 4 * n))
      BY <1>2, <1>4, <1>6, <2>1, Zenon
    <3>2. ReadWord(b, 8 + 4 * n) \in 0 .. Word - 1
      BY <1>2, <3>1, ReadWordProperties
    <3>3. size \in MaxInt + 1 - Word .. MaxInt /\ (size >= 0 => size = ReadWord(b, 8 + 4 * n))
      BY <3>1, <3>2, AsIntProperties
    <3> QED
      BY <1>6, <3>1, <3>3, MaxIntProperties
  <2>3. PICK im \in Seq(Byte) : im = CopyOf(b, d, size, memory) /\ Len(im) = size
    BY <2>2, CopyTyped
  <2>4. PICK ims \in Seq(Seq(Byte)) : ims = images
    BY <1>3
  <2>5. /\ images' = Append(ims, im) /\ dataStart' = Wrapped(d + size) /\ i' = n + 1
        /\ i' \in Nat /\ i' # 0 /\ i' <= count
    <3>1. Copied(size, memory) = CopyOf(b, d, size, memory)
      BY <1>2, <2>1, Zenon DEF Copied, CopyOf
    <3>2. i' = n + 1 /\ dataStart' = Wrapped(d + size)
      BY <1>6, <2>1
    <3>3. i' \in Nat /\ i' # 0 /\ i' <= count
      BY <1>1, <1>3, <2>1, <3>2
    <3> QED
      BY <1>6, <2>3, <2>4, <3>1, <3>2, <3>3, Zenon
  <2>6. /\ SubSeq(body, 1, 4) = Magic /\ CanRead(body, 4) /\ ContentsInv
        /\ count = AsInt(ReadWord(body, 4)) /\ ReadSoFar(b, ims, n)
    BY <1>1, <1>2, <2>1, <2>4 DEF BodyInv
  <2>7. ReadSoFar(b, Append(ims, im), n + 1)
    <3>1. Len(im) = ReadWord(b, 8 + 4 * n)
      BY <2>2, <2>3
    <3> QED
      BY <2>2, <2>6, <3>1, OneMoreSize
  <2>8. MessageTypeOK'
    <3>1. dataStart' \in MaxInt + 1 - Word .. MaxInt
      <4>1. d + size \in Int
        BY <2>2, MaxIntProperties
      <4> QED
        BY <2>5, <4>1, WrappedProperties
    <3>2. images' \in Seq(Seq(Byte))
      BY <2>5, <2>7, Zenon DEF ReadSoFar
    <3> QED
      BY <1>1, <1>6, <2>5, <3>1, <3>2 DEF MessageTypeOK
  <2>9. ContentsInv'
    <3> SUFFICES ASSUME 8 + 4 * count \in 0 .. MaxInt
                 PROVE  ContentsSoFar(body, FlattenSeq(images'), 8 + 4 * count, dataStart')
      BY <1>1 DEF ContentsInv
    <3>1. PICK s \in Nat : s = 8 + 4 * count
      BY MaxIntProperties
    <3>2. PICK f \in Image : f = FlattenSeq(ims)
      BY FlattenTyped DEF Image
    <3>3. ContentsSoFar(b, f, s, d)
      <4>1. ContentsSoFar(body, FlattenSeq(images), 8 + 4 * count, dataStart)
        BY <2>6 DEF ContentsInv
      <4> QED
        BY <1>2, <2>1, <2>4, <3>1, <3>2, <4>1, Zenon
    <3>4. ContentsSoFar(b, f \o im, s, Wrapped(d + size))
      BY <1>2, <2>2, <2>3, <3>3, OneMoreContents
    <3>5. FlattenSeq(images') = f \o im
      <4>1. FlattenSeq(Append(ims, im)) = FlattenSeq(ims) \o im
        BY FlattenAppend
      <4> QED
        BY <2>5, <3>2, <4>1, Zenon
    <3> QED
      BY <1>2, <2>5, <3>1, <3>4, <3>5, Zenon
  <2>10. BodyInv'
    <3>1. ReadSoFar(body', images', i')
      BY <1>1, <1>2, <2>5, <2>7, Zenon
    <3> QED
      BY <1>1, <1>6, <2>5, <2>6, <2>9, <3>1 DEF BodyInv
  <2>11. WrittenInv'
    <3>1. ASSUME written # NotOurs
          PROVE  images' = SubSeq(written, 1, i')
      <4>1. /\ written \in Seq(Seq(Byte)) /\ ims = SubSeq(written, 1, n)
        BY <1>1, <2>1, <2>4, <3>1 DEF WrittenInv
      <4>2. PICK k \in 1 .. Len(written) : k = n + 1 /\ k - 1 = n
        BY <1>1, <2>1, <3>1, NextIsWritten
      <4>3. im = written[k]
        <5>1. size = Len(written[n + 1]) /\ 0 <= d /\ d + Len(written[n + 1]) <= Len(b)
          BY <1>1, <1>2, <1>4, <2>1, <3>1, NextIsWritten
        <5>2. SubSeq(b, d + 1, d + Len(written[n + 1])) = written[n + 1]
          BY <1>1, <1>2, <2>1, <3>1, NextIsWritten
        <5>3. d \in Nat /\ d + size <= Len(b)
          BY <5>1
        <5>4. CopyOf(b, d, size, memory) = SubSeq(b, d + 1, d + size)
          BY <2>2, <5>3, CopyInside
        <5> QED
          BY <2>3, <4>2, <5>1, <5>2, <5>4, Zenon
      <4>4. SubSeq(written, 1, k) = Append(SubSeq(written, 1, k - 1), written[k])
        BY <4>1, FirstAndNext
      <4> QED
        BY <2>5, <4>1, <4>2, <4>3, <4>4, Zenon
    <3> QED
      BY <1>1, <1>6, <2>5, <3>1 DEF WrittenInv
  <2> QED
    BY <2>8, <2>10, <2>11 DEF MessageInv
<1>7. CASE ~CanRead(body, 8 + 4 * i)
  <2>1. reading' = "rejected" /\ UNCHANGED <<i, dataStart, images>>
    BY <1>7 DEF ReadImage
  <2> QED
    BY <1>5, <1>7, <2>1
<1>8. CASE CanRead(body, 8 + 4 * i)
  <2>1. size \in Int
    <3>1. PICK o \in Nat : o = 8 + 4 * i
      BY <1>3
    <3>2. ReadWord(b, o) \in 0 .. Word - 1 /\ size = AsInt(ReadWord(b, o))
      BY <1>2, <1>4, <1>8, <3>1, ReadWordProperties
    <3> QED
      BY <3>2, AsIntProperties, MaxIntProperties
  <2>2. \/ /\ size < 0 \/ (size > 0 /\ ~(0 <= dataStart /\ dataStart + size <= Len(body)))
           /\ reading' = "crashed"
           /\ UNCHANGED <<i, dataStart, images>>
        \/ /\ size >= 0
           /\ \E memory \in Memories : images' = Append(images, Copied(size, memory))
           /\ dataStart' = Wrapped(dataStart + size)
           /\ i' = i + 1
           /\ UNCHANGED reading
    BY <1>4, <1>8, Zenon DEF ReadImage
  <2>3. CASE /\ size < 0 \/ (size > 0 /\ ~(0 <= dataStart /\ dataStart + size <= Len(body)))
             /\ reading' = "crashed" /\ UNCHANGED <<i, dataStart, images>>
    BY <1>5, <2>1, <2>3
  <2> QED
    BY <1>6, <1>8, <2>2, <2>3
<1> QED
  BY <1>7, <1>8

\* The end of the loop.
LEMMA ConstructedInv == MessageInv /\ Constructed => MessageInv'
<1> SUFFICES ASSUME MessageInv, Constructed PROVE MessageInv'
  OBVIOUS
<1>1. /\ MessageTypeOK /\ BodyInv /\ WrittenInv /\ reading = "images" /\ i >= count /\ reading' = "read"
      /\ UNCHANGED <<body, count, i, dataStart, images, written, writes>>
  BY DEF MessageInv, Constructed
<1>2. MessageTypeOK'
  BY <1>1 DEF MessageTypeOK
<1>3. BodyInv'
  BY <1>1 DEF BodyInv, ContentsInv
<1>4. WrittenInv'
  BY <1>1 DEF WrittenInv
<1> QED
  BY <1>2, <1>3, <1>4 DEF MessageInv

\* headImage fails only on a message of no images.
LEMMA HeadImageInv == MessageInv /\ HeadImage => MessageInv'
<1> SUFFICES ASSUME MessageInv, HeadImage PROVE MessageInv'
  OBVIOUS
<1>1. /\ MessageTypeOK /\ BodyInv /\ WrittenInv /\ reading = "read"
      /\ reading' = IF images = <<>> THEN "headless" ELSE "served"
      /\ UNCHANGED <<body, count, i, dataStart, images, written, writes>>
  BY DEF MessageInv, HeadImage
<1>2. MessageTypeOK'
  BY <1>1 DEF MessageTypeOK
<1>3. BodyInv'
  BY <1>1 DEF BodyInv, ContentsInv
<1>4. ASSUME written # NotOurs, images = <<>> PROVE written = <<>>
  <2>1. written \in Seq(Seq(Byte)) /\ count = Len(written) /\ i = Len(images) /\ i >= count
    BY <1>1, <1>4 DEF WrittenInv, BodyInv, ReadSoFar
  <2>2. Len(written) \in Nat /\ Len(images) = 0
    BY <1>4, <2>1, LenProperties, NoImages
  <2>3. Len(written) = 0
    BY <2>1, <2>2
  <2> QED
    BY <2>1, <2>3, EmptySeq
<1>5. WrittenInv'
  BY <1>1, <1>4 DEF WrittenInv
<1> QED
  BY <1>2, <1>3, <1>5 DEF MessageInv

\* A changed message says nothing of the body.
LEMMA ReplaceImageInv ==
    ASSUME NEW k \in DOMAIN images, NEW image \in Sent, MessageInv, ReplaceImage(k, image)
    PROVE  MessageInv'
<1>1. /\ MessageTypeOK /\ WrittenInv /\ reading \in {"read", "served"} /\ reading' = "changed"
      /\ images' = [images EXCEPT ![k] = image]
      /\ UNCHANGED <<body, count, i, dataStart, written, writes>>
  BY DEF MessageInv, ReplaceImage
<1>2. images' \in Seq(Seq(Byte))
  <2>1. PICK C : C = Seq(Byte)
    OBVIOUS
  <2>2. images \in Seq(C) /\ image \in C
    BY <1>1, <2>1, SentAssumption DEF MessageTypeOK
  <2>3. k \in 1 .. Len(images)
    BY <2>2, LenProperties
  <2>4. [images EXCEPT ![k] = image] \in Seq(C)
    BY <2>2, <2>3, ExceptSeq
  <2> QED
    BY <1>1, <2>1, <2>4
<1>3. MessageTypeOK'
  BY <1>1, <1>2 DEF MessageTypeOK
<1>4. BodyInv' /\ WrittenInv'
  BY <1>1 DEF BodyInv, WrittenInv
<1> QED
  BY <1>3, <1>4 DEF MessageInv

\* Another message, another body: the invariant begins anew.
LEMMA WriteAgainInv == MessageInv /\ WriteAgain => MessageInv'
<1> SUFFICES ASSUME MessageInv, WriteAgain PROVE MessageInv'
  OBVIOUS
<1>1. /\ MessageTypeOK /\ writes < MaxWrites /\ Len(WriteAmqpBytes(images)) <= MaxInt
      /\ body' = WriteAmqpBytes(images) /\ written' = images /\ writes' = writes + 1
      /\ count' = 0 /\ i' = 0 /\ dataStart' = 0 /\ images' = <<>> /\ reading' = "header"
  BY DEF MessageInv, WriteAgain
<1>2. images \in Seq(Seq(Byte))
  BY <1>1 DEF MessageTypeOK
<1>3. body' \in Seq(Byte) /\ Len(body') <= MaxInt
  BY <1>1, <1>2, WriteProperties DEF Image
<1>4. writes' \in 0 .. MaxWrites
  BY <1>1, WritesAssumption DEF MessageTypeOK
<1>5. MessageTypeOK'
  BY <1>1, <1>2, <1>3, <1>4, NoImages, MaxIntProperties DEF MessageTypeOK
<1>6. BodyInv' /\ WrittenInv'
  BY <1>1, <1>2 DEF BodyInv, WrittenInv
<1> QED
  BY <1>5, <1>6 DEF MessageInv

\* Every step keeps the invariant.
LEMMA NextInv == MessageInv /\ [MessageNext]_messageVars => MessageInv'
<1> SUFFICES ASSUME MessageInv, [MessageNext]_messageVars PROVE MessageInv'
  OBVIOUS
<1>1. CASE ReadHeader
  BY <1>1, ReadHeaderInv
<1>2. CASE ReadImage
  BY <1>2, ReadImageInv
<1>3. CASE Constructed
  BY <1>3, ConstructedInv
<1>4. CASE HeadImage
  BY <1>4, HeadImageInv
<1>5. CASE WriteAgain
  BY <1>5, WriteAgainInv
<1>6. ASSUME NEW k \in DOMAIN images, NEW image \in Sent, ReplaceImage(k, image) PROVE MessageInv'
  BY <1>6, ReplaceImageInv
<1>7. CASE UNCHANGED messageVars
  BY <1>7, StutterInv
<1> QED
  BY <1>1, <1>2, <1>3, <1>4, <1>5, <1>6, <1>7 DEF MessageNext

-----------------------------------------------------------------------------
(* The locals of the constructor follow the body that it reads, whoever wrote *)
(* it, and a body that this code wrote image by image (im.cpp:6-23, 31-49,    *)
(* encoding.scala:17-27).                                                     *)
THEOREM MessageInvariant == MessageSpec => []MessageInv
<1>1. MessageInit => MessageInv
  BY MessageInitInv
<1>2. MessageInv /\ [MessageNext]_messageVars => MessageInv'
  BY NextInv
<1> QED
  BY <1>1, <1>2, PTL DEF MessageSpec

(* count and dataStart are ints whatever the body, after every wrap around    *)
(* (im.cpp:12-15), and images are bytes.                                      *)
THEOREM MessageTypeCorrect == MessageSpec => []MessageTypeOK
<1>1. MessageInv => MessageTypeOK
  BY DEF MessageInv
<1> QED
  BY <1>1, MessageInvariant, PTL

(* What ImageEncoding or writeAmqpBytes wrote, the constructor accepts: never *)
(* rejected, never out of range, the same images in the same order            *)
(* (encoding.scala:17-27, im.cpp:6-23, 31-49).                                *)
THEOREM WrittenMessagesAreRead == MessageSpec => []WrittenIsRead
<1>1. MessageInv => WrittenIsRead
  <2> SUFFICES ASSUME MessageInv, written # NotOurs
               PROVE  /\ reading \in {"header", "images"} => IsPrefix(images, written)
                      /\ reading \in {"read", "served"} => images = written
                      /\ reading = "headless" => written = <<>>
                      /\ reading \notin {"rejected", "crashed"}
    BY DEF WrittenIsRead
  <2>1. PICK w \in Seq(Seq(Byte)) : w = written /\ Len(w) \in Nat
    BY LenProperties DEF MessageInv, WrittenInv
  <2>2. ASSUME NEW k \in 0 .. Len(w) PROVE IsPrefix(SubSeq(w, 1, k), w)
    <3>1. PICK f \in Seq(Seq(Byte)) : f = SubSeq(w, 1, k) /\ Len(f) = k
      BY SizesFirst
    <3>2. SubSeq(f, 1, Len(f)) = f
      BY SubSeqFull
    <3>3. Len(f) <= Len(w)
      BY <2>1, <3>1
    <3> QED
      BY <3>1, <3>2, <3>3, Zenon DEF IsPrefix
  <2>3. CASE reading = "header"
    <3>1. images = <<>>
      BY <2>3 DEF MessageInv, BodyInv
    <3>2. SubSeq(w, 0 + 1, 0) = <<>> /\ 0 + 1 = 1 /\ 0 \in 0 .. Len(w)
      BY <2>1, NoImages
    <3>3. IsPrefix(images, written)
      BY <2>1, <2>2, <3>1, <3>2, Zenon
    <3> QED
      BY <2>3, <3>3
  <2>4. CASE reading = "images"
    <3>1. i \in 0 .. Len(w) /\ images = SubSeq(w, 1, i)
      BY <2>1, <2>4 DEF MessageInv, MessageTypeOK, WrittenInv
    <3>2. IsPrefix(images, written)
      BY <2>1, <2>2, <3>1, Zenon
    <3> QED
      BY <2>4, <3>2
  <2>5. CASE reading \in {"read", "served"}
    <3>1. i = Len(w) /\ images = SubSeq(w, 1, i)
      BY <2>1, <2>5 DEF MessageInv, MessageTypeOK, BodyInv, WrittenInv
    <3>2. SubSeq(w, 1, Len(w)) = w
      BY SubSeqFull
    <3>3. images = written
      BY <2>1, <3>1, <3>2, Zenon
    <3> QED
      BY <2>5, <3>3
  <2>6. /\ reading = "headless" => written = <<>>
        /\ reading \notin {"rejected", "crashed"}
    BY DEF MessageInv, WrittenInv
  <2> QED
    BY <2>3, <2>4, <2>5, <2>6
<1> QED
  BY <1>1, MessageInvariant, PTL

(* Of any body and around it any memory, what the constructor accepts has the *)
(* magic number, the count and the sizes of the body, and its bytes for as    *)
(* far as it goes: no wrap around of the offsets makes it skip, shift or read *)
(* them twice.  The exception is a count that does not fit an int             *)
(* (im.cpp:11-22).                                                            *)
THEOREM AcceptedIsSaid == MessageSpec => []AcceptedIsWhatWasSent
<1>1. MessageInv => AcceptedIsWhatWasSent
  <2> SUFFICES ASSUME MessageInv, reading \in {"read", "served"}
               PROVE  \/ /\ 8 + 4 * Len(images) <= Len(body)
                         /\ Agree(WriteAmqpBytes(images), body)
                      \/ count < 0 /\ images = <<>>
    BY DEF AcceptedIsWhatWasSent
  <2>1. /\ CanRead(body, 4) /\ SubSeq(body, 1, 4) = Magic
        /\ count = AsInt(ReadWord(body, 4)) /\ count \in Int
        /\ i = Len(images) /\ 8 + 4 * i <= Len(body) /\ i \in Nat /\ i >= count
        /\ ReadSoFar(body, images, i) /\ ContentsInv
        /\ images \in Seq(Seq(Byte))
    BY MaxIntProperties DEF MessageInv, MessageTypeOK, BodyInv, ReadSoFar
  <2>2. i = 0 \/ i <= count
    BY DEF MessageInv, BodyInv
  <2>3. CASE count < 0
    <3>1. Len(images) = 0
      BY <2>1, <2>2, <2>3
    <3>2. images = <<>>
      BY <2>1, <3>1, EmptySeq
    <3> QED
      BY <2>3, <3>2
  <2>4. CASE count >= 0
    <3>1. PICK b \in Image : b = body /\ b \in Seq(Byte) /\ Len(b) \in Nat /\ Len(b) <= MaxInt
      BY LenProperties DEF MessageInv, MessageTypeOK, Image
    <3>2. PICK n \in Nat : n = i /\ n = count
      BY <2>1, <2>2, <2>4
    <3>3. ReadWord(b, 4) = n
      <4>1. ReadWord(b, 4) \in 0 .. Word - 1
        BY <2>1, <3>1, ReadWordProperties
      <4>2. n = AsInt(ReadWord(b, 4))
        BY <2>1, <3>1, <3>2, Zenon
      <4> QED
        BY <4>1, <4>2, AsIntProperties
    <3>4. PICK p \in Nat : p = 8 + 4 * n /\ p \in 0 .. MaxInt
      BY <2>1, <3>1, <3>2, MaxIntProperties
    <3>5. PICK ims : ims = images
      OBVIOUS
    <3>6. ContentsSoFar(b, FlattenSeq(ims), p, dataStart)
      <4>1. ContentsSoFar(body, FlattenSeq(images), 8 + 4 * count, dataStart)
        BY <2>1, <3>2, <3>4, Zenon DEF ContentsInv
      <4> QED
        BY <3>1, <3>2, <3>4, <3>5, <4>1, Zenon
    <3>7. ReadSoFar(b, ims, n) /\ SubSeq(b, 1, 4) = Magic
      BY <2>1, <3>1, <3>2, <3>5, Zenon
    <3>8. Agree(WriteAmqpBytes(ims), b)
      BY <3>3, <3>4, <3>6, <3>7, AsTheBodySays
    <3> QED
      BY <2>1, <3>1, <3>5, <3>8, Zenon
  <2> QED
    BY <2>1, <2>3, <2>4
<1> QED
  BY <1>1, MessageInvariant, PTL

-----------------------------------------------------------------------------
(* Preflight.                                                                 *)

PreflightInv ==
    PreflightTypeOK /\ MaximaDescend /\ LargestIsFirst /\ EachFromItsOwnPixel

USE DEF NoPixel

(* Places and pixels are numbers, with a first one, and are all integers.     *)
LEMMA Places == 1 \in 1 .. Size /\ 1 .. Size \subseteq Nat
  BY SizeAssumption

LEMMA KeptAreNumbers ==
  ASSUME PreflightTypeOK
  PROVE  /\ \A k \in 1 .. Size : max[k] \in Int
         /\ \A p \in DOMAIN seen : seen[p] \in Int
         /\ DOMAIN seen = 1 .. Len(seen) /\ Len(seen) \in Nat
  <1>1. \A k \in 1 .. Size : max[k] \in Int
    BY ShortsAssumption DEF PreflightTypeOK
  <1>2. seen \in Seq(Shorts) /\ Shorts \subseteq Int
    BY ShortsAssumption DEF PreflightTypeOK
  <1>3. DOMAIN seen = 1 .. Len(seen) /\ Len(seen) \in Nat
    BY <1>2
  <1>4. \A p \in DOMAIN seen : seen[p] \in Shorts
    BY <1>2
  <1> QED
    BY <1>1, <1>2, <1>3, <1>4

(* As long as no pixel was visited, all places hold what they were filled     *)
(* with.                                                                      *)
LEMMA NothingSeen ==
  ASSUME PreflightInv, seen = <<>>
  PROVE  \A k \in 1 .. Size : max[k] = Lowest
  BY DEF PreflightInv, PreflightTypeOK, EachFromItsOwnPixel

LEMMA PreflightInitInv == PreflightInit => PreflightInv
  <1> SUFFICES ASSUME PreflightInit PROVE PreflightInv
    OBVIOUS
  <1>1. PreflightTypeOK
    BY DEF PreflightInit, PreflightTypeOK
  <1>2. MaximaDescend
    BY ShortsAssumption DEF PreflightInit, MaximaDescend
  <1>3. LargestIsFirst
    BY DEF PreflightInit, LargestIsFirst
  <1>4. EachFromItsOwnPixel
    BY DEF PreflightInit, EachFromItsOwnPixel
  <1> QED
    BY <1>1, <1>2, <1>3, <1>4 DEF PreflightInv

(* What Visit does to the history, and to the places, in one form for a value *)
(* that is kept in place k ...                                                *)
LEMMA VisitKeeps ==
  ASSUME PreflightInv, NEW v \in Shorts, Visit(v), NEW k \in 1 .. Size, IsPlace(k, v),
         max' = [max EXCEPT ![k] = v], from' = [from EXCEPT ![k] = Len(seen) + 1]
  PROVE  PreflightInv'
  <1> DEFINE next == Len(seen) + 1
  <1>0. /\ PreflightTypeOK /\ MaximaDescend /\ LargestIsFirst /\ EachFromItsOwnPixel
        /\ v \in Int /\ Lowest \in Int
    BY ShortsAssumption DEF PreflightInv
  <1>1. /\ \A j \in 1 .. Size : max[j] \in Int
        /\ DOMAIN seen = 1 .. Len(seen) /\ Len(seen) \in Nat
        /\ \A p \in 1 .. Len(seen) : seen[p] \in Int
    BY <1>0, KeptAreNumbers
  <1>2. /\ max[k] < v
        /\ \A j \in 1 .. Size : j < k => v <= max[j]
    BY <1>0, <1>1 DEF IsPlace, Smaller
  <1>3. /\ max'[k] = v
        /\ \A j \in 1 .. Size : j # k => max'[j] = max[j]
        /\ from'[k] = next
        /\ \A j \in 1 .. Size : j # k => from'[j] = from[j]
    BY <1>0 DEF PreflightTypeOK
  <1>4. /\ seen' = Append(seen, v) /\ seen' \in Seq(Shorts)
        /\ Len(seen') = next /\ DOMAIN seen' = 1 .. next
        /\ seen'[next] = v
        /\ \A p \in 1 .. Len(seen) : seen'[p] = seen[p]
    BY <1>0 DEF Visit, PreflightTypeOK
  <1>5. PreflightTypeOK'
    <2>1. max' \in [1 .. Size -> Shorts \cup {Lowest}]
      BY <1>0 DEF PreflightTypeOK
    <2>2. from' \in [1 .. Size -> 0 .. Len(seen')]
      BY <1>0, <1>1, <1>4 DEF PreflightTypeOK
    <2> QED
      BY <1>0, <1>4, <2>1, <2>2 DEF PreflightTypeOK, Visit
  <1>6. MaximaDescend'
    <2> SUFFICES ASSUME NEW a \in 1 .. Size, NEW b \in 1 .. Size, a <= b
                 PROVE  max'[a] >= max'[b]
      BY DEF MaximaDescend
    <2>1. max[a] >= max[b] /\ (k <= b => max[k] >= max[b])
      BY <1>0 DEF MaximaDescend
    <2> QED
      BY <1>1, <1>2, <1>3, <2>1, <1>0
  <1>7. LargestIsFirst'
    <2>1. max[1] <= max'[1] /\ v <= max'[1]
      BY <1>0, <1>1, <1>2, <1>3, Places
    <2>2. \A p \in DOMAIN seen' : seen'[p] <= max'[1]
      <3> SUFFICES ASSUME NEW p \in 1 .. next PROVE seen'[p] <= max'[1]
        BY <1>4
      <3>1. CASE p = next
        BY <3>1, <1>4, <2>1
      <3>2. CASE p # next
        <4>1. p \in 1 .. Len(seen)
          BY <3>2, <1>1
        <4>2. seen[p] <= max[1]
          BY <4>1, <1>0, <1>1 DEF LargestIsFirst
        <4>3. max'[1] \in Int
          BY <1>0, <1>1, <1>3, Places
        <4> QED
          BY <4>1, <4>2, <4>3, <1>1, <1>4, <2>1, Places
      <3> QED
        BY <3>1, <3>2
    <2>3. \E p \in DOMAIN seen' : seen'[p] = max'[1]
      <3>1. CASE k = 1
        BY <3>1, <1>1, <1>3, <1>4
      <3>2. CASE k # 1
        <4>1. v <= max[1]
          BY <3>2, <1>2, Places
        <4>2. max[1] >= max[k]
          BY <1>0, Places DEF MaximaDescend
        <4>3. seen # <<>>
          <5> SUFFICES ASSUME seen = <<>> PROVE FALSE
            OBVIOUS
          <5>1. max[1] = Lowest /\ max[k] = Lowest
            BY NothingSeen, Places
          <5> QED
            BY <5>1, <4>1, <1>2, <1>0
        <4>4. PICK p \in 1 .. Len(seen) : seen[p] = max[1]
          BY <4>3, <1>0, <1>1 DEF LargestIsFirst
        <4>5. p \in DOMAIN seen' /\ seen'[p] = seen[p]
          BY <1>1, <1>4
        <4>6. max'[1] = max[1]
          BY <3>2, <1>3, Places
        <4> QED
          BY <4>4, <4>5, <4>6
      <3> QED
        BY <3>1, <3>2
    <2> QED
      BY <2>2, <2>3 DEF LargestIsFirst
  <1>8. EachFromItsOwnPixel'
    <2>1. \A j \in 1 .. Size : from[j] \in 0 .. Len(seen)
      BY <1>0 DEF PreflightTypeOK
    <2>2. next # 0 /\ \A j \in 1 .. Size : from[j] # next
      BY <2>1, <1>1
    <2> SUFFICES ASSUME NEW j \in 1 .. Size
                 PROVE  /\ from'[j] = 0 => max'[j] = Lowest
                        /\ from'[j] # 0 => seen'[from'[j]] = max'[j]
                        /\ \A l \in 1 .. Size : from'[l] = from'[j] /\ from'[j] # 0 => l = j
      BY DEF EachFromItsOwnPixel
    <2>3. CASE j = k
      BY <2>3, <2>2, <1>3, <1>4
    <2>4. CASE j # k
      <3>1. /\ from[j] = 0 => max[j] = Lowest
            /\ from[j] # 0 => seen[from[j]] = max[j]
            /\ \A l \in 1 .. Size : from[l] = from[j] /\ from[j] # 0 => l = j
        BY <1>0 DEF EachFromItsOwnPixel
      <3>2. from[j] # 0 => seen'[from[j]] = seen[from[j]]
        BY <2>1, <1>1, <1>4
      <3> QED
        BY <2>4, <2>2, <3>1, <3>2, <1>3
    <2> QED
      BY <2>3, <2>4
  <1> QED
    BY <1>5, <1>6, <1>7, <1>8 DEF PreflightInv

(* ... and for one that no place is free for.                                 *)
LEMMA VisitPassesOver ==
  ASSUME PreflightInv, NEW v \in Shorts, Visit(v), Smaller(v) = {}, UNCHANGED <<max, from>>
  PROVE  PreflightInv'
  <1>0. /\ PreflightTypeOK /\ MaximaDescend /\ LargestIsFirst /\ EachFromItsOwnPixel
        /\ v \in Int /\ Lowest \in Int
    BY ShortsAssumption DEF PreflightInv
  <1>1. /\ \A j \in 1 .. Size : max[j] \in Int
        /\ DOMAIN seen = 1 .. Len(seen) /\ Len(seen) \in Nat
        /\ \A p \in 1 .. Len(seen) : seen[p] \in Int
    BY <1>0, KeptAreNumbers
  <1>2. v <= max[1]
    BY <1>0, <1>1, Places DEF Smaller
  <1>4. /\ seen' = Append(seen, v) /\ seen' \in Seq(Shorts)
        /\ Len(seen') = Len(seen) + 1 /\ DOMAIN seen' = 1 .. Len(seen) + 1
        /\ seen'[Len(seen) + 1] = v
        /\ \A p \in 1 .. Len(seen) : seen'[p] = seen[p]
    BY <1>0 DEF Visit, PreflightTypeOK
  <1>5. PreflightTypeOK'
    <2>1. from' \in [1 .. Size -> 0 .. Len(seen')]
      BY <1>0, <1>1, <1>4 DEF PreflightTypeOK
    <2> QED
      BY <1>0, <1>4, <2>1 DEF PreflightTypeOK, Visit
  <1>6. MaximaDescend'
    BY <1>0 DEF MaximaDescend
  <1>7. LargestIsFirst'
    <2>1. \A p \in DOMAIN seen' : seen'[p] <= max'[1]
      <3> SUFFICES ASSUME NEW p \in 1 .. Len(seen) + 1 PROVE seen'[p] <= max[1]
        BY <1>4
      <3>1. CASE p = Len(seen) + 1
        BY <3>1, <1>2, <1>4
      <3>2. CASE p # Len(seen) + 1
        <4>1. p \in 1 .. Len(seen)
          BY <3>2, <1>1
        <4> QED
          BY <4>1, <1>0, <1>1, <1>4 DEF LargestIsFirst
      <3> QED
        BY <3>1, <3>2
    <2>2. \E p \in DOMAIN seen' : seen'[p] = max'[1]
      <3>1. CASE seen = <<>>
        <4>1. max[1] = Lowest
          BY <3>1, NothingSeen, Places
        <4>2. v = max[1]
          BY <4>1, <1>0, <1>2, LowestAssumption
        <4> QED
          BY <4>2, <1>1, <1>4
      <3>2. CASE seen # <<>>
        <4>1. PICK p \in 1 .. Len(seen) : seen[p] = max[1]
          BY <3>2, <1>0, <1>1 DEF LargestIsFirst
        <4> QED
          BY <4>1, <1>1, <1>4
      <3> QED
        BY <3>1, <3>2
    <2> QED
      BY <2>1, <2>2 DEF LargestIsFirst
  <1>8. EachFromItsOwnPixel'
    <2>1. \A j \in 1 .. Size : from[j] \in 0 .. Len(seen)
      BY <1>0 DEF PreflightTypeOK
    <2>2. \A j \in 1 .. Size : from[j] # 0 => seen'[from[j]] = seen[from[j]]
      BY <2>1, <1>1, <1>4
    <2> QED
      BY <1>0, <2>2 DEF EachFromItsOwnPixel
  <1> QED
    BY <1>5, <1>6, <1>7, <1>8 DEF PreflightInv

LEMMA StepInv == PreflightInv /\ [PreflightNext]_preflightVars => PreflightInv'
  <1> SUFFICES ASSUME PreflightInv, [PreflightNext]_preflightVars PROVE PreflightInv'
    OBVIOUS
  <1>1. CASE Decide
    BY <1>1 DEF Decide, PreflightInv, PreflightTypeOK, MaximaDescend, LargestIsFirst,
                EachFromItsOwnPixel
  <1>2. ASSUME NEW v \in Shorts, Visit(v) PROVE PreflightInv'
    <2>1. CASE Keep(v)
      <3>1. PICK k \in 1 .. Size : /\ IsPlace(k, v)
                                   /\ max' = [max EXCEPT ![k] = v]
                                   /\ from' = [from EXCEPT ![k] = Len(seen) + 1]
        BY <2>1 DEF Keep
      <3> QED
        BY <1>2, <3>1, VisitKeeps
    <2>2. CASE Smaller(v) = {} /\ UNCHANGED <<max, from>>
      BY <1>2, <2>2, VisitPassesOver
    <2> QED
      BY <1>2, <2>1, <2>2 DEF Visit
  <1>3. CASE UNCHANGED preflightVars
    BY <1>3 DEF preflightVars, PreflightInv, PreflightTypeOK, MaximaDescend, LargestIsFirst,
                EachFromItsOwnPixel
  <1> QED
    BY <1>1, <1>2, <1>3 DEF PreflightNext

(* The invariant, of which the properties are the parts.                      *)
THEOREM PreflightInvariant == PreflightSpec => []PreflightInv
  BY PreflightInitInv, StepInv, PTL DEF PreflightSpec

(* The ten values are in descending order after every pixel                   *)
(* (preflight.cpp:22-27).                                                     *)
THEOREM AlwaysDescending == PreflightSpec => []MaximaDescend
  <1>1. PreflightInv => MaximaDescend
    BY DEF PreflightInv
  <1> QED
    BY <1>1, PreflightInvariant, PTL

(* The largest value of the image is never lost, whatever the order of the    *)
(* pixels.                                                                    *)
THEOREM LargestIsKept == PreflightSpec => []LargestIsFirst
  <1>1. PreflightInv => LargestIsFirst
    BY DEF PreflightInv
  <1> QED
    BY <1>1, PreflightInvariant, PTL

(* No pixel is counted twice in the sum.                                      *)
THEOREM NoPixelTwice == PreflightSpec => []EachFromItsOwnPixel
  <1>1. PreflightInv => EachFromItsOwnPixel
    BY DEF PreflightInv
  <1> QED
    BY <1>1, PreflightInvariant, PTL

-----------------------------------------------------------------------------
(* Sums.  The sum of the focus measure is a recursive function: its partial   *)
(* sums are known by what they add up.                                        *)

\* f holds the sums of the first values, up to n of them.
AddsUp(f, values, n) == f[0] = 0 /\ \A k \in 1 .. n : f[k] = f[k - 1] + values[k]

\* Values that are the same, and that are but for one of them.
SameValues(a, b, n) == \A k \in 1 .. n : a[k] = b[k]

SameButFor(j, a, b, n) ==
    /\ j \in 1 .. n
    /\ \A k \in 1 .. n : a[k] \in Int /\ b[k] \in Int
    /\ \A k \in 1 .. n : k # j => a[k] = b[k]

\* The function that Sum is defined with, for n values.
PartialSums(f, values, n) ==
    f = [k \in 0 .. n |-> IF k = 0 THEN 0 ELSE f[k - 1] + values[k]]

\* There are partial sums of any values.
LEMMA SumsExist ==
  ASSUME NEW values
  PROVE  \A n \in Nat : \E f : PartialSums(f, values, n)
  <1> DEFINE S == {n \in Nat : \E f : PartialSums(f, values, n)}
  <1>1. 0 \in S
    <2>1. PICK f : f = [k \in 0 .. 0 |-> 0]
      OBVIOUS
    <2>2. PartialSums(f, values, 0)
      BY <2>1 DEF PartialSums
    <2> QED
      BY <2>2
  <1>2. ASSUME NEW n \in Nat, n \in S PROVE n + 1 \in S
    <2>1. PICK f : PartialSums(f, values, n)
      BY <1>2
    <2>2. PICK l : l = f[n] + values[n + 1]
      OBVIOUS
    <2>3. PICK g : g = [k \in 0 .. n + 1 |-> IF k = n + 1 THEN l ELSE f[k]]
      OBVIOUS
    <2>4. \A k \in 0 .. n : f[k] = IF k = 0 THEN 0 ELSE f[k - 1] + values[k]
      BY <2>1 DEF PartialSums
    <2>5. \A k \in 0 .. n : g[k] = IF k = 0 THEN 0 ELSE g[k - 1] + values[k]
      BY <2>3, <2>4
    <2>6. g[n + 1] = IF n + 1 = 0 THEN 0 ELSE g[n] + values[n + 1]
      BY <2>2, <2>3
    <2>7. g = [k \in 0 .. n + 1 |-> IF k = 0 THEN 0 ELSE g[k - 1] + values[k]]
      <3>1. \A k \in 0 .. n + 1 : g[k] = IF k = 0 THEN 0 ELSE g[k - 1] + values[k]
        BY <2>5, <2>6
      <3>2. g = [k \in 0 .. n + 1 |-> g[k]]
        BY <2>3
      <3> QED
        BY <3>1, <3>2
    <2> QED
      BY <2>7 DEF PartialSums
  <1>3. Nat \subseteq S
    <2> HIDE DEF S
    <2> QED
      BY <1>1, <1>2, Induction
  <1> QED
    BY <1>3

\* Partial sums add up.
LEMMA PartialSumsAddUp ==
  ASSUME NEW values, NEW n \in Nat, NEW f, PartialSums(f, values, n)
  PROVE  AddsUp(f, values, n)
  <1>1. \A k \in 0 .. n : f[k] = IF k = 0 THEN 0 ELSE f[k - 1] + values[k]
    BY DEF PartialSums
  <1> QED
    BY <1>1 DEF AddsUp

\* Sum is the last of its partial sums.
LEMMA SumAddsUp ==
  ASSUME NEW values
  PROVE  \E f : AddsUp(f, values, Size) /\ Sum(values) = f[Size]
  <1>1. PICK g : PartialSums(g, values, Size)
    BY SumsExist, SizeAssumption
  <1>2. PICK f : f = CHOOSE h : PartialSums(h, values, Size)
    OBVIOUS
  <1>3. PartialSums(f, values, Size)
    BY <1>1, <1>2
  <1>4. Sum(values) = f[Size]
    BY <1>2, Zenon DEF Sum, PartialSums
  <1> QED
    BY <1>3, <1>4, PartialSumsAddUp, SizeAssumption

\* Sums of integers are integers.
LEMMA SumsTyped ==
  ASSUME NEW n \in Nat, NEW values, \A k \in 1 .. n : values[k] \in Int,
         NEW f, AddsUp(f, values, n)
  PROVE  \A m \in 0 .. n : f[m] \in Int
  <1> DEFINE S == {m \in Nat : m <= n => f[m] \in Int}
  <1>1. 0 \in S
    BY DEF AddsUp
  <1>2. ASSUME NEW m \in Nat, m \in S PROVE m + 1 \in S
    <2> SUFFICES ASSUME m + 1 <= n PROVE f[m + 1] \in Int
      OBVIOUS
    <2>1. f[m + 1] = f[m] + values[m + 1]
      <3>1. m + 1 \in 1 .. n /\ (m + 1) - 1 = m
        OBVIOUS
      <3> QED
        BY <3>1 DEF AddsUp
    <2>2. values[m + 1] \in Int
      OBVIOUS
    <2> QED
      BY <1>2, <2>1, <2>2
  <1>3. Nat \subseteq S
    <2> HIDE DEF S
    <2> QED
      BY <1>1, <1>2, Induction
  <1> QED
    BY <1>3

\* Sums of the same values are the same.
LEMMA SumsUnique ==
  ASSUME NEW n \in Nat, NEW a, NEW b, SameValues(a, b, n),
         NEW f, AddsUp(f, a, n), NEW g, AddsUp(g, b, n)
  PROVE  \A m \in 0 .. n : g[m] = f[m]
  <1> DEFINE S == {m \in Nat : m <= n => g[m] = f[m]}
  <1>1. 0 \in S
    BY DEF AddsUp
  <1>2. ASSUME NEW m \in Nat, m \in S PROVE m + 1 \in S
    <2> SUFFICES ASSUME m + 1 <= n PROVE g[m + 1] = f[m + 1]
      OBVIOUS
    <2>1. m + 1 \in 1 .. n /\ (m + 1) - 1 = m
      OBVIOUS
    <2>2. f[m + 1] = f[m] + a[m + 1] /\ g[m + 1] = g[m] + b[m + 1] /\ a[m + 1] = b[m + 1]
      BY <2>1 DEF AddsUp, SameValues
    <2> QED
      BY <1>2, <2>1, <2>2
  <1>3. Nat \subseteq S
    <2> HIDE DEF S
    <2> QED
      BY <1>1, <1>2, Induction
  <1> QED
    BY <1>3

\* One value that is another changes the sum by the difference.
LEMMA SumsUpdate ==
  ASSUME NEW n \in Nat, NEW j, NEW a, NEW b, SameButFor(j, a, b, n),
         NEW f, AddsUp(f, a, n), NEW g, AddsUp(g, b, n)
  PROVE  g[n] = f[n] + b[j] - a[j]
  <1> DEFINE S == {m \in Nat : m <= n => g[m] = IF m < j THEN f[m] ELSE f[m] + b[j] - a[j]}
  <1>0. j \in 1 .. n /\ \A m \in 0 .. n : f[m] \in Int /\ g[m] \in Int
    BY SumsTyped DEF SameButFor
  <1>1. 0 \in S
    BY <1>0 DEF AddsUp
  <1>2. ASSUME NEW m \in Nat, m \in S PROVE m + 1 \in S
    <2> SUFFICES ASSUME m + 1 <= n
                 PROVE  g[m + 1] = IF m + 1 < j THEN f[m + 1] ELSE f[m + 1] + b[j] - a[j]
      OBVIOUS
    <2>1. m + 1 \in 1 .. n /\ (m + 1) - 1 = m /\ m \in 0 .. n
      OBVIOUS
    <2>2. f[m + 1] = f[m] + a[m + 1] /\ g[m + 1] = g[m] + b[m + 1]
      BY <2>1 DEF AddsUp
    <2>3. g[m] = IF m < j THEN f[m] ELSE f[m] + b[j] - a[j]
      BY <1>2, <2>1
    <2>4. /\ f[m] \in Int /\ g[m] \in Int /\ a[m + 1] \in Int /\ b[m + 1] \in Int
          /\ a[j] \in Int /\ b[j] \in Int
          /\ m + 1 # j => a[m + 1] = b[m + 1]
      BY <1>0, <2>1 DEF SameButFor
    <2>5. CASE m + 1 = j
      <3>1. g[m] = f[m] /\ ~(m + 1 < j)
        BY <2>3, <2>5
      <3> QED
        BY <2>2, <2>4, <2>5, <3>1
    <2>6. CASE m + 1 < j
      <3>1. g[m] = f[m] /\ m + 1 # j
        BY <1>0, <2>3, <2>6
      <3> QED
        BY <1>0, <2>2, <2>4, <2>6, <3>1
    <2>7. CASE m + 1 > j
      <3>1. g[m] = f[m] + b[j] - a[j] /\ m + 1 # j /\ ~(m + 1 < j)
        BY <1>0, <2>3, <2>7
      <3> QED
        BY <1>0, <2>2, <2>4, <3>1
    <2> QED
      BY <1>0, <2>5, <2>6, <2>7
  <1>3. Nat \subseteq S
    <2> HIDE DEF S
    <2> QED
      BY <1>1, <1>2, Induction
  <1>4. n \in S
    BY <1>3
  <1> QED
    BY <1>0, <1>4

\* Of values in descending order, no choice of n places adds up to more than
\* the first n.  By induction: one of the chosen places, j, is n or behind it;
\* it is put last, in exchange for the one that is.
Descends(v, l) == \A p, r \in 1 .. l : p <= r => v[p] >= v[r]

AtMostTheFirst(v, l, n) ==
    \A q \in Injection(1 .. n, 1 .. l) :
        \A f, g : AddsUp(f, [k \in 1 .. n |-> v[q[k]]], n) /\ AddsUp(g, v, n) => f[n] <= g[n]

LEMMA OneIsBehind ==
  ASSUME NEW l \in Nat, NEW n \in Nat, NEW q \in Injection(1 .. n + 1, 1 .. l)
  PROVE  \E j \in 1 .. n + 1 : q[j] >= n + 1
  <1>1. q \in [1 .. n + 1 -> 1 .. l] /\ \A j, k \in 1 .. n + 1 : q[j] = q[k] => j = k
    BY DEF Injection, IsInjective
  <1> SUFFICES ASSUME \A j \in 1 .. n + 1 : ~(q[j] >= n + 1) PROVE FALSE
    OBVIOUS
  <1>2. q \in [1 .. n + 1 -> 1 .. n]
    BY <1>1
  <1>3. /\ IsFiniteSet(1 .. n + 1) /\ Cardinality(1 .. n + 1) = n + 1
        /\ IsFiniteSet(1 .. n) /\ Cardinality(1 .. n) = n
    <2>1. IsFiniteSet(1 .. n + 1) /\ Cardinality(1 .. n + 1) = IF 1 > n + 1 THEN 0 ELSE n + 1 - 1 + 1
      BY FS_Interval
    <2>2. IsFiniteSet(1 .. n) /\ Cardinality(1 .. n) = IF 1 > n THEN 0 ELSE n - 1 + 1
      BY FS_Interval
    <2> QED
      BY <2>1, <2>2
  <1>4. Cardinality(1 .. n) < Cardinality(1 .. n + 1)
    BY <1>3
  <1>5. \E j, k \in 1 .. n + 1 : j # k /\ q[j] = q[k]
    BY <1>2, <1>3, <1>4, FS_PigeonHole
  <1> QED
    BY <1>1, <1>5

LEMMA AtMostTheFirstNext ==
  ASSUME NEW l \in Nat, NEW v, \A p \in 1 .. l : v[p] \in Int, Descends(v, l),
         NEW n \in Nat, AtMostTheFirst(v, l, n), n + 1 <= l
  PROVE  AtMostTheFirst(v, l, n + 1)
  <1> SUFFICES ASSUME NEW q \in Injection(1 .. n + 1, 1 .. l),
                      NEW f, AddsUp(f, [k \in 1 .. n + 1 |-> v[q[k]]], n + 1),
                      NEW g, AddsUp(g, v, n + 1)
               PROVE  f[n + 1] <= g[n + 1]
    BY DEF AtMostTheFirst
  <1>1. q \in [1 .. n + 1 -> 1 .. l] /\ \A j, k \in 1 .. n + 1 : q[j] = q[k] => j = k
    BY DEF Injection, IsInjective
  <1>2. PICK j \in 1 .. n + 1 : q[j] >= n + 1
    BY OneIsBehind
  <1>3. PICK a : a = [k \in 1 .. n + 1 |-> v[q[k]]]
    OBVIOUS
  <1>4. \A k \in 1 .. n + 1 : a[k] = v[q[k]] /\ a[k] \in Int /\ v[k] \in Int
    BY <1>1, <1>3
  <1>5. /\ AddsUp(f, a, n) /\ AddsUp(g, v, n)
        /\ f[n + 1] = f[n] + a[n + 1] /\ g[n + 1] = g[n] + v[n + 1]
    <2>1. AddsUp(f, a, n + 1)
      BY <1>3
    <2>2. n + 1 \in 1 .. n + 1 /\ (n + 1) - 1 = n /\ 1 .. n \subseteq 1 .. n + 1
      OBVIOUS
    <2> QED
      BY <2>1, <2>2 DEF AddsUp
  <1>6. f[n] \in Int /\ g[n] \in Int
    <2>1. \A k \in 1 .. n : a[k] \in Int /\ v[k] \in Int
      BY <1>4
    <2>2. \A m \in 0 .. n : f[m] \in Int
      BY <1>5, <2>1, SumsTyped
    <2>3. \A m \in 0 .. n : g[m] \in Int
      BY <1>5, <2>1, SumsTyped
    <2> QED
      BY <2>2, <2>3
  <1>7. v[q[j]] <= v[n + 1]
    BY <1>1, <1>2 DEF Descends
  <1>8. PICK w : w = [k \in 1 .. n |-> IF k = j THEN q[n + 1] ELSE q[k]]
    OBVIOUS
  <1>9. w \in Injection(1 .. n, 1 .. l)
    <2>1. w \in [1 .. n -> 1 .. l]
      BY <1>1, <1>8
    <2>2. ASSUME NEW c \in 1 .. n, NEW d \in 1 .. n, w[c] = w[d] PROVE c = d
      <3>1. /\ w[c] = IF c = j THEN q[n + 1] ELSE q[c]
            /\ w[d] = IF d = j THEN q[n + 1] ELSE q[d]
            /\ c \in 1 .. n + 1 /\ d \in 1 .. n + 1 /\ c # n + 1 /\ d # n + 1
            /\ n + 1 \in 1 .. n + 1
        BY <1>8
      <3> QED
        BY <1>1, <2>2, <3>1
    <2> QED
      BY <2>1, <2>2 DEF Injection, IsInjective
  <1>10. PICK b : b = [k \in 1 .. n |-> v[w[k]]]
    OBVIOUS
  <1>11. PICK h : AddsUp(h, b, n)
    BY SumsExist, PartialSumsAddUp
  <1>12. h[n] <= g[n]
    BY <1>5, <1>9, <1>10, <1>11 DEF AtMostTheFirst
  <1>13. CASE j = n + 1
    <2>1. SameValues(a, b, n)
      BY <1>3, <1>8, <1>10, <1>13 DEF SameValues
    <2>2. \A m \in 0 .. n : h[m] = f[m]
      <3>1. AddsUp(f, a, n)
        BY <1>5
      <3> QED
        BY <2>1, <3>1, <1>11, SumsUnique
    <2>3. h[n] = f[n] /\ a[n + 1] = v[q[j]] /\ v[q[j]] \in Int /\ v[n + 1] \in Int
      BY <2>2, <1>4, <1>13
    <2> QED
      BY <2>3, <1>5, <1>6, <1>7, <1>12
  <1>14. CASE j # n + 1
    <2>1. j \in 1 .. n
      BY <1>14
    <2>2. \A k \in 1 .. n : k # j => a[k] = b[k]
      BY <1>3, <1>8, <1>10
    <2>3. b[j] = a[n + 1] /\ a[j] = v[q[j]]
      BY <2>1, <1>3, <1>8, <1>10
    <2>4. \A k \in 1 .. n : a[k] \in Int /\ b[k] \in Int
      BY <2>1, <2>2, <2>3, <1>4
    <2>5. SameButFor(j, a, b, n)
      BY <2>1, <2>2, <2>4 DEF SameButFor
    <2>6. h[n] = f[n] + b[j] - a[j]
      <3>1. AddsUp(f, a, n)
        BY <1>5
      <3> QED
        BY <2>5, <3>1, <1>11, SumsUpdate
    <2>7. a[n + 1] \in Int /\ a[j] \in Int /\ v[n + 1] \in Int
      BY <1>4
    <2>8. PICK x \in Int, y \in Int, z \in Int : x = a[n + 1] /\ y = a[j] /\ z = v[n + 1]
      BY <2>7
    <2>9. h[n] = f[n] + x - y /\ y <= z /\ f[n + 1] = f[n] + x /\ g[n + 1] = g[n] + z
      BY <2>3, <2>6, <2>8, <1>5, <1>7
    <2> QED
      BY <2>9, <1>6, <1>12
  <1> QED
    BY <1>13, <1>14

LEMMA Rearrangement ==
  ASSUME NEW l \in Nat, NEW v, \A p \in 1 .. l : v[p] \in Int, Descends(v, l)
  PROVE  \A n \in 0 .. l : AtMostTheFirst(v, l, n)
  <1> DEFINE S == {n \in Nat : n <= l => AtMostTheFirst(v, l, n)}
  <1>1. 0 \in S
    BY DEF AtMostTheFirst, AddsUp
  <1>2. ASSUME NEW n \in Nat, n \in S PROVE n + 1 \in S
    BY <1>2, AtMostTheFirstNext
  <1>3. Nat \subseteq S
    <2> HIDE DEF S
    <2> QED
      BY <1>1, <1>2, Induction
  <1> QED
    BY <1>3

-----------------------------------------------------------------------------
(* What the decision rests on.  The sum is of the values that are kept, and   *)
(* of an image whose pixels come in descending order the first are kept.      *)
DecidedInv ==
    /\ focus = "inFocus" => Sum(max) >= Threshold
    /\ focus = "notInFocus" => Sum(max) < Threshold

FirstAreKept == SeenDescends => \A k \in 1 .. Size : max[k] = PixelValue(k)

SharpInv == PreflightInv /\ DecidedInv /\ FirstAreKept

LEMMA SumTyped ==
  ASSUME NEW values, \A k \in 1 .. Size : values[k] \in Int
  PROVE  Sum(values) \in Int
  <1>1. PICK f : AddsUp(f, values, Size) /\ Sum(values) = f[Size]
    BY SumAddsUp
  <1>2. \A m \in 0 .. Size : f[m] \in Int
    BY <1>1, SumsTyped, SizeAssumption
  <1> QED
    BY <1>1, <1>2, SizeAssumption

LEMMA SharpInit == PreflightInit => SharpInv
  <1> SUFFICES ASSUME PreflightInit PROVE SharpInv
    OBVIOUS
  <1>1. PreflightInv
    BY PreflightInitInv
  <1>2. DecidedInv
    BY DEF PreflightInit, DecidedInv
  <1>3. FirstAreKept
    <2>1. \A k \in 1 .. Size : max[k] = Lowest /\ k \notin DOMAIN seen
      BY DEF PreflightInit
    <2> QED
      BY <2>1 DEF FirstAreKept, PixelValue
  <1> QED
    BY <1>1, <1>2, <1>3 DEF SharpInv

\* Of pixels in descending order, the next goes where the filling begins, or is
\* passed over.
LEMMA VisitDescending ==
  ASSUME SharpInv, NEW v \in Shorts, Visit(v)
  PROVE  FirstAreKept'
  <1> SUFFICES ASSUME SeenDescends', NEW k \in 1 .. Size PROVE max'[k] = PixelValue(k)'
    BY DEF FirstAreKept
  <1>0. PreflightTypeOK /\ v \in Int /\ Lowest \in Int /\ Lowest <= v /\ Size \in Nat
    BY ShortsAssumption, LowestAssumption, SizeAssumption DEF SharpInv, PreflightInv
  <1>1. PICK n \in Nat : n = Len(seen)
    BY <1>0 DEF PreflightTypeOK
  <1>2. /\ DOMAIN seen = 1 .. n /\ DOMAIN seen' = 1 .. n + 1 /\ seen'[n + 1] = v
        /\ \A p \in 1 .. n : seen'[p] = seen[p] /\ seen[p] \in Int
    <2>1. /\ seen' = Append(seen, v) /\ seen \in Seq(Shorts)
      BY <1>0 DEF Visit, PreflightTypeOK
    <2>2. \A p \in 1 .. n : seen[p] \in Shorts
      BY <2>1, <1>1
    <2>3. /\ DOMAIN seen = 1 .. n /\ DOMAIN seen' = 1 .. n + 1 /\ seen'[n + 1] = v
          /\ \A p \in 1 .. n : seen'[p] = seen[p]
      BY <2>1, <1>1
    <2> QED
      BY <2>2, <2>3, ShortsAssumption
  <1>3. \A p \in 1 .. n : seen[p] >= v
    <2>1. \A p \in 1 .. n + 1 : seen'[p] >= seen'[n + 1]
      BY <1>2 DEF SeenDescends
    <2> QED
      BY <2>1, <1>2
  <1>4. SeenDescends
    BY <1>2 DEF SeenDescends
  <1>5. /\ \A j \in 1 .. Size : j <= n => max[j] = seen[j]
        /\ \A j \in 1 .. Size : ~(j <= n) => max[j] = Lowest
    BY <1>2, <1>4 DEF SharpInv, FirstAreKept, PixelValue
  <1>6. \A j \in Smaller(v) : j \in 1 .. Size /\ max[j] < v /\ j > n
    BY <1>0, <1>2, <1>3, <1>5 DEF Smaller
  <1>7. PixelValue(k)' = IF k \in 1 .. n + 1 THEN seen'[k] ELSE Lowest
    BY <1>2 DEF PixelValue
  <1>8. CASE Keep(v)
    <2>1. PICK j \in 1 .. Size : IsPlace(j, v) /\ max' = [max EXCEPT ![j] = v]
      BY <1>8 DEF Keep
    <2>2. j \in Smaller(v) /\ \A m \in Smaller(v) : j <= m
      BY <2>1 DEF IsPlace
    <2>3. j > n /\ Lowest < v
      BY <2>2, <1>5, <1>6
    <2>4. n + 1 \in 1 .. Size /\ max[n + 1] = Lowest
      BY <2>3, <1>0, <1>5
    <2>5. n + 1 \in Smaller(v)
      BY <2>3, <2>4 DEF Smaller
    <2>6. j = n + 1
      BY <2>2, <2>3, <2>5
    <2>7. max'[k] = IF k = n + 1 THEN v ELSE max[k]
      BY <2>1, <2>6, <1>0 DEF PreflightTypeOK
    <2> QED
      BY <2>7, <1>2, <1>5, <1>7
  <1>9. CASE Smaller(v) = {} /\ UNCHANGED <<max, from>>
    <2>1. CASE k = n + 1
      <3>1. max[k] = Lowest
        BY <2>1, <1>5
      <3>2. ~(max[k] < v)
        BY <1>9 DEF Smaller
      <3> QED
        BY <2>1, <3>1, <3>2, <1>0, <1>2, <1>7, <1>9
    <2>2. CASE k # n + 1
      BY <2>2, <1>2, <1>5, <1>7, <1>9
    <2> QED
      BY <2>1, <2>2
  <1> QED
    BY <1>8, <1>9 DEF Visit

LEMMA SharpStep == SharpInv /\ [PreflightNext]_preflightVars => SharpInv'
  <1> SUFFICES ASSUME SharpInv, [PreflightNext]_preflightVars PROVE SharpInv'
    OBVIOUS
  <1>1. PreflightInv'
    BY StepInv DEF SharpInv
  <1>2. CASE Decide
    <2>1. Sum(max) \in Int
      BY KeptAreNumbers, SumTyped DEF SharpInv, PreflightInv
    <2>2. DecidedInv'
      BY <1>2, <2>1, ThresholdAssumption DEF Decide, DecidedInv
    <2>3. FirstAreKept'
      BY <1>2 DEF Decide, SharpInv, FirstAreKept, SeenDescends, PixelValue
    <2> QED
      BY <1>1, <2>2, <2>3 DEF SharpInv
  <1>3. ASSUME NEW v \in Shorts, Visit(v) PROVE SharpInv'
    <2>1. DecidedInv'
      BY <1>3 DEF Visit, DecidedInv
    <2>2. FirstAreKept'
      BY <1>3, VisitDescending
    <2> QED
      BY <1>1, <2>1, <2>2 DEF SharpInv
  <1>4. CASE UNCHANGED preflightVars
    BY <1>1, <1>4 DEF preflightVars, SharpInv, DecidedInv, FirstAreKept, SeenDescends, PixelValue
  <1> QED
    BY <1>2, <1>3, <1>4 DEF PreflightNext

\* The pixels that the values kept come from are a choice that has their sum.
LEMMA KeptAreChosen ==
  ASSUME PreflightInv
  PROVE  \E choice \in Selections : Sharpness(choice) = Sum(max)
  <1>0. PreflightTypeOK /\ EachFromItsOwnPixel
    BY DEF PreflightInv
  <1>1. PICK n \in Nat : n = Len(seen) /\ DOMAIN seen = 1 .. n
    BY <1>0 DEF PreflightTypeOK
  <1>2. PICK q : q = [k \in 1 .. Size |-> IF from[k] = 0 THEN n + k ELSE from[k]]
    OBVIOUS
  <1>3. \A k \in 1 .. Size : from[k] \in 0 .. n
    BY <1>0, <1>1 DEF PreflightTypeOK
  <1>4. q \in Injection(1 .. Size, Pixels)
    <2>1. q \in [1 .. Size -> Pixels]
      BY <1>1, <1>2, <1>3, SizeAssumption DEF Pixels
    <2>2. ASSUME NEW c \in 1 .. Size, NEW d \in 1 .. Size, q[c] = q[d] PROVE c = d
      <3>1. /\ q[c] = IF from[c] = 0 THEN n + c ELSE from[c]
            /\ q[d] = IF from[d] = 0 THEN n + d ELSE from[d]
            /\ from[c] \in 0 .. n /\ from[d] \in 0 .. n
        BY <1>2, <1>3
      <3>2. from[c] = from[d] /\ from[d] # 0 => c = d
        BY <1>0 DEF EachFromItsOwnPixel
      <3>3. PICK x \in 0 .. n, y \in 0 .. n : x = from[c] /\ y = from[d]
        BY <3>1
      <3>4. c \in Nat /\ c > 0 /\ d \in Nat /\ d > 0
        BY SizeAssumption
      <3>5. /\ q[c] = IF x = 0 THEN n + c ELSE x
            /\ q[d] = IF y = 0 THEN n + d ELSE y
            /\ x = y /\ y # 0 => c = d
        BY <3>1, <3>2, <3>3
      <3>6. PICK u, w : u = q[c] /\ w = q[d]
        OBVIOUS
      <3>7. /\ u = w
            /\ u = IF x = 0 THEN n + c ELSE x
            /\ w = IF y = 0 THEN n + d ELSE y
        BY <2>2, <3>5, <3>6
      <3>8. CASE x = 0
        <4>1. u = n + c /\ (y = 0 => w = n + d)
          BY <3>7, <3>8
        <4>2. u > n
          BY <4>1, <3>4
        <4>3. y = 0
          <5> SUFFICES ASSUME y # 0 PROVE FALSE
            OBVIOUS
          <5>1. w = y /\ u = w
            BY <3>7
          <5> QED
            BY <4>2, <5>1
        <4> QED
          BY <4>1, <4>3, <3>4, <3>7
      <3>9. CASE x # 0
        <4>1. u = x /\ (y = 0 => w = n + d)
          BY <3>7, <3>9
        <4>2. y # 0
          BY <4>1, <3>4, <3>7
        <4>3. w = y
          BY <4>2, <3>7
        <4> QED
          BY <4>1, <4>2, <4>3, <3>5, <3>7
      <3> QED
        BY <3>8, <3>9
    <2> QED
      BY <2>1, <2>2 DEF Injection, IsInjective
  <1>5. \A k \in 1 .. Size : PixelValue(q[k]) = max[k]
    <2> SUFFICES ASSUME NEW k \in 1 .. Size PROVE PixelValue(q[k]) = max[k]
      OBVIOUS
    <2>1. /\ from[k] = 0 => max[k] = Lowest
          /\ from[k] # 0 => seen[from[k]] = max[k]
      BY <1>0 DEF EachFromItsOwnPixel
    <2> QED
      BY <2>1, <1>1, <1>2, <1>3 DEF PixelValue
  <1>6. [k \in 1 .. Size |-> PixelValue(q[k])] = max
    BY <1>0, <1>5 DEF PreflightTypeOK
  <1> QED
    BY <1>4, <1>6 DEF Selections, Sharpness

\* No choice of pixels has a larger sum than the first.
LEMMA FirstAreLargest ==
  ASSUME SharpInv, SeenDescends, NEW choice \in Selections
  PROVE  Sharpness(choice) <= Sum(max)
  <1>0. PreflightTypeOK /\ Lowest \in Int /\ Size \in Nat
    BY ShortsAssumption, SizeAssumption DEF SharpInv, PreflightInv
  <1>1. PICK n \in Nat : n = Len(seen) /\ DOMAIN seen = 1 .. n
    BY <1>0 DEF PreflightTypeOK
  <1>2. \A p \in 1 .. n : seen[p] \in Int /\ Lowest <= seen[p]
    <2>1. \A p \in 1 .. n : seen[p] \in Shorts
      BY <1>0, <1>1 DEF PreflightTypeOK
    <2> QED
      BY <2>1, ShortsAssumption, LowestAssumption
  <1>3. PICK l \in Nat : l = n + Size
    BY <1>0
  <1>4. PICK v : v = [p \in 1 .. l |-> PixelValue(p)]
    OBVIOUS
  <1>5. \A p \in 1 .. l : v[p] = IF p \in 1 .. n THEN seen[p] ELSE Lowest
    BY <1>1, <1>4 DEF PixelValue
  <1>6. \A p \in 1 .. l : v[p] \in Int
    BY <1>0, <1>2, <1>5
  <1>7. Descends(v, l)
    <2> SUFFICES ASSUME NEW p \in 1 .. l, NEW r \in 1 .. l, p <= r PROVE v[p] >= v[r]
      BY DEF Descends
    <2>1. p \in 1 .. n /\ r \in 1 .. n => seen[p] >= seen[r]
      BY <1>1 DEF SeenDescends
    <2>2. r \in 1 .. n => p \in 1 .. n
      OBVIOUS
    <2> QED
      BY <2>1, <2>2, <1>0, <1>2, <1>5
  <1>8. AtMostTheFirst(v, l, Size)
    BY <1>0, <1>3, <1>6, <1>7, Rearrangement
  <1>9. choice \in Injection(1 .. Size, 1 .. l) /\ choice \in [1 .. Size -> 1 .. l]
    BY <1>1, <1>3 DEF Selections, Pixels, Injection
  <1>10. PICK a : a = [k \in 1 .. Size |-> PixelValue(choice[k])]
    OBVIOUS
  <1>11. a = [k \in 1 .. Size |-> v[choice[k]]]
    BY <1>4, <1>9, <1>10
  <1>12. PICK f : AddsUp(f, a, Size) /\ Sum(a) = f[Size]
    BY SumAddsUp
  <1>13. PICK g : AddsUp(g, max, Size) /\ Sum(max) = g[Size]
    BY SumAddsUp
  <1>14. \A k \in 1 .. Size : max[k] = v[k]
    BY <1>0, <1>3, <1>4 DEF SharpInv, FirstAreKept
  <1>15. AddsUp(g, v, Size)
    BY <1>13, <1>14 DEF AddsUp
  <1>16. f[Size] <= g[Size]
    BY <1>8, <1>9, <1>11, <1>12, <1>15 DEF AtMostTheFirst
  <1> QED
    BY <1>10, <1>12, <1>13, <1>16 DEF Sharpness

(* An image is found in focus only if it has pixels enough of values large    *)
(* enough, and if its pixels come in descending order, whenever it has        *)
(* (preflight.cpp:22-33).                                                     *)
THEOREM FocusIsSharp == PreflightSpec => []InFocusIsSharp
  <1>1. SharpInv => InFocusIsSharp
    <2> SUFFICES ASSUME SharpInv PROVE InFocusIsSharp
      OBVIOUS
    <2>1. focus = "inFocus" => \E choice \in Selections : Sharpness(choice) >= Threshold
      BY KeptAreChosen DEF SharpInv, DecidedInv
    <2>2. ASSUME focus = "notInFocus", SeenDescends, NEW choice \in Selections
          PROVE  Sharpness(choice) < Threshold
      <3>1. Sharpness(choice) <= Sum(max) /\ Sum(max) < Threshold
        BY <2>2, FirstAreLargest DEF SharpInv, DecidedInv
      <3>2. Sum(max) \in Int
        BY KeptAreNumbers, SumTyped DEF SharpInv, PreflightInv
      <3>3. Sharpness(choice) \in Int
        <4>1. \A p \in Pixels : PixelValue(p) \in Int
          BY KeptAreNumbers, ShortsAssumption DEF SharpInv, PreflightInv, PixelValue
        <4>2. choice \in [1 .. Size -> Pixels]
          BY DEF Selections, Injection
        <4>3. PICK a : a = [k \in 1 .. Size |-> PixelValue(choice[k])]
          OBVIOUS
        <4>4. \A k \in 1 .. Size : a[k] \in Int
          BY <4>1, <4>2, <4>3
        <4>5. Sum(a) \in Int
          BY <4>4, SumTyped
        <4> QED
          BY <4>3, <4>5 DEF Sharpness
      <3> QED
        BY <3>1, <3>2, <3>3, ThresholdAssumption
    <2> QED
      BY <2>1, <2>2 DEF InFocusIsSharp
  <1>2. PreflightSpec => []SharpInv
    BY SharpInit, SharpStep, PTL DEF PreflightSpec
  <1> QED
    BY <1>1, <1>2, PTL

-----------------------------------------------------------------------------
(* All of the recogniser's algorithms, side by side.                          *)

\* A message that no task reads.
LEMMA RestsInv == MessageRests => MessageInv
<1> SUFFICES ASSUME MessageRests PROVE MessageInv
  OBVIOUS
<1>1. /\ count = 0 /\ i = 0 /\ dataStart = 0 /\ images = <<>> /\ reading = "header" /\ writes = 0
      /\ body = <<>> /\ written = NotOurs
  BY DEF MessageRests
<1>2. body \in Seq(Byte) /\ Len(body) = 0
  BY <1>1
<1>3. MessageTypeOK
  BY <1>1, <1>2, NoImages, MaxIntProperties, WritesAssumption DEF MessageTypeOK
<1> QED
  BY <1>1, <1>3 DEF MessageInv, BodyInv, WrittenInv

(* TypeOK: the codec, the focus measure and the parser keep the types of      *)
(* their variables, each while it is at work and while another is.            *)
THEOREM NativeTypes == Spec => []TypeOK
<1>1. Init => MessageInv /\ PreflightInit /\ ParserInit
  BY MessageInitInv, RestsInv DEF Init, ParserRests
<1>2. [Next]_vars => [MessageNext]_messageVars
  BY DEF Next, vars
<1>3. [Next]_vars => [PreflightNext]_preflightVars
  BY DEF Next, vars
<1>4. [Next]_vars => [ParserNext]_parserVars
  BY DEF Next, vars
<1>5. Spec => []MessageInv
  BY <1>1, <1>2, NextInv, PTL DEF Spec
<1>6. Spec => PreflightSpec
  BY <1>1, <1>3, PTL DEF Spec, PreflightSpec
<1>7. Spec => ParserSpec
  BY <1>1, <1>4, PTL DEF Spec, ParserSpec
<1>8. MessageInv /\ PreflightInv /\ ParserTypeOK => TypeOK
  BY DEF MessageInv, PreflightInv, TypeOK
<1> QED
  BY <1>5, <1>6, <1>7, <1>8, PreflightInvariant, ParserTypes, PTL
=============================================================================
