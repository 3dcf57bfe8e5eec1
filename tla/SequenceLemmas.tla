--------------------------- MODULE SequenceLemmas ---------------------------
(* What the proofs about the texts, messages, documents and expressions of    *)
(* this system share: induction, and sequences one after the other.           *)
(*                                                                            *)
(* FlattenSeq is a recursive function, so its properties are proved by        *)
(* induction: over sets, by the least counterexample.                         *)
EXTENDS Integers, Sequences, SequencesExt, SequenceTheorems, WellFoundedInduction, TLAPS

-----------------------------------------------------------------------------
(* Induction, and what FlattenSeq computes.                                   *)

\* A set of numbers that is not empty has a least one.
LEMMA LeastNumber ==
    ASSUME NEW S \in SUBSET Nat, S # {} PROVE \E n \in S : \A m \in S : n <= m
<1>1. PICK n \in S : \A m \in S : <<m, n>> \notin OpToRel(<, Nat)
  BY NatLessThanWellFounded, WFMin, Zenon
<1>2. \A m \in S : ~(m < n)
  BY <1>1 DEF OpToRel
<1> QED
  BY <1>2

\* Induction, by the least counterexample, over a set instead of a predicate.
LEMMA Induction ==
    ASSUME NEW S, 0 \in S, \A n \in Nat : n \in S => n + 1 \in S
    PROVE  Nat \subseteq S
<1> DEFINE T == Nat \ S
<1>1. ASSUME T # {} PROVE FALSE
  <2>1. PICK n \in T : \A m \in T : n <= m
    BY <1>1, LeastNumber
  <2>2. n - 1 \in Nat /\ n - 1 \in S
    BY <2>1
  <2> QED
    BY <2>1, <2>2
<1> QED
  BY <1>1

\* A set with <<>> that is closed under Append has all sequences.
LEMMA SequenceInduction ==
    ASSUME NEW A, NEW P, <<>> \in P, \A s \in Seq(A), e \in A : s \in P => Append(s, e) \in P
    PROVE  Seq(A) \subseteq P
<1> DEFINE S == {n \in Nat : \A s \in Seq(A) : Len(s) = n => s \in P}
<1>1. 0 \in S
  <2>1. \A s \in Seq(A) : Len(s) = 0 => s = <<>>
    BY EmptySeq
  <2> QED
    BY <2>1
<1>2. ASSUME NEW n \in Nat, n \in S PROVE n + 1 \in S
  <2>1. SUFFICES ASSUME NEW s \in Seq(A), Len(s) = n + 1 PROVE s \in P
    OBVIOUS
  <2>2. s # <<>>
    BY <2>1
  <2>3. PICK f \in Seq(A), e \in A : s = Append(f, e)
    BY <2>2, SequenceEmptyOrAppend
  <2>4. Len(f) = n
    BY <2>1, <2>3, AppendProperties
  <2> QED
    BY <1>2, <2>3, <2>4
<1>3. Nat \subseteq S
  <2> HIDE DEF S
  <2> QED
    BY <1>1, <1>2, Induction
<1> QED
  BY <1>3

\* The provers take \o apart; Concat they leave as it is.
Concat(a, b) == a \o b

\* The function that FlattenSeq is defined with, on the first n places.
Flattens(f, s, n) ==
    f = [j \in 1 .. n |-> IF j = 1 THEN s[j] ELSE Concat(f[j - 1], s[j])]

\* Two functions that flatten s are the same.
LEMMA FlattenUnique ==
    ASSUME NEW s, NEW n \in Nat, NEW f, NEW g, Flattens(f, s, n), Flattens(g, s, n)
    PROVE  \A j \in 1 .. n : f[j] = g[j]
<1> DEFINE S == {j \in 1 .. n : f[j] # g[j]}
<1>1. \A j \in 1 .. n : f[j] = IF j = 1 THEN s[j] ELSE Concat(f[j - 1], s[j])
  BY DEF Flattens
<1>0. \A j \in 1 .. n : g[j] = IF j = 1 THEN s[j] ELSE Concat(g[j - 1], s[j])
  BY DEF Flattens
<1>2. ASSUME S # {} PROVE FALSE
  <2>1. PICK j \in S : \A k \in S : j <= k
    <3>1. S \in SUBSET Nat
      OBVIOUS
    <3> QED
      BY <1>2, <3>1, LeastNumber
  <2>2. j # 1
    BY <1>0, <1>1, <2>1
  <2>3. f[j - 1] = g[j - 1]
    BY <2>1, <2>2
  <2> QED
    BY <1>0, <1>1, <2>1, <2>2, <2>3
<1> QED
  BY <1>2

\* There is one, for every s.
LEMMA FlattenExists ==
    ASSUME NEW C, \A a, b \in C : Concat(a, b) \in C, NEW s \in Seq(C)
    PROVE  \E f \in [1 .. Len(s) -> C] : Flattens(f, s, Len(s))
<1> DEFINE P == {r \in Seq(C) : \E f \in [1 .. Len(r) -> C] : Flattens(f, r, Len(r))}
<1>1. <<>> \in P
  <2>1. <<>> \in Seq(C) /\ Len(<<>>) = 0
    BY EmptySeq
  <2>2. PICK f : f = [j \in 1 .. 0 |-> <<>>]
    OBVIOUS
  <2>3. f \in [1 .. 0 -> C] /\ Flattens(f, <<>>, 0)
    BY <2>2 DEF Flattens
  <2> QED
    BY <2>1, <2>3
<1>2. ASSUME NEW r \in Seq(C), NEW e \in C, r \in P PROVE Append(r, e) \in P
  <2>1. PICK n \in Nat : n = Len(r)
    BY LenProperties
  <2>2. PICK f \in [1 .. n -> C] : Flattens(f, r, n)
    BY <1>2, <2>1
  <2>3. PICK t \in Seq(C) :
          /\ t = Append(r, e) /\ Len(t) = n + 1 /\ t[n + 1] = e
          /\ \A j \in 1 .. n : t[j] = r[j]
    <3>1. /\ Append(r, e) \in Seq(C) /\ Append(r, e) # <<>>
          /\ Len(Append(r, e)) = n + 1 /\ Append(r, e)[n + 1] = e
          /\ \A j \in 1 .. n : Append(r, e)[j] = r[j]
      BY <2>1, AppendProperties
    <3> QED
      BY <3>1
  <2>4. PICK l \in C : l = IF n = 0 THEN e ELSE Concat(f[n], e)
    OBVIOUS
  <2>5. PICK g : g = [j \in 1 .. n + 1 |-> IF j = n + 1 THEN l ELSE f[j]]
    OBVIOUS
  <2>6. g \in [1 .. n + 1 -> C]
    BY <2>5
  <2>7. Flattens(g, t, n + 1)
    <3>1. \A j \in 1 .. n : f[j] = IF j = 1 THEN r[j] ELSE Concat(f[j - 1], r[j])
      BY <2>2 DEF Flattens
    <3>2. \A j \in 1 .. n : g[j] = IF j = 1 THEN t[j] ELSE Concat(g[j - 1], t[j])
      BY <2>3, <2>5, <3>1
    <3>3. g[n + 1] = IF n + 1 = 1 THEN t[n + 1] ELSE Concat(g[n], t[n + 1])
      BY <2>3, <2>4, <2>5
    <3>4. \A j \in 1 .. n + 1 : g[j] = IF j = 1 THEN t[j] ELSE Concat(g[j - 1], t[j])
      BY <3>2, <3>3
    <3>5. g = [j \in 1 .. n + 1 |-> g[j]]
      BY <2>5
    <3> QED
      BY <3>4, <3>5 DEF Flattens
  <2> QED
    BY <2>3, <2>6, <2>7
<1>3. Seq(C) \subseteq P
  <2> HIDE DEF P
  <2> QED
    BY <1>1, <1>2, SequenceInduction
<1> QED
  BY <1>3

\* FlattenSeq(s) is the last value of the function that it CHOOSEs.
LEMMA FlattenDef ==
    ASSUME NEW C, \A a, b \in C : Concat(a, b) \in C, NEW s \in Seq(C), s # <<>>
    PROVE  \E f \in [1 .. Len(s) -> C] :
              Flattens(f, s, Len(s)) /\ FlattenSeq(s) = f[Len(s)]
<1>1. Len(s) \in Nat \ {0}
  BY EmptySeq
<1>2. PICK f \in [1 .. Len(s) -> C] : Flattens(f, s, Len(s))
  BY FlattenExists
<1>3. PICK g : g = CHOOSE h : h = [j \in 1..Len(s) |-> IF j = 1 THEN s[j] ELSE h[j-1] \o s[j]]
  OBVIOUS
<1>4. f = [j \in 1..Len(s) |-> IF j = 1 THEN s[j] ELSE f[j-1] \o s[j]]
  BY <1>2, Zenon DEF Flattens, Concat
<1>5. g = [j \in 1..Len(s) |-> IF j = 1 THEN s[j] ELSE g[j-1] \o s[j]]
  BY <1>3, <1>4, Zenon
<1>6. Flattens(g, s, Len(s))
  BY <1>5, Zenon DEF Flattens, Concat
<1>7. FlattenSeq(s) = g[Len(s)]
  BY <1>1, <1>3, Zenon DEF FlattenSeq
<1>8. f = g
  <2>2. \A j \in 1 .. Len(s) : f[j] = g[j]
    BY <1>1, <1>2, <1>6, FlattenUnique
  <2>3. f = [j \in 1 .. Len(s) |-> f[j]] /\ g = [j \in 1 .. Len(s) |-> g[j]]
    BY <1>6 DEF Flattens
  <2> QED
    BY <2>2, <2>3
<1> QED
  BY <1>2, <1>7, <1>8

\* Nothing is flattened to nothing.
LEMMA FlattenEmpty == FlattenSeq(<<>>) = <<>>
  BY EmptySeq DEF FlattenSeq

\* Sequences are joined to a sequence.
LEMMA ConcatTyped == \A B : \A a, b \in Seq(B) : Concat(a, b) \in Seq(B)
  BY ConcatProperties DEF Concat

\* Sequences of B are flattened to a sequence of B.
LEMMA FlattenTyped ==
    ASSUME NEW B, NEW s \in Seq(Seq(B)) PROVE FlattenSeq(s) \in Seq(B)
<1>1. CASE s = <<>>
  BY <1>1, FlattenEmpty, EmptySeq
<1>2. CASE s # <<>>
  <2>1. Len(s) \in 1 .. Len(s)
    BY <1>2, EmptySeq
  <2>2. PICK C : C = Seq(B)
    OBVIOUS
  <2>3. s \in Seq(C) /\ \A a, b \in C : Concat(a, b) \in C
    BY <2>2, ConcatTyped
  <2>4. FlattenSeq(s) \in C
    BY <1>2, <2>1, <2>3, FlattenDef
  <2> QED
    BY <2>2, <2>4
<1> QED
  BY <1>1, <1>2

\* One more sequence, after others ...
LEMMA FlattenGrows ==
    ASSUME NEW C, \A a, b \in C : Concat(a, b) \in C, NEW s \in Seq(C), s # <<>>, NEW e \in C
    PROVE  FlattenSeq(Append(s, e)) = Concat(FlattenSeq(s), e)
<1>1. PICK n \in Nat : n = Len(s) /\ n # 0
  BY EmptySeq
<1>2. PICK t \in Seq(C) :
        /\ t = Append(s, e) /\ Len(t) = n + 1 /\ t[n + 1] = e /\ t # <<>>
        /\ \A j \in 1 .. n : t[j] = s[j]
  <2>1. /\ Append(s, e) \in Seq(C) /\ Append(s, e) # <<>>
        /\ Len(Append(s, e)) = n + 1 /\ Append(s, e)[n + 1] = e
        /\ \A j \in 1 .. n : Append(s, e)[j] = s[j]
    BY <1>1, AppendProperties
  <2> QED
    BY <2>1
<1>3. PICK g : Flattens(g, t, n + 1) /\ FlattenSeq(t) = g[n + 1]
  <2>1. PICK g \in [1 .. Len(t) -> C] : Flattens(g, t, Len(t)) /\ FlattenSeq(t) = g[Len(t)]
    BY <1>2, FlattenDef
  <2> QED
    BY <1>2, <2>1
<1>4. \A j \in 1 .. n + 1 : g[j] = IF j = 1 THEN t[j] ELSE Concat(g[j - 1], t[j])
  BY <1>3 DEF Flattens
<1>5. PICK f : Flattens(f, s, n) /\ FlattenSeq(s) = f[n]
  BY <1>1, FlattenDef
<1>6. PICK h : h = [j \in 1 .. n |-> g[j]] /\ Flattens(h, s, n)
  <2>1. PICK h : h = [j \in 1 .. n |-> g[j]]
    OBVIOUS
  <2>2. \A j \in 1 .. n : h[j] = IF j = 1 THEN s[j] ELSE Concat(h[j - 1], s[j])
    BY <1>2, <1>4, <2>1
  <2>3. h = [j \in 1 .. n |-> h[j]]
    BY <2>1
  <2> QED
    BY <2>1, <2>2, <2>3 DEF Flattens
<1>7. f[n] = g[n]
  <2>1. \A j \in 1 .. n : f[j] = h[j]
    BY <1>5, <1>6, FlattenUnique
  <2> QED
    BY <1>1, <1>6, <2>1
<1>8. g[n + 1] = Concat(g[n], e)
  BY <1>1, <1>2, <1>4
<1> QED
  BY <1>2, <1>3, <1>5, <1>7, <1>8

\* ... after none ...
LEMMA FlattenOne ==
    ASSUME NEW C, \A a, b \in C : Concat(a, b) \in C, NEW e \in C
    PROVE  FlattenSeq(Append(<<>>, e)) = e
<1>1. <<>> \in Seq(C) /\ Len(<<>>) = 0
  BY EmptySeq
<1>2. PICK t \in Seq(C) : t = Append(<<>>, e) /\ Len(t) = 1 /\ t[1] = e /\ t # <<>>
  <2>1. /\ Append(<<>>, e) \in Seq(C) /\ Append(<<>>, e) # <<>> /\ Len(Append(<<>>, e)) = 1
        /\ Append(<<>>, e)[1] = e
    BY <1>1, AppendProperties
  <2> QED
    BY <2>1
<1>3. PICK g \in [1 .. 1 -> C] : Flattens(g, t, 1) /\ FlattenSeq(t) = g[1]
  BY <1>2, FlattenDef, Zenon
<1>4. g[1] = t[1]
  BY <1>3 DEF Flattens
<1> QED
  BY <1>2, <1>3, <1>4

\* ... and after any number of them: what the loops of the code compute.
LEMMA FlattenAppend ==
    ASSUME NEW B, NEW s \in Seq(Seq(B)), NEW e \in Seq(B)
    PROVE  FlattenSeq(Append(s, e)) = FlattenSeq(s) \o e
<1>1. PICK C : C = Seq(B)
  OBVIOUS
<1>2. s \in Seq(C) /\ e \in C /\ \A a, b \in C : Concat(a, b) \in C
  BY <1>1, ConcatTyped
<1>3. CASE s = <<>>
  <2>1. FlattenSeq(Append(<<>>, e)) = e
    BY <1>2, FlattenOne
  <2>2. <<>> \o e = e
    BY ConcatEmptySeq
  <2> QED
    BY <1>3, <2>1, <2>2, FlattenEmpty, Zenon
<1>4. CASE s # <<>>
  <2>1. FlattenSeq(Append(s, e)) = Concat(FlattenSeq(s), e)
    BY <1>2, <1>4, FlattenGrows
  <2> QED
    BY <2>1, Zenon DEF Concat
<1> QED
  BY <1>3, <1>4

\* Of which of two sequences an element is.
Concats(a, b, c, m, n) ==
    /\ DOMAIN a = 1 .. m /\ DOMAIN b = 1 .. n /\ DOMAIN c = 1 .. m + n
    /\ \A k \in 1 .. m : c[k] = a[k]
    /\ \A k \in 1 .. n : c[m + k] = b[k]
    /\ \A k \in 1 .. m + n : k \notin 1 .. m => k - m \in 1 .. n

\* Of two sequences one after the other.
LEMMA ConcatIs ==
    ASSUME NEW T, NEW a \in Seq(T), NEW b \in Seq(T)
    PROVE  \E m, n \in Nat : Concats(a, b, Concat(a, b), m, n)
<1>1. PICK m, n \in Nat : m = Len(a) /\ n = Len(b)
  BY LenProperties
<1>2. DOMAIN a = 1 .. m /\ DOMAIN b = 1 .. n
  BY <1>1, LenProperties
<1>3. PICK c : c = Concat(a, b)
  OBVIOUS
<1>4. /\ c \in Seq(T) /\ Len(c) = Len(a) + Len(b)
      /\ \A k \in 1 .. Len(a) + Len(b) : c[k] = IF k <= Len(a) THEN a[k] ELSE b[k - Len(a)]
  BY <1>3, ConcatProperties, Zenon DEF Concat
<1>5. \A k \in 1 .. m + n : c[k] = IF k <= m THEN a[k] ELSE b[k - m]
  BY <1>1, <1>4
<1>6. DOMAIN c = 1 .. m + n
  BY <1>1, <1>4, LenProperties
<1>7. \A k \in 1 .. m : c[k] = a[k]
  BY <1>5
<1>8. \A k \in 1 .. n : c[m + k] = b[k]
  BY <1>5
<1>9. \A k \in 1 .. m + n : k \notin 1 .. m => k - m \in 1 .. n
  OBVIOUS
<1> QED
  BY <1>2, <1>3, <1>6, <1>7, <1>8, <1>9 DEF Concats

=============================================================================
