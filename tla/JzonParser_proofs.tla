-------------------------- MODULE JzonParser_proofs --------------------------
(* Proofs about JzonParser, for any roots, any texts, written or not, and any *)
(* number of calls of Parse: the queues of tokens and data keep pace, a root  *)
(* only grows, and of a document that the Writer wrote, white space and       *)
(* comments make no difference.                                               *)
(*                                                                            *)
(* tokenize and RemoveWhitespace are recursive functions over the positions   *)
(* of a text, so what they keep is proved by induction: over sets, by the     *)
(* least counterexample.                                                      *)
EXTENDS JzonRoundTrip, SequenceLemmas, FiniteSetTheorems, TLAPS

-----------------------------------------------------------------------------
(* How many tokens of a queue are values'.                                    *)
Valued == {"value", "unknown"}
Count(queue) == Cardinality(Values(queue))

\* No tokens, no values.
LEMMA CountEmpty == Count(<<>>) = 0
  <1>1. Values(<<>>) = {}
    BY DEF Values
  <1> QED
    BY <1>1, FS_EmptySet DEF Count

\* One more token is one more value, or not.
LEMMA CountAppend ==
  ASSUME NEW queue \in Seq(Token), NEW token \in Token
  PROVE  /\ Count(queue) \in Nat
         /\ Count(Append(queue, token)) =
                IF token \in Valued THEN Count(queue) + 1 ELSE Count(queue)
  <1>1. PICK n \in Nat : n = Len(queue) /\ DOMAIN queue = 1 .. n
    BY LenProperties
  <1>2. PICK longer : longer = Append(queue, token)
    OBVIOUS
  <1>3. /\ DOMAIN longer = 1 .. n + 1 /\ longer[n + 1] = token
        /\ \A k \in 1 .. n : longer[k] = queue[k]
    BY <1>1, <1>2
  <1>4. PICK V : V = Values(queue)
    OBVIOUS
  <1>5. V \subseteq 1 .. n
    BY <1>1, <1>4 DEF Values
  <1>6. IsFiniteSet(1 .. n)
    BY FS_Interval
  <1>7. IsFiniteSet(V)
    BY <1>5, <1>6, FS_Subset
  <1>8. Cardinality(V) \in Nat
    BY <1>7, FS_CardinalityType
  <1>9. CASE token \in Valued
    <2>1. Values(longer) = V \cup {n + 1} /\ n + 1 \notin V
      BY <1>1, <1>3, <1>4, <1>5, <1>9 DEF Values, Valued
    <2>2. Cardinality(V \cup {n + 1}) = Cardinality(V) + 1
      BY <2>1, <1>7, FS_AddElement
    <2> QED
      BY <2>1, <2>2, <1>2, <1>4, <1>8, <1>9 DEF Count
  <1>10. CASE token \notin Valued
    <2>1. Values(longer) = V
      BY <1>1, <1>3, <1>4, <1>10 DEF Values, Valued
    <2> QED
      BY <2>1, <1>2, <1>4, <1>8, <1>10 DEF Count
  <1> QED
    BY <1>9, <1>10

\* The counts of two queues, one after the other, add up.
LEMMA CountConcat ==
  ASSUME NEW left \in Seq(Token), NEW right \in Seq(Token)
  PROVE  Count(left \o right) = Count(left) + Count(right)
  <1> DEFINE P == {r \in Seq(Token) : Count(left \o r) = Count(left) + Count(r)}
  <1>0. \A q \in Seq(Token) : Count(q) \in Nat
    <2> SUFFICES ASSUME NEW q \in Seq(Token) PROVE Count(q) \in Nat
      OBVIOUS
    <2>1. ":" \in Token
      BY DEF Token, Structural
    <2> QED
      BY <2>1, CountAppend
  <1>1. <<>> \in P
    <2>1. left \o <<>> = left /\ <<>> \in Seq(Token)
      BY ConcatEmptySeq, EmptySeq
    <2> QED
      BY <2>1, <1>0, CountEmpty
  <1>2. ASSUME NEW r \in Seq(Token), NEW e \in Token, r \in P PROVE Append(r, e) \in P
    <2>1. left \o Append(r, e) = Append(left \o r, e)
      OBVIOUS
    <2>2. PICK j \in Seq(Token) : j = left \o r
      BY ConcatProperties
    <2>3. /\ Count(Append(j, e)) = IF e \in Valued THEN Count(j) + 1 ELSE Count(j)
          /\ Count(Append(r, e)) = IF e \in Valued THEN Count(r) + 1 ELSE Count(r)
      BY CountAppend
    <2>4. Count(j) = Count(left) + Count(r)
      BY <1>2, <2>2
    <2>5. Append(r, e) \in Seq(Token)
      BY AppendProperties
    <2>6. Count(Append(j, e)) = Count(left) + Count(Append(r, e))
      BY <2>3, <2>4, <1>0
    <2> QED
      BY <2>1, <2>2, <2>5, <2>6
  <1>3. Seq(Token) \subseteq P
    <2> HIDE DEF P
    <2> QED
      BY <1>1, <1>2, SequenceInduction
  <1> QED
    BY <1>3

\* The first token, and the rest of the queue.
LEMMA CountTail ==
  ASSUME NEW queue \in Seq(Token), queue # <<>>
  PROVE  /\ Head(queue) \in Token /\ Tail(queue) \in Seq(Token)
         /\ Count(Tail(queue)) \in Nat
         /\ Count(queue) =
                IF Head(queue) \in Valued THEN Count(Tail(queue)) + 1 ELSE Count(Tail(queue))
  <1>1. Head(queue) \in Token /\ Tail(queue) \in Seq(Token)
    BY HeadTailProperties
  <1>2. PICK h \in Token, t \in Seq(Token) : h = Head(queue) /\ t = Tail(queue)
    BY <1>1
  <1>3. queue = <<h>> \o t
    BY <1>2
  <1>4. <<h>> = Append(<<>>, h) /\ <<>> \in Seq(Token) /\ <<h>> \in Seq(Token)
    OBVIOUS
  <1>5. Count(<<h>>) = IF h \in Valued THEN 1 ELSE 0
    <2>1. Count(Append(<<>>, h)) = IF h \in Valued THEN Count(<<>>) + 1 ELSE Count(<<>>)
      BY <1>4, CountAppend
    <2> QED
      BY <2>1, <1>4, CountEmpty
  <1>6. Count(queue) = Count(<<h>>) + Count(t)
    BY <1>3, <1>4, CountConcat
  <1>7. Count(t) \in Nat
    BY CountAppend
  <1> QED
    BY <1>1, <1>2, <1>5, <1>6, <1>7

-----------------------------------------------------------------------------
(* tokenize.  Between two characters there is a datum for every value's       *)
(* token; when a string has been read there is one more datum for a moment.   *)
Scanned ==
    [quoted : BOOLEAN, str : Text, buffer : Text, tokens : Seq(Token), data : Seq(Data)]

Ahead(s, d) == s \in Scanned /\ Len(s.data) = Count(s.tokens) + d

\* What is collected is one more character, or none.
LEMMA TextAppend == <<>> \in Text /\ \A str \in Text, c \in Characters : Append(str, c) \in Text
  BY EmptySeq, AppendProperties DEF Text

\* A text without quotes is interpreted as a datum.
LEMMA InterpretedTyped == \A str \in Text : Interpreted(str) \in Data
  <1> SUFFICES ASSUME NEW str \in Text PROVE Interpreted(str) \in Data
    OBVIOUS
  <1>1. \/ Interpreted(str) = Datum("null", <<>>)
        \/ Interpreted(str) = Datum("bool", str)
        \/ Interpreted(str) = Datum("number", str)
        \/ Interpreted(str) = Datum("string", str)
    <2>1. \/ str = <<"null">> \/ str \in {<<"true">>, <<"false">>}
          \/ ToSet(str) \subseteq Numerals \/ ~IsKnown(str)
      BY DEF IsKnown, Words
    <2> QED
      BY <2>1 DEF Interpreted
  <1>2. \A type \in {"string", "number", "bool", "null"}, t \in Text : Datum(type, t) \in Data
    BY DEF Datum, Data
  <1> QED
    BY <1>1, <1>2, TextAppend

LEMMA ValuedTokens == Valued \subseteq Token /\ Structural \subseteq Token /\ Valued \cap Structural = {}
  BY DEF Valued, Token, Structural

\* One more token and its datum, or none.
LEMMA BothGrow ==
  ASSUME NEW s \in Scanned, NEW d \in Nat, Ahead(s, d), NEW token \in Token
  PROVE  /\ Append(s.tokens, token) \in Seq(Token)
         /\ Count(Append(s.tokens, token)) =
                IF token \in Valued THEN Count(s.tokens) + 1 ELSE Count(s.tokens)
         /\ Count(s.tokens) \in Nat
         /\ \A datum \in Data : /\ Append(s.data, datum) \in Seq(Data)
                                 /\ Len(Append(s.data, datum)) = Len(s.data) + 1
  <1>1. s.tokens \in Seq(Token) /\ s.data \in Seq(Data)
    BY DEF Scanned
  <1> QED
    BY <1>1, CountAppend, AppendProperties

LEMMA SaveBufferKeeps ==
  ASSUME NEW s, NEW d \in Nat, Ahead(s, d)
  PROVE  Ahead(SaveBuffer(s), d)
  <1>1. s \in Scanned /\ Len(s.data) = Count(s.tokens) + d
    BY DEF Ahead
  <1>2. CASE s.buffer = <<>>
    BY <1>2 DEF SaveBuffer
  <1>3. CASE s.buffer # <<>>
    <2>1. PICK token \in Valued : token = IF IsKnown(s.buffer) THEN "value" ELSE "unknown"
      BY DEF Valued
    <2>2. PICK datum \in Data : datum = Interpreted(s.buffer)
      BY <1>1, InterpretedTyped DEF Scanned
    <2>3. PICK ts \in Seq(Token), ds \in Seq(Data) :
             /\ ts = Append(s.tokens, token) /\ Count(ts) = Count(s.tokens) + 1
             /\ ds = Append(s.data, datum) /\ Len(ds) = Len(s.data) + 1
             /\ Count(s.tokens) \in Nat
      BY <1>1, BothGrow, ValuedTokens
    <2>4. SaveBuffer(s) = [s EXCEPT !.tokens = ts, !.data = ds, !.buffer = <<>>]
      BY <1>3, <2>1, <2>2, <2>3 DEF SaveBuffer
    <2>5. PICK u : u = [s EXCEPT !.tokens = ts, !.data = ds, !.buffer = <<>>]
      OBVIOUS
    <2>6. u \in Scanned /\ u.tokens = ts /\ u.data = ds
      BY <1>1, <2>3, <2>5, TextAppend DEF Scanned
    <2>7. Len(ds) = Count(ts) + d
      BY <1>1, <2>3
    <2> QED
      BY <2>4, <2>5, <2>6, <2>7 DEF Ahead
  <1> QED
    BY <1>2, <1>3

LEMMA EndStringKeeps ==
  ASSUME NEW s, Ahead(s, 0)
  PROVE  Ahead(EndString(s), 0)
  <1>1. s \in Scanned /\ Len(s.data) = Count(s.tokens) + 0 /\ s.str \in Text
    BY DEF Ahead, Scanned
  <1>2. PICK datum \in Data : datum = Datum("string", s.str)
    BY <1>1 DEF Datum, Data
  <1>3. PICK ds \in Seq(Data) : ds = Append(s.data, datum) /\ Len(ds) = Len(s.data) + 1
    <2>1. PICK before \in Seq(Data) : before = s.data
      BY <1>1 DEF Scanned
    <2>2. Append(before, datum) \in Seq(Data) /\ Len(Append(before, datum)) = Len(before) + 1
      BY AppendProperties
    <2> QED
      BY <2>1, <2>2
  <1>4. PICK read : read = [s EXCEPT !.data = ds, !.quoted = FALSE]
    OBVIOUS
  <1>5. read \in Scanned /\ read.data = ds /\ read.tokens = s.tokens
    BY <1>1, <1>3, <1>4 DEF Scanned
  <1>6. Count(s.tokens) \in Nat
    BY <1>1, CountAppend, ValuedTokens DEF Scanned, Valued
  <1>7. Ahead(read, 1)
    BY <1>1, <1>3, <1>5, <1>6 DEF Ahead
  <1>8. PICK saved : saved = SaveBuffer(read) /\ Ahead(saved, 1)
    BY <1>7, SaveBufferKeeps
  <1>9. saved \in Scanned /\ Len(saved.data) = Count(saved.tokens) + 1
    BY <1>8 DEF Ahead
  <1>10. PICK ts \in Seq(Token) :
            /\ ts = Append(saved.tokens, "value") /\ Count(ts) = Count(saved.tokens) + 1
            /\ Count(saved.tokens) \in Nat
    BY <1>8, <1>9, BothGrow, ValuedTokens DEF Valued
  <1>11. EndString(s) = [saved EXCEPT !.tokens = ts]
    BY <1>2, <1>3, <1>4, <1>8, <1>10 DEF EndString
  <1>12. PICK u : u = [saved EXCEPT !.tokens = ts]
    OBVIOUS
  <1>13. u \in Scanned /\ u.tokens = ts /\ u.data = saved.data
    BY <1>9, <1>10, <1>12 DEF Scanned
  <1>14. Len(u.data) = Count(u.tokens) + 0
    BY <1>9, <1>10, <1>13
  <1> QED
    BY <1>11, <1>12, <1>13, <1>14 DEF Ahead

LEMMA ScanKeeps ==
  ASSUME NEW text \in Text, NEW k \in 1 .. Len(text), NEW s, Ahead(s, 0)
  PROVE  Ahead(Scan(text, s, k), 0)
  <1>1. s \in Scanned /\ Len(s.data) = Count(s.tokens) + 0
    BY DEF Ahead
  <1>2. PICK c \in Characters : c = text[k]
    BY ElementOfSeq DEF Text
  <1>3. CASE s.quoted /\ EndsString(s, c)
    <2>1. Scan(text, s, k) = EndString(s)
      BY <1>2, <1>3 DEF Scan
    <2> QED
      BY <2>1, EndStringKeeps
  <1>4. CASE s.quoted /\ ~EndsString(s, c)
    <2>1. PICK str \in Text : str = Append(s.str, c)
      BY <1>1, TextAppend DEF Scanned
    <2>2. PICK u : u = [s EXCEPT !.str = str]
      OBVIOUS
    <2>3. Scan(text, s, k) = u
      BY <1>2, <1>4, <2>1, <2>2 DEF Scan
    <2>4. u \in Scanned /\ u.data = s.data /\ u.tokens = s.tokens
      BY <1>1, <2>1, <2>2 DEF Scanned
    <2> QED
      BY <1>1, <2>3, <2>4 DEF Ahead
  <1>5. CASE ~s.quoted /\ c = Quote
    <2>1. PICK u : u = [s EXCEPT !.quoted = TRUE, !.str = <<>>]
      OBVIOUS
    <2>2. Scan(text, s, k) = u
      <3>1. s.quoted = FALSE /\ text[k] = Quote /\ Quote \notin Structural
        BY <1>1, <1>2, <1>5 DEF Scanned, Quote, Structural
      <3> QED
        BY <3>1, <2>1 DEF Scan
    <2>3. u \in Scanned /\ u.data = s.data /\ u.tokens = s.tokens
      BY <1>1, <2>1, TextAppend DEF Scanned
    <2> QED
      BY <1>1, <2>2, <2>3 DEF Ahead
  <1>6. CASE ~s.quoted /\ c \in Structural
    <2>1. PICK saved : saved = SaveBuffer(s) /\ Ahead(saved, 0)
      BY SaveBufferKeeps
    <2>2. saved \in Scanned /\ Len(saved.data) = Count(saved.tokens) + 0
      BY <2>1 DEF Ahead
    <2>3. PICK ts \in Seq(Token) : ts = Append(saved.tokens, c) /\ Count(ts) = Count(saved.tokens)
      <3>1. c \in Token /\ c \notin Valued
        BY <1>6, ValuedTokens
      <3> QED
        BY <2>1, <2>2, <3>1, BothGrow
    <2>4. PICK u : u = [saved EXCEPT !.tokens = ts]
      OBVIOUS
    <2>5. Scan(text, s, k) = u
      <3>1. c # Quote
        BY <1>6 DEF Structural, Quote
      <3> QED
        BY <1>2, <1>6, <2>1, <2>3, <2>4, <3>1 DEF Scan
    <2>6. u \in Scanned /\ u.data = saved.data /\ u.tokens = ts
      BY <2>2, <2>3, <2>4 DEF Scanned
    <2> QED
      BY <2>2, <2>3, <2>5, <2>6 DEF Ahead
  <1>7. CASE ~s.quoted /\ c \notin Structural \cup {Quote}
    <2>1. PICK buffer \in Text : buffer = Append(s.buffer, c)
      BY <1>1, TextAppend DEF Scanned
    <2>2. PICK more : more = [s EXCEPT !.buffer = buffer]
      OBVIOUS
    <2>3. more \in Scanned /\ more.data = s.data /\ more.tokens = s.tokens
      BY <1>1, <2>1, <2>2 DEF Scanned
    <2>4. Ahead(more, 0)
      BY <1>1, <2>3 DEF Ahead
    <2>5. Scan(text, s, k) = SaveBuffer(more) \/ Scan(text, s, k) = more
      BY <1>2, <1>7, <2>1, <2>2 DEF Scan
    <2> QED
      BY <2>4, <2>5, SaveBufferKeeps
  <1>8. s.quoted \in BOOLEAN
    BY <1>1 DEF Scanned
  <1> QED
    BY <1>3, <1>4, <1>5, <1>6, <1>7, <1>8

\* The function that Tokenize is defined with, on the first n characters.
Scans(f, text, n) == f = [k \in 0 .. n |-> IF k = 0 THEN ScanStart ELSE Scan(text, f[k - 1], k)]

LEMMA ScansExist ==
  ASSUME NEW text
  PROVE  \A n \in Nat : \E f : Scans(f, text, n)
  <1> DEFINE S == {n \in Nat : \E f : Scans(f, text, n)}
  <1>1. 0 \in S
    <2>1. PICK f : f = [k \in 0 .. 0 |-> ScanStart]
      OBVIOUS
    <2>2. Scans(f, text, 0)
      BY <2>1 DEF Scans
    <2> QED
      BY <2>2
  <1>2. ASSUME NEW n \in Nat, n \in S PROVE n + 1 \in S
    <2>1. PICK f : Scans(f, text, n)
      BY <1>2
    <2>2. PICK l : l = Scan(text, f[n], n + 1)
      OBVIOUS
    <2>3. PICK g : g = [k \in 0 .. n + 1 |-> IF k = n + 1 THEN l ELSE f[k]]
      OBVIOUS
    <2>4. \A k \in 0 .. n : f[k] = IF k = 0 THEN ScanStart ELSE Scan(text, f[k - 1], k)
      BY <2>1 DEF Scans
    <2>5. \A k \in 0 .. n : g[k] = IF k = 0 THEN ScanStart ELSE Scan(text, g[k - 1], k)
      BY <2>3, <2>4
    <2>6. g[n + 1] = IF n + 1 = 0 THEN ScanStart ELSE Scan(text, g[n], n + 1)
      BY <2>2, <2>3
    <2>7. \A k \in 0 .. n + 1 : g[k] = IF k = 0 THEN ScanStart ELSE Scan(text, g[k - 1], k)
      BY <2>5, <2>6
    <2>8. g = [k \in 0 .. n + 1 |-> g[k]]
      BY <2>3
    <2>9. g = [k \in 0 .. n + 1 |-> IF k = 0 THEN ScanStart ELSE Scan(text, g[k - 1], k)]
      BY <2>7, <2>8
    <2>10. Scans(g, text, n + 1)
      BY <2>9 DEF Scans
    <2> QED
      BY <2>10
  <1>3. Nat \subseteq S
    <2> HIDE DEF S
    <2> QED
      BY <1>1, <1>2, Induction
  <1> QED
    BY <1>3

(* Every value's token has its datum, whatever the text: strings that do not  *)
(* end, words that are none, and text before a string included                *)
(* (jzon.cpp:962-1047).                                                       *)
LEMMA TokenizeKeeps ==
  ASSUME NEW text \in Text
  PROVE  Ahead(Tokenize(text), 0)
  <1>1. PICK n \in Nat : n = Len(text)
    BY LenProperties DEF Text
  <1>2. PICK g : Scans(g, text, n)
    BY ScansExist
  <1>3. PICK f : f = CHOOSE h : Scans(h, text, Len(text))
    OBVIOUS
  <1>4. Scans(f, text, n)
    BY <1>1, <1>2, <1>3
  <1>5. Tokenize(text) = IF f[n].quoted THEN EndString(f[n]) ELSE f[n]
    <2>1. ScanAll(text) = f[n]
      BY <1>1, <1>3, Zenon DEF ScanAll, Scans
    <2> QED
      BY <2>1 DEF Tokenize
  <1>6. f[0] = ScanStart /\ \A k \in 1 .. n : f[k] = Scan(text, f[k - 1], k)
    BY <1>4 DEF Scans
  <1> DEFINE S == {k \in Nat : k <= n => Ahead(f[k], 0)}
  <1>7. 0 \in S
    <2>1. ScanStart \in Scanned
      BY TextAppend, EmptySeq DEF ScanStart, Scanned
    <2>2. Ahead(ScanStart, 0)
      BY <2>1, CountEmpty DEF Ahead, ScanStart
    <2> QED
      BY <2>2, <1>6
  <1>8. ASSUME NEW k \in Nat, k \in S PROVE k + 1 \in S
    <2> SUFFICES ASSUME k + 1 <= n PROVE Ahead(f[k + 1], 0)
      OBVIOUS
    <2>1. k + 1 \in 1 .. n /\ (k + 1) - 1 = k /\ Ahead(f[k], 0)
      BY <1>8
    <2>2. f[k + 1] = Scan(text, f[k], k + 1)
      BY <1>6, <2>1
    <2> QED
      BY <2>1, <2>2, <1>1, ScanKeeps
  <1>9. Nat \subseteq S
    <2> HIDE DEF S
    <2> QED
      BY <1>7, <1>8, Induction
  <1>10. Ahead(f[n], 0)
    BY <1>9
  <1> QED
    BY <1>5, <1>10, EndStringKeeps

-----------------------------------------------------------------------------
(* RemoveWhitespace leaves a text.                                            *)
Removing ==
    [skip : BOOLEAN, comment : BOOLEAN, multicomment : Int, inString : BOOLEAN, fresh : Text]

LEMMA RemovalTyped ==
  ASSUME NEW text \in Text, NEW k \in 1 .. Len(text), NEW s \in Removing
  PROVE  Removal(text, s, k) \in Removing
  <1>1. PICK c1 \in Characters : c1 = text[k]
    BY ElementOfSeq DEF Text
  <1>2. PICK c0, c2 : c0 = CharAt(text, k - 1) /\ c2 = CharAt(text, k + 1)
    OBVIOUS
  <1>3. /\ s.skip \in BOOLEAN /\ s.comment \in BOOLEAN /\ s.inString \in BOOLEAN
        /\ s.multicomment \in Int /\ s.fresh \in Text
    BY DEF Removing
  <1>4. PICK inString \in BOOLEAN :
           inString = IF c0 # Backslash /\ c1 = Quote THEN ~s.inString ELSE s.inString
    BY <1>3
  <1>5. PICK mark \in BOOLEAN : mark = (~inString /\ BeginsOrEnds(c1, c2))
    BY DEF BeginsOrEnds
  <1>6. PICK note \in BOOLEAN :
           note = ((s.comment /\ (inString \/ c1 # "\n")) \/ (mark /\ c1 = c2))
    BY <1>3
  <1>7. PICK depth \in Int : depth =
           CASE mark /\ c2 = "*" -> s.multicomment + 1
             [] mark /\ c1 = "*" -> s.multicomment - 1
             [] ~mark \/ c1 = c2 -> s.multicomment
    <2>1. (mark /\ c2 = "*") \/ (mark /\ c1 = "*") \/ (~mark \/ c1 = c2)
      BY <1>5 DEF BeginsOrEnds
    <2> QED
      BY <1>3, <2>1
  <1>8. PICK fresh \in Text :
           fresh = IF mark \/ note \/ s.multicomment > 0 \/ (~inString /\ c1 \in Blanks)
                   THEN s.fresh ELSE Append(s.fresh, c1)
    BY <1>3, TextAppend
  <1>9. CASE s.skip
    <2>1. Removal(text, s, k) = [s EXCEPT !.skip = FALSE]
      BY <1>9 DEF Removal
    <2> QED
      BY <2>1 DEF Removing
  <1>10. CASE ~s.skip
    <2>1. Removal(text, s, k) =
             [skip |-> mark, comment |-> note, inString |-> inString,
              multicomment |-> depth, fresh |-> fresh]
      BY <1>1, <1>2, <1>4, <1>5, <1>6, <1>7, <1>8, <1>10 DEF Removal
    <2> QED
      BY <2>1 DEF Removing
  <1> QED
    BY <1>3, <1>9, <1>10

\* The function that RemoveWhitespace is defined with, on the first n characters.
Removals(f, text, n) ==
    f = [k \in 0 .. n |-> IF k = 0 THEN RemovalStart ELSE Removal(text, f[k - 1], k)]

LEMMA RemovalsExist ==
  ASSUME NEW text
  PROVE  \A n \in Nat : \E f : Removals(f, text, n)
  <1> DEFINE S == {n \in Nat : \E f : Removals(f, text, n)}
  <1>1. 0 \in S
    <2>1. PICK f : f = [k \in 0 .. 0 |-> RemovalStart]
      OBVIOUS
    <2>2. Removals(f, text, 0)
      BY <2>1 DEF Removals
    <2> QED
      BY <2>2
  <1>2. ASSUME NEW n \in Nat, n \in S PROVE n + 1 \in S
    <2>1. PICK f : Removals(f, text, n)
      BY <1>2
    <2>2. PICK l : l = Removal(text, f[n], n + 1)
      OBVIOUS
    <2>3. PICK g : g = [k \in 0 .. n + 1 |-> IF k = n + 1 THEN l ELSE f[k]]
      OBVIOUS
    <2>4. \A k \in 0 .. n : f[k] = IF k = 0 THEN RemovalStart ELSE Removal(text, f[k - 1], k)
      BY <2>1 DEF Removals
    <2>5. \A k \in 0 .. n : g[k] = IF k = 0 THEN RemovalStart ELSE Removal(text, g[k - 1], k)
      BY <2>3, <2>4
    <2>6. g[n + 1] = IF n + 1 = 0 THEN RemovalStart ELSE Removal(text, g[n], n + 1)
      BY <2>2, <2>3
    <2>7. \A k \in 0 .. n + 1 : g[k] = IF k = 0 THEN RemovalStart ELSE Removal(text, g[k - 1], k)
      BY <2>5, <2>6
    <2>8. g = [k \in 0 .. n + 1 |-> g[k]]
      BY <2>3
    <2>9. g = [k \in 0 .. n + 1 |-> IF k = 0 THEN RemovalStart ELSE Removal(text, g[k - 1], k)]
      BY <2>7, <2>8
    <2>10. Removals(g, text, n + 1)
      BY <2>9 DEF Removals
    <2> QED
      BY <2>10
  <1>3. Nat \subseteq S
    <2> HIDE DEF S
    <2> QED
      BY <1>1, <1>2, Induction
  <1> QED
    BY <1>3

LEMMA RemoveWhitespaceTyped ==
  ASSUME NEW text \in Text
  PROVE  RemoveWhitespace(text) \in Text
  <1>1. PICK n \in Nat : n = Len(text)
    BY LenProperties DEF Text
  <1>2. PICK g : Removals(g, text, n)
    BY RemovalsExist
  <1>3. PICK f : f = CHOOSE h : Removals(h, text, n)
    OBVIOUS
  <1>4. Removals(f, text, n)
    BY <1>2, <1>3
  <1>5. RemoveWhitespace(text) = f[n].fresh
    BY <1>1, <1>3, Zenon DEF RemoveWhitespace, Removals
  <1>6. f[0] = RemovalStart /\ \A k \in 1 .. n : f[k] = Removal(text, f[k - 1], k)
    BY <1>4 DEF Removals
  <1> DEFINE S == {k \in Nat : k <= n => f[k] \in Removing}
  <1>7. 0 \in S
    <2>1. RemovalStart \in Removing
      BY TextAppend DEF RemovalStart, Removing
    <2> QED
      BY <2>1, <1>6
  <1>8. ASSUME NEW k \in Nat, k \in S PROVE k + 1 \in S
    <2> SUFFICES ASSUME k + 1 <= n PROVE f[k + 1] \in Removing
      OBVIOUS
    <2>1. k + 1 \in 1 .. n /\ (k + 1) - 1 = k /\ f[k] \in Removing
      BY <1>8
    <2>2. f[k + 1] = Removal(text, f[k], k + 1)
      BY <1>6, <2>1
    <2> QED
      BY <2>1, <2>2, <1>1, RemovalTyped
  <1>9. Nat \subseteq S
    <2> HIDE DEF S
    <2> QED
      BY <1>7, <1>8, Induction
  <1>10. f[n] \in Removing
    BY <1>9
  <1> QED
    BY <1>5, <1>10 DEF Removing

-----------------------------------------------------------------------------
(* The queues, and what taking a token does to them.  Unless exact, there may *)
(* be data that no token is left for.                                         *)
Pace(ts, ds, exact) ==
    /\ ts \in Seq(Token) /\ ds \in Seq(Data)
    /\ Len(ds) >= Count(ts)
    /\ exact => Len(ds) = Count(ts)

\* What a text adds keeps the queues at pace.
LEMMA PaceConcat ==
  ASSUME NEW ts, NEW ds, NEW us, NEW es, NEW exact, Pace(ts, ds, exact), Pace(us, es, TRUE)
  PROVE  Pace(ts \o us, ds \o es, exact)
  <1>1. /\ ts \in Seq(Token) /\ us \in Seq(Token) /\ ds \in Seq(Data) /\ es \in Seq(Data)
        /\ Len(ds) >= Count(ts) /\ (exact => Len(ds) = Count(ts)) /\ Len(es) = Count(us)
    BY DEF Pace
  <1>2. PICK vs \in Seq(Token), fs \in Seq(Data) :
           /\ vs = ts \o us /\ fs = ds \o es /\ Len(fs) = Len(ds) + Len(es)
    BY <1>1, ConcatProperties
  <1>3. Count(vs) = Count(ts) + Count(us)
    BY <1>1, <1>2, CountConcat
  <1>4. Len(ds) \in Nat /\ Len(es) \in Nat /\ Count(ts) \in Nat
    <2>1. "value" \in Token
      BY DEF Token
    <2> QED
      BY <1>1, <2>1, LenProperties, CountAppend
  <1>5. Pace(vs, fs, exact)
    BY <1>1, <1>2, <1>3, <1>4 DEF Pace
  <1> QED
    BY <1>2, <1>5

\* A value is taken with its datum, anything else alone; a value whose datum
\* stays behind leaves the queues apart.
LEMMA PaceTail ==
  ASSUME NEW ts, NEW ds, NEW exact, Pace(ts, ds, exact), ts # <<>>
  PROVE  /\ Head(ts) \in Valued => ds # <<>> /\ Pace(Tail(ts), Tail(ds), exact)
         /\ Head(ts) \notin Valued => Pace(Tail(ts), ds, exact)
         /\ Pace(Tail(ts), ds, FALSE)
  <1>1. /\ ts \in Seq(Token) /\ ds \in Seq(Data)
        /\ Len(ds) >= Count(ts) /\ (exact => Len(ds) = Count(ts))
    BY DEF Pace
  <1>2. PICK us \in Seq(Token) : us = Tail(ts)
    BY <1>1, HeadTailProperties
  <1>3. /\ Count(us) \in Nat
        /\ Count(ts) = IF Head(ts) \in Valued THEN Count(us) + 1 ELSE Count(us)
    BY <1>1, <1>2, CountTail
  <1>4. Len(ds) \in Nat
    BY <1>1, LenProperties
  <1>5. ASSUME Head(ts) \in Valued PROVE ds # <<>> /\ Pace(us, Tail(ds), exact)
    <2>1. Len(ds) >= 1
      BY <1>1, <1>3, <1>4, <1>5
    <2>2. ds # <<>>
      BY <2>1
    <2>3. PICK es \in Seq(Data) : es = Tail(ds) /\ Len(es) = Len(ds) - 1
      BY <1>1, <2>2, HeadTailProperties
    <2>4. Pace(us, es, exact)
      BY <1>1, <1>3, <1>4, <1>5, <2>3 DEF Pace
    <2> QED
      BY <2>2, <2>3, <2>4
  <1>6. ASSUME Head(ts) \notin Valued PROVE Pace(us, ds, exact)
    BY <1>1, <1>3, <1>6 DEF Pace
  <1>7. Pace(us, ds, FALSE)
    BY <1>1, <1>3, <1>4 DEF Pace
  <1> QED
    BY <1>2, <1>5, <1>6, <1>7

-----------------------------------------------------------------------------
(* Nodes.  What is added to one grows it, and nothing else.                   *)
IsSeq(s) == s \in Seq(Range(s))

\* A sequence over any set is one over its own elements.
LEMMA SeqIsSeq ==
  ASSUME NEW S, NEW s \in Seq(S)
  PROVE  IsSeq(s)
  <1>1. PICK n \in Nat : n = Len(s) /\ DOMAIN s = 1 .. n /\ s \in [1 .. n -> S]
    BY LenProperties
  <1>2. s \in [1 .. n -> Range(s)]
    BY <1>1 DEF Range
  <1>3. [1 .. n -> Range(s)] \in {[1 .. m -> Range(s)] : m \in Nat}
    OBVIOUS
  <1>4. s \in UNION {[1 .. m -> Range(s)] : m \in Nat}
    BY <1>2, <1>3
  <1> QED
    BY <1>4, SeqDef DEF IsSeq

\* A sequence t of n + 1 elements: the n of s, and e.
OneMore(s, e, t, n) ==
    /\ t = Append(s, e) /\ IsSeq(t)
    /\ n \in Nat /\ n = Len(s) /\ DOMAIN s = 1 .. n
    /\ Len(t) = n + 1 /\ DOMAIN t = 1 .. n + 1
    /\ t[n + 1] = e /\ \A k \in 1 .. n : t[k] = s[k]

LEMMA IsSeqAppend ==
  ASSUME NEW s, IsSeq(s), NEW e
  PROVE  OneMore(s, e, Append(s, e), Len(s))
  <1>1. PICK S : S = Range(s) \cup {e}
    OBVIOUS
  <1>2. s \in Seq(S) /\ e \in S
    BY <1>1, SeqMonotonic DEF IsSeq
  <1>3. PICK n \in Nat : n = Len(s) /\ DOMAIN s = 1 .. n
    BY <1>2, LenProperties
  <1>4. PICK t : t = Append(s, e)
    OBVIOUS
  <1>5. /\ t \in Seq(S) /\ Len(t) = Len(s) + 1 /\ t[Len(s) + 1] = e
        /\ \A k \in 1 .. Len(s) : t[k] = s[k]
    BY <1>2, <1>4, AppendProperties
  <1>6. DOMAIN t = 1 .. n + 1
    BY <1>3, <1>5, LenProperties
  <1>7. IsSeq(t)
    BY <1>5, SeqIsSeq
  <1>8. OneMore(s, e, t, n)
    BY <1>3, <1>4, <1>5, <1>6, <1>7 DEF OneMore
  <1> QED
    BY <1>3, <1>4, <1>8

\* There is one first child of a name.
LEMMA FirstIsOne ==
  ASSUME NEW n \in Nat, NEW s, DOMAIN s = 1 .. n, NEW nm, NEW f \in 1 .. n, IsFirst(f, s, nm)
  PROVE  (CHOOSE k \in DOMAIN s : IsFirst(k, s, nm)) = f
  <1>1. PICK g : g = CHOOSE k \in DOMAIN s : IsFirst(k, s, nm)
    OBVIOUS
  <1>2. g \in 1 .. n /\ IsFirst(g, s, nm)
    BY <1>1
  <1>3. /\ s[f].name = nm /\ \A j \in 1 .. f - 1 : s[j].name # nm
        /\ s[g].name = nm /\ \A j \in 1 .. g - 1 : s[j].name # nm
    BY <1>2 DEF IsFirst
  <1>4. ~(f < g) /\ ~(g < f)
    BY <1>2, <1>3
  <1> QED
    BY <1>1, <1>2, <1>4

\* Get answers the same after a child is added behind the others.
LEMMA GetIsTheSame ==
  ASSUME NEW s, IsSeq(s), NEW e, NEW k \in DOMAIN s
  PROVE  Get(Object(Append(s, e)), s[k].name) = Get(Object(s), s[k].name)
  <1>0. PICK n, t : n = Len(s) /\ t = Append(s, e) /\ OneMore(s, e, t, n)
    BY IsSeqAppend
  <1>1. /\ n \in Nat /\ t = Append(s, e)
        /\ DOMAIN s = 1 .. n /\ DOMAIN t = 1 .. n + 1
        /\ \A j \in 1 .. n : t[j] = s[j]
    BY <1>0 DEF OneMore
  <1>2. PICK nm : nm = s[k].name
    OBVIOUS
  <1>3. PICK f \in 1 .. n : s[f].name = nm /\ \A j \in 1 .. n : s[j].name = nm => f <= j
    <2> DEFINE S == {j \in 1 .. n : s[j].name = nm}
    <2>1. S \in SUBSET Nat /\ S # {}
      BY <1>1, <1>2
    <2>2. PICK f \in S : \A j \in S : f <= j
      BY <2>1, LeastNumber
    <2> QED
      BY <2>2
  <1>4. IsFirst(f, s, nm)
    BY <1>1, <1>3 DEF IsFirst
  <1>5. IsFirst(f, t, nm) /\ f \in 1 .. n + 1 /\ t[f] = s[f]
    <2>1. \A j \in 1 .. f - 1 : j \in 1 .. n /\ s[j].name # nm
      BY <1>1, <1>3
    <2> QED
      BY <1>1, <1>3, <2>1 DEF IsFirst
  <1>6. (CHOOSE j \in DOMAIN s : IsFirst(j, s, nm)) = f
    BY <1>1, <1>4, FirstIsOne
  <1>7. (CHOOSE j \in DOMAIN t : IsFirst(j, t, nm)) = f
    BY <1>1, <1>5, FirstIsOne
  <1>8. Get(Object(t), nm) = t[f].node /\ Get(Object(s), nm) = s[f].node
    BY <1>6, <1>7 DEF Get, Object
  <1> QED
    BY <1>1, <1>2, <1>5, <1>8

\* What a step of the parser may do to a node.
Grown(node, more) ==
    /\ more.type = node.type
    /\ ~IsValue(node) => IsPrefix(node.children, more.children)
    /\ IsObject(node) =>
          \A k \in DOMAIN node.children :
              LET nm == node.children[k].name IN Get(more, nm) = Get(node, nm)

LEMMA SameIsGrown ==
  ASSUME NEW node, IsNode(node)
  PROVE  Grown(node, node)
  <1>1. ~IsValue(node) => Len(node.children) \in Nat
    BY LenProperties DEF IsNode
  <1> QED
    BY <1>1 DEF Grown, IsPrefix

LEMMA WithGrows ==
  ASSUME NEW node, IsNode(node), NEW nm, NEW child
  PROVE  IsNode(With(node, nm, child)) /\ Grown(node, With(node, nm, child))
  <1>1. CASE IsValue(node)
    <2>1. With(node, nm, child) = node
      BY <1>1 DEF With, IsValue, IsObject, IsArray
    <2> QED
      BY <2>1, SameIsGrown
  <1>2. ASSUME ~IsValue(node), NEW e, NEW grown,
               \/ IsObject(node) /\ grown = Object(Append(node.children, e))
               \/ IsArray(node) /\ grown = Array(Append(node.children, e))
        PROVE  IsNode(grown) /\ Grown(node, grown)
    <2>1. IsSeq(node.children)
      BY <1>2 DEF IsNode, IsSeq
    <2>0. PICK c, n, t :
             c = node.children /\ n = Len(c) /\ t = Append(c, e) /\ OneMore(c, e, t, n)
      BY <2>1, IsSeqAppend
    <2>2. /\ n \in Nat /\ n = Len(c) /\ t = Append(c, e) /\ IsSeq(t)
          /\ DOMAIN c = 1 .. n /\ Len(t) = n + 1 /\ DOMAIN t = 1 .. n + 1
          /\ \A j \in 1 .. n : t[j] = c[j]
      BY <2>0 DEF OneMore
    <2>3. grown.type = node.type /\ grown.children = t
      BY <1>2, <2>0, <2>2 DEF Object, Array, IsObject, IsArray
    <2>4. IsNode(grown)
      BY <1>2, <2>2, <2>3 DEF IsNode, IsObject, IsArray, IsValue, IsSeq
    <2>5. IsPrefix(node.children, t)
      <3>1. c = SubSeq(t, 1, n)
        <4>1. c \in Seq(Range(c)) /\ t \in Seq(Range(t))
          BY <2>0, <2>1, <2>2 DEF IsSeq
        <4> QED
          BY <2>2, <4>1, SeqEqual
      <3> QED
        BY <2>0, <2>2, <3>1 DEF IsPrefix
    <2>6. ASSUME IsObject(node), NEW k \in DOMAIN node.children
          PROVE  Get(grown, node.children[k].name) = Get(node, node.children[k].name)
      <3>1. grown = Object(t)
        BY <1>2, <2>0, <2>2, <2>6 DEF IsObject, IsArray
      <3>2. Get(Object(t), node.children[k].name) = Get(Object(node.children), node.children[k].name)
        BY <2>0, <2>1, <2>2, <2>6, GetIsTheSame
      <3>3. Get(Object(node.children), node.children[k].name) = Get(node, node.children[k].name)
        BY DEF Get, Object
      <3> QED
        BY <3>1, <3>2, <3>3
    <2> QED
      BY <2>3, <2>4, <2>5, <2>6 DEF Grown
  <1>3. CASE IsObject(node)
    <2>1. With(node, nm, child) = Object(Append(node.children, Child(nm, child))) /\ ~IsValue(node)
      BY <1>3 DEF With, IsObject, IsArray, IsValue
    <2> QED
      BY <2>1, <1>2, <1>3
  <1>4. CASE IsArray(node)
    <2>1. With(node, nm, child) = Array(Append(node.children, child)) /\ ~IsValue(node)
      BY <1>4 DEF With, IsObject, IsArray, IsValue
    <2> QED
      BY <2>1, <1>2, <1>4
  <1> QED
    BY <1>1, <1>3, <1>4 DEF IsNode

-----------------------------------------------------------------------------
(* The stack of assemble.  A value is only ever at the bottom, where the node *)
(* is of the root's type.                                                     *)
FrameOK(frame, k, r) ==
    /\ frame = [name |-> frame.name, node |-> frame.node]
    /\ IsNode(frame.node)
    /\ IsValue(frame.node) => k = 1 /\ IsValue(r)
    /\ k = 1 => frame.node.type = r.type

StackOK(stack, r) == IsSeq(stack) /\ \A k \in DOMAIN stack : FrameOK(stack[k], k, r)

LEMMA StackEmpty == ASSUME NEW r PROVE StackOK(<<>>, r)
  <1>1. IsSeq(<<>>)
    BY EmptySeq, SeqIsSeq
  <1> QED
    BY <1>1 DEF StackOK

LEMMA StackAppend ==
  ASSUME NEW st, NEW r, StackOK(st, r), NEW nm, NEW nd, IsNode(nd),
         IsValue(nd) => st = <<>>, st = <<>> => nd.type = r.type
  PROVE  StackOK(Append(st, [name |-> nm, node |-> nd]), r)
  <1>0. IsSeq(st) /\ \A k \in DOMAIN st : FrameOK(st[k], k, r)
    BY DEF StackOK
  <1>1. PICK f : f = [name |-> nm, node |-> nd]
    OBVIOUS
  <1>2. PICK n, t : n = Len(st) /\ t = Append(st, f) /\ OneMore(st, f, t, n)
    BY <1>0, IsSeqAppend
  <1>3. /\ n \in Nat /\ IsSeq(t) /\ DOMAIN st = 1 .. n /\ DOMAIN t = 1 .. n + 1
        /\ t[n + 1] = f /\ \A k \in 1 .. n : t[k] = st[k]
    BY <1>2 DEF OneMore
  <1>4. n = 0 <=> st = <<>>
    <2>1. st \in Seq(Range(st))
      BY <1>0 DEF IsSeq
    <2> QED
      BY <1>2, <2>1, EmptySeq
  <1>5. FrameOK(f, n + 1, r)
    BY <1>1, <1>3, <1>4 DEF FrameOK, IsValue
  <1>6. \A k \in 1 .. n + 1 : FrameOK(t[k], k, r)
    <2>1. \A k \in 1 .. n + 1 : k \in 1 .. n \/ k = n + 1
      BY <1>3
    <2> QED
      BY <1>0, <1>3, <1>5, <2>1
  <1> QED
    BY <1>1, <1>2, <1>3, <1>6 DEF StackOK

\* The stack without its last frame, which is at Len(st).
LEMMA StackFront ==
  ASSUME NEW st, NEW r, StackOK(st, r), st # <<>>
  PROVE  /\ StackOK(Front(st), r)
         /\ Len(st) \in Nat \ {0} /\ DOMAIN st = 1 .. Len(st) /\ Last(st) = st[Len(st)]
  <1>0. IsSeq(st) /\ \A k \in DOMAIN st : FrameOK(st[k], k, r)
    BY DEF StackOK
  <1>1. st \in Seq(Range(st))
    BY <1>0 DEF IsSeq
  <1>2. PICK n \in Nat : n = Len(st) /\ DOMAIN st = 1 .. n /\ n # 0
    BY <1>1, LenProperties, EmptySeq
  <1>3. PICK t : t = SubSeq(st, 1, n - 1)
    OBVIOUS
  <1>4. /\ t \in Seq(Range(st)) /\ DOMAIN t = 1 .. n - 1
        /\ \A k \in 1 .. n - 1 : t[k] = st[k]
    BY <1>1, <1>2, <1>3
  <1>5. IsSeq(t)
    BY <1>4, SeqIsSeq
  <1>6. StackOK(t, r)
    BY <1>0, <1>2, <1>4, <1>5 DEF StackOK
  <1> QED
    BY <1>2, <1>3, <1>6 DEF Front, Last

\* The node of the last frame, with one more child.
LEMMA StackUpdate ==
  ASSUME NEW st, NEW r, StackOK(st, r), NEW n \in Nat, n = Len(st), n > 1,
         NEW nd, IsNode(nd), nd.type = st[n].node.type
  PROVE  StackOK([st EXCEPT ![n].node = nd], r)
  <1>0. IsSeq(st) /\ \A k \in DOMAIN st : FrameOK(st[k], k, r)
    BY DEF StackOK
  <1>1. st \in Seq(Range(st)) /\ DOMAIN st = 1 .. n
    BY <1>0, LenProperties DEF IsSeq
  <1>2. PICK f : f = [name |-> st[n].name, node |-> nd]
    OBVIOUS
  <1>3. PICK t : t = [st EXCEPT ![n] = f]
    OBVIOUS
  <1>4. st[n] = [name |-> st[n].name, node |-> st[n].node]
    BY <1>0, <1>1 DEF FrameOK
  <1>5. [st EXCEPT ![n].node = nd] = t
    <2>1. PICK g : g = [st[n] EXCEPT !.node = nd]
      OBVIOUS
    <2>2. [st EXCEPT ![n].node = nd] = [st EXCEPT ![n] = g]
      BY <2>1
    <2>3. g = f
      <3>1. PICK a, b : a = st[n].name /\ b = st[n].node /\ st[n] = [name |-> a, node |-> b]
        BY <1>4
      <3>2. g = [[name |-> a, node |-> b] EXCEPT !.node = nd]
        BY <2>1, <3>1
      <3> QED
        BY <1>2, <3>1, <3>2
    <2> QED
      BY <1>3, <2>2, <2>3
  <1>6. FrameOK(f, n, r)
    <2>1. FrameOK(st[n], n, r)
      BY <1>0, <1>1
    <2> QED
      BY <1>2, <2>1 DEF FrameOK, IsValue
  <1>7. DOMAIN t = 1 .. n /\ \A k \in 1 .. n : t[k] = IF k = n THEN f ELSE st[k]
    BY <1>1, <1>3
  <1>8. \A k \in 1 .. n : FrameOK(t[k], k, r)
    BY <1>0, <1>1, <1>6, <1>7
  <1>9. IsSeq(t)
    <2>1. PICK S : S = Range(st) \cup {f}
      OBVIOUS
    <2>2. st \in Seq(S) /\ f \in S
      BY <1>1, <2>1, SeqMonotonic
    <2>3. t \in Seq(S)
      BY <1>3, <2>2, ExceptSeq
    <2> QED
      BY <2>3, SeqIsSeq
  <1> QED
    BY <1>5, <1>7, <1>8, <1>9 DEF StackOK

\* The root may change, within its type.
LEMMA StackRoot ==
  ASSUME NEW st, NEW r, StackOK(st, r), NEW more, more.type = r.type
  PROVE  StackOK(st, more)
  BY DEF StackOK, FrameOK, IsValue

-----------------------------------------------------------------------------
(* The inductive invariant.  QueuesKeepPace needs what the queues hold, and   *)
(* the last two conjuncts of ParserTypeOK that every open node is one.        *)
ParserInv ==
    /\ Pace(tokens, data, ~failedBefore /\ parsing # "failed")
    /\ IsNode(root) /\ root.type = given.type
    /\ StackOK(nodeStack, root)
    /\ parsing \in {"idle", "assembling", "ok", "failed"}
    /\ parses \in 0 .. MaxParses
    /\ failedBefore \in BOOLEAN

\* What each step of assemble is shown to do.
StepOK ==
    /\ Pace(tokens', data', ~failedBefore /\ parsing' # "failed")
    /\ IsNode(root') /\ Grown(root, root')
    /\ StackOK(nodeStack', root')
    /\ parsing' \in {"idle", "assembling", "ok", "failed"}

LEMMA ParserInitInv == ParserInit => ParserInv
  <1> SUFFICES ASSUME ParserInit PROVE ParserInv
    OBVIOUS
  <1>1. Pace(<<>>, <<>>, TRUE)
    BY EmptySeq, CountEmpty DEF Pace
  <1>2. StackOK(nodeStack, root)
    BY StackEmpty DEF ParserInit
  <1>3. (~failedBefore /\ parsing # "failed") = TRUE
    BY DEF ParserInit
  <1>4. tokens = <<>> /\ data = <<>>
    BY DEF ParserInit
  <1>5. Pace(tokens, data, ~failedBefore /\ parsing # "failed")
    BY <1>1, <1>3, <1>4
  <1>6. IsNode(root) /\ root.type = given.type
    BY RootsAssumption DEF ParserInit
  <1>7. parsing = "idle" /\ parses \in 0 .. MaxParses /\ failedBefore \in BOOLEAN
    <2>1. parses = 0 /\ 0 \in 0 .. MaxParses
      BY MaxParsesAssumption DEF ParserInit
    <2>2. parsing = "idle" /\ failedBefore = FALSE
      BY DEF ParserInit
    <2> QED
      BY <2>1, <2>2
  <1> QED
    BY <1>2, <1>5, <1>6, <1>7 DEF ParserInv

\* A Parse begins (jzon.cpp:943-955): its tokens come behind what the last left.
LEMMA StartParseKeeps ==
  ASSUME ParserInv, NEW text \in Text, StartParse(text)
  PROVE  ParserInv' /\ Grown(root, root')
  <1>1. PICK exact \in BOOLEAN :
           /\ exact = (~failedBefore /\ parsing # "failed")
           /\ exact = (~failedBefore' /\ parsing' # "failed")
    BY DEF ParserInv, StartParse
  <1>2. PICK stripped \in Text : stripped = json'
    BY RemoveWhitespaceTyped DEF StartParse
  <1>3. PICK end : end = Tokenize(stripped) /\ Ahead(end, 0)
    BY TokenizeKeeps
  <1>4. tokens' = tokens \o end.tokens /\ data' = data \o end.data
    BY <1>2, <1>3 DEF StartParse
  <1>5. Pace(end.tokens, end.data, TRUE)
    <2>1. end \in Scanned /\ Len(end.data) = Count(end.tokens) + 0
      BY <1>3 DEF Ahead
    <2>2. end.tokens \in Seq(Token) /\ end.data \in Seq(Data)
      BY <2>1 DEF Scanned
    <2>3. Count(end.tokens) \in Nat
      BY <2>2, CountAppend, ValuedTokens DEF Valued
    <2> QED
      BY <2>1, <2>2, <2>3 DEF Pace
  <1>6. Pace(tokens, data, exact)
    BY <1>1 DEF ParserInv
  <1>7. Pace(tokens', data', exact)
    BY <1>4, <1>5, <1>6, PaceConcat
  <1>8. Pace(tokens', data', ~failedBefore' /\ parsing' # "failed")
    BY <1>1, <1>7
  <1>9. StackOK(nodeStack', root')
    BY StackEmpty DEF StartParse
  <1>10. IsNode(root') /\ root'.type = given'.type /\ Grown(root, root')
    BY SameIsGrown DEF ParserInv, StartParse
  <1>11. /\ parsing' = "assembling" /\ failedBefore' \in BOOLEAN
         /\ parses' \in 0 .. MaxParses
    BY MaxParsesAssumption DEF ParserInv, StartParse
  <1> QED
    BY <1>8, <1>9, <1>10, <1>11 DEF ParserInv

\* Another parser has nothing in its queues.
LEMMA NewParserKeeps ==
  ASSUME ParserInv, NewParser
  PROVE  ParserInv' /\ Grown(root, root')
  <1>1. Pace(<<>>, <<>>, TRUE)
    BY EmptySeq, CountEmpty DEF Pace
  <1>2. /\ (~failedBefore' /\ parsing' # "failed") = TRUE
        /\ tokens' = <<>> /\ data' = <<>>
    BY DEF NewParser
  <1>3. Pace(tokens', data', ~failedBefore' /\ parsing' # "failed")
    BY <1>1, <1>2
  <1>4. StackOK(nodeStack', root')
    BY StackEmpty DEF NewParser
  <1>5. IsNode(root') /\ root'.type = given'.type /\ Grown(root, root')
    BY SameIsGrown DEF ParserInv, NewParser
  <1>6. parsing' = "idle" /\ failedBefore' \in BOOLEAN /\ parses' \in 0 .. MaxParses
    BY DEF ParserInv, NewParser
  <1> QED
    BY <1>3, <1>4, <1>5, <1>6 DEF ParserInv

\* Add (jzon.cpp:571-574, 698-701): the child is put into the root, or the last frame.
LEMMA AddToKeeps ==
  ASSUME IsNode(root), NEW st, StackOK(st, root), st # <<>>, NEW nm, NEW nd, AddTo(st, nm, nd)
  PROVE  IsNode(root') /\ Grown(root, root') /\ StackOK(nodeStack', root')
  <1>1. PICK n \in Nat \ {0} :
           n = Len(st) /\ DOMAIN st = 1 .. n /\ Last(st) = st[n]
    BY StackFront
  <1>2. PICK parent : parent = With(Open(st), nm, nd)
    OBVIOUS
  <1>3. CASE n = 1
    <2>1. root' = parent /\ nodeStack' = st /\ parent = With(root, nm, nd)
      BY <1>1, <1>2, <1>3 DEF AddTo, Open
    <2>2. IsNode(parent) /\ Grown(root, parent)
      BY <2>1, WithGrows
    <2>3. StackOK(st, parent)
      BY <2>2, StackRoot DEF Grown
    <2> QED
      BY <2>1, <2>2, <2>3
  <1>4. CASE n # 1
    <2>1. PICK node : node = st[n].node
      OBVIOUS
    <2>2. /\ nodeStack' = [st EXCEPT ![n].node = parent] /\ root' = root
          /\ parent = With(node, nm, nd)
      BY <1>1, <1>2, <1>4, <2>1 DEF AddTo, Open
    <2>3. IsNode(node)
      <3>1. n \in DOMAIN st
        BY <1>1
      <3>2. FrameOK(st[n], n, root)
        BY <3>1 DEF StackOK
      <3> QED
        BY <2>1, <3>2 DEF FrameOK
    <2>4. IsNode(parent) /\ Grown(node, parent)
      BY <2>2, <2>3, WithGrows
    <2>5. parent.type = st[n].node.type /\ n > 1
      BY <1>1, <1>4, <2>1, <2>4 DEF Grown
    <2>6. StackOK([st EXCEPT ![n].node = parent], root)
      BY <1>1, <2>4, <2>5, StackUpdate
    <2> QED
      BY <2>2, <2>6, SameIsGrown
  <1> QED
    BY <1>3, <1>4

\* A token is taken with its datum if it has one; otherwise the parse fails.
LEMMA TakenKeepsPace ==
  ASSUME ParserInv, parsing = "assembling", tokens # <<>>, tokens' = Tail(tokens),
         \/ Head(tokens) \in Valued /\ data' = Tail(data)
         \/ Head(tokens) \notin Valued /\ data' = data
         \/ data' = data /\ parsing' = "failed"
  PROVE  Pace(tokens', data', ~failedBefore /\ parsing' # "failed")
  <1>1. PICK before \in BOOLEAN, after \in BOOLEAN :
           /\ before = (~failedBefore /\ parsing # "failed")
           /\ after = (~failedBefore /\ parsing' # "failed")
    OBVIOUS
  <1>2. Pace(tokens, data, before)
    BY <1>1 DEF ParserInv
  <1>3. (after => before) /\ (parsing' = "failed" => after = FALSE)
    BY <1>1
  <1>4. CASE Head(tokens) \in Valued /\ data' = Tail(data)
    <2>1. Pace(tokens', data', before)
      BY <1>2, <1>4, PaceTail
    <2> QED
      BY <2>1, <1>1, <1>3 DEF Pace
  <1>5. CASE Head(tokens) \notin Valued /\ data' = data
    <2>1. Pace(tokens', data', before)
      BY <1>2, <1>5, PaceTail
    <2> QED
      BY <2>1, <1>1, <1>3 DEF Pace
  <1>6. CASE data' = data /\ parsing' = "failed"
    <2>1. Pace(tokens', data', FALSE)
      BY <1>2, <1>6, PaceTail
    <2> QED
      BY <2>1, <1>1, <1>3, <1>6
  <1> QED
    BY <1>4, <1>5, <1>6

\* Steps that change neither the root nor the stack.
LEMMA RootAndStackKept ==
  ASSUME ParserInv, UNCHANGED <<root, nodeStack>>
  PROVE  IsNode(root') /\ Grown(root, root') /\ StackOK(nodeStack', root')
  BY SameIsGrown DEF ParserInv

LEMMA UnknownTokenKeeps ==
  ASSUME ParserInv, UnknownToken
  PROVE  StepOK
  <1>1. /\ parsing = "assembling" /\ tokens # <<>> /\ tokens' = Tail(tokens)
        /\ Head(tokens) \in Valued /\ data' = Tail(data)
    BY DEF UnknownToken, Taking, Valued
  <1>2. Pace(tokens', data', ~failedBefore /\ parsing' # "failed")
    BY <1>1, TakenKeepsPace
  <1>3. IsNode(root') /\ Grown(root, root') /\ StackOK(nodeStack', root')
    BY RootAndStackKept DEF UnknownToken
  <1> QED
    BY <1>2, <1>3 DEF StepOK, UnknownToken, Fails

\* An object or array begins (jzon.cpp:1069-1112): the root, or a new node.
LEMMA BeginKeeps ==
  ASSUME ParserInv, NEW token \in Structural, NEW empty \in {EmptyObject, EmptyArray},
         Begin(token, empty)
  PROVE  StepOK
  <1>1. /\ parsing = "assembling" /\ tokens # <<>> /\ tokens' = Tail(tokens)
        /\ Head(tokens) = token /\ data' = data /\ root' = root
    BY DEF Begin, Taking
  <1>2. Head(tokens) \notin Valued
    BY <1>1, ValuedTokens
  <1>3. Pace(tokens', data', ~failedBefore /\ parsing' # "failed")
    BY <1>1, <1>2, TakenKeepsPace
  <1>4. CASE nodeStack = <<>> /\ root.type # empty.type
    <2>1. IsNode(root') /\ Grown(root, root') /\ StackOK(nodeStack', root')
      BY <1>1, <1>4, RootAndStackKept DEF Begin
    <2>2. parsing' = "failed"
      BY <1>4 DEF Begin, Fails
    <2> QED
      BY <1>3, <2>1, <2>2 DEF StepOK
  <1>5. CASE ~(nodeStack = <<>> /\ root.type # empty.type)
    <2>1. PICK nm : nm = name
      OBVIOUS
    <2>2. /\ nodeStack' = Append(nodeStack, [name |-> nm, node |-> empty])
          /\ parsing' = parsing
      BY <1>5, <2>1 DEF Begin, Frame
    <2>3. IsNode(empty) /\ ~IsValue(empty)
      <3>1. <<>> \in Seq(Range(<<>>))
        BY EmptySeq
      <3>2. /\ EmptyObject.type = "object" /\ EmptyObject.children = <<>>
            /\ EmptyArray.type = "array" /\ EmptyArray.children = <<>>
        BY DEF EmptyObject, EmptyArray, Object, Array
      <3> QED
        BY <3>1, <3>2 DEF IsNode, IsObject, IsArray, IsValue
    <2>4. nodeStack = <<>> => empty.type = root.type
      BY <1>5
    <2>5. StackOK(nodeStack, root)
      BY DEF ParserInv
    <2>6. StackOK(nodeStack', root)
      BY <2>2, <2>3, <2>4, <2>5, StackAppend
    <2>7. IsNode(root') /\ Grown(root, root')
      BY <1>1, SameIsGrown DEF ParserInv
    <2> QED
      BY <1>1, <1>3, <2>2, <2>6, <2>7 DEF StepOK
  <1> QED
    BY <1>4, <1>5

\* An object or array ends (jzon.cpp:1113-1156): it is added to the one below it.
LEMMA EndKeeps ==
  ASSUME ParserInv, NEW token \in Structural, NEW type, End(token, type)
  PROVE  StepOK
  <1>1. /\ parsing = "assembling" /\ tokens # <<>> /\ tokens' = Tail(tokens)
        /\ Head(tokens) = token /\ data' = data
    BY DEF End, Taking
  <1>2. Head(tokens) \notin Valued
    BY <1>1, ValuedTokens
  <1>3. Pace(tokens', data', ~failedBefore /\ parsing' # "failed")
    BY <1>1, <1>2, TakenKeepsPace
  <1>4. IsNode(root) /\ StackOK(nodeStack, root) /\ Grown(root, root)
    BY SameIsGrown DEF ParserInv
  <1>5. PICK rest : rest = Front(nodeStack)
    OBVIOUS
  <1>6. CASE nodeStack = <<>>
    <2>1. parsing' = "failed" /\ root' = root /\ nodeStack' = nodeStack
      BY <1>6 DEF End, Fails
    <2> QED
      BY <1>3, <1>4, <2>1 DEF StepOK
  <1>7. CASE nodeStack # <<>> /\ Open(nodeStack).type # type
    <2>1. parsing' = "failed" /\ root' = root /\ nodeStack' = nodeStack
      BY <1>7 DEF End, Fails
    <2> QED
      BY <1>3, <1>4, <2>1 DEF StepOK
  <1>8. CASE nodeStack # <<>> /\ Open(nodeStack).type = type
    <2>0. StackOK(rest, root)
      BY <1>4, <1>5, <1>8, StackFront
    <2>1. CASE rest = <<>>
      <3>1. nodeStack' = rest /\ root' = root /\ parsing' = parsing
        BY <1>5, <1>8, <2>1 DEF End
      <3> QED
        BY <1>1, <1>3, <1>4, <2>0, <3>1 DEF StepOK
    <2>2. CASE rest # <<>> /\ IsValue(Open(rest))
      <3>1. nodeStack' = rest /\ root' = root /\ parsing' = "failed"
        BY <1>5, <1>8, <2>2 DEF End, Fails
      <3> QED
        BY <1>3, <1>4, <2>0, <3>1 DEF StepOK
    <2>3. CASE rest # <<>> /\ ~IsValue(Open(rest))
      <3>1. PICK nm, nd : nm = Last(nodeStack).name /\ nd = Open(nodeStack)
        OBVIOUS
      <3>2. AddTo(rest, nm, nd) /\ parsing' = parsing
        BY <1>5, <1>8, <2>3, <3>1 DEF End
      <3>3. IsNode(root') /\ Grown(root, root') /\ StackOK(nodeStack', root')
        BY <1>4, <2>0, <2>3, <3>2, AddToKeeps
      <3> QED
        BY <1>1, <1>3, <3>2, <3>3 DEF StepOK
    <2> QED
      BY <2>1, <2>2, <2>3
  <1> QED
    BY <1>6, <1>7, <1>8

LEMMA SeparatorKeeps ==
  ASSUME ParserInv, Separator
  PROVE  StepOK
  <1>1. /\ parsing = "assembling" /\ tokens # <<>> /\ tokens' = Tail(tokens)
        /\ Head(tokens) \in Structural /\ data' = data /\ parsing' = parsing
    BY DEF Separator, Taking, Structural
  <1>2. Head(tokens) \notin Valued
    BY <1>1, ValuedTokens
  <1>3. Pace(tokens', data', ~failedBefore /\ parsing' # "failed")
    BY <1>1, <1>2, TakenKeepsPace
  <1>4. IsNode(root') /\ Grown(root, root') /\ StackOK(nodeStack', root')
    BY RootAndStackKept DEF Separator
  <1> QED
    BY <1>1, <1>3, <1>4 DEF StepOK

\* A name and its colon (jzon.cpp:1157-1172): the datum stays if it is no string.
LEMMA ReadNameKeeps ==
  ASSUME ParserInv, ReadName
  PROVE  StepOK
  <1>1. PICK before \in BOOLEAN, after \in BOOLEAN :
           /\ before = (~failedBefore /\ parsing # "failed")
           /\ after = (~failedBefore /\ parsing' # "failed")
    OBVIOUS
  <1>2. /\ parsing = "assembling" /\ tokens # <<>> /\ Head(tokens) = "value"
        /\ Len(tokens) >= 2 /\ tokens[2] = ":" /\ tokens' = Tail(Tail(tokens))
        /\ UNCHANGED <<root, nodeStack>>
    BY DEF ReadName, Taking, IsName
  <1>3. Pace(tokens, data, before) /\ tokens \in Seq(Token)
    BY <1>1 DEF ParserInv, Pace
  <1>4. PICK ts : ts = Tail(tokens)
    OBVIOUS
  <1>5. ts # <<>> /\ Head(ts) = ":" /\ tokens' = Tail(ts)
    <2>1. /\ Len(tokens) \in Nat /\ ts \in Seq(Token) /\ Len(ts) = Len(tokens) - 1
          /\ \A k \in 1 .. Len(ts) : ts[k] = tokens[k + 1]
      BY <1>2, <1>3, <1>4, LenProperties, HeadTailProperties
    <2>2. 1 \in 1 .. Len(ts)
      BY <1>2, <2>1
    <2>3. ts[1] = ":"
      BY <1>2, <2>1, <2>2
    <2> QED
      BY <1>2, <1>4, <2>1, <2>2, <2>3
  <1>6. Head(tokens) \in Valued /\ Head(ts) \notin Valued
    BY <1>2, <1>5 DEF Valued
  <1>7. Pace(ts, Tail(data), before) /\ Pace(ts, data, FALSE)
    BY <1>2, <1>3, <1>4, <1>6, PaceTail
  <1>8. Pace(tokens', Tail(data), before)
    BY <1>5, <1>6, <1>7, PaceTail
  <1>9. Pace(tokens', data, FALSE)
    BY <1>5, <1>6, <1>7, PaceTail
  <1>10. IsNode(root') /\ Grown(root, root') /\ StackOK(nodeStack', root')
    BY <1>2, RootAndStackKept
  <1>11. CASE Head(data).type = "string"
    <2>1. data' = Tail(data) /\ parsing' = parsing
      BY <1>11 DEF ReadName
    <2>2. Pace(tokens', data', after)
      BY <1>1, <1>8, <2>1
    <2> QED
      BY <1>1, <1>2, <1>10, <2>1, <2>2 DEF StepOK
  <1>12. CASE Head(data).type # "string"
    <2>1. data' = data /\ parsing' = "failed"
      BY <1>12 DEF ReadName, Fails
    <2>2. after = FALSE
      BY <1>1, <2>1
    <2>3. Pace(tokens', data', after)
      BY <1>9, <2>1, <2>2
    <2> QED
      BY <1>1, <1>10, <2>1, <2>3 DEF StepOK
  <1> QED
    BY <1>11, <1>12

\* A value (jzon.cpp:1173-1217): the root itself, or a child of the open node.
LEMMA ReadValueKeeps ==
  ASSUME ParserInv, ReadValue
  PROVE  StepOK
  <1>1. /\ parsing = "assembling" /\ tokens # <<>> /\ tokens' = Tail(tokens)
        /\ Head(tokens) \in Valued
    BY DEF ReadValue, Taking, Valued
  <1>2. PICK datum : datum = Head(data)
    OBVIOUS
  <1>3. PICK nd : nd = IF datum.type = "string" THEN StringValue(datum.str)
                                                ELSE Value(datum.type, datum.str)
    OBVIOUS
  <1>4. nd.type = "value" /\ IsNode(nd) /\ IsValue(nd)
    BY <1>3 DEF StringValue, Value, IsNode, IsValue
  <1>5. IsNode(root) /\ StackOK(nodeStack, root)
    BY DEF ParserInv
  <1>6. CASE nodeStack = <<>> /\ ~IsValue(root)
    <2>1. parsing' = "failed" /\ data' = data /\ UNCHANGED <<root, nodeStack>>
      BY <1>6 DEF ReadValue, Fails
    <2>2. Pace(tokens', data', ~failedBefore /\ parsing' # "failed")
      BY <1>1, <2>1, TakenKeepsPace
    <2>3. IsNode(root') /\ Grown(root, root') /\ StackOK(nodeStack', root')
      BY <2>1, RootAndStackKept
    <2> QED
      BY <2>1, <2>2, <2>3 DEF StepOK
  <1>7. CASE nodeStack = <<>> /\ IsValue(root)
    <2>0. PICK nm : nm = name
      OBVIOUS
    <2>1. /\ parsing' = parsing /\ data' = Tail(data) /\ root' = nd
          /\ nodeStack' = <<[name |-> nm, node |-> nd]>>
      BY <1>2, <1>3, <1>7, <2>0 DEF ReadValue, Frame
    <2>2. Pace(tokens', data', ~failedBefore /\ parsing' # "failed")
      BY <1>1, <2>1, TakenKeepsPace
    <2>3. Grown(root, root')
      BY <1>4, <1>7, <2>1 DEF Grown, IsValue, IsObject
    <2>4. StackOK(<<>>, nd)
      BY StackEmpty
    <2>5. StackOK(Append(<<>>, [name |-> nm, node |-> nd]), nd)
      BY <1>4, <2>4, StackAppend
    <2>6. Append(<<>>, [name |-> nm, node |-> nd]) = <<[name |-> nm, node |-> nd]>>
      OBVIOUS
    <2>7. StackOK(nodeStack', root')
      BY <2>1, <2>5, <2>6
    <2> QED
      BY <1>1, <1>4, <2>1, <2>2, <2>3, <2>7 DEF StepOK
  <1>8. CASE nodeStack # <<>>
    <2>0. PICK nm : nm = name
      OBVIOUS
    <2>1. parsing' = parsing /\ data' = Tail(data) /\ AddTo(nodeStack, nm, nd)
      BY <1>2, <1>3, <1>8, <2>0 DEF ReadValue
    <2>2. Pace(tokens', data', ~failedBefore /\ parsing' # "failed")
      BY <1>1, <2>1, TakenKeepsPace
    <2>3. IsNode(root') /\ Grown(root, root') /\ StackOK(nodeStack', root')
      BY <1>5, <1>8, <2>1, AddToKeeps
    <2> QED
      BY <1>1, <2>1, <2>2, <2>3 DEF StepOK
  <1> QED
    BY <1>6, <1>7, <1>8

LEMMA EndOfTokensKeeps ==
  ASSUME ParserInv, EndOfTokens
  PROVE  StepOK
  <1>1. /\ parsing = "assembling" /\ parsing' = "ok" /\ tokens' = tokens /\ data' = data
        /\ UNCHANGED <<root, nodeStack>>
    BY DEF EndOfTokens
  <1>2. PICK exact \in BOOLEAN :
           /\ exact = (~failedBefore /\ parsing # "failed")
           /\ exact = (~failedBefore /\ parsing' # "failed")
    BY <1>1
  <1>3. Pace(tokens', data', exact)
    BY <1>1, <1>2 DEF ParserInv
  <1>4. IsNode(root') /\ Grown(root, root') /\ StackOK(nodeStack', root')
    BY <1>1, RootAndStackKept
  <1> QED
    BY <1>1, <1>2, <1>3, <1>4 DEF StepOK

LEMMA AssembleKeeps ==
  ASSUME ParserInv, Assemble
  PROVE  ParserInv' /\ Grown(root, root')
  <1>1. StepOK
    <2>1. CASE UnknownToken
      BY <2>1, UnknownTokenKeeps
    <2>2. CASE Separator
      BY <2>2, SeparatorKeeps
    <2>3. CASE ReadName
      BY <2>3, ReadNameKeeps
    <2>4. CASE ReadValue
      BY <2>4, ReadValueKeeps
    <2>5. CASE EndOfTokens
      BY <2>5, EndOfTokensKeeps
    <2>6. {"{", "[", "}", "]"} \subseteq Structural
      BY DEF Structural
    <2>7. CASE Begin("{", EmptyObject) \/ Begin("[", EmptyArray)
      BY <2>6, <2>7, BeginKeeps
    <2>8. CASE End("}", "object") \/ End("]", "array")
      BY <2>6, <2>8, EndKeeps
    <2> QED
      BY <2>1, <2>2, <2>3, <2>4, <2>5, <2>7, <2>8 DEF Assemble
  <1>2. UNCHANGED <<given, parses, failedBefore>>
    BY DEF Assemble
  <1>3. Pace(tokens', data', ~failedBefore' /\ parsing' # "failed")
    BY <1>1, <1>2 DEF StepOK
  <1>4. root'.type = given'.type
    BY <1>1, <1>2 DEF StepOK, Grown, ParserInv
  <1>5. parses' \in 0 .. MaxParses /\ failedBefore' \in BOOLEAN
    BY <1>2 DEF ParserInv
  <1> QED
    BY <1>1, <1>3, <1>4, <1>5 DEF ParserInv, StepOK

\* Every step of the parser, or none.
LEMMA ParserNextInv == ParserInv /\ [ParserNext]_parserVars => ParserInv' /\ Grown(root, root')
  <1> SUFFICES ASSUME ParserInv, [ParserNext]_parserVars
               PROVE  ParserInv' /\ Grown(root, root')
    OBVIOUS
  <1>1. CASE ParseWritten
    <2>1. PICK w \in Written \cup Rereads : StartParse(w.text)
      BY <1>1 DEF ParseWritten
    <2>2. w.text \in Text
      BY TextsAssumption
    <2> QED
      BY <2>1, <2>2, StartParseKeeps
  <1>2. CASE ParseText
    <2>1. PICK text \in Texts : StartParse(text)
      BY <1>2 DEF ParseText
    <2>2. text \in Text
      BY TextsAssumption
    <2> QED
      BY <2>1, <2>2, StartParseKeeps
  <1>3. CASE NewParser
    BY <1>3, NewParserKeeps
  <1>4. CASE Assemble
    BY <1>4, AssembleKeeps
  <1>5. CASE UNCHANGED parserVars
    <2>1. PICK exact \in BOOLEAN :
             /\ exact = (~failedBefore /\ parsing # "failed")
             /\ exact = (~failedBefore' /\ parsing' # "failed")
      BY <1>5 DEF parserVars
    <2>2. Pace(tokens', data', exact)
      BY <1>5, <2>1 DEF ParserInv, parserVars
    <2>3. UNCHANGED <<root, nodeStack>>
      BY <1>5 DEF parserVars
    <2>4. IsNode(root') /\ Grown(root, root') /\ StackOK(nodeStack', root')
      BY <2>3, RootAndStackKept
    <2>5. /\ root'.type = given'.type /\ parses' \in 0 .. MaxParses
          /\ parsing' \in {"idle", "assembling", "ok", "failed"} /\ failedBefore' \in BOOLEAN
      BY <1>5 DEF ParserInv, parserVars
    <2> QED
      BY <2>1, <2>2, <2>4, <2>5 DEF ParserInv
  <1> QED
    BY <1>1, <1>2, <1>3, <1>4, <1>5 DEF ParserNext

-----------------------------------------------------------------------------
(* The invariant of a parser that is used again and again, whatever the texts: *)
(* the queues, the root and the open nodes (jzon.cpp:931-1224).               *)
THEOREM ParserInvariant == ParserSpec => []ParserInv
  <1>1. ParserInit => ParserInv
    BY ParserInitInv
  <1>2. ParserInv /\ [ParserNext]_parserVars => ParserInv'
    BY ParserNextInv
  <1> QED
    BY <1>1, <1>2, PTL DEF ParserSpec

(* The parser's variables keep their types, the root its own, and only the    *)
(* lowest open node can be a value (jzon.cpp:1069-1217).                      *)
THEOREM ParserTypes == ParserSpec => []ParserTypeOK
  <1>1. ParserInv => ParserTypeOK
    <2> SUFFICES ASSUME ParserInv PROVE ParserTypeOK
      OBVIOUS
    <2>1. tokens \in Seq(Token) /\ data \in Seq(Data)
      BY DEF ParserInv, Pace
    <2>2. /\ \A k \in DOMAIN nodeStack : FrameOK(nodeStack[k], k, root)
          /\ IsSeq(nodeStack)
      BY DEF ParserInv, StackOK
    <2>3. \A k \in DOMAIN nodeStack : IsValue(nodeStack[k].node) => k = 1 /\ IsValue(root)
      BY <2>2 DEF FrameOK
    <2>4. ASSUME nodeStack # <<>> PROVE nodeStack[1].node.type = root.type
      <3>1. 1 \in DOMAIN nodeStack
        BY <2>2, <2>4 DEF IsSeq
      <3> QED
        BY <2>2, <3>1 DEF FrameOK
    <2> QED
      BY <2>1, <2>3, <2>4 DEF ParserTypeOK, ParserInv
  <1> QED
    BY <1>1, ParserInvariant, PTL

(* front() is never called on an empty queue of data, whatever was parsed     *)
(* before and whether it failed (jzon.cpp:1064, 1162, 1192-1199).            *)
THEOREM QueuesAtPace == ParserSpec => []QueuesKeepPace
  <1>1. ParserInv => QueuesKeepPace
    BY DEF ParserInv, Pace, Count, QueuesKeepPace
  <1> QED
    BY <1>1, ParserInvariant, PTL

(* A Parse, failed or not, only adds behind what the root holds, and Get      *)
(* still answers what it did (jzon.cpp:573, 645-656, 1048-1224).              *)
THEOREM RootGrows == ParserSpec => RootOnlyGrows
  <1>1. ParserInv /\ [ParserNext]_parserVars =>
          [ /\ root'.type = root.type
            /\ ~IsValue(root) => IsPrefix(root.children, root'.children)
            /\ IsObject(root) =>
                  \A k \in DOMAIN root.children :
                      LET nm == root.children[k].name IN Get(root', nm) = Get(root, nm)
          ]_parserVars
    BY ParserNextInv DEF Grown
  <1> QED
    BY <1>1, ParserInvariant, PTL DEF ParserSpec, RootOnlyGrows

-----------------------------------------------------------------------------
(* What is left of a text that was written.                                   *)

\* The function that RemoveWhitespace is defined with.
Removed(text) == CHOOSE f : Removals(f, text, Len(text))

\* It takes one step for each character.
LEMMA RemovedIs ==
    ASSUME NEW text \in Text
    PROVE  /\ Len(text) \in Nat
           /\ Removed(text)[0] = RemovalStart
           /\ \A k \in 1 .. Len(text) :
                 Removed(text)[k] = Removal(text, Removed(text)[k - 1], k)
           /\ RemoveWhitespace(text) = Removed(text)[Len(text)].fresh
<1>1. Len(text) \in Nat
  BY LenProperties DEF Text
<1>2. PICK g : Removals(g, text, Len(text))
  BY <1>1, RemovalsExist
<1>3. Removals(Removed(text), text, Len(text))
  BY <1>2 DEF Removed
<1>4. RemoveWhitespace(text) = Removed(text)[Len(text)].fresh
  BY Zenon DEF RemoveWhitespace, Removed, Removals
<1>5. PICK f : f = Removed(text)
  OBVIOUS
<1>6. f[0] = RemovalStart /\ \A k \in 1 .. Len(text) : f[k] = Removal(text, f[k - 1], k)
  BY <1>1, <1>3, <1>5 DEF Removals
<1> QED
  BY <1>1, <1>4, <1>5, <1>6

\* Outside of comments, in a string or not, with what is left so far.
Uncommented(inString, fresh) ==
    [skip |-> FALSE, comment |-> FALSE, multicomment |-> 0,
     inString |-> inString, fresh |-> fresh]

\* A comment begins and ends with a slash or a star.
LEMMA NoComment == \A c1, c2 : c1 \notin {"/", "*"} => ~BeginsOrEnds(c1, c2)
  BY DEF BeginsOrEnds

\* A step that neither begins nor ends a comment.
LEMMA UnmarkedStep ==
    ASSUME NEW text, NEW k, NEW s, ~s.skip, s.comment \in BOOLEAN, NEW inString \in BOOLEAN,
           inString = IF CharAt(text, k - 1) # Backslash /\ text[k] = Quote
                      THEN ~s.inString ELSE s.inString,
           inString \/ ~BeginsOrEnds(text[k], CharAt(text, k + 1)),
           NEW note \in BOOLEAN, note = (s.comment /\ (inString \/ text[k] # "\n"))
    PROVE  Removal(text, s, k) =
              [skip |-> FALSE, comment |-> note, inString |-> inString,
               multicomment |-> s.multicomment,
               fresh |-> IF note \/ s.multicomment > 0 \/ (~inString /\ text[k] \in Blanks)
                         THEN s.fresh ELSE Append(s.fresh, text[k])]
<1>1. PICK c0, c1, c2 : c0 = CharAt(text, k - 1) /\ c1 = text[k] /\ c2 = CharAt(text, k + 1)
  OBVIOUS
<1>2. PICK mark \in BOOLEAN : mark = (~inString /\ BeginsOrEnds(c1, c2))
  BY DEF BeginsOrEnds
<1>3. mark = FALSE
  BY <1>1, <1>2
<1>4. note = ((s.comment /\ (inString \/ c1 # "\n")) \/ (mark /\ c1 = c2))
  BY <1>1, <1>3
<1>5. s.multicomment = CASE mark /\ c2 = "*" -> s.multicomment + 1
                         [] mark /\ c1 = "*" -> s.multicomment - 1
                         [] ~mark \/ c1 = c2 -> s.multicomment
  BY <1>3
<1>6. PICK fresh :
         /\ fresh = IF mark \/ note \/ s.multicomment > 0 \/ (~inString /\ c1 \in Blanks)
                    THEN s.fresh ELSE Append(s.fresh, c1)
         /\ fresh = IF note \/ s.multicomment > 0 \/ (~inString /\ c1 \in Blanks)
                    THEN s.fresh ELSE Append(s.fresh, c1)
  BY <1>3
<1>7. Removal(text, s, k) =
         [skip |-> mark, comment |-> note, inString |-> inString,
          multicomment |-> s.multicomment, fresh |-> fresh]
  BY <1>1, <1>2, <1>4, <1>5, <1>6 DEF Removal
<1> QED
  BY <1>1, <1>3, <1>6, <1>7

\* A step outside of comments.
LEMMA UncommentedStep ==
    ASSUME NEW text, NEW k, NEW fresh, NEW was \in BOOLEAN, NEW inString \in BOOLEAN,
           inString = IF CharAt(text, k - 1) # Backslash /\ text[k] = Quote THEN ~was ELSE was,
           inString \/ ~BeginsOrEnds(text[k], CharAt(text, k + 1))
    PROVE  Removal(text, Uncommented(was, fresh), k) =
              Uncommented(inString, IF ~inString /\ text[k] \in Blanks
                                    THEN fresh ELSE Append(fresh, text[k]))
<1>1. PICK s : s = Uncommented(was, fresh)
  OBVIOUS
<1>2. /\ ~s.skip /\ s.comment \in BOOLEAN /\ s.comment = FALSE /\ s.inString = was
      /\ s.multicomment = 0 /\ s.fresh = fresh
  BY <1>1 DEF Uncommented
<1>3. PICK note \in BOOLEAN : note = FALSE
  OBVIOUS
<1>4. note = (s.comment /\ (inString \/ text[k] # "\n"))
  BY <1>2, <1>3
<1>5. inString = IF CharAt(text, k - 1) # Backslash /\ text[k] = Quote
                 THEN ~s.inString ELSE s.inString
  BY <1>2
<1>6. Removal(text, s, k) =
         [skip |-> FALSE, comment |-> note, inString |-> inString,
          multicomment |-> s.multicomment,
          fresh |-> IF note \/ s.multicomment > 0 \/ (~inString /\ text[k] \in Blanks)
                    THEN s.fresh ELSE Append(s.fresh, text[k])]
  BY <1>2, <1>4, <1>5, UnmarkedStep
<1>7. (IF note \/ s.multicomment > 0 \/ (~inString /\ text[k] \in Blanks)
         THEN s.fresh ELSE Append(s.fresh, text[k]))
         = IF ~inString /\ text[k] \in Blanks THEN fresh ELSE Append(fresh, text[k])
  BY <1>2, <1>3
<1> QED
  BY <1>1, <1>2, <1>3, <1>6, <1>7, Zenon DEF Uncommented

\* A blank between strings is removed, ...
LEMMA BlankStep ==
    ASSUME NEW text, NEW k, NEW fresh, text[k] \in Blanks
    PROVE  Removal(text, Uncommented(FALSE, fresh), k) = Uncommented(FALSE, fresh)
<1>1. text[k] # Quote /\ text[k] \notin {"/", "*"}
  BY DEF Blanks, Quote
<1>2. ~BeginsOrEnds(text[k], CharAt(text, k + 1))
  BY <1>1, NoComment
<1> QED
  BY <1>1, <1>2, UncommentedStep

\* ... any other character that begins no comment is not, ...
LEMMA PlainStep ==
    ASSUME NEW text, NEW k, NEW fresh, text[k] \notin Blanks \cup {"/", "*", Quote}
    PROVE  Removal(text, Uncommented(FALSE, fresh), k)
              = Uncommented(FALSE, Append(fresh, text[k]))
<1>1. text[k] \notin Blanks /\ text[k] # Quote /\ text[k] \notin {"/", "*"}
  OBVIOUS
<1>2. ~BeginsOrEnds(text[k], CharAt(text, k + 1))
  BY <1>1, NoComment
<1> QED
  BY <1>1, <1>2, UncommentedStep

\* ... a quote begins a string, ...
LEMMA OpenStep ==
    ASSUME NEW text, NEW k, NEW fresh, text[k] = Quote, CharAt(text, k - 1) # Backslash
    PROVE  Removal(text, Uncommented(FALSE, fresh), k)
              = Uncommented(TRUE, Append(fresh, text[k]))
  BY UncommentedStep

\* ... in which every character counts, ...
LEMMA InsideStep ==
    ASSUME NEW text, NEW k, NEW fresh, text[k] # Quote \/ CharAt(text, k - 1) = Backslash
    PROVE  Removal(text, Uncommented(TRUE, fresh), k)
              = Uncommented(TRUE, Append(fresh, text[k]))
  BY UncommentedStep

\* ... up to the next quote that no backslash comes before.
LEMMA CloseStep ==
    ASSUME NEW text, NEW k, NEW fresh, text[k] = Quote, CharAt(text, k - 1) # Backslash
    PROVE  Removal(text, Uncommented(TRUE, fresh), k)
              = Uncommented(FALSE, Append(fresh, text[k]))
<1>1. text[k] \notin Blanks /\ text[k] \notin {"/", "*"}
  BY DEF Blanks, Quote
<1>2. ~BeginsOrEnds(text[k], CharAt(text, k + 1))
  BY <1>1, NoComment
<1> QED
  BY <1>1, <1>2, UncommentedStep

\* Texts one after the other.
LEMMA TextConcat ==
    /\ \A a, b \in Text : Concat(a, b) \in Text /\ Len(Concat(a, b)) = Len(a) + Len(b)
    /\ \A a, b, c \in Text : Concat(Concat(a, b), c) = Concat(a, Concat(b, c))
    /\ \A a \in Text : Concat(a, <<>>) = a /\ Concat(<<>>, a) = a
    /\ \A a \in Text : Len(a) \in Nat
<1>1. \A a, b \in Text : Concat(a, b) \in Text /\ Len(Concat(a, b)) = Len(a) + Len(b)
  BY ConcatProperties DEF Text, Concat
<1>2. ASSUME NEW a \in Text, NEW b \in Text, NEW c \in Text
      PROVE  Concat(Concat(a, b), c) = Concat(a, Concat(b, c))
  <2>1. (a \o b) \o c = a \o (b \o c)
    BY ConcatAssociative DEF Text
  <2> QED
    BY <2>1, Zenon DEF Concat
<1>3. \A a \in Text : Concat(a, <<>>) = a /\ Concat(<<>>, a) = a
  BY ConcatEmptySeq DEF Text, Concat
<1>4. \A a \in Text : Len(a) \in Nat
  BY LenProperties DEF Text
<1> QED
  BY <1>1, <1>2, <1>3, <1>4

\* A sequence of one element.
LEMMA SeqOne ==
    ASSUME NEW T, NEW e \in T PROVE <<e>> \in Seq(T) /\ Len(<<e>>) = 1 /\ <<e>>[1] = e
  OBVIOUS

\* A text of one character.
LEMMA TextOne ==
    ASSUME NEW c \in Characters
    PROVE  /\ <<c>> \in Text /\ Len(<<c>>) = 1 /\ <<c>>[1] = c
           /\ \A a \in Text : Concat(a, <<c>>) = Append(a, c)
<1>1. <<c>> \in Text /\ Len(<<c>>) = 1 /\ <<c>>[1] = c
  BY SeqOne, Zenon DEF Text
<1>2. ASSUME NEW a \in Text PROVE Concat(a, <<c>>) = Append(a, c)
  BY <1>1, AppendIsConcat DEF Text, Concat
<1> QED
  BY <1>1, <1>2

\* A piece of a text, behind its i-th character.
At(text, i, w) == i + Len(w) <= Len(text) /\ \A j \in 1 .. Len(w) : text[i + j] = w[j]

\* A piece of two has each of them.
LEMMA AtConcat ==
    ASSUME NEW text \in Text, NEW i \in Nat, NEW a \in Text, NEW b \in Text,
           At(text, i, Concat(a, b))
    PROVE  At(text, i, a) /\ At(text, i + Len(a), b)
<1>1. PICK m, n \in Nat : m = Len(a) /\ n = Len(b)
  BY LenProperties DEF Text
<1>2. PICK c : c = Concat(a, b)
  OBVIOUS
<1>3. /\ Len(c) = m + n
      /\ \A k \in 1 .. m + n : c[k] = IF k <= m THEN a[k] ELSE b[k - m]
  BY <1>1, <1>2, ConcatProperties, Zenon DEF Concat, Text
<1>4. PICK l \in Nat : l = Len(text)
  BY LenProperties DEF Text
<1>5. i + (m + n) <= l /\ \A j \in 1 .. m + n : text[i + j] = c[j]
  BY <1>2, <1>3, <1>4 DEF At
<1>6. i + m <= l /\ \A j \in 1 .. m : text[i + j] = a[j]
  <2>1. ASSUME NEW j \in 1 .. m PROVE text[i + j] = a[j]
    <3>1. j \in 1 .. m + n /\ j <= m
      OBVIOUS
    <3> QED
      BY <1>3, <1>5, <3>1
  <2> QED
    BY <1>5, <2>1
<1>7. (i + m) + n <= l /\ \A j \in 1 .. n : text[(i + m) + j] = b[j]
  <2>1. ASSUME NEW j \in 1 .. n PROVE text[(i + m) + j] = b[j]
    <3>1. PICK k \in 1 .. m + n : k = m + j
      OBVIOUS
    <3>2. text[i + k] = c[k] /\ c[k] = b[k - m] /\ k - m = j /\ i + k = (i + m) + j
      BY <1>3, <1>5, <3>1
    <3> QED
      BY <3>2
  <2> QED
    BY <1>5, <2>1
<1> QED
  BY <1>1, <1>4, <1>6, <1>7 DEF At

\* Behind the i-th character, not in a string, or in one.
Outside(text, i, fresh) ==
    Removed(text)[i] = Uncommented(FALSE, fresh) /\ CharAt(text, i) # Backslash
Inside(text, i, fresh) == Removed(text)[i] = Uncommented(TRUE, fresh)

\* What is left of w is v, whatever text it is in, between strings.
Reduces(w, v) ==
    /\ w \in Text /\ v \in Text
    /\ \A text \in Text, i \in Nat, fresh \in Text :
          At(text, i, w) /\ Outside(text, i, fresh)
              => Outside(text, i + Len(w), Concat(fresh, v))

\* Of nothing, nothing is left.
LEMMA ReducesNone == Reduces(<<>>, <<>>)
<1>1. <<>> \in Text /\ Len(<<>>) = 0
  BY TextAppend, EmptySeq
<1>2. \A text \in Text, i \in Nat, fresh \in Text :
         Outside(text, i, fresh) => Outside(text, i + Len(<<>>), Concat(fresh, <<>>))
  BY <1>1, TextConcat
<1> QED
  BY <1>1, <1>2 DEF Reduces

\* Of two pieces, what is left of each of them.
LEMMA ReducesConcat ==
    ASSUME NEW a, NEW b, NEW c, NEW d, Reduces(a, b), Reduces(c, d)
    PROVE  Reduces(Concat(a, c), Concat(b, d))
<1>1. a \in Text /\ b \in Text /\ c \in Text /\ d \in Text
  BY DEF Reduces
<1>2. ASSUME NEW text \in Text, NEW i \in Nat, NEW fresh \in Text,
             At(text, i, Concat(a, c)), Outside(text, i, fresh)
      PROVE  Outside(text, i + Len(Concat(a, c)), Concat(fresh, Concat(b, d)))
  <2>1. At(text, i, a) /\ At(text, i + Len(a), c)
    BY <1>1, <1>2, AtConcat
  <2>2. PICK k \in Nat : k = i + Len(a)
    BY <1>1, TextConcat
  <2>3. PICK more \in Text : more = Concat(fresh, b)
    BY <1>1, TextConcat
  <2>4. Outside(text, k, more)
    BY <1>2, <2>1, <2>2, <2>3 DEF Reduces
  <2>5. Outside(text, k + Len(c), Concat(more, d))
    BY <2>1, <2>2, <2>4 DEF Reduces
  <2>6. Concat(more, d) = Concat(fresh, Concat(b, d))
    BY <1>1, <2>3, TextConcat
  <2>7. k + Len(c) = i + Len(Concat(a, c))
    <3>1. Len(a) \in Nat /\ Len(c) \in Nat /\ Len(Concat(a, c)) = Len(a) + Len(c)
      BY <1>1, TextConcat
    <3> QED
      BY <2>2, <3>1
  <2> QED
    BY <2>5, <2>6, <2>7
<1>3. Concat(a, c) \in Text /\ Concat(b, d) \in Text
  BY <1>1, TextConcat
<1> QED
  BY <1>2, <1>3 DEF Reduces

\* The step at a character of a text.
LEMMA StepAt ==
    ASSUME NEW text \in Text, NEW i \in Nat, NEW w \in Text, NEW j \in 1 .. Len(w),
           At(text, i, w)
    PROVE  /\ text[i + j] = w[j] /\ CharAt(text, i + j) = w[j]
           /\ Removed(text)[i + j] = Removal(text, Removed(text)[i + j - 1], i + j)
           /\ CharAt(text, i + j - 1) = CharAt(text, (i + j) - 1)
<1>1. Len(text) \in Nat /\ Len(w) \in Nat /\ DOMAIN text = 1 .. Len(text)
  BY LenProperties DEF Text
<1>2. i + j \in 1 .. Len(text) /\ text[i + j] = w[j]
  BY <1>1 DEF At
<1>3. (i + j) - 1 = i + j - 1
  OBVIOUS
<1> QED
  BY <1>1, <1>2, <1>3, RemovedIs DEF CharAt

\* Of a blank, nothing is left; other characters are left as they are.
LEMMA ReducesOne ==
    ASSUME NEW c \in Characters, c \notin {"/", "*", Quote, Backslash}
    PROVE  Reduces(<<c>>, IF c \in Blanks THEN <<>> ELSE <<c>>)
<1>1. /\ <<c>> \in Text /\ Len(<<c>>) = 1 /\ <<c>>[1] = c /\ 1 \in 1 .. Len(<<c>>)
      /\ <<>> \in Text
  BY TextOne, TextAppend
<1>2. PICK v \in Text : v = IF c \in Blanks THEN <<>> ELSE <<c>>
  BY <1>1
<1>3. ASSUME NEW text \in Text, NEW i \in Nat, NEW fresh \in Text,
             At(text, i, <<c>>), Outside(text, i, fresh)
      PROVE  Outside(text, i + 1, Concat(fresh, v))
  <2>1. PICK k \in Nat : k = i + 1 /\ i + 1 - 1 = i
    OBVIOUS
  <2>2. /\ text[k] = c /\ CharAt(text, k) = c
        /\ Removed(text)[k] = Removal(text, Removed(text)[i], k)
    BY <1>1, <1>3, <2>1, StepAt
  <2>3. Removed(text)[k] = Removal(text, Uncommented(FALSE, fresh), k)
    BY <1>3, <2>2 DEF Outside
  <2>4. CASE c \in Blanks
    <3>1. Removed(text)[k] = Uncommented(FALSE, fresh)
      BY <2>2, <2>3, <2>4, BlankStep
    <3>2. Concat(fresh, v) = fresh
      BY <1>2, <2>4, TextConcat
    <3> QED
      BY <2>1, <2>2, <3>1, <3>2 DEF Outside
  <2>5. CASE c \notin Blanks
    <3>1. Removed(text)[k] = Uncommented(FALSE, Append(fresh, c))
      BY <2>2, <2>3, <2>5, PlainStep
    <3>2. Concat(fresh, v) = Append(fresh, c)
      BY <1>2, <2>5, TextOne
    <3> QED
      BY <2>1, <2>2, <3>1, <3>2 DEF Outside
  <2> QED
    BY <2>4, <2>5
<1> QED
  BY <1>1, <1>2, <1>3 DEF Reduces

\* Characters that texts can have.
LEMMA CharactersAre ==
    /\ {Quote, Backslash} \subseteq Characters /\ Blanks \subseteq Characters
    /\ Structural \subseteq Characters /\ Words \subseteq Characters
    /\ Numerals \subseteq Characters
  BY CharactersAssumption

\* Each quote has a backslash before it, so that no string ends in it.
QuotesEscaped(w) == \A k \in 1 .. Len(w) : w[k] = Quote => k > 1 /\ w[k - 1] = Backslash

\* One more character of a text.
LEMMA TextAppended ==
    ASSUME NEW r \in Text, NEW e \in Characters
    PROVE  /\ Append(r, e) \in Text /\ Append(r, e) = Concat(r, <<e>>)
           /\ Len(r) \in Nat /\ Len(Append(r, e)) = Len(r) + 1
           /\ Append(r, e)[Len(r) + 1] = e
           /\ \A j \in 1 .. Len(r) : Append(r, e)[j] = r[j]
<1>1. /\ Len(Append(r, e)) = Len(r) + 1 /\ Append(r, e)[Len(r) + 1] = e
      /\ \A j \in 1 .. Len(r) : Append(r, e)[j] = r[j]
  BY AppendProperties DEF Text
<1> QED
  BY <1>1, TextAppend, TextOne, TextConcat

\* All texts, by one more character each time.
LEMMA TextInduction ==
    ASSUME NEW P, <<>> \in P, \A r \in Text, e \in Characters : r \in P => Append(r, e) \in P
    PROVE  Text \subseteq P
<1>1. \A r \in Seq(Characters), e \in Characters : r \in P => Append(r, e) \in P
  BY DEF Text
<1> QED
  BY <1>1, SequenceInduction DEF Text

\* In a string, such a text is left as it is.
LeftInside(w) ==
    \A text \in Text, i \in Nat, fresh \in Text :
        At(text, i, w) /\ Inside(text, i, fresh)
            => Inside(text, i + Len(w), Concat(fresh, w))

LEMMA InsideKeeps == \A w \in Text : QuotesEscaped(w) => LeftInside(w)
<1> DEFINE P == {w \in Text : QuotesEscaped(w) => LeftInside(w)}
<1>1. <<>> \in P
  <2>1. <<>> \in Text /\ Len(<<>>) = 0
    BY TextAppend, EmptySeq
  <2>2. \A text \in Text, i \in Nat, fresh \in Text :
           Inside(text, i, fresh) => Inside(text, i + Len(<<>>), Concat(fresh, <<>>))
    BY <2>1, TextConcat
  <2> QED
    BY <2>1, <2>2 DEF LeftInside
<1>2. ASSUME NEW r \in Text, NEW e \in Characters, r \in P PROVE Append(r, e) \in P
  <2>1. PICK w \in Text : w = Append(r, e)
    BY TextAppended
  <2>2. PICK m \in Nat : m = Len(r)
    BY TextAppended
  <2>3. /\ w = Concat(r, <<e>>) /\ Len(w) = m + 1 /\ w[m + 1] = e
        /\ \A j \in 1 .. m : w[j] = r[j]
    BY <2>1, <2>2, TextAppended
  <2>4. SUFFICES ASSUME QuotesEscaped(w),
                        NEW text \in Text, NEW i \in Nat, NEW fresh \in Text,
                        At(text, i, w), Inside(text, i, fresh)
                 PROVE  Inside(text, i + Len(w), Concat(fresh, w))
    BY <2>1 DEF LeftInside
  <2>5. QuotesEscaped(r)
    <3>1. ASSUME NEW k \in 1 .. m, r[k] = Quote PROVE k > 1 /\ r[k - 1] = Backslash
      <4>1. k \in 1 .. Len(w) /\ w[k] = Quote
        BY <2>3, <3>1
      <4>2. k > 1 /\ w[k - 1] = Backslash
        BY <2>4, <4>1 DEF QuotesEscaped
      <4>3. k - 1 \in 1 .. m
        BY <4>2
      <4> QED
        BY <2>3, <4>2, <4>3
    <3> QED
      BY <2>2, <3>1 DEF QuotesEscaped
  <2>6. <<e>> \in Text /\ Len(<<e>>) = 1 /\ <<e>>[1] = e /\ 1 \in 1 .. Len(<<e>>)
    BY TextOne
  <2>7. At(text, i, r) /\ At(text, i + m, <<e>>)
    BY <2>2, <2>3, <2>4, <2>6, AtConcat
  <2>8. PICK more \in Text : more = Concat(fresh, r)
    BY TextConcat
  <2>9. Inside(text, i + m, more)
    BY <1>2, <2>2, <2>4, <2>5, <2>7, <2>8 DEF LeftInside
  <2>10. PICK n \in Nat : n = i + m
    OBVIOUS
  <2>11. PICK k \in Nat : k = n + 1 /\ n + 1 - 1 = n /\ k - 1 = n
    OBVIOUS
  <2>12. /\ text[k] = e
         /\ Removed(text)[k] = Removal(text, Removed(text)[n], k)
    BY <2>6, <2>7, <2>10, <2>11, StepAt
  <2>13. text[k] # Quote \/ CharAt(text, k - 1) = Backslash
    <3>1. SUFFICES ASSUME e = Quote PROVE CharAt(text, n) = Backslash
      BY <2>11, <2>12
    <3>2. m + 1 \in 1 .. Len(w)
      BY <2>3
    <3>3. m + 1 > 1 /\ w[(m + 1) - 1] = Backslash
      BY <2>3, <2>4, <3>1, <3>2 DEF QuotesEscaped
    <3>4. m \in 1 .. m /\ (m + 1) - 1 = m
      BY <3>3
    <3>5. r[m] = Backslash
      BY <2>3, <3>3, <3>4
    <3>6. CharAt(text, i + m) = r[m]
      <4>1. m \in 1 .. Len(r)
        BY <2>2, <3>4
      <4> QED
        BY <2>7, <4>1, StepAt
    <3> QED
      BY <2>10, <3>5, <3>6
  <2>14. Removed(text)[n] = Uncommented(TRUE, more)
    BY <2>9, <2>10 DEF Inside
  <2>15. Removed(text)[k] = Uncommented(TRUE, Append(more, e))
    BY <2>12, <2>13, <2>14, InsideStep
  <2>16. Append(more, e) = Concat(fresh, w)
    <3>1. Append(more, e) = Concat(more, <<e>>)
      BY <2>8, TextOne
    <3> QED
      BY <2>3, <2>6, <2>8, <3>1, TextConcat
  <2>17. k = i + Len(w)
    BY <2>3, <2>10, <2>11
  <2> QED
    BY <2>15, <2>16, <2>17 DEF Inside
<1>3. Text \subseteq P
  <2> HIDE DEF P
  <2> QED
    BY <1>1, <1>2, TextInduction
<1> QED
  BY <1>3

\* A string is left as it is, if its own quotes cannot end it and the closing
\* one does.
LEMMA ReducesQuoted ==
    ASSUME NEW w \in Text, QuotesEscaped(w), ~EndsInBackslash(w)
    PROVE  Reduces(Quoted(w), Quoted(w))
<1>1. PICK q \in Text : q = <<Quote>> /\ Len(q) = 1 /\ q[1] = Quote /\ 1 \in 1 .. Len(q)
  <2>1. Quote \in Characters
    BY CharactersAre
  <2>2. <<Quote>> \in Text /\ Len(<<Quote>>) = 1 /\ <<Quote>>[1] = Quote /\ 1 \in 1 .. 1
    BY <2>1, TextOne
  <2> QED
    BY <2>2
<1>2. Quoted(w) = Concat(Concat(q, w), q)
  BY <1>1, Zenon DEF Quoted, Concat
<1>3. PICK b \in Text : b = Concat(q, w)
  BY <1>1, TextConcat
<1>4. PICK m \in Nat : m = Len(w)
  BY TextConcat
<1>5. Len(b) = m + 1 /\ Len(Concat(b, q)) = m + 2
  <2>1. Len(b) = Len(q) + Len(w)
    BY <1>1, <1>3, TextConcat
  <2>2. Len(Concat(b, q)) = Len(b) + Len(q)
    BY <1>1, <1>3, TextConcat
  <2> QED
    BY <1>1, <1>4, <2>1, <2>2
<1>6. Quote # Backslash
  BY DEF Quote, Backslash
<1>7. ASSUME NEW text \in Text, NEW i \in Nat, NEW fresh \in Text,
             At(text, i, Concat(b, q)), Outside(text, i, fresh)
      PROVE  Outside(text, i + Len(Concat(b, q)), Concat(fresh, Concat(b, q)))
  <2>1. PICK n \in Nat : n = i + 1 /\ i + 1 - 1 = i /\ n - 1 = i
    OBVIOUS
  <2>2. PICK l \in Nat : l = n + m /\ i + (m + 1) = l
    BY <2>1
  <2>3. PICK k \in Nat : k = l + 1 /\ l + 1 - 1 = l /\ k - 1 = l /\ k = i + (m + 2)
    BY <2>1, <2>2
  <2>4. At(text, i, b) /\ At(text, l, q)
    <3>1. At(text, i, b) /\ At(text, i + Len(b), q)
      BY <1>7, AtConcat
    <3> QED
      BY <1>5, <2>2, <3>1
  <2>5. At(text, i, q) /\ At(text, n, w)
    BY <1>1, <1>3, <2>1, <2>4, AtConcat
  <2>6. text[n] = Quote /\ CharAt(text, n) = Quote
        /\ Removed(text)[n] = Removal(text, Removed(text)[i], n)
    BY <1>1, <2>1, <2>5, StepAt
  <2>7. text[k] = Quote /\ CharAt(text, k) = Quote
        /\ Removed(text)[k] = Removal(text, Removed(text)[l], k)
    BY <1>1, <2>3, <2>4, StepAt
  <2>8. PICK opened \in Text : opened = Append(fresh, Quote) /\ opened = Concat(fresh, q)
    BY <1>1, TextOne, TextAppend, CharactersAre
  <2>9. Inside(text, n, opened)
    <3>1. Removed(text)[i] = Uncommented(FALSE, fresh) /\ CharAt(text, n - 1) # Backslash
      BY <1>7, <2>1 DEF Outside
    <3>2. Removed(text)[n] = Uncommented(TRUE, Append(fresh, text[n]))
      BY <2>6, <3>1, OpenStep
    <3> QED
      BY <2>6, <2>8, <3>2 DEF Inside
  <2>10. PICK more \in Text : more = Concat(opened, w)
    BY TextConcat
  <2>11. Inside(text, l, more)
    BY <1>4, <2>2, <2>5, <2>9, <2>10, InsideKeeps DEF LeftInside
  <2>12. CharAt(text, l) # Backslash
    <3>1. CASE m = 0
      BY <1>6, <2>2, <2>6, <3>1
    <3>2. CASE m # 0
      <4>1. m \in 1 .. Len(w) /\ w # <<>>
        BY <1>4, <3>2, EmptySeq
      <4>2. w[m] # Backslash
        BY <1>4, <4>1 DEF EndsInBackslash, Last
      <4>3. CharAt(text, n + m) = w[m]
        BY <2>5, <4>1, StepAt
      <4> QED
        BY <2>2, <4>2, <4>3
    <3> QED
      BY <3>1, <3>2
  <2>13. Removed(text)[k] = Uncommented(FALSE, Append(more, Quote))
    <3>1. Removed(text)[l] = Uncommented(TRUE, more) /\ CharAt(text, k - 1) # Backslash
      BY <2>3, <2>11, <2>12 DEF Inside
    <3>2. Removed(text)[k] = Uncommented(FALSE, Append(more, text[k]))
      BY <2>7, <3>1, CloseStep
    <3> QED
      BY <2>7, <3>2
  <2>14. Append(more, Quote) = Concat(fresh, Concat(b, q))
    <3>1. Append(more, Quote) = Concat(more, q)
      BY <1>1, TextOne, CharactersAre
    <3>2. more = Concat(fresh, b)
      BY <1>1, <1>3, <2>8, <2>10, TextConcat
    <3> QED
      BY <1>1, <3>1, <3>2, TextConcat
  <2> QED
    BY <1>5, <1>6, <2>3, <2>7, <2>13, <2>14 DEF Outside
<1>8. Concat(b, q) \in Text
  BY <1>1, TextConcat
<1>9. Reduces(Concat(b, q), Concat(b, q))
  BY <1>7, <1>8 DEF Reduces
<1> QED
  BY <1>2, <1>3, <1>9

\* What a character is escaped to.
Piece(c) == IF c \in DOMAIN Escaped THEN <<Backslash, Escaped[c]>> ELSE <<c>>
Pieces(str) == [k \in DOMAIN str |-> Piece(str[k])]

\* A quote has a backslash before it, and only a backslash ends in one.
LEMMA PieceIs ==
    ASSUME NEW c \in Characters
    PROVE  /\ Piece(c) \in Text /\ Len(Piece(c)) > 0 /\ QuotesEscaped(Piece(c))
           /\ Piece(c)[Len(Piece(c))] = Backslash => c = Backslash
<1>1. CASE c \in DOMAIN Escaped
  <2>1. c \in {Backslash, Quote, "\n", "\t", Backspace, "\f", "\r"}
    BY <1>1 DEF Escaped
  <2>2. PICK e : e = Escaped[c]
    OBVIOUS
  <2>3. e = CASE c \in {Backslash, Quote} -> c
              [] c = "\n" -> "n" [] c = "\t" -> "t" [] c = Backspace -> "b"
              [] c = "\f" -> "f" [] c = "\r" -> "r"
    BY <2>1, <2>2 DEF Escaped
  <2>4. /\ c \in {Backslash, Quote} => e = c
        /\ c \notin {Backslash, Quote} => e \in {"n", "t", "b", "f", "r"}
    BY <2>1, <2>3 DEF Backslash, Quote, Backspace
  <2>5. e \in Characters /\ (e = Backslash => c = Backslash)
    BY <2>4, CharactersAssumption DEF Backslash
  <2>6. PICK p : p = <<Backslash, e>>
    OBVIOUS
  <2>7. p \in Text /\ Len(p) = 2 /\ p[1] = Backslash /\ p[2] = e
    BY <2>5, <2>6, CharactersAre DEF Text
  <2>8. QuotesEscaped(p)
    <3>1. Backslash # Quote
      BY DEF Backslash, Quote
    <3> QED
      BY <2>7, <3>1 DEF QuotesEscaped
  <2>9. p[Len(p)] = Backslash => c = Backslash
    BY <2>5, <2>7
  <2>10. Piece(c) = p
    BY <1>1, <2>2, <2>6 DEF Piece
  <2>11. p \in Text /\ Len(p) > 0 /\ QuotesEscaped(p) /\ (p[Len(p)] = Backslash => c = Backslash)
    BY <2>7, <2>8, <2>9
  <2> QED
    BY <2>10, <2>11, Zenon
<1>2. CASE c \notin DOMAIN Escaped
  <2>1. Piece(c) = <<c>> /\ c # Quote
    BY <1>2 DEF Piece, Escaped
  <2>2. PICK p \in Text : p = <<c>> /\ Len(p) = 1 /\ p[1] = c
    BY TextOne
  <2>3. QuotesEscaped(p)
    BY <2>1, <2>2 DEF QuotesEscaped
  <2> QED
    BY <2>1, <2>2, <2>3
<1> QED
  BY <1>1, <1>2

\* The pieces of a text, with one more character.
LEMMA PiecesAppend ==
    ASSUME NEW r \in Text, NEW c \in Characters
    PROVE  /\ Pieces(r) \in Seq(Text)
           /\ Pieces(Append(r, c)) = Append(Pieces(r), Piece(c))
<1>1. PICK m \in Nat : m = Len(r) /\ DOMAIN r = 1 .. m
  BY LenProperties DEF Text
<1>2. \A k \in 1 .. m : r[k] \in Characters
  BY <1>1, ElementOfSeq DEF Text
<1>3. PICK s : s = Append(r, c)
  OBVIOUS
<1>4. /\ s \in Text /\ Len(s) = m + 1 /\ DOMAIN s = 1 .. m + 1 /\ s[m + 1] = c
      /\ \A k \in 1 .. m : s[k] = r[k]
  <2>1. s \in Text /\ Len(s) = m + 1 /\ s[m + 1] = c /\ \A k \in 1 .. m : s[k] = r[k]
    BY <1>1, <1>3, TextAppended
  <2> QED
    BY <2>1, LenProperties DEF Text
<1>5. PICK p : p = Pieces(r)
  OBVIOUS
<1>6. p = [k \in 1 .. m |-> Piece(r[k])]
  BY <1>1, <1>5 DEF Pieces
<1>7. p \in [1 .. m -> Text]
  BY <1>2, <1>6, PieceIs
<1>8. p \in Seq(Text) /\ Len(p) = m
  BY <1>7
<1>9. PICK q : q = Pieces(s)
  OBVIOUS
<1>10. q = [k \in 1 .. m + 1 |-> Piece(s[k])]
  BY <1>4, <1>9 DEF Pieces
<1>11. PICK e \in Text : e = Piece(c)
  BY PieceIs
<1>12. PICK a : a = Append(p, e)
  OBVIOUS
<1>13. /\ a \in Seq(Text) /\ Len(a) = m + 1 /\ a[m + 1] = e
       /\ \A k \in 1 .. m : a[k] = p[k]
  BY <1>8, <1>11, <1>12, AppendProperties
<1>14. q \in Seq(Text) /\ Len(q) = m + 1
  <2>1. \A k \in 1 .. m + 1 : s[k] \in Characters
    BY <1>2, <1>4
  <2>2. q \in [1 .. m + 1 -> Text]
    BY <1>10, <2>1, PieceIs
  <2> QED
    BY <2>2
<1>15. \A k \in 1 .. m + 1 : q[k] = a[k]
  BY <1>4, <1>6, <1>10, <1>11, <1>13
<1>16. q = a
  BY <1>13, <1>14, <1>15, SeqEqual
<1> QED
  BY <1>3, <1>5, <1>8, <1>9, <1>11, <1>12, <1>16

\* One more character is escaped after the others.
LEMMA EscapeAppend ==
    /\ EscapeString(<<>>) = <<>>
    /\ \A r \in Text, c \in Characters :
          EscapeString(Append(r, c)) = Concat(EscapeString(r), Piece(c))
<1>1. \A s : EscapeString(s) = FlattenSeq(Pieces(s))
  BY Zenon DEF EscapeString, Pieces, Piece
<1>2. EscapeString(<<>>) = <<>>
  <2>1. Pieces(<<>>) = <<>>
    BY DEF Pieces
  <2> QED
    BY <1>1, <2>1, FlattenEmpty
<1>3. ASSUME NEW r \in Text, NEW c \in Characters
      PROVE  EscapeString(Append(r, c)) = Concat(EscapeString(r), Piece(c))
  <2>1. PICK p \in Seq(Text) : p = Pieces(r) /\ Pieces(Append(r, c)) = Append(p, Piece(c))
    BY PiecesAppend
  <2>2. PICK e \in Text : e = Piece(c)
    BY PieceIs
  <2>3. FlattenSeq(Append(p, e)) = FlattenSeq(p) \o e
    BY FlattenAppend DEF Text
  <2>4. EscapeString(r) = FlattenSeq(p) /\ EscapeString(Append(r, c)) = FlattenSeq(Append(p, e))
    BY <1>1, <2>1, <2>2
  <2> QED
    BY <2>2, <2>3, <2>4, Zenon DEF Concat
<1> QED
  BY <1>2, <1>3

\* Two texts in a row: their quotes, and their end.
LEMMA QuotesConcat ==
    ASSUME NEW a \in Text, NEW b \in Text
    PROVE  /\ QuotesEscaped(a) /\ QuotesEscaped(b) => QuotesEscaped(Concat(a, b))
           /\ Len(b) > 0 => Concat(a, b)[Len(Concat(a, b))] = b[Len(b)]
<1>1. PICK c : c = Concat(a, b)
  OBVIOUS
<1>2. PICK m, n \in Nat : m = Len(a) /\ n = Len(b) /\ Len(c) = m + n
  BY <1>1, TextConcat
<1>3. \A k \in 1 .. m + n : c[k] = IF k <= m THEN a[k] ELSE b[k - m]
  BY <1>1, <1>2, ConcatProperties, Zenon DEF Concat, Text
<1>4. ASSUME QuotesEscaped(a), QuotesEscaped(b), NEW k \in 1 .. m + n, c[k] = Quote
      PROVE  k > 1 /\ c[k - 1] = Backslash
  <2>1. CASE k <= m
    <3>1. k \in 1 .. m /\ a[k] = Quote
      BY <1>3, <1>4, <2>1
    <3>2. k > 1 /\ a[k - 1] = Backslash
      BY <1>2, <1>4, <3>1 DEF QuotesEscaped
    <3>3. k - 1 \in 1 .. m + n /\ k - 1 <= m
      BY <3>1, <3>2
    <3> QED
      BY <1>3, <3>2, <3>3
  <2>2. CASE ~(k <= m)
    <3>1. PICK l \in 1 .. n : l = k - m
      BY <2>2
    <3>2. b[l] = Quote
      BY <1>3, <1>4, <2>2, <3>1
    <3>3. l > 1 /\ b[l - 1] = Backslash
      BY <1>2, <1>4, <3>2 DEF QuotesEscaped
    <3>4. k - 1 \in 1 .. m + n /\ ~(k - 1 <= m) /\ (k - 1) - m = l - 1 /\ k > 1
      BY <3>1, <3>3
    <3> QED
      BY <1>3, <3>3, <3>4
  <2> QED
    BY <2>1, <2>2
<1>5. ASSUME n > 0 PROVE c[m + n] = b[n]
  <2>1. m + n \in 1 .. m + n /\ ~(m + n <= m) /\ (m + n) - m = n
    BY <1>5
  <2> QED
    BY <1>3, <2>1
<1> QED
  BY <1>1, <1>2, <1>4, <1>5 DEF QuotesEscaped

\* The last character of a text.
LEMMA EndIs ==
    ASSUME NEW w \in Text
    PROVE  EndsInBackslash(w) <=> Len(w) > 0 /\ w[Len(w)] = Backslash
<1>1. w # <<>> <=> Len(w) > 0
  BY EmptySeq DEF Text
<1> QED
  BY <1>1 DEF EndsInBackslash, Last

\* No quote of an escaped text can end a string, and it ends in a backslash only
\* if the text does.
LEMMA EscapedIs ==
    \A str \in Text :
        /\ EscapeString(str) \in Text /\ QuotesEscaped(EscapeString(str))
        /\ EndsInBackslash(EscapeString(str)) => EndsInBackslash(str)
<1> DEFINE P == {str \in Text :
                    /\ EscapeString(str) \in Text /\ QuotesEscaped(EscapeString(str))
                    /\ EndsInBackslash(EscapeString(str)) => EndsInBackslash(str)}
<1>1. <<>> \in P
  <2>1. <<>> \in Text /\ Len(<<>>) = 0
    BY TextAppend, EmptySeq
  <2>2. QuotesEscaped(<<>>)
    BY <2>1 DEF QuotesEscaped
  <2> QED
    BY <2>1, <2>2, EscapeAppend
<1>2. ASSUME NEW r \in Text, NEW c \in Characters, r \in P PROVE Append(r, c) \in P
  <2>1. PICK a \in Text : a = EscapeString(r) /\ QuotesEscaped(a)
    BY <1>2
  <2>2. PICK p \in Text : /\ p = Piece(c) /\ Len(p) > 0 /\ QuotesEscaped(p)
                          /\ p[Len(p)] = Backslash => c = Backslash
    BY PieceIs
  <2>3. PICK s \in Text : s = Append(r, c) /\ Len(s) = Len(r) + 1 /\ s[Len(r) + 1] = c
    BY TextAppended
  <2>4. PICK e \in Text : e = EscapeString(s) /\ e = Concat(a, p)
    <3>1. EscapeString(s) = Concat(a, p)
      BY <2>1, <2>2, <2>3, EscapeAppend
    <3> QED
      BY <3>1, TextConcat
  <2>5. QuotesEscaped(e)
    BY <2>1, <2>2, <2>4, QuotesConcat
  <2>6. ASSUME EndsInBackslash(e) PROVE EndsInBackslash(s)
    <3>1. e[Len(e)] = Backslash
      BY <2>6, EndIs
    <3>2. e[Len(e)] = p[Len(p)]
      BY <2>2, <2>4, QuotesConcat
    <3>3. c = Backslash
      BY <2>2, <3>1, <3>2
    <3>4. Len(s) > 0 /\ s[Len(s)] = Backslash
      BY <2>3, <3>3, TextConcat
    <3> QED
      BY <3>4, EndIs
  <2> QED
    BY <2>3, <2>4, <2>5, <2>6
<1>3. Text \subseteq P
  <2> HIDE DEF P
  <2> QED
    BY <1>1, <1>2, TextInduction
<1> QED
  BY <1>3


-----------------------------------------------------------------------------
(* What is left of the texts that the Writer puts together.                   *)

\* Of two sequences of texts, the one is what is left of the other.
AllReduce(s, t) ==
    /\ s \in Seq(Text) /\ t \in Seq(Text) /\ Len(s) = Len(t)
    /\ \A k \in 1 .. Len(s) : Reduces(s[k], t[k])

LEMMA FlattenReduces == \A s, t : AllReduce(s, t) => Reduces(FlattenSeq(s), FlattenSeq(t))
<1> DEFINE P == {s \in Seq(Text) : \A t : AllReduce(s, t) => Reduces(FlattenSeq(s), FlattenSeq(t))}
<1>1. <<>> \in P
  <2>1. <<>> \in Seq(Text) /\ Len(<<>>) = 0
    BY EmptySeq
  <2>2. ASSUME NEW t, AllReduce(<<>>, t) PROVE t = <<>>
    BY <2>1, <2>2, EmptySeq DEF AllReduce
  <2>3. Reduces(FlattenSeq(<<>>), FlattenSeq(<<>>))
    BY FlattenEmpty, ReducesNone
  <2> QED
    BY <2>1, <2>2, <2>3
<1>2. ASSUME NEW r \in Seq(Text), NEW e \in Text, r \in P PROVE Append(r, e) \in P
  <2>1. PICK n \in Nat : n = Len(r)
    BY LenProperties
  <2>2. PICK s \in Seq(Text) : /\ s = Append(r, e) /\ Len(s) = n + 1 /\ s[n + 1] = e
                               /\ \A k \in 1 .. n : s[k] = r[k]
    <3>1. /\ Append(r, e) \in Seq(Text) /\ Len(Append(r, e)) = n + 1 /\ Append(r, e)[n + 1] = e
          /\ \A k \in 1 .. n : Append(r, e)[k] = r[k]
      BY <2>1, AppendProperties
    <3> QED
      BY <3>1
  <2>3. SUFFICES ASSUME NEW t, AllReduce(s, t) PROVE Reduces(FlattenSeq(s), FlattenSeq(t))
    BY <2>2
  <2>4. t \in Seq(Text) /\ Len(t) = n + 1 /\ \A k \in 1 .. n + 1 : Reduces(s[k], t[k])
    BY <2>2, <2>3 DEF AllReduce
  <2>5. t # <<>>
    BY <2>4, EmptySeq
  <2>6. PICK u \in Seq(Text), f \in Text : t = Append(u, f)
    BY <2>4, <2>5, SequenceEmptyOrAppend
  <2>7. /\ Len(u) = n /\ t[n + 1] = f
        /\ \A k \in 1 .. n : t[k] = u[k]
    <3>1. Len(u) \in Nat /\ Len(t) = Len(u) + 1
      BY <2>6, AppendProperties
    <3>2. Len(u) = n
      BY <2>4, <3>1
    <3> QED
      BY <2>6, <3>2, AppendProperties
  <2>8. AllReduce(r, u)
    BY <2>1, <2>2, <2>4, <2>6, <2>7 DEF AllReduce
  <2>9. Reduces(FlattenSeq(r), FlattenSeq(u))
    BY <1>2, <2>8
  <2>10. Reduces(e, f)
    BY <2>2, <2>4, <2>7
  <2>11. Reduces(Concat(FlattenSeq(r), e), Concat(FlattenSeq(u), f))
    BY <2>9, <2>10, ReducesConcat
  <2>12. FlattenSeq(s) = FlattenSeq(r) \o e /\ FlattenSeq(t) = FlattenSeq(u) \o f
    BY <2>2, <2>6, FlattenAppend DEF Text
  <2>13. FlattenSeq(s) = Concat(FlattenSeq(r), e) /\ FlattenSeq(t) = Concat(FlattenSeq(u), f)
    BY <2>12, Zenon DEF Concat
  <2> QED
    BY <2>11, <2>13
<1>3. Seq(Text) \subseteq P
  <2> HIDE DEF P
  <2> QED
    BY <1>1, <1>2, SequenceInduction
<1> QED
  BY <1>3 DEF AllReduce

\* Of blanks, nothing is left.
LEMMA BlanksReduce == \A w \in Seq(Blanks) : Reduces(w, <<>>)
<1> DEFINE P == {w \in Seq(Blanks) : Reduces(w, <<>>)}
<1>1. <<>> \in P
  BY EmptySeq, ReducesNone
<1>2. ASSUME NEW r \in Seq(Blanks), NEW c \in Blanks, r \in P PROVE Append(r, c) \in P
  <2>1. c \in Characters /\ c \notin {"/", "*", Quote, Backslash}
    BY CharactersAre DEF Blanks, Quote, Backslash
  <2>2. Reduces(<<c>>, IF c \in Blanks THEN <<>> ELSE <<c>>)
    BY <2>1, ReducesOne
  <2>3. Reduces(<<c>>, <<>>)
    BY <2>2
  <2>4. r \in Text
    BY <1>2 DEF Reduces
  <2>5. Concat(r, <<c>>) = Append(r, c)
    BY <2>1, <2>4, TextOne
  <2>6. Concat(<<>>, <<>>) = <<>>
    BY TextConcat, TextAppend
  <2>7. Reduces(Concat(r, <<c>>), Concat(<<>>, <<>>))
    BY <1>2, <2>3, ReducesConcat
  <2>8. Append(r, c) \in Seq(Blanks)
    BY AppendProperties
  <2> QED
    BY <2>5, <2>6, <2>7, <2>8
<1>3. Seq(Blanks) \subseteq P
  <2> HIDE DEF P
  <2> QED
    BY <1>1, <1>2, SequenceInduction
<1> QED
  BY <1>3

\* What stands outside of strings and is no blank.
Plain == Numerals \cup Words \cup Structural

LEMMA PlainReduces == \A w \in Seq(Plain) : Reduces(w, w)
<1> DEFINE P == {w \in Seq(Plain) : Reduces(w, w)}
<1>1. <<>> \in P
  BY EmptySeq, ReducesNone
<1>2. ASSUME NEW r \in Seq(Plain), NEW c \in Plain, r \in P PROVE Append(r, c) \in P
  <2>1. c \in Characters /\ c \notin {"/", "*", Quote, Backslash} /\ c \notin Blanks
    BY CharactersAre DEF Plain, Numerals, Words, Structural, Blanks, Quote, Backslash
  <2>2. Reduces(<<c>>, IF c \in Blanks THEN <<>> ELSE <<c>>)
    BY <2>1, ReducesOne
  <2>3. Reduces(<<c>>, <<c>>)
    BY <2>1, <2>2
  <2>4. r \in Text
    BY <1>2 DEF Reduces
  <2>5. Concat(r, <<c>>) = Append(r, c)
    BY <2>1, <2>4, TextOne
  <2>6. Reduces(Concat(r, <<c>>), Concat(r, <<c>>))
    BY <1>2, <2>3, ReducesConcat
  <2>7. Append(r, c) \in Seq(Plain)
    BY AppendProperties
  <2> QED
    BY <2>5, <2>6, <2>7
<1>3. Seq(Plain) \subseteq P
  <2> HIDE DEF P
  <2> QED
    BY <1>1, <1>2, SequenceInduction
<1> QED
  BY <1>3

\* A character that stands outside of strings, alone.
LEMMA PlainOne == \A c \in Plain : Reduces(<<c>>, <<c>>)
<1>1. \A c \in Plain : <<c>> \in Seq(Plain)
  BY SeqOne
<1> QED
  BY <1>1, PlainReduces

\* All white space that a format adds is removed.
LEMMA FormatReduces ==
    ASSUME NEW format \in Formats
    PROVE  /\ Reduces(Spacing(format), Spacing(NoFormat))
           /\ Reduces(NewLine(format), NewLine(NoFormat))
           /\ \A level \in Nat : Reduces(Indentation(format, level), Indentation(NoFormat, level))
<1>1. <<>> \in Seq(Blanks)
  BY EmptySeq
<1>2. <<" ">> \in Seq(Blanks) /\ <<"\n">> \in Seq(Blanks)
  <2>1. " " \in Blanks /\ "\n" \in Blanks
    BY DEF Blanks
  <2> QED
    BY <2>1, SeqOne
<1>3. Spacing(NoFormat) = <<>> /\ NewLine(NoFormat) = <<>>
  BY DEF Spacing, NewLine, NoFormat
<1>4. Spacing(format) \in Seq(Blanks)
  BY <1>1, <1>2 DEF Spacing
<1>5. NewLine(format) \in Seq(Blanks)
  BY <1>2, <1>4 DEF NewLine
<1>6. ASSUME NEW level \in Nat
      PROVE  /\ Indentation(format, level) \in Seq(Blanks)
             /\ Indentation(NoFormat, level) = <<>>
  <2>1. PICK n \in Nat : n = IF format.newline THEN format.indentSize * level ELSE 0
    <3>1. format.indentSize \in Nat
      BY DEF Formats
    <3>2. format.indentSize * level \in Nat
      BY <3>1
    <3> QED
      BY <3>2
  <2>2. PICK c \in Blanks : c = IF format.useTabs THEN "\t" ELSE " "
    BY DEF Blanks
  <2>3. Indentation(format, level) = [k \in 1 .. n |-> c]
    BY <2>1, <2>2, Zenon DEF Indentation
  <2>4. [k \in 1 .. n |-> c] \in [1 .. n -> Blanks]
    OBVIOUS
  <2>5. [k \in 1 .. n |-> c] \in Seq(Blanks)
    BY <2>4
  <2>6. Indentation(NoFormat, level) = [k \in 1 .. 0 |-> IF NoFormat.useTabs THEN "\t" ELSE " "]
    BY DEF Indentation, NoFormat
  <2>7. [k \in 1 .. 0 |-> IF NoFormat.useTabs THEN "\t" ELSE " "] = <<>>
    OBVIOUS
  <2> QED
    BY <2>3, <2>5, <2>6, <2>7, Zenon
<1> QED
  BY <1>3, <1>4, <1>5, <1>6, BlanksReduce

\* A value that is clean is left as it is written.
LEMMA ValueReduces ==
    ASSUME NEW node \in Scalars, CleanValue(node.valueType, node.valueStr)
    PROVE  Reduces(WriteValue(node), WriteValue(node))
<1>1. PICK type \in {"string", "number", "bool", "null"}, str \in Text :
         type = node.valueType /\ str = node.valueStr
  BY DEF Scalars
<1>2. CASE type = "string"
  <2>1. ~EndsInBackslash(str)
    BY <1>1, <1>2 DEF CleanValue
  <2>2. PICK w \in Text : w = EscapeString(str) /\ QuotesEscaped(w) /\ ~EndsInBackslash(w)
    BY <2>1, EscapedIs
  <2>3. WriteValue(node) = Quoted(w)
    BY <1>1, <1>2, <2>2, Zenon DEF WriteValue
  <2> QED
    BY <2>2, <2>3, ReducesQuoted
<1>3. CASE type = "number"
  <2>1. ToSet(str) \subseteq Numerals
    BY <1>1, <1>3 DEF CleanValue
  <2>2. str \in Seq(Plain)
    <3>1. PICK n \in Nat : n = Len(str) /\ DOMAIN str = 1 .. n /\ str \in [1 .. n -> Characters]
      BY LenProperties DEF Text
    <3>2. \A k \in 1 .. n : str[k] \in Plain
      BY <2>1, <3>1 DEF ToSet, Plain
    <3>3. str \in [1 .. n -> Plain]
      BY <3>1, <3>2
    <3> QED
      BY <3>3
  <2>3. WriteValue(node) = str
    BY <1>1, <1>3 DEF WriteValue
  <2> QED
    BY <2>2, <2>3, PlainReduces
<1>4. CASE type = "bool"
  <2>1. str \in {<<"true">>, <<"false">>}
    BY <1>1, <1>4 DEF CleanValue
  <2>2. "true" \in Plain /\ "false" \in Plain
    BY DEF Plain, Words
  <2>3. Reduces(str, str)
    BY <2>1, <2>2, PlainOne
  <2>4. WriteValue(node) = str
    BY <1>1, <1>4 DEF WriteValue
  <2> QED
    BY <2>3, <2>4
<1>5. CASE type = "null"
  <2>1. WriteValue(node) = <<"null">>
    BY <1>1, <1>5 DEF WriteValue
  <2>2. "null" \in Plain
    BY DEF Plain, Words
  <2> QED
    BY <2>1, <2>2, PlainOne
<1> QED
  BY <1>2, <1>3, <1>4, <1>5

\* What comes before a child.
LEMMA StartReduces ==
    ASSUME NEW format \in Formats, NEW level \in Nat
    PROVE  \A k : Reduces(Start(format, level, k), Start(NoFormat, level, k))
<1>1. SUFFICES ASSUME NEW k PROVE Reduces(Start(format, level, k), Start(NoFormat, level, k))
  OBVIOUS
<1>2. level + 1 \in Nat
  OBVIOUS
<1>3. /\ Reduces(NewLine(format), NewLine(NoFormat))
      /\ Reduces(Indentation(format, level + 1), Indentation(NoFormat, level + 1))
  BY <1>2, FormatReduces
<1>4. Reduces(<<",">>, <<",">>)
  <2>1. "," \in Plain
    BY DEF Plain, Structural
  <2> QED
    BY <2>1, PlainOne
<1>5. \A f : Start(f, level, k) =
        Concat(IF k = 1 THEN <<>> ELSE Concat(<<",">>, NewLine(f)), Indentation(f, level + 1))
  BY Zenon DEF Start, Concat
<1>6. Reduces(Concat(<<",">>, NewLine(format)), Concat(<<",">>, NewLine(NoFormat)))
  BY <1>3, <1>4, ReducesConcat
<1>7. CASE k = 1
  <2>1. Reduces(Concat(<<>>, Indentation(format, level + 1)),
                Concat(<<>>, Indentation(NoFormat, level + 1)))
    BY <1>3, ReducesNone, ReducesConcat
  <2>2. \A f : Start(f, level, k) = Concat(<<>>, Indentation(f, level + 1))
    BY <1>5, <1>7, Zenon
  <2>3. /\ Start(format, level, k) = Concat(<<>>, Indentation(format, level + 1))
        /\ Start(NoFormat, level, k) = Concat(<<>>, Indentation(NoFormat, level + 1))
    BY <2>2, Zenon
  <2> QED
    BY <2>1, <2>3
<1>8. CASE k # 1
  <2>1. Reduces(Concat(Concat(<<",">>, NewLine(format)), Indentation(format, level + 1)),
                Concat(Concat(<<",">>, NewLine(NoFormat)), Indentation(NoFormat, level + 1)))
    BY <1>3, <1>6, ReducesConcat
  <2>2. \A f : Start(f, level, k)
                = Concat(Concat(<<",">>, NewLine(f)), Indentation(f, level + 1))
    BY <1>5, <1>8, Zenon
  <2>3. /\ Start(format, level, k)
              = Concat(Concat(<<",">>, NewLine(format)), Indentation(format, level + 1))
        /\ Start(NoFormat, level, k)
              = Concat(Concat(<<",">>, NewLine(NoFormat)), Indentation(NoFormat, level + 1))
    BY <2>2, Zenon
  <2> QED
    BY <2>1, <2>3
<1> QED
  BY <1>7, <1>8

\* A child of an object, with its name.
LEMMA MemberReduces ==
    ASSUME NEW format \in Formats, NEW child, child.name \in Text, PlainName(child.name),
           NEW w, NEW v, Reduces(w, v)
    PROVE  Reduces(Member(format, child, w), Member(NoFormat, child, v))
<1>1. PICK nm \in Text : nm = child.name
  OBVIOUS
<1>2. QuotesEscaped(nm) /\ ~EndsInBackslash(nm)
  <2>1. PlainName(nm)
    BY <1>1
  <2>2. DOMAIN nm = 1 .. Len(nm)
    BY LenProperties DEF Text
  <2> QED
    BY <2>1, <2>2 DEF PlainName, QuotesEscaped
<1>3. Reduces(Quoted(nm), Quoted(nm))
  BY <1>2, ReducesQuoted
<1>4. Reduces(<<":">>, <<":">>)
  <2>1. ":" \in Plain
    BY DEF Plain, Structural
  <2> QED
    BY <2>1, PlainOne
<1>5. Reduces(Spacing(format), Spacing(NoFormat))
  BY FormatReduces
<1>6. \A f, t : Member(f, child, t) = Concat(Concat(Concat(Quoted(nm), <<":">>), Spacing(f)), t)
  BY <1>1, Zenon DEF Member, Concat
<1>7. Reduces(Concat(Quoted(nm), <<":">>), Concat(Quoted(nm), <<":">>))
  BY <1>3, <1>4, ReducesConcat
<1>8. Reduces(Concat(Concat(Quoted(nm), <<":">>), Spacing(format)),
              Concat(Concat(Quoted(nm), <<":">>), Spacing(NoFormat)))
  BY <1>5, <1>7, ReducesConcat
<1>9. Reduces(Concat(Concat(Concat(Quoted(nm), <<":">>), Spacing(format)), w),
              Concat(Concat(Concat(Quoted(nm), <<":">>), Spacing(NoFormat)), v))
  BY <1>8, ReducesConcat
<1> QED
  BY <1>6, <1>9, Zenon

\* The braces or brackets around the children.
LEMMA BetweenReduces ==
    ASSUME NEW format \in Formats, NEW level \in Nat, NEW open \in Plain, NEW close \in Plain,
           NEW w, NEW v, Reduces(w, v)
    PROVE  Reduces(Between(format, level, open, w, close), Between(NoFormat, level, open, v, close))
<1>1. Reduces(<<open>>, <<open>>) /\ Reduces(<<close>>, <<close>>)
  BY PlainOne
<1>2. /\ Reduces(NewLine(format), NewLine(NoFormat))
      /\ Reduces(Indentation(format, level), Indentation(NoFormat, level))
  BY FormatReduces
<1>3. \A f, t : Between(f, level, open, t, close) =
         Concat(Concat(Concat(Concat(Concat(<<open>>, NewLine(f)), t), NewLine(f)),
                       Indentation(f, level)), <<close>>)
  BY Zenon DEF Between, Concat
<1>4. PICK a, b : a = Concat(<<open>>, NewLine(format)) /\ b = Concat(<<open>>, NewLine(NoFormat))
                  /\ Reduces(a, b)
  BY <1>1, <1>2, ReducesConcat
<1>5. PICK c, d : c = Concat(a, w) /\ d = Concat(b, v) /\ Reduces(c, d)
  BY <1>4, ReducesConcat
<1>6. PICK e, g : e = Concat(c, NewLine(format)) /\ g = Concat(d, NewLine(NoFormat)) /\ Reduces(e, g)
  BY <1>2, <1>5, ReducesConcat
<1>7. PICK h, i : /\ h = Concat(e, Indentation(format, level))
                  /\ i = Concat(g, Indentation(NoFormat, level)) /\ Reduces(h, i)
  BY <1>2, <1>6, ReducesConcat
<1>8. Reduces(Concat(h, <<close>>), Concat(i, <<close>>))
  BY <1>1, <1>7, ReducesConcat
<1> QED
  BY <1>3, <1>4, <1>5, <1>6, <1>7, <1>8, Zenon

\* Texts made for each child, that reduce one by one.
LEMMA TextsReduce ==
    ASSUME NEW n \in Nat, NEW s, NEW t, s = [k \in 1 .. n |-> s[k]], t = [k \in 1 .. n |-> t[k]],
           \A k \in 1 .. n : Reduces(s[k], t[k])
    PROVE  Reduces(FlattenSeq(s), FlattenSeq(t))
<1>1. \A k \in 1 .. n : s[k] \in Text /\ t[k] \in Text
  BY DEF Reduces
<1>2. s \in [1 .. n -> Text] /\ t \in [1 .. n -> Text]
  BY <1>1
<1>3. s \in Seq(Text) /\ t \in Seq(Text) /\ Len(s) = n /\ Len(t) = n
  BY <1>2
<1>4. AllReduce(s, t)
  BY <1>3 DEF AllReduce
<1> QED
  BY <1>4, FlattenReduces

\* A node, if what is in it does.
LEMMA NodeReduces ==
    ASSUME NEW inner, NEW clean, NEW f, NEW g, NEW format \in Formats, NEW level \in Nat,
           \A d \in inner : clean[d] => Reduces(f[d], g[d]),
           NEW node \in NodesOf(inner), CleanNode(clean, node)
    PROVE  Reduces(WriteNode(format, level, f, node), WriteNode(NoFormat, level, g, node))
<1>1. CASE IsValue(node)
  <2>1. node \in Scalars /\ ~IsObject(node) /\ ~IsArray(node)
    BY <1>1 DEF NodesOf, IsValue, IsObject, IsArray
  <2>2. CleanValue(node.valueType, node.valueStr)
    BY <1>1, <2>1 DEF CleanNode
  <2>3. /\ WriteNode(format, level, f, node) = WriteValue(node)
        /\ WriteNode(NoFormat, level, g, node) = WriteValue(node)
    BY <1>1, <2>1 DEF WriteNode
  <2> QED
    BY <2>1, <2>2, <2>3, ValueReduces
<1>2. CASE IsObject(node)
  <2>1. ~IsValue(node) /\ ~IsArray(node)
    BY <1>2 DEF IsValue, IsObject, IsArray
  <2>2. PICK children \in Seq([name : Text, node : inner]) : children = node.children
    BY <1>2 DEF NodesOf, IsObject, Scalars
  <2>3. PICK n \in Nat : n = Len(children) /\ DOMAIN children = 1 .. n
    BY LenProperties
  <2>4. \A k \in 1 .. n : children[k].name \in Text /\ children[k].node \in inner
    <3>1. \A k \in 1 .. n : children[k] \in [name : Text, node : inner]
      BY <2>3, ElementOfSeq
    <3> QED
      BY <3>1
  <2>5. \A k \in 1 .. n : PlainName(children[k].name) /\ clean[children[k].node]
    BY <1>2, <2>1, <2>2, <2>3 DEF CleanNode
  <2>6. PICK s : s = [k \in 1 .. n |->
           Concat(Start(format, level, k), Member(format, children[k], f[children[k].node]))]
    OBVIOUS
  <2>7. PICK t : t = [k \in 1 .. n |->
           Concat(Start(NoFormat, level, k), Member(NoFormat, children[k], g[children[k].node]))]
    OBVIOUS
  <2>8. ASSUME NEW k \in 1 .. n PROVE Reduces(s[k], t[k])
    <3>1. PICK child : child = children[k] /\ child.name \in Text /\ PlainName(child.name)
                       /\ Reduces(f[child.node], g[child.node])
      BY <2>4, <2>5
    <3>2. Reduces(Member(format, child, f[child.node]), Member(NoFormat, child, g[child.node]))
      BY <3>1, MemberReduces
    <3>3. Reduces(Start(format, level, k), Start(NoFormat, level, k))
      BY StartReduces, Zenon
    <3>4. Reduces(Concat(Start(format, level, k), Member(format, child, f[child.node])),
                  Concat(Start(NoFormat, level, k), Member(NoFormat, child, g[child.node])))
      BY <3>2, <3>3, ReducesConcat
    <3> QED
      BY <2>6, <2>7, <3>1, <3>4
  <2>9. Reduces(FlattenSeq(s), FlattenSeq(t))
    <3>1. s = [k \in 1 .. n |-> s[k]] /\ t = [k \in 1 .. n |-> t[k]]
      BY <2>6, <2>7
    <3> QED
      BY <2>8, <3>1, TextsReduce
  <2>10. /\ FlattenSeq(s) = Members(format, level, f, children)
         /\ FlattenSeq(t) = Members(NoFormat, level, g, children)
    BY <2>3, <2>6, <2>7, Zenon DEF Members, Concat
  <2>11. Reduces(Between(format, level, "{", FlattenSeq(s), "}"),
                 Between(NoFormat, level, "{", FlattenSeq(t), "}"))
    <3>1. "{" \in Plain /\ "}" \in Plain
      BY DEF Plain, Structural
    <3> QED
      BY <2>9, <3>1, BetweenReduces
  <2>12. \A h, i : WriteNode(h, level, i, node) =
             Between(h, level, "{", Members(h, level, i, children), "}")
    <3>1. \A h, i : WriteNode(h, level, i, node) =
             Between(h, level, "{", Members(h, level, i, node.children), "}")
      BY <1>2, <2>1 DEF WriteNode
    <3> QED
      BY <2>2, <3>1, Zenon
  <2> QED
    BY <2>10, <2>11, <2>12, Zenon
<1>3. CASE IsArray(node)
  <2>1. ~IsValue(node) /\ ~IsObject(node)
    BY <1>3 DEF IsValue, IsObject, IsArray
  <2>2. PICK children \in Seq(inner) : children = node.children
    BY <1>3 DEF NodesOf, IsArray, Scalars
  <2>3. PICK n \in Nat : n = Len(children) /\ DOMAIN children = 1 .. n
    BY LenProperties
  <2>4. \A k \in 1 .. n : children[k] \in inner
    BY <2>3, ElementOfSeq
  <2>5. \A k \in 1 .. n : clean[children[k]]
    BY <1>3, <2>1, <2>2, <2>3 DEF CleanNode
  <2>6. PICK s : s = [k \in 1 .. n |-> Concat(Start(format, level, k), f[children[k]])]
    OBVIOUS
  <2>7. PICK t : t = [k \in 1 .. n |-> Concat(Start(NoFormat, level, k), g[children[k]])]
    OBVIOUS
  <2>8. ASSUME NEW k \in 1 .. n PROVE Reduces(s[k], t[k])
    <3>1. PICK child : child = children[k] /\ Reduces(f[child], g[child])
      BY <2>4, <2>5
    <3>2. Reduces(Start(format, level, k), Start(NoFormat, level, k))
      BY StartReduces, Zenon
    <3>3. Reduces(Concat(Start(format, level, k), f[child]),
                  Concat(Start(NoFormat, level, k), g[child]))
      BY <3>1, <3>2, ReducesConcat
    <3> QED
      BY <2>6, <2>7, <3>1, <3>3
  <2>9. Reduces(FlattenSeq(s), FlattenSeq(t))
    <3>1. s = [k \in 1 .. n |-> s[k]] /\ t = [k \in 1 .. n |-> t[k]]
      BY <2>6, <2>7
    <3> QED
      BY <2>8, <3>1, TextsReduce
  <2>10. /\ FlattenSeq(s) = Elements(format, level, f, children)
         /\ FlattenSeq(t) = Elements(NoFormat, level, g, children)
    BY <2>3, <2>6, <2>7, Zenon DEF Elements, Concat
  <2>11. Reduces(Between(format, level, "[", FlattenSeq(s), "]"),
                 Between(NoFormat, level, "[", FlattenSeq(t), "]"))
    <3>1. "[" \in Plain /\ "]" \in Plain
      BY DEF Plain, Structural
    <3> QED
      BY <2>9, <3>1, BetweenReduces
  <2>12. \A h, i : WriteNode(h, level, i, node) =
             Between(h, level, "[", Elements(h, level, i, children), "]")
    <3>1. \A h, i : WriteNode(h, level, i, node) =
             Between(h, level, "[", Elements(h, level, i, node.children), "]")
      BY <1>3, <2>1 DEF WriteNode
    <3> QED
      BY <2>2, <3>1, Zenon
  <2> QED
    BY <2>10, <2>11, <2>12, Zenon
<1> QED
  BY <1>1, <1>2, <1>3 DEF NodesOf, Scalars, IsValue, IsObject, IsArray

\* The documents of a depth, which of them are clean, and their texts: the
\* functions by depth, each from what it is one less deep.
Deep(what, format, n, before) ==
    CASE what = "documents" -> NodesOf(IF n = 0 THEN {} ELSE before)
      [] what = "clean" ->
            [node \in Documents[n] |-> CleanNode(IF n = 0 THEN <<>> ELSE before, node)]
      [] what = "texts" ->
            [node \in Documents[n] |->
                WriteNode(format, MaxDepth - n, IF n = 0 THEN <<>> ELSE before, node)]

DeepTo(f, what, format, n) == f = [k \in 0 .. n |-> Deep(what, format, k, f[k - 1])]

\* There are such functions, however deep.
LEMMA DeepExists ==
    ASSUME NEW what, NEW format
    PROVE  \A n \in Nat : \E f : DeepTo(f, what, format, n)
<1> DEFINE S == {n \in Nat : \E f : DeepTo(f, what, format, n)}
<1>1. \A a, b : Deep(what, format, 0, a) = Deep(what, format, 0, b)
  BY DEF Deep
<1>2. 0 \in S
  <2>1. PICK f : f = [k \in 0 .. 0 |-> Deep(what, format, k, {})]
    OBVIOUS
  <2>2. \A k \in 0 .. 0 : f[k] = Deep(what, format, k, f[k - 1])
    BY <1>1, <2>1
  <2>3. f = [k \in 0 .. 0 |-> f[k]]
    BY <2>1
  <2>4. f = [k \in 0 .. 0 |-> Deep(what, format, k, f[k - 1])]
    BY <2>2, <2>3
  <2>5. DeepTo(f, what, format, 0)
    BY <2>4 DEF DeepTo
  <2> QED
    BY <2>5
<1>3. ASSUME NEW n \in Nat, n \in S PROVE n + 1 \in S
  <2>1. PICK f : DeepTo(f, what, format, n)
    BY <1>3
  <2>2. PICK l : l = Deep(what, format, n + 1, f[n])
    OBVIOUS
  <2>3. PICK g : g = [k \in 0 .. n + 1 |-> IF k = n + 1 THEN l ELSE f[k]]
    OBVIOUS
  <2>4. \A k \in 0 .. n : f[k] = Deep(what, format, k, f[k - 1])
    BY <2>1 DEF DeepTo
  <2>5. \A k \in 0 .. n : g[k] = Deep(what, format, k, g[k - 1])
    <3>1. ASSUME NEW k \in 0 .. n PROVE g[k] = Deep(what, format, k, g[k - 1])
      <4>1. g[k] = f[k] /\ (k # 0 => g[k - 1] = f[k - 1])
        BY <2>3
      <4>2. CASE k = 0
        BY <1>1, <2>4, <4>1, <4>2
      <4>3. CASE k # 0
        BY <2>4, <4>1, <4>3
      <4> QED
        BY <4>2, <4>3
    <3> QED
      BY <3>1
  <2>6. g[n + 1] = Deep(what, format, n + 1, g[(n + 1) - 1])
    BY <2>2, <2>3
  <2>7. \A k \in 0 .. n + 1 : g[k] = Deep(what, format, k, g[k - 1])
    BY <2>5, <2>6
  <2>8. g = [k \in 0 .. n + 1 |-> g[k]]
    BY <2>3
  <2>9. g = [k \in 0 .. n + 1 |-> Deep(what, format, k, g[k - 1])]
    BY <2>7, <2>8
  <2>10. DeepTo(g, what, format, n + 1)
    BY <2>9 DEF DeepTo
  <2> QED
    BY <2>10
<1>4. Nat \subseteq S
  <2> HIDE DEF S
  <2> QED
    BY <1>2, <1>3, Induction
<1> QED
  BY <1>4

\* The documents of each depth.
LEMMA DocumentsLevels ==
    \A n \in 0 .. MaxDepth : Documents[n] = NodesOf(IF n = 0 THEN {} ELSE Documents[n - 1])
<1>1. PICK f : DeepTo(f, "documents", NoFormat, MaxDepth)
  BY DeepExists, WrittenAssumption
<1>2. \A n \in 0 .. MaxDepth : f[n] = NodesOf(IF n = 0 THEN {} ELSE f[n - 1])
  BY <1>1 DEF DeepTo, Deep
<1>3. f = [n \in 0 .. MaxDepth |-> f[n]]
  BY <1>1 DEF DeepTo
<1>4. f = [n \in 0 .. MaxDepth |-> NodesOf(IF n = 0 THEN {} ELSE f[n - 1])]
  BY <1>2, <1>3
<1>5. Documents = [n \in 0 .. MaxDepth |-> NodesOf(IF n = 0 THEN {} ELSE Documents[n - 1])]
  BY <1>4, Zenon DEF Documents
<1> QED
  BY <1>5

\* Which of them are clean.
LEMMA CleanLevels ==
    \A n \in 0 .. MaxDepth : \A node \in Documents[n] :
        CleanTo[n][node] = CleanNode(IF n = 0 THEN <<>> ELSE CleanTo[n - 1], node)
<1>1. PICK f : DeepTo(f, "clean", NoFormat, MaxDepth)
  BY DeepExists, WrittenAssumption
<1>2. \A n \in 0 .. MaxDepth :
        f[n] = [node \in Documents[n] |-> CleanNode(IF n = 0 THEN <<>> ELSE f[n - 1], node)]
  BY <1>1 DEF DeepTo, Deep
<1>3. f = [n \in 0 .. MaxDepth |-> f[n]]
  BY <1>1 DEF DeepTo
<1>4. f = [n \in 0 .. MaxDepth |->
             [node \in Documents[n] |-> CleanNode(IF n = 0 THEN <<>> ELSE f[n - 1], node)]]
  BY <1>2, <1>3
<1>5. CleanTo = [n \in 0 .. MaxDepth |->
          [node \in Documents[n] |-> CleanNode(IF n = 0 THEN <<>> ELSE CleanTo[n - 1], node)]]
  BY <1>4, Zenon DEF CleanTo
<1>6. PICK t : t = CleanTo
  OBVIOUS
<1>7. \A n \in 0 .. MaxDepth :
        t[n] = [node \in Documents[n] |-> CleanNode(IF n = 0 THEN <<>> ELSE t[n - 1], node)]
  BY <1>5, <1>6
<1>8. \A n \in 0 .. MaxDepth : \A node \in Documents[n] :
        t[n][node] = CleanNode(IF n = 0 THEN <<>> ELSE t[n - 1], node)
  BY <1>7
<1> QED
  BY <1>6, <1>8, Zenon

\* Their texts in a format.
WriteTo(f, format) ==
    f = [n \in 0 .. MaxDepth |->
            [node \in Documents[n] |->
                WriteNode(format, MaxDepth - n, IF n = 0 THEN <<>> ELSE f[n - 1], node)]]
TextsAs(format) == CHOOSE f : WriteTo(f, format)

LEMMA WriteLevels ==
    ASSUME NEW format
    PROVE  /\ \A n \in 0 .. MaxDepth : \A node \in Documents[n] :
                 TextsAs(format)[n][node] =
                          WriteNode(format, MaxDepth - n,
                                    IF n = 0 THEN <<>> ELSE TextsAs(format)[n - 1], node)
           /\ \A node : Write(node, format) = TextsAs(format)[MaxDepth][node]
<1>1. PICK f : DeepTo(f, "texts", format, MaxDepth)
  BY DeepExists, WrittenAssumption
<1>2. \A n \in 0 .. MaxDepth :
        f[n] = [node \in Documents[n] |->
                  WriteNode(format, MaxDepth - n, IF n = 0 THEN <<>> ELSE f[n - 1], node)]
  BY <1>1 DEF DeepTo, Deep
<1>3. f = [n \in 0 .. MaxDepth |-> f[n]]
  BY <1>1 DEF DeepTo
<1>4. WriteTo(f, format)
  BY <1>2, <1>3 DEF WriteTo
<1>5. WriteTo(TextsAs(format), format)
  BY <1>4 DEF TextsAs
<1>6. \A node : Write(node, format) = TextsAs(format)[MaxDepth][node]
  BY Zenon DEF Write, TextsAs, WriteTo
<1>7. PICK t : t = TextsAs(format)
  OBVIOUS
<1>8. \A n \in 0 .. MaxDepth :
         t[n] = [node \in Documents[n] |->
                   WriteNode(format, MaxDepth - n, IF n = 0 THEN <<>> ELSE t[n - 1], node)]
  BY <1>5, <1>7 DEF WriteTo
<1>9. \A n \in 0 .. MaxDepth : \A node \in Documents[n] :
         t[n][node] = WriteNode(format, MaxDepth - n, IF n = 0 THEN <<>> ELSE t[n - 1], node)
  BY <1>8
<1> QED
  BY <1>6, <1>7, <1>9

\* What is left of a clean document is its text without format, however deep.
LEMMA DocumentReduces ==
    ASSUME NEW format \in Formats, NEW document \in Documents[MaxDepth], Clean(document)
    PROVE  Reduces(Write(document, format), Write(document, NoFormat))
<1>1. PICK a, b : a = TextsAs(format) /\ b = TextsAs(NoFormat)
  OBVIOUS
<1>2. \A n \in 0 .. MaxDepth : \A node \in Documents[n] :
        /\ a[n][node] = WriteNode(format, MaxDepth - n, IF n = 0 THEN <<>> ELSE a[n - 1], node)
          /\ b[n][node] = WriteNode(NoFormat, MaxDepth - n, IF n = 0 THEN <<>> ELSE b[n - 1], node)
  BY <1>1, WriteLevels
<1> DEFINE S == {n \in Nat : n <= MaxDepth =>
                    \A node \in Documents[n] :
                        CleanTo[n][node] => Reduces(a[n][node], b[n][node])}
<1>3. 0 \in S
  <2>1. 0 \in 0 .. MaxDepth /\ MaxDepth - 0 \in Nat
    BY WrittenAssumption
  <2>2. ASSUME NEW node \in Documents[0], CleanTo[0][node]
        PROVE  Reduces(a[0][node], b[0][node])
    <3>1. node \in NodesOf({})
      BY <2>1, DocumentsLevels
    <3>2. CleanNode(<<>>, node)
      BY <2>1, <2>2, CleanLevels
    <3>3. /\ a[0][node] = WriteNode(format, MaxDepth - 0, <<>>, node)
          /\ b[0][node] = WriteNode(NoFormat, MaxDepth - 0, <<>>, node)
      BY <1>2, <2>1
    <3> QED
      BY <2>1, <3>1, <3>2, <3>3, NodeReduces
  <2> QED
    BY <2>2
<1>4. ASSUME NEW n \in Nat, n \in S PROVE n + 1 \in S
  <2>1. SUFFICES ASSUME n + 1 <= MaxDepth, NEW node \in Documents[n + 1], CleanTo[n + 1][node]
                 PROVE  Reduces(a[n + 1][node], b[n + 1][node])
    OBVIOUS
  <2>2. PICK m \in Nat : m = n + 1 /\ m # 0 /\ m - 1 = n /\ m \in 0 .. MaxDepth
                         /\ MaxDepth - m \in Nat
    BY <2>1, WrittenAssumption
  <2>3. PICK inner, clean, f, g : /\ inner = Documents[n] /\ clean = CleanTo[n]
                                  /\ f = a[n] /\ g = b[n]
    OBVIOUS
  <2>4. \A d \in inner : clean[d] => Reduces(f[d], g[d])
    BY <1>4, <2>1, <2>3, WrittenAssumption
  <2>5. node \in NodesOf(inner)
    BY <2>1, <2>2, <2>3, DocumentsLevels
  <2>6. CleanNode(clean, node)
    BY <2>1, <2>2, <2>3, CleanLevels
  <2>7. /\ a[m][node] = WriteNode(format, MaxDepth - m, f, node)
        /\ b[m][node] = WriteNode(NoFormat, MaxDepth - m, g, node)
    BY <1>2, <2>1, <2>2, <2>3
  <2>8. Reduces(a[m][node], b[m][node])
    BY <2>2, <2>4, <2>5, <2>6, <2>7, NodeReduces
  <2> QED
    BY <2>2, <2>8
<1>5. Nat \subseteq S
  <2> HIDE DEF S
  <2> QED
    BY <1>3, <1>4, Induction
<1>6. CleanTo[MaxDepth][document]
  BY DEF Clean
<1>7. Reduces(a[MaxDepth][document], b[MaxDepth][document])
  BY <1>5, <1>6, WrittenAssumption
<1>8. Write(document, format) = a[MaxDepth][document] /\ Write(document, NoFormat) = b[MaxDepth][document]
  BY <1>1, WriteLevels
<1> QED
  BY <1>7, <1>8

-----------------------------------------------------------------------------
(* Nothing is left of a comment, and then, of a text, what is left of what    *)
(* was written.                                                               *)

\* In a comment or not, and on the second of the characters that begin or end one.
Commented(kind, fresh) ==
    [skip |-> FALSE, comment |-> kind = "line", inString |-> FALSE,
     multicomment |-> IF kind = "block" THEN 1 ELSE 0, fresh |-> fresh]
Skipping(kind, fresh) ==
    [skip |-> TRUE, comment |-> kind = "line", inString |-> FALSE,
     multicomment |-> IF kind = "block" THEN 1 ELSE 0, fresh |-> fresh]

LEMMA CommentedIs ==
    /\ \A kind, fresh :
          LET s == Commented(kind, fresh)
          IN  /\ ~s.skip /\ s.comment = (kind = "line") /\ s.comment \in BOOLEAN
              /\ s.inString = FALSE /\ s.fresh = fresh
              /\ s.multicomment = IF kind = "block" THEN 1 ELSE 0
    /\ \A fresh : Commented("none", fresh) = Uncommented(FALSE, fresh)
<1>1. \A fresh : Commented("none", fresh) = Uncommented(FALSE, fresh)
  BY DEF Commented, Uncommented
<1> QED
  BY <1>1 DEF Commented

\* The second character of those that begin or end a comment is skipped.
LEMMA SkipStep ==
    ASSUME NEW text, NEW k, NEW kind, NEW fresh
    PROVE  Removal(text, Skipping(kind, fresh), k) = Commented(kind, fresh)
<1>1. PICK s, t : s = Skipping(kind, fresh) /\ t = Commented(kind, fresh)
  OBVIOUS
<1>2. /\ s.skip = TRUE
      /\ DOMAIN s = DOMAIN t /\ t = [x \in DOMAIN t |-> t[x]]
      /\ DOMAIN t = {"skip", "comment", "inString", "multicomment", "fresh"}
  BY <1>1 DEF Commented, Skipping
<1>3. /\ t.skip = FALSE /\ t.comment = s.comment /\ t.multicomment = s.multicomment
      /\ t.inString = s.inString /\ t.fresh = s.fresh
  BY <1>1 DEF Commented, Skipping
<1>4. [s EXCEPT !.skip = FALSE] = [x \in DOMAIN t |-> t[x]]
  BY <1>2, <1>3
<1> QED
  BY <1>1, <1>2, <1>4 DEF Removal

\* How comments begin and end.
LEMMA MarkSteps ==
    ASSUME NEW text, NEW k, NEW fresh
    PROVE  /\ text[k] = "/" /\ CharAt(text, k + 1) = "*"
                => Removal(text, Commented("none", fresh), k) = Skipping("block", fresh)
           /\ text[k] = "*" /\ CharAt(text, k + 1) = "/"
                => Removal(text, Commented("block", fresh), k) = Skipping("none", fresh)
           /\ text[k] = "/" /\ CharAt(text, k + 1) = "/"
                => Removal(text, Commented("none", fresh), k) = Skipping("line", fresh)
<1>1. PICK c1, c2 : c1 = text[k] /\ c2 = CharAt(text, k + 1)
  OBVIOUS
<1>2. PICK none, block : none = Commented("none", fresh) /\ block = Commented("block", fresh)
  OBVIOUS
<1>3. /\ ~none.skip /\ none.comment = FALSE /\ none.inString = FALSE
      /\ none.multicomment = 0 /\ none.fresh = fresh
      /\ ~block.skip /\ block.comment = FALSE /\ block.inString = FALSE
      /\ block.multicomment = 1 /\ block.fresh = fresh
  BY <1>2, CommentedIs
<1>4. none.multicomment + 1 = 1 /\ block.multicomment - 1 = 0
  BY <1>3
<1>5. ASSUME c1 = "/", c2 = "*" PROVE Removal(text, none, k) = Skipping("block", fresh)
  <2>1. Skipping("block", fresh) =
          [skip |-> TRUE, comment |-> FALSE, inString |-> FALSE, multicomment |-> 1,
           fresh |-> fresh]
    BY DEF Skipping
  <2>2. <<c1, c2>> \in {<<"/", "*">>, <<"*", "/">>, <<"/", "/">>} /\ c1 # c2 /\ c1 # Quote
    BY <1>5 DEF Quote
  <2>3. PICK d : d = none.multicomment + 1 /\ d = 1
    BY <1>4
  <2>4. d = CASE TRUE /\ c2 = "*" -> none.multicomment + 1
              [] TRUE /\ c1 = "*" -> none.multicomment - 1
              [] ~TRUE \/ c1 = c2 -> none.multicomment
    BY <1>5, <2>3
  <2>5. Removal(text, none, k) =
          [skip |-> TRUE, comment |-> FALSE, inString |-> FALSE, multicomment |-> d,
           fresh |-> fresh]
    BY <1>1, <1>3, <2>2, <2>4 DEF Removal, BeginsOrEnds
  <2> QED
    BY <2>1, <2>3, <2>5
<1>6. ASSUME c1 = "*", c2 = "/" PROVE Removal(text, block, k) = Skipping("none", fresh)
  <2>1. Skipping("none", fresh) =
          [skip |-> TRUE, comment |-> FALSE, inString |-> FALSE, multicomment |-> 0,
           fresh |-> fresh]
    BY DEF Skipping
  <2>2. <<c1, c2>> \in {<<"/", "*">>, <<"*", "/">>, <<"/", "/">>} /\ c1 # c2 /\ c1 # Quote
    BY <1>6 DEF Quote
  <2>3. PICK d : d = block.multicomment - 1 /\ d = 0
    BY <1>4
  <2>4. d = CASE TRUE /\ c2 = "*" -> block.multicomment + 1
              [] TRUE /\ c1 = "*" -> block.multicomment - 1
              [] ~TRUE \/ c1 = c2 -> block.multicomment
    BY <1>6, <2>3
  <2>5. Removal(text, block, k) =
          [skip |-> TRUE, comment |-> FALSE, inString |-> FALSE, multicomment |-> d,
           fresh |-> fresh]
    BY <1>1, <1>3, <2>2, <2>4 DEF Removal, BeginsOrEnds
  <2> QED
    BY <2>1, <2>3, <2>5
<1>7. ASSUME c1 = "/", c2 = "/" PROVE Removal(text, none, k) = Skipping("line", fresh)
  BY <1>1, <1>3, <1>7 DEF Removal, BeginsOrEnds, Quote, Skipping
<1> QED
  BY <1>1, <1>2, <1>5, <1>6, <1>7

\* A character of a comment is passed over, ...
LEMMA PassedStep ==
    ASSUME NEW text, NEW k, NEW fresh, NEW kind \in {"block", "line"},
           text[k] # Quote, text[k] # "\n", ~BeginsOrEnds(text[k], CharAt(text, k + 1))
    PROVE  Removal(text, Commented(kind, fresh), k) = Commented(kind, fresh)
<1>1. PICK s : s = Commented(kind, fresh)
  OBVIOUS
<1>2. PICK line \in BOOLEAN : line = (kind = "line")
  OBVIOUS
<1>3. /\ ~s.skip /\ s.comment = line /\ s.comment \in BOOLEAN
      /\ s.inString = FALSE /\ s.fresh = fresh
  BY <1>2, <1>1, CommentedIs
<1>4. PICK inString, more \in BOOLEAN : inString = FALSE /\ more = line
  OBVIOUS
<1>5. line \/ s.multicomment = 1
  BY <1>2, <1>1, CommentedIs
<1>6. s = [skip |-> FALSE, comment |-> line, inString |-> FALSE,
           multicomment |-> s.multicomment, fresh |-> fresh]
  BY <1>2, <1>1, <1>3 DEF Commented
<1>7. inString = IF CharAt(text, k - 1) # Backslash /\ text[k] = Quote
                 THEN ~s.inString ELSE s.inString
  BY <1>3, <1>4
<1>8. inString \/ ~BeginsOrEnds(text[k], CharAt(text, k + 1))
  OBVIOUS
<1>9. more = (s.comment /\ (inString \/ text[k] # "\n"))
  BY <1>3, <1>4
<1>10. Removal(text, s, k) =
              [skip |-> FALSE, comment |-> more, inString |-> inString,
               multicomment |-> s.multicomment,
               fresh |-> IF more \/ s.multicomment > 0 \/ (~inString /\ text[k] \in Blanks)
                         THEN s.fresh ELSE Append(s.fresh, text[k])]
  BY <1>3, <1>7, <1>8, <1>9, UnmarkedStep
<1>11. (IF more \/ s.multicomment > 0 \/ (~inString /\ text[k] \in Blanks)
         THEN s.fresh ELSE Append(s.fresh, text[k])) = fresh
  BY <1>3, <1>4, <1>5
<1> QED
  BY <1>1, <1>4, <1>10, <1>11, <1>6, Zenon

\* ... and the end of the line ends one.
LEMMA LineStep ==
    ASSUME NEW text, NEW k, NEW fresh, NEW kind \in {"line", "none"}, text[k] = "\n"
    PROVE  Removal(text, Commented(kind, fresh), k) = Commented("none", fresh)
<1>1. PICK s : s = Commented(kind, fresh)
  OBVIOUS
<1>2. PICK line \in BOOLEAN : line = (kind = "line")
  OBVIOUS
<1>3. /\ ~s.skip /\ s.comment = line /\ s.comment \in BOOLEAN
      /\ s.inString = FALSE /\ s.fresh = fresh /\ s.multicomment = 0
  BY <1>2, <1>1, CommentedIs
<1>4. PICK inString, more \in BOOLEAN : inString = FALSE /\ more = FALSE
  OBVIOUS
<1>5. text[k] # Quote /\ text[k] \in Blanks /\ text[k] \notin {"/", "*"}
  BY DEF Quote, Blanks
<1>6. inString = IF CharAt(text, k - 1) # Backslash /\ text[k] = Quote
                 THEN ~s.inString ELSE s.inString
  BY <1>3, <1>4, <1>5
<1>7. inString \/ ~BeginsOrEnds(text[k], CharAt(text, k + 1))
  BY <1>5, NoComment
<1>8. more = (s.comment /\ (inString \/ text[k] # "\n"))
  BY <1>4
<1>9. Removal(text, s, k) =
              [skip |-> FALSE, comment |-> more, inString |-> inString,
               multicomment |-> s.multicomment,
               fresh |-> IF more \/ s.multicomment > 0 \/ (~inString /\ text[k] \in Blanks)
                         THEN s.fresh ELSE Append(s.fresh, text[k])]
  BY <1>3, <1>6, <1>7, <1>8, UnmarkedStep
<1>10. (IF more \/ s.multicomment > 0 \/ (~inString /\ text[k] \in Blanks)
         THEN s.fresh ELSE Append(s.fresh, text[k])) = fresh
  BY <1>3, <1>4, <1>5
<1> QED
  BY <1>1, <1>3, <1>4, <1>9, <1>10 DEF Commented

\* The step at the m-th character of a comment, whose n characters are those of
\* the text behind the i-th.
Steps(text, i, note, n) ==
    \A m \in 1 .. n :
        /\ text[i + m] = note[m]
        /\ m < n => CharAt(text, i + m + 1) = note[m + 1]
        /\ Removed(text)[i + m] = Removal(text, Removed(text)[i + (m - 1)], i + m)
        /\ note[m] # Quote

\* The two kinds of comments that are passed over.
Inner(note, n) == \A k \in 3 .. n - 2 : note[k] \notin {"/", "*", "\n"}
IsBlock(note, n) ==
    n >= 4 /\ note[1] = "/" /\ note[2] = "*" /\ note[n - 1] = "*" /\ note[n] = "/"
IsLine(note, n) == n >= 3 /\ note[1] = "/" /\ note[2] = "/" /\ note[n] = "\n"

\* After m characters of it.
After(text, i, m, kind, fresh) == Removed(text)[i + m] = Commented(kind, fresh)

\* Within a comment, nothing is left.
LEMMA CommentPasses ==
    ASSUME NEW text, NEW i \in Nat, NEW note, NEW n \in Nat, NEW fresh,
           NEW kind \in {"block", "line"}, Steps(text, i, note, n), Inner(note, n),
           After(text, i, 2, kind, fresh)
    PROVE  \A m \in 2 .. n - 2 : After(text, i, m, kind, fresh)
<1> DEFINE S == {m \in Nat : m >= 2 /\ m <= n - 2 => After(text, i, m, kind, fresh)}
<1>1. 0 \in S
  OBVIOUS
<1>2. ASSUME NEW m \in Nat, m \in S PROVE m + 1 \in S
  <2>1. PICK l \in Nat : l = m + 1 /\ l - 1 = m
    OBVIOUS
  <2>2. ASSUME l >= 2, l <= n - 2 PROVE After(text, i, l, kind, fresh)
    <3>1. CASE l = 2
      BY <3>1
    <3>2. CASE l # 2
      <4>1. After(text, i, m, kind, fresh)
        <5>1. m >= 2 /\ m <= n - 2
          BY <2>1, <2>2, <3>2
        <5> QED
          BY <1>2, <5>1
      <4>2. l \in 3 .. n - 2 /\ l \in 1 .. n
        BY <2>1, <2>2, <3>2
      <4>3. note[l] \notin {"/", "*", "\n"}
        BY <4>2 DEF Inner
      <4>4. PICK k : k = i + l
        OBVIOUS
      <4>5. /\ text[k] # Quote /\ text[k] \notin {"/", "*", "\n"}
            /\ Removed(text)[k] = Removal(text, Removed(text)[i + (l - 1)], k)
        BY <4>2, <4>3, <4>4 DEF Steps
      <4>6. ~BeginsOrEnds(text[k], CharAt(text, k + 1))
        BY <4>5, NoComment
      <4>7. Removal(text, Commented(kind, fresh), k) = Commented(kind, fresh)
        BY <4>5, <4>6, PassedStep
      <4>8. Removed(text)[i + (l - 1)] = Commented(kind, fresh)
        BY <2>1, <4>1 DEF After
      <4>9. Removed(text)[k] = Commented(kind, fresh)
        BY <4>5, <4>7, <4>8
      <4> QED
        BY <4>4, <4>9 DEF After
    <3> QED
      BY <3>1, <3>2
  <2> QED
    BY <2>1, <2>2
<1>3. Nat \subseteq S
  <2> HIDE DEF S
  <2> QED
    BY <1>1, <1>2, Induction
<1> QED
  BY <1>3

\* A comment that is at a place of a text, character by character.
LEMMA StepsAre ==
    ASSUME NEW text \in Text, NEW i \in Nat, NEW note \in Text, NEW n \in Nat, n = Len(note),
           At(text, i, note), Quote \notin ToSet(note)
    PROVE  Steps(text, i, note, n)
<1>1. ASSUME NEW m \in 1 .. n
      PROVE  /\ text[i + m] = note[m]
             /\ m < n => CharAt(text, i + m + 1) = note[m + 1]
             /\ Removed(text)[i + m] = Removal(text, Removed(text)[i + (m - 1)], i + m)
             /\ note[m] # Quote
  <2>1. m \in 1 .. Len(note) /\ i + m - 1 = i + (m - 1)
    OBVIOUS
  <2>2. /\ text[i + m] = note[m]
        /\ Removed(text)[i + m] = Removal(text, Removed(text)[i + m - 1], i + m)
    BY <2>1, StepAt
  <2>3. ASSUME m < n PROVE CharAt(text, i + m + 1) = note[m + 1]
    <3>1. PICK l \in 1 .. Len(note) : l = m + 1 /\ i + l = i + m + 1
      BY <2>3
    <3>2. CharAt(text, i + l) = note[l]
      BY StepAt
    <3> QED
      BY <3>1, <3>2
  <2>4. note[m] # Quote
    <3>1. m \in DOMAIN note
      BY <2>1, LenProperties DEF Text
    <3> QED
      BY <3>1 DEF ToSet
  <2> QED
    BY <2>1, <2>2, <2>3, <2>4
<1> QED
  BY <1>1 DEF Steps

\* The first two characters of a comment, and each of the others.
LEMMA StepIs ==
    ASSUME NEW text, NEW i \in Nat, NEW note, NEW n \in Nat, Steps(text, i, note, n),
           NEW m \in 1 .. n
    PROVE  /\ text[i + m] = note[m] /\ note[m] # Quote
           /\ Removed(text)[i + m] = Removal(text, Removed(text)[i + (m - 1)], i + m)
           /\ m < n => CharAt(text, i + m + 1) = note[m + 1]
  BY DEF Steps

\* Nothing is left of /* ... */ ...
LEMMA BlockPasses ==
    ASSUME NEW text, NEW i \in Nat, NEW note, NEW n \in Nat, NEW fresh,
           Steps(text, i, note, n), Inner(note, n), IsBlock(note, n),
           Removed(text)[i] = Commented("none", fresh)
    PROVE  Removed(text)[i + n] = Commented("none", fresh)
<1>1. n >= 4 /\ note[1] = "/" /\ note[2] = "*" /\ note[n - 1] = "*" /\ note[n] = "/"
  BY DEF IsBlock
<1>2. Removed(text)[i + 1] = Skipping("block", fresh)
  <2>1. 1 \in 1 .. n /\ 1 < n /\ 1 + 1 = 2 /\ i + (1 - 1) = i
    BY <1>1
  <2>2. PICK k : k = i + 1
    OBVIOUS
  <2>3. /\ text[k] = "/" /\ CharAt(text, k + 1) = "*"
        /\ Removed(text)[k] = Removal(text, Removed(text)[i], k)
    BY <1>1, <2>1, <2>2, StepIs
  <2>4. Removal(text, Commented("none", fresh), k) = Skipping("block", fresh)
    BY <2>3, MarkSteps
  <2> QED
    BY <2>2, <2>3, <2>4
<1>3. After(text, i, 2, "block", fresh)
  <2>1. 2 \in 1 .. n /\ i + (2 - 1) = i + 1
    BY <1>1
  <2>2. PICK k : k = i + 2
    OBVIOUS
  <2>3. Removed(text)[k] = Removal(text, Removed(text)[i + 1], k)
    BY <2>1, <2>2, StepIs
  <2>4. Removal(text, Skipping("block", fresh), k) = Commented("block", fresh)
    BY SkipStep
  <2> QED
    BY <1>2, <2>2, <2>3, <2>4 DEF After
<1>4. Removed(text)[i + (n - 2)] = Commented("block", fresh)
  <2>1. n - 2 \in 2 .. n - 2 /\ "block" \in {"block", "line"}
    BY <1>1
  <2>2. After(text, i, n - 2, "block", fresh)
    BY <1>3, <2>1, CommentPasses
  <2> QED
    BY <2>2 DEF After
<1>5. Removed(text)[i + (n - 1)] = Skipping("none", fresh)
  <2>1. PICK l \in 1 .. n : l = n - 1 /\ l < n /\ l + 1 = n /\ l - 1 = n - 2
    BY <1>1
  <2>2. PICK k : k = i + l
    OBVIOUS
  <2>3. /\ text[k] = "*" /\ CharAt(text, k + 1) = "/"
        /\ Removed(text)[k] = Removal(text, Removed(text)[i + (n - 2)], k)
    BY <1>1, <2>1, <2>2, StepIs
  <2>4. Removal(text, Commented("block", fresh), k) = Skipping("none", fresh)
    BY <2>3, MarkSteps
  <2> QED
    BY <1>4, <2>1, <2>2, <2>3, <2>4
<1>6. PICK k : k = i + n
  OBVIOUS
<1>7. n \in 1 .. n
  BY <1>1
<1>8. Removed(text)[k] = Removal(text, Removed(text)[i + (n - 1)], k)
  BY <1>6, <1>7, StepIs
<1>9. Removal(text, Skipping("none", fresh), k) = Commented("none", fresh)
  BY SkipStep
<1> QED
  BY <1>5, <1>6, <1>8, <1>9

\* ... and of a comment to the end of the line.
LEMMA LinePasses ==
    ASSUME NEW text, NEW i \in Nat, NEW note, NEW n \in Nat, NEW fresh,
           Steps(text, i, note, n), Inner(note, n), IsLine(note, n),
           Removed(text)[i] = Commented("none", fresh)
    PROVE  Removed(text)[i + n] = Commented("none", fresh)
<1>1. n >= 3 /\ note[1] = "/" /\ note[2] = "/" /\ note[n] = "\n"
  BY DEF IsLine
<1>2. Removed(text)[i + 1] = Skipping("line", fresh)
  <2>1. 1 \in 1 .. n /\ 1 < n /\ 1 + 1 = 2 /\ i + (1 - 1) = i
    BY <1>1
  <2>2. PICK k : k = i + 1
    OBVIOUS
  <2>3. /\ text[k] = "/" /\ CharAt(text, k + 1) = "/"
        /\ Removed(text)[k] = Removal(text, Removed(text)[i], k)
    BY <1>1, <2>1, <2>2, StepIs
  <2>4. Removal(text, Commented("none", fresh), k) = Skipping("line", fresh)
    BY <2>3, MarkSteps
  <2> QED
    BY <2>2, <2>3, <2>4
<1>3. After(text, i, 2, "line", fresh)
  <2>1. 2 \in 1 .. n /\ i + (2 - 1) = i + 1
    BY <1>1
  <2>2. PICK k : k = i + 2
    OBVIOUS
  <2>3. Removed(text)[k] = Removal(text, Removed(text)[i + 1], k)
    BY <2>1, <2>2, StepIs
  <2>4. Removal(text, Skipping("line", fresh), k) = Commented("line", fresh)
    BY SkipStep
  <2> QED
    BY <1>2, <2>2, <2>3, <2>4 DEF After
\* The last character before the end of the line may be any but a quote.
<1>4. \E kind \in {"line", "none"} : Removed(text)[i + (n - 1)] = Commented(kind, fresh)
  <2>1. CASE n = 3
    <3>1. n - 1 = 2
      BY <2>1
    <3> QED
      BY <1>3, <3>1 DEF After
  <2>2. CASE n # 3
    <3>1. n - 2 \in 2 .. n - 2 /\ "line" \in {"block", "line"}
      BY <1>1, <2>2
    <3>2. After(text, i, n - 2, "line", fresh)
      BY <1>3, <3>1, CommentPasses
    <3>3. PICK l \in 1 .. n : l = n - 1 /\ l < n /\ l + 1 = n /\ l - 1 = n - 2
      BY <1>1
    <3>4. PICK k : k = i + l
      OBVIOUS
    <3>5. Removed(text)[i + (n - 2)] = Commented("line", fresh)
      BY <3>2 DEF After
    <3>6. /\ text[k] # Quote /\ CharAt(text, k + 1) = "\n"
          /\ Removed(text)[k] = Removal(text, Commented("line", fresh), k)
      <4>1. /\ text[i + l] = note[l] /\ note[l] # Quote
            /\ Removed(text)[i + l] = Removal(text, Removed(text)[i + (l - 1)], i + l)
            /\ l < n => CharAt(text, i + l + 1) = note[l + 1]
        BY <3>3, StepIs
      <4> QED
        BY <1>1, <3>3, <3>4, <3>5, <4>1
    <3>7. CASE text[k] = "\n"
      <4>1. Removal(text, Commented("line", fresh), k) = Commented("none", fresh)
        BY <3>7, LineStep
      <4>2. Removed(text)[i + (n - 1)] = Commented("none", fresh)
        BY <3>3, <3>4, <3>6, <4>1
      <4> QED
        BY <4>2
    <3>8. CASE text[k] # "\n"
      <4>1. ~BeginsOrEnds(text[k], CharAt(text, k + 1))
        BY <3>6 DEF BeginsOrEnds
      <4>2. Removal(text, Commented("line", fresh), k) = Commented("line", fresh)
        BY <3>6, <3>8, <4>1, PassedStep
      <4>3. Removed(text)[i + (n - 1)] = Commented("line", fresh)
        BY <3>3, <3>4, <3>6, <4>2
      <4> QED
        BY <4>3
    <3> QED
      BY <3>7, <3>8
  <2> QED
    BY <2>1, <2>2
<1>5. PICK kind \in {"line", "none"} : Removed(text)[i + (n - 1)] = Commented(kind, fresh)
  BY <1>4
<1>6. PICK k : k = i + n
  OBVIOUS
<1>7. n \in 1 .. n
  BY <1>1
<1>8. text[k] = "\n" /\ Removed(text)[k] = Removal(text, Removed(text)[i + (n - 1)], k)
  BY <1>1, <1>6, <1>7, StepIs
<1>9. Removal(text, Commented(kind, fresh), k) = Commented("none", fresh)
  BY <1>8, LineStep
<1> QED
  BY <1>5, <1>6, <1>8, <1>9

\* Nothing is left of a comment that is passed over.
LEMMA CommentReduces ==
    ASSUME NEW note \in Text, Ignorable(note) PROVE Reduces(note, <<>>)
<1>1. PICK n \in Nat : n = Len(note)
  BY TextConcat
<1>2. CASE n = 0
  <2>1. note = <<>>
    BY <1>1, <1>2, EmptySeq DEF Text
  <2> QED
    BY <2>1, ReducesNone
<1>3. CASE n # 0
  <2>1. Quote \notin ToSet(note) /\ Inner(note, n) /\ (IsBlock(note, n) \/ IsLine(note, n))
    BY <1>1, <1>3 DEF Ignorable, Inner, IsBlock, IsLine
  <2>2. note[n] # Backslash
    BY <2>1 DEF IsBlock, IsLine, Backslash
  <2>3. ASSUME NEW text \in Text, NEW i \in Nat, NEW fresh \in Text,
               At(text, i, note), Outside(text, i, fresh)
        PROVE  Outside(text, i + Len(note), Concat(fresh, <<>>))
    <3>1. Steps(text, i, note, n)
      BY <1>1, <2>1, <2>3, StepsAre
    <3>2. Removed(text)[i] = Commented("none", fresh)
      BY <2>3, CommentedIs DEF Outside
    <3>3. Removed(text)[i + n] = Commented("none", fresh)
      <4>1. CASE IsBlock(note, n)
        BY <2>1, <3>1, <3>2, <4>1, BlockPasses
      <4>2. CASE IsLine(note, n)
        BY <2>1, <3>1, <3>2, <4>2, LinePasses
      <4> QED
        BY <2>1, <4>1, <4>2
    <3>4. Removed(text)[i + n] = Uncommented(FALSE, fresh)
      BY <3>3, CommentedIs
    <3>5. CharAt(text, i + n) # Backslash
      <4>1. n \in 1 .. Len(note)
        BY <1>1, <1>3
      <4>2. CharAt(text, i + n) = note[n]
        BY <2>3, <4>1, StepAt
      <4> QED
        BY <2>2, <4>2
    <3>6. Concat(fresh, <<>>) = fresh
      BY TextConcat
    <3> QED
      BY <1>1, <3>4, <3>5, <3>6 DEF Outside
  <2>4. <<>> \in Text
    BY TextAppend
  <2> QED
    BY <2>3, <2>4 DEF Reduces
<1> QED
  BY <1>2, <1>3

\* What is left of a whole text.
LEMMA RemoveIs ==
    ASSUME NEW w, NEW v, Reduces(w, v) PROVE RemoveWhitespace(w) = v
<1>1. w \in Text /\ v \in Text /\ <<>> \in Text
  BY TextAppend DEF Reduces
<1>2. PICK n \in Nat : n = Len(w) /\ DOMAIN w = 1 .. n
  BY <1>1, LenProperties DEF Text
<1>3. At(w, 0, w)
  <2>1. 0 + n <= n /\ \A j \in 1 .. n : w[0 + j] = w[j]
    OBVIOUS
  <2> QED
    BY <1>2, <2>1 DEF At
<1>4. Outside(w, 0, <<>>)
  <2>1. Removed(w)[0] = Uncommented(FALSE, <<>>)
    BY <1>1, RemovedIs DEF RemovalStart, Uncommented
  <2>2. CharAt(w, 0) # Backslash
    BY <1>2 DEF CharAt, Backslash
  <2> QED
    BY <2>1, <2>2 DEF Outside
<1>5. Outside(w, 0 + Len(w), Concat(<<>>, v))
  BY <1>1, <1>3, <1>4 DEF Reduces
<1>6. 0 + Len(w) = Len(w) /\ Concat(<<>>, v) = v
  BY <1>1, <1>2, TextConcat
<1>7. Removed(w)[Len(w)] = Uncommented(FALSE, v)
  BY <1>5, <1>6 DEF Outside
<1>8. Uncommented(FALSE, v).fresh = v
  BY DEF Uncommented
<1> QED
  BY <1>1, <1>7, <1>8, RemovedIs

-----------------------------------------------------------------------------
(* What json holds of a document is left of its text.                         *)
JsonIsOf(doc, note, text) ==
    doc # NoSource =>
        \E w \in Written \cup Rereads :
            doc = w.document /\ note = w.comment /\ text = RemoveWhitespace(w.text)

\* It stays so: only a new text changes what json holds.
LEMMA JsonKept ==
    JsonIsOf(source, comment, json) /\ [ParserNext]_parserVars
        => JsonIsOf(source, comment, json)'
<1> SUFFICES ASSUME JsonIsOf(source, comment, json), [ParserNext]_parserVars
             PROVE  JsonIsOf(source', comment', json')
  BY DEF JsonIsOf
<1>1. CASE ParseWritten
  BY <1>1 DEF ParseWritten, StartParse, JsonIsOf
<1>2. CASE ParseText
  BY <1>2 DEF ParseText, JsonIsOf
<1>3. CASE NewParser
  BY <1>3 DEF NewParser, JsonIsOf
<1>4. CASE Assemble
  BY <1>4 DEF Assemble
<1>5. CASE UNCHANGED parserVars
  BY <1>5 DEF parserVars
<1> QED
  BY <1>1, <1>2, <1>3, <1>4, <1>5 DEF ParserNext

(* Of a text that was written, in any format and behind any closed comment    *)
(* without quotes, RemoveWhitespace leaves the text without format: no string *)
(* ends early or late, no comment begins in one, and nothing within strings   *)
(* is removed (jzon.cpp:43-143, 866-929), for clean documents of any depth.   *)
THEOREM FormatMakesNoDifference == ParserSpec => []FormatDoesNotMatter
<1>1. ParserInit => JsonIsOf(source, comment, json)
  BY DEF ParserInit, JsonIsOf
<1>2. JsonIsOf(source, comment, json) => FormatDoesNotMatter
  <2> SUFFICES ASSUME JsonIsOf(source, comment, json), source # NoSource,
                      Clean(source), Ignorable(comment)
               PROVE  json = Write(source, NoFormat)
    BY DEF FormatDoesNotMatter
  <2>1. PICK w \in Written \cup Rereads :
            source = w.document /\ comment = w.comment /\ json = RemoveWhitespace(w.text)
    BY DEF JsonIsOf
  <2>2. PICK doc, format, note : doc = w.document /\ format = w.format /\ note = w.comment
    OBVIOUS
  <2>3. /\ doc \in Documents[MaxDepth] /\ format \in Formats /\ note \in Text
        /\ w.text = Concat(note, Write(doc, format))
    BY <2>2, WrittenAssumption, Zenon DEF Concat
  <2>4. Reduces(Write(doc, format), Write(doc, NoFormat))
    BY <2>1, <2>2, <2>3, DocumentReduces
  <2>5. Reduces(note, <<>>)
    BY <2>1, <2>2, <2>3, CommentReduces
  <2>6. Reduces(Concat(note, Write(doc, format)), Concat(<<>>, Write(doc, NoFormat)))
    BY <2>4, <2>5, ReducesConcat
  <2>7. Concat(<<>>, Write(doc, NoFormat)) = Write(doc, NoFormat)
    BY <2>4, TextConcat DEF Reduces
  <2>8. RemoveWhitespace(Concat(note, Write(doc, format))) = Write(doc, NoFormat)
    BY <2>6, <2>7, RemoveIs
  <2> QED
    BY <2>1, <2>2, <2>3, <2>8
<1> QED
  BY <1>1, <1>2, JsonKept, PTL DEF ParserSpec
=============================================================================
