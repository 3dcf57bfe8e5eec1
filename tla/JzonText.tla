------------------------------ MODULE JzonText ------------------------------
(* The text side of native/jzon.cpp: nodes, and what the Parser makes of a    *)
(* text before it assembles nodes (RemoveWhitespace, tokenize).               *)
(*                                                                            *)
(* A text is a sequence of characters, of which only those are told apart     *)
(* that the code tells apart.  The words null, true and false, which the code *)
(* compares as a whole and in any case, are one character each.               *)
EXTENDS Integers, Sequences, SequencesExt

CONSTANT Characters   \* what texts are made of

Quote     == "\""
Backslash == "\\"
Backspace == "backspace"   \* '\b', which TLA+ has no notation for

Words       == {"null", "true", "false"}
Numerals    == {"0", "1", "2", "3", "4", "5", "6", "7", "8", "9", ".", "-"}
\* Mutant of Blanks: tabs are not removed.
BlanksButTabs == {"\n", " ", "\r", "\f"}
Blanks      == {"\n", " ", "\t", "\r", "\f"}
Structural  == {"{", "}", "[", "]", ",", ":"}

\* Those that the code tells apart, and what it writes for those that it escapes.
ASSUME CharactersAssumption ==
    Words \cup Numerals \cup Blanks \cup Structural
        \cup {Quote, Backslash, Backspace, "/", "*", "n", "t", "b", "f", "r"} \subseteq Characters

-----------------------------------------------------------------------------
(* Nodes.  The children of an object keep their order, and their names may    *)
(* occur more than once.                                                      *)
Value(type, str) == [type |-> "value", valueType |-> type, valueStr |-> str]
Object(children) == [type |-> "object", children |-> children]
Array(children)  == [type |-> "array", children |-> children]
Child(name, node) == [name |-> name, node |-> node]

IsObject(node) == node.type = "object"
IsArray(node)  == node.type = "array"
IsValue(node)  == node.type = "value"

EmptyObject == Object(<<>>)
EmptyArray  == Array(<<>>)
Null        == Value("null", <<>>)

(* Object::Get: the first child of the name.                                  *)
IsFirst(k, children, nm) ==
    children[k].name = nm /\ \A j \in 1 .. k - 1 : children[j].name # nm

Get(object, nm) ==
    object.children[CHOOSE k \in DOMAIN object.children : IsFirst(k, object.children, nm)].node

-----------------------------------------------------------------------------
(* Escapes: the letter that stands for a character after a backslash.         *)
Escaped ==
    [c \in {Backslash, Quote, "\n", "\t", Backspace, "\f", "\r"} |->
        CASE c \in {Backslash, Quote} -> c
          [] c = "\n" -> "n" [] c = "\t" -> "t" [] c = Backspace -> "b"
          [] c = "\f" -> "f" [] c = "\r" -> "r"]
Unescaped == [letter \in {Escaped[c] : c \in DOMAIN Escaped} |->
                 CHOOSE c \in DOMAIN Escaped : Escaped[c] = letter]

(* From left to right, two characters at a time where they are an escape.  A  *)
(* backslash before any other letter is kept.                                 *)
IsEscape(str, k) == k < Len(str) /\ str[k] = Backslash /\ str[k + 1] \in DOMAIN Unescaped

UnescapeString(str) ==
    LET rest[k \in 1 .. Len(str) + 2] ==
            CASE k > Len(str) -> <<>>
              [] IsEscape(str, k) -> <<Unescaped[str[k + 1]]>> \o rest[k + 2]
              [] k <= Len(str) /\ ~IsEscape(str, k) -> <<str[k]>> \o rest[k + 1]
    IN  rest[1]

(* Value::Set(const std::string &) unescapes what it is given.                *)
StringValue(str) == Value("string", UnescapeString(str))

-----------------------------------------------------------------------------
(* RemoveWhitespace: one pass over the characters, that knows whether it is   *)
(* in a string, in a comment to the end of the line, or in how many comments  *)
(* of the other kind.  A quote counts in a comment as well.                   *)
CharAt(text, k) == IF k \in DOMAIN text THEN text[k] ELSE "none"

\* The loop's variables, and fresh, the text that is left.  After the two
\* characters that begin or end a comment, the iterator skips the second.
RemovalStart ==
    [skip |-> FALSE, comment |-> FALSE, multicomment |-> 0, inString |-> FALSE, fresh |-> <<>>]

BeginsOrEnds(c1, c2) == <<c1, c2>> \in {<<"/", "*">>, <<"*", "/">>, <<"/", "/">>}

Removal(text, s, k) ==
    LET c1 == text[k]
        c2 == CharAt(text, k + 1)
        inString == IF CharAt(text, k - 1) # Backslash /\ c1 = Quote
                    THEN ~s.inString ELSE s.inString
        mark == ~inString /\ BeginsOrEnds(c1, c2)
        comment == (s.comment /\ (inString \/ c1 # "\n")) \/ (mark /\ c1 = c2)
        depth == s.multicomment
        passed == comment \/ depth > 0 \/ (~inString /\ c1 \in Blanks)
    IN  IF s.skip THEN [s EXCEPT !.skip = FALSE]
        ELSE [skip |-> mark, comment |-> comment, inString |-> inString,
              multicomment |-> CASE mark /\ c2 = "*" -> depth + 1
                                 [] mark /\ c1 = "*" -> depth - 1
                                 [] ~mark \/ c1 = c2 -> depth,
              fresh |-> IF mark \/ passed THEN s.fresh ELSE Append(s.fresh, c1)]

RemoveWhitespace(text) ==
    LET removal[k \in 0 .. Len(text)] ==
            IF k = 0 THEN RemovalStart ELSE Removal(text, removal[k - 1], k)
    IN  removal[Len(text)].fresh

(* Node::DetermineType, of a text whose white space is removed: its first     *)
(* character tells.  The text may not be empty.                               *)
DetermineType(text) ==
    CASE Head(text) = "{" -> "object"
      [] Head(text) = "[" -> "array"
      [] OTHER -> "value"

-----------------------------------------------------------------------------
(* Parser::tokenize.  Tokens and data are two queues: a value's token says    *)
(* that its text is the next of the data.                                     *)
Token == Structural \cup {"value", "unknown"}
Text == Seq(Characters)
Data == [type : {"string", "number", "bool", "null"}, str : Text]
Datum(type, str) == [type |-> type, str |-> str]

(* interpretValue: the datum of a text outside quotes.                        *)
IsKnown(str) == str \in {<<w>> : w \in Words} \/ ToSet(str) \subseteq Numerals

Interpreted(str) ==
    CASE str = <<"null">> -> Datum("null", <<>>)
      [] str \in {<<"true">>, <<"false">>} -> Datum("bool", str)
      [] ToSet(str) \subseteq Numerals -> Datum("number", str)
      [] ~IsKnown(str) -> Datum("string", str)   \* the unknown token, for the error message

(* The text collected before the current character, if any.                   *)
SaveBuffer(s) ==
    IF s.buffer = <<>> THEN s
    ELSE [s EXCEPT !.tokens = Append(@, IF IsKnown(s.buffer) THEN "value" ELSE "unknown"),
                   !.data = Append(@, Interpreted(s.buffer)),
                   !.buffer = <<>>]

(* readString pushes its text before the text collected so far is saved; the  *)
(* tokens come in the other order.                                            *)
EndString(s) ==
    LET read  == [s EXCEPT !.data = Append(@, Datum("string", s.str)), !.quoted = FALSE]
        saved == SaveBuffer(read)
    IN  [saved EXCEPT !.tokens = Append(@, "value")]

(* A string ends at the first quote that no backslash comes before, or with   *)
(* the text.                                                                  *)
ScanStart == [quoted |-> FALSE, str |-> <<>>, buffer |-> <<>>, tokens |-> <<>>, data |-> <<>>]

EndsString(s, c) == c = Quote /\ (s.str = <<>> \/ Last(s.str) # Backslash)

Scan(text, s, k) ==
    LET c == text[k]
        more == [s EXCEPT !.buffer = Append(@, c)]
    IN  CASE s.quoted /\ EndsString(s, c) -> EndString(s)
          [] s.quoted /\ ~EndsString(s, c) -> [s EXCEPT !.str = Append(@, c)]
          [] ~s.quoted /\ c = Quote -> [s EXCEPT !.quoted = TRUE, !.str = <<>>]
          [] ~s.quoted /\ c \in Structural -> [SaveBuffer(s) EXCEPT !.tokens = Append(@, c)]
          [] ~s.quoted /\ c \notin Structural \cup {Quote} ->
                IF k = Len(text) THEN SaveBuffer(more) ELSE more

ScanAll(text) ==
    LET scan[k \in 0 .. Len(text)] ==
            IF k = 0 THEN ScanStart ELSE Scan(text, scan[k - 1], k)
    IN  scan[Len(text)]

Tokenize(text) == IF ScanAll(text).quoted THEN EndString(ScanAll(text)) ELSE ScanAll(text)
=============================================================================
