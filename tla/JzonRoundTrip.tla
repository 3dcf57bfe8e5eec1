--------------------------- MODULE JzonRoundTrip ---------------------------
(* The Parser and the Writer of native/jzon.cpp: what is read of a text that  *)
(* was written.                                                               *)
EXTENDS JzonWriter, JzonParser

\* A document's text is the writer's, in any of its formats.
ASSUME WrittenAssumption ==
    /\ MaxDepth \in Nat
    /\ \A w \in Written \cup Rereads :
          /\ w.document \in Documents[MaxDepth] /\ w.format \in Formats /\ w.comment \in Text
          /\ w.text = w.comment \o Write(w.document, w.format)

(* What can be written and read back: no string ends in a backslash (which is *)
(* escaped, so that the closing quote follows a backslash), and names are     *)
(* written without escapes.  Of other types the text is written as it is,     *)
(* and Set(type, value) takes any: the one of a number has to be of digits,   *)
(* points and minus signs (a large double is written with an exponent), that  *)
(* of a bool one of the two words; null has none.                             *)
EndsInBackslash(str) == str # <<>> /\ Last(str) = Backslash
PlainName(nm) ==
    /\ ~EndsInBackslash(nm)
    /\ \A k \in DOMAIN nm : nm[k] = Quote => k > 1 /\ nm[k - 1] = Backslash

CleanValue(type, str) ==
    CASE type = "string" -> ~EndsInBackslash(str)
      [] type = "number" -> str # <<>> /\ ToSet(str) \subseteq Numerals
      [] type = "bool" -> str \in {<<"true">>, <<"false">>}
      [] type = "null" -> str = <<>>

CleanNode(inner, node) ==
    CASE IsObject(node) ->
            \A k \in DOMAIN node.children :
                PlainName(node.children[k].name) /\ inner[node.children[k].node]
      [] IsArray(node) -> \A k \in DOMAIN node.children : inner[node.children[k]]
      [] IsValue(node) -> CleanValue(node.valueType, node.valueStr)

CleanTo[n \in 0 .. MaxDepth] ==
    [node \in Documents[n] |-> CleanNode(IF n = 0 THEN <<>> ELSE CleanTo[n - 1], node)]

Clean(node) == CleanTo[MaxDepth][node]

(* A comment that is passed over: without quotes, and closed.                 *)
Ignorable(note) ==
    LET n == Len(note)
    IN  \/ n = 0
        \/ /\ Quote \notin ToSet(note)
           /\ \A k \in 3 .. n - 2 : note[k] \notin {"/", "*", "\n"}
           /\ \/ n >= 4 /\ note[1] = "/" /\ note[2] = "*" /\ note[n - 1] = "*" /\ note[n] = "/"
              \/ n >= 3 /\ note[1] = "/" /\ note[2] = "/" /\ note[n] = "\n"

(* A value takes the place of the root, children are added to the root's.     *)
Merged(node, more) ==
    IF IsValue(node) \/ IsValue(more) THEN more ELSE [node EXCEPT !.children = @ \o more.children]

(* The Parser reads what the Writer wrote, whatever the format and whatever   *)
(* comment is in front, exactly if the document is clean; it is added to what *)
(* the root held.  The root is of the type that DetermineType finds in the    *)
(* text; of an empty text, which is all there is of a number without digits,  *)
(* it finds none.  Escaping, the end of strings and white space are each      *)
(* implemented twice (jzon.cpp:97, 486-533, 923, 1240), and have to agree.    *)
RoundTrip ==
    /\ source # NoSource /\ parsing \in {"ok", "failed"} /\ ~failedBefore
    /\ Ignorable(comment) /\ json # <<>> /\ DetermineType(json) = given.type
    =>  (parsing = "ok" /\ root = Merged(given, source)) <=> Clean(source)

(* All formats are one to the parser: what is left of a clean document is its *)
(* text without format, blanks and line ends within strings included.         *)
FormatDoesNotMatter ==
    source # NoSource /\ Clean(source) /\ Ignorable(comment) => json = Write(source, NoFormat)
=============================================================================
