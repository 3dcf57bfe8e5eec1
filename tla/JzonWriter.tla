----------------------------- MODULE JzonWriter -----------------------------
(* Jzon::Writer of native/jzon.cpp, with which the recogniser writes its      *)
(* answers.                                                                   *)
EXTENDS JzonText

CONSTANT MaxDepth   \* bound: how deep documents are nested

(* Documents, by how deep they are nested.  Set(type, value) makes a Value of *)
(* any type with any text.                                                    *)
Scalars ==
    [type : {"value"}, valueType : {"string", "number", "bool", "null"}, valueStr : Text]

NodesOf(inner) ==
    Scalars \cup [type : {"object"}, children : Seq([name : Text, node : inner])]
            \cup [type : {"array"}, children : Seq(inner)]

Documents[n \in 0 .. MaxDepth] == NodesOf(IF n = 0 THEN {} ELSE Documents[n - 1])

-----------------------------------------------------------------------------
Formats == [newline : BOOLEAN, spacing : BOOLEAN, useTabs : BOOLEAN, indentSize : Nat]

\* Mutant of EscapeString: backslashes are not escaped.
EscapeAllButBackslash(str) ==
    FlattenSeq([k \in DOMAIN str |->
        IF str[k] \in DOMAIN Escaped \ {Backslash}
        THEN <<Backslash, Escaped[str[k]]>> ELSE <<str[k]>>])

EscapeString(str) ==
    FlattenSeq([k \in DOMAIN str |->
        IF str[k] \in DOMAIN Escaped THEN <<Backslash, Escaped[str[k]]>> ELSE <<str[k]>>])

StandardFormat == [newline |-> TRUE, spacing |-> TRUE, useTabs |-> TRUE, indentSize |-> 1]
NoFormat == [newline |-> FALSE, spacing |-> FALSE, useTabs |-> FALSE, indentSize |-> 0]

Spacing(format) == IF format.spacing THEN <<" ">> ELSE <<>>
NewLine(format) == IF format.newline THEN <<"\n">> ELSE Spacing(format)
Indentation(format, level) ==
    [k \in 1 .. (IF format.newline THEN format.indentSize * level ELSE 0) |->
        IF format.useTabs THEN "\t" ELSE " "]

Quoted(str) == <<Quote>> \o str \o <<Quote>>

WriteValue(node) ==
    CASE node.valueType = "string" -> Quoted(EscapeString(node.valueStr))
      [] node.valueType = "null" -> <<"null">>
      [] node.valueType \in {"number", "bool"} -> node.valueStr

(* A name is written as it is, a string value is escaped.                     *)
Member(format, child, text) == Quoted(child.name) \o <<":">> \o Spacing(format) \o text

\* What comes before the k-th child.
Start(format, level, k) ==
    (IF k = 1 THEN <<>> ELSE <<",">> \o NewLine(format)) \o Indentation(format, level + 1)

Members(format, level, inner, children) ==
    FlattenSeq([k \in DOMAIN children |->
        Start(format, level, k) \o Member(format, children[k], inner[children[k].node])])

Elements(format, level, inner, children) ==
    FlattenSeq([k \in DOMAIN children |-> Start(format, level, k) \o inner[children[k]]])

Between(format, level, open, text, close) ==
    <<open>> \o NewLine(format) \o text
             \o NewLine(format) \o Indentation(format, level) \o <<close>>

WriteNode(format, level, inner, node) ==
    CASE IsObject(node) ->
            Between(format, level, "{", Members(format, level, inner, node.children), "}")
      [] IsArray(node) ->
            Between(format, level, "[", Elements(format, level, inner, node.children), "]")
      [] IsValue(node) -> WriteValue(node)

(* The documents of each depth, from the texts of those that are less deep.   *)
(* The root is at level 0.                                                    *)
Write(root, format) ==
    LET write[n \in 0 .. MaxDepth] ==
            [node \in Documents[n] |->
                WriteNode(format, MaxDepth - n, IF n = 0 THEN <<>> ELSE write[n - 1], node)]
    IN  write[MaxDepth][root]

(* The answer of the recogniser (main.cpp): {"accepted":true} or false.       *)
Answer(recognised) ==
    Object(<<Child(<<"accepted">>, Value("bool", <<IF recognised THEN "true" ELSE "false">>))>>)
=============================================================================
