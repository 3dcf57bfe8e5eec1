----------------------------- MODULE JzonParser -----------------------------
(* Jzon::Parser of native/jzon.cpp: Parse tokenizes a text and assembles its  *)
(* tokens into the root node that the parser was created with.  The queues of *)
(* tokens and data belong to the parser, and the root to its user: neither is *)
(* emptied between one Parse and the next.                                    *)
EXTENDS JzonText, FiniteSets

CONSTANTS
    Roots,       \* what parsers are created with
    Written,     \* documents that are written and read back, each with its
                 \* format, a comment to put in front, and the text of it all
    Texts,       \* other texts
    Rereads,     \* bound: those of Written that are read after another text ...
    MaxParses    \* ... and calls of Parse

\* A node is of one of three types, and has its children in a row.
IsNode(node) ==
    /\ IsObject(node) \/ IsArray(node) \/ IsValue(node)
    /\ IsValue(node) \/ node.children \in Seq(Range(node.children))

ASSUME RootsAssumption == \A node \in Roots : IsNode(node)
ASSUME TextsAssumption ==
    /\ \A w \in Written \cup Rereads : w.text \in Text
    /\ Texts \subseteq Text
ASSUME MaxParsesAssumption == MaxParses \in Nat

VARIABLES
    root,        \* the root node
    given,       \* history: the root as it was before this Parse
    source,      \* history: the document that the text was written from, if any
    comment,     \* history: the comment in front of it
    json,        \* Parser::json: the text without its white space
    tokens,      \* Parser::tokens
    data,        \* Parser::data
    nodeStack,   \* locals of assemble: the nodes that are open, ...
    name,        \* ... and the name of the next
    parsing,     \* where the parser is, or how Parse ended
    parses,      \* history: calls of Parse
    failedBefore \* history: whether an earlier Parse of this parser failed

parserVars == <<root, given, source, comment, json, tokens, data, nodeStack, name,
                parsing, parses, failedBefore>>

NoSource == Value("none", <<>>)

-----------------------------------------------------------------------------
ParserInit ==
    /\ root \in Roots /\ given = root
    /\ source = NoSource /\ comment = <<>>
    /\ json = <<>> /\ tokens = <<>> /\ data = <<>>
    /\ nodeStack = <<>> /\ name = <<>>
    /\ parsing = "idle" /\ parses = 0 /\ failedBefore = FALSE

(* SetJson and the first half of Parse.                                       *)
StartParse(text) ==
    /\ parsing \in {"idle", "ok", "failed"} /\ parses < MaxParses
    /\ json' = RemoveWhitespace(text)
    /\ LET end == Tokenize(json')
       IN  tokens' = tokens \o end.tokens /\ data' = data \o end.data
    /\ nodeStack' = <<>> /\ name' = <<>>
    /\ parsing' = "assembling" /\ parses' = parses + 1
    /\ given' = root /\ failedBefore' = (failedBefore \/ parsing = "failed")
    /\ UNCHANGED root

ParseWritten ==
    \E w \in IF parses = 0 THEN Written ELSE Rereads :
        /\ source' = w.document /\ comment' = w.comment
        /\ StartParse(w.text)

ParseText ==
    /\ source' = NoSource /\ comment' = <<>>
    /\ \E text \in Texts : StartParse(text)

(* Another parser for the same root, which is how FileReader::Read uses one.  *)
NewParser ==
    /\ parsing \in {"ok", "failed"} /\ parses < MaxParses
    /\ json' = <<>> /\ tokens' = <<>> /\ data' = <<>>
    /\ source' = NoSource /\ comment' = <<>>
    /\ nodeStack' = <<>> /\ name' = <<>>
    /\ parsing' = "idle" /\ failedBefore' = FALSE
    /\ UNCHANGED <<root, given, parses>>

-----------------------------------------------------------------------------
(* assemble, one token at a time.  The node at the bottom of the stack is the *)
(* root itself: what is added to it is added to the root.                     *)
Taking(token) == parsing = "assembling" /\ tokens # <<>> /\ Head(tokens) = token

Fails == parsing' = "failed"

Frame(node) == [name |-> name, node |-> node]

\* The node that a frame of the stack holds: the lowest one is the root.
Open(stack) == IF Len(stack) = 1 THEN root ELSE Last(stack).node

\* Mutant of With: a child takes the place of those of its name.
WithReplaced(parent, nm, node) ==
    CASE IsObject(parent) ->
            Object(Append(SelectSeq(parent.children, LAMBDA child : child.name # nm),
                          Child(nm, node)))
      [] IsArray(parent)  -> Array(Append(parent.children, node))
      [] IsValue(parent)  -> parent

(* Add.  A node that is neither object nor array takes no children.           *)
With(parent, nm, node) ==
    CASE IsObject(parent) -> Object(Append(parent.children, Child(nm, node)))
      [] IsArray(parent)  -> Array(Append(parent.children, node))
      [] IsValue(parent)  -> parent

AddTo(stack, nm, node) ==
    LET parent == With(Open(stack), nm, node)
    IN  IF Len(stack) = 1
        THEN root' = parent /\ nodeStack' = stack
        ELSE nodeStack' = [stack EXCEPT ![Len(stack)].node = parent] /\ UNCHANGED root

UnknownToken ==
    /\ Taking("unknown")
    /\ tokens' = Tail(tokens) /\ data' = Tail(data)
    /\ Fails
    /\ UNCHANGED <<root, nodeStack, name>>

(* The beginning of an object or array: of the root, which has to be one, or  *)
(* of a new node.                                                             *)
Begin(token, empty) ==
    /\ Taking(token)
    /\ tokens' = Tail(tokens)
    /\ IF nodeStack = <<>> /\ root.type # empty.type
       THEN Fails /\ UNCHANGED <<nodeStack, name>>
       ELSE /\ nodeStack' = Append(nodeStack, Frame(empty))
            /\ name' = <<>>
            /\ UNCHANGED parsing
    /\ UNCHANGED <<root, data>>

(* The end of an object or array: it is added to the one it is in.            *)
End(token, type) ==
    /\ Taking(token)
    /\ tokens' = Tail(tokens)
    /\ LET rest == Front(nodeStack)
       IN  CASE nodeStack = <<>> -> Fails /\ UNCHANGED <<root, nodeStack>>
             [] nodeStack # <<>> /\ Open(nodeStack).type # type ->
                   Fails /\ UNCHANGED <<root, nodeStack>>
             [] nodeStack # <<>> /\ Open(nodeStack).type = type ->
                   IF rest = <<>>
                   THEN nodeStack' = rest /\ UNCHANGED <<root, parsing>>
                   ELSE IF IsValue(Open(rest))
                        THEN Fails /\ nodeStack' = rest /\ UNCHANGED root
                        ELSE /\ AddTo(rest, Last(nodeStack).name, Open(nodeStack))
                             /\ UNCHANGED parsing
    /\ UNCHANGED <<data, name>>

(* A separator changes nothing, wherever it is.                               *)
Separator ==
    /\ Taking(",") \/ Taking(":")
    /\ tokens' = Tail(tokens)
    /\ UNCHANGED <<root, data, nodeStack, name, parsing>>

IsName == Len(tokens) >= 2 /\ tokens[2] = ":"

\* Mutant of ReadName: the name stays in the queue.
ReadNameAndKeep ==
    /\ Taking("value") /\ IsName
    /\ tokens' = Tail(Tail(tokens))
    /\ IF Head(data).type = "string"
       THEN name' = Head(data).str /\ UNCHANGED parsing
       ELSE Fails /\ UNCHANGED name
    /\ UNCHANGED <<root, nodeStack, data>>

(* A value before a colon is a name: its datum stays in the queue if it is no *)
(* string.                                                                    *)
ReadName ==
    /\ Taking("value") /\ IsName
    /\ tokens' = Tail(Tail(tokens))
    /\ IF Head(data).type = "string"
       THEN name' = Head(data).str /\ data' = Tail(data) /\ UNCHANGED parsing
       ELSE Fails /\ UNCHANGED <<name, data>>
    /\ UNCHANGED <<root, nodeStack>>

(* Any other value: the root, which has to be one, or a child.                *)
ReadValue ==
    /\ Taking("value") /\ ~IsName
    /\ tokens' = Tail(tokens)
    /\ LET datum == Head(data)
           node == IF datum.type = "string" THEN StringValue(datum.str)
                                            ELSE Value(datum.type, datum.str)
       IN  CASE nodeStack = <<>> /\ ~IsValue(root) ->
                  /\ Fails
                  /\ UNCHANGED <<root, nodeStack, name, data>>
             [] nodeStack = <<>> /\ IsValue(root) ->
                  /\ root' = node /\ nodeStack' = <<Frame(node)>>
                  /\ name' = <<>> /\ data' = Tail(data)
                  /\ UNCHANGED parsing
             [] nodeStack # <<>> ->
                  /\ AddTo(nodeStack, name, node)
                  /\ name' = <<>> /\ data' = Tail(data)
                  /\ UNCHANGED parsing

EndOfTokens ==
    /\ parsing = "assembling" /\ tokens = <<>>
    /\ parsing' = "ok"
    /\ UNCHANGED <<root, tokens, data, nodeStack, name>>

Assemble ==
    /\ \/ UnknownToken \/ Separator \/ ReadName \/ ReadValue \/ EndOfTokens
       \/ Begin("{", EmptyObject) \/ Begin("[", EmptyArray)
       \/ End("}", "object") \/ End("]", "array")
    /\ UNCHANGED <<given, source, comment, json, parses, failedBefore>>

ParserNext == ParseWritten \/ ParseText \/ NewParser \/ Assemble

ParserSpec == ParserInit /\ [][ParserNext]_parserVars

-----------------------------------------------------------------------------
ParserTypeOK ==
    /\ root.type = given.type
    /\ tokens \in Seq(Token)
    /\ data \in Seq(Data)
    /\ \A k \in DOMAIN nodeStack : IsValue(nodeStack[k].node) => k = 1 /\ IsValue(root)
    /\ nodeStack # <<>> => nodeStack[1].node.type = root.type
    /\ parsing \in {"idle", "assembling", "ok", "failed"}
    /\ parses \in 0 .. MaxParses

(* The two queues keep pace (jzon.cpp:1020-1045, 1157-1199): every value's    *)
(* token has its datum, so that front() is never called on an empty queue,    *)
(* and there is nothing else in data - until a Parse fails, which leaves what *)
(* is left in the queues, and takes the token of some values alone.           *)
Values(queue) == {k \in DOMAIN queue : queue[k] \in {"value", "unknown"}}

QueuesKeepPace ==
    /\ Len(data) >= Cardinality(Values(tokens))
    /\ ~failedBefore /\ parsing # "failed" => Len(data) = Cardinality(Values(tokens))

(* A parse never changes or removes what the root already holds, be it from   *)
(* an earlier parse or from one that fails half-way.  Whoever reads a document *)
(* into a root that is in use gets the old values: Get answers the first of a *)
(* name, and Add does not look for one (jzon.cpp:573, 647).                   *)
RootOnlyGrows ==
    [][ /\ root'.type = root.type
        /\ ~IsValue(root) => IsPrefix(root.children, root'.children)
        /\ IsObject(root) =>
              \A k \in DOMAIN root.children :
                  LET nm == root.children[k].name IN Get(root', nm) = Get(root, nm)
      ]_parserVars
=============================================================================
