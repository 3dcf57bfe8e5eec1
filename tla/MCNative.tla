------------------------------ MODULE MCNative ------------------------------
(* Small instances of the recogniser's algorithms.  They share nothing: each  *)
(* behaviour is one of them at work while the others rest.                    *)
EXTENDS ImageMessage, Preflight, JzonRoundTrip

VARIABLE task

vars == <<task, messageVars, preflightVars, parserVars>>

-----------------------------------------------------------------------------
(* ImageMessage, with bytes of four values: a word is less than 256, an int   *)
(* at most 127.                                                               *)
MCMagic == <<3, 2, 0, 1>>
MCSent == {<<>>, <<1>>, <<2, 3>>}

\* Counts and sizes that fit, that do not, and that are negative as an int.
Counts == {0, 1, 2, 3, Word \div 4, Word \div 2 - 1, Word \div 2, Word - 1}
Claimed == {0, 1, 2, 3, Word \div 2 - 1, Word - 2}
Trailers == {<<>>, <<1, 2>>, <<3, 0, 2, 1, 1>>}
Framed == UNION {{MCMagic \o WriteBEInt32(n) \o t,
                  MCMagic \o WriteBEInt32(n) \o WriteBEInt32(a) \o t,
                  MCMagic \o WriteBEInt32(n) \o WriteBEInt32(a) \o WriteBEInt32(b) \o t} :
                     n \in Counts, a \in Claimed, b \in Claimed, t \in Trailers}

\* Beginnings of a message of two images, and one that is no message.
Two == WriteAmqpBytes(<<<<1>>, <<2, 3>>>>)
Cut == {SubSeq(Two, 1, n) : n \in 0 .. Len(Two)}

\* Around a body: zeros, or bytes that could be its own.
MCMemories == {[k \in 1 .. MaxInt |-> b] : b \in {0, 3}}

MCBodies == Framed \cup Cut \cup {<<3, 2, 1, 0>> \o WriteBEInt32(0)}

-----------------------------------------------------------------------------
(* Preflight, with three places instead of ten.                               *)
MCShorts == -1 .. 3
MCLowest == -2

-----------------------------------------------------------------------------
(* JzonParser: documents of all kinds of values, names and nesting.           *)
MCCharacters ==
    Words \cup Numerals \cup {"\n", " ", "\t", "\r", "\f"} \cup Structural
        \cup {Quote, Backslash, Backspace, "/", "*", "n", "t", "b", "f", "r"}
        \cup {"a", "e", "+", "accepted"}

String(str) == Value("string", str)
Number(str) == Value("number", str)
One == Number(<<"1">>)
Large == Number(<<"1", "e", "+", "0", "6">>)
Special == UNION {[1 .. n -> {"n", Backslash, Quote, "\n"}] : n \in 0 .. 2}
Leaves == {String(str) : str \in Special}
              \cup {One, Number(<<"-", "1", ".", "5">>), Large, Null, Value("bool", <<"true">>),
                    Number(<<>>), Value("bool", <<"1">>), Value("null", <<"1">>)}

Few == {String(<<>>), String(<<"a", " ", "/", "/">>), String(<<Backslash>>), Large, Null,
        Number(<<>>), EmptyArray, EmptyObject}
Names == {<<>>, <<Quote>>, <<Backslash, Quote>>, <<"a", Backslash>>}
MCDocuments ==
    UNION {
        Leaves,
        {EmptyObject, EmptyArray},
        {Array(<<v>>) : v \in Few},
        {Array(<<v, w>>) : v \in Few, w \in {One, String(<<Backslash>>)}},
        {Object(<<Child(n, v)>>) : n \in Names, v \in Few},
        {Object(<<Child(n, One), Child(<<"a">>, Array(<<v>>))>>) : n \in Names, v \in Few} }

\* The answers of the recogniser, and a document with blanks and slashes.
Answers == {Answer(TRUE), Answer(FALSE)}
Spaced == Array(<<String(<<"a", " ", "/", "/">>), Object(<<Child(<<" ">>, Array(<<Null>>))>>)>>)

MCFormats == {NoFormat, StandardFormat,
              [newline |-> FALSE, spacing |-> TRUE, useTabs |-> FALSE, indentSize |-> 2],
              [newline |-> TRUE, spacing |-> FALSE, useTabs |-> FALSE, indentSize |-> 2]}
Comments == {<<>>, <<"/", "*", "a", "*", "/">>, <<"/", "/", "a", "\n">>,
             <<"/", "*", Quote, "*", "/">>}

WrittenAs(documents, formats, comments) ==
    {[document |-> document, format |-> format, comment |-> note,
      text |-> note \o Write(document, format)] :
        document \in documents, format \in formats, note \in comments}
MCWritten == WrittenAs(MCDocuments, {NoFormat, StandardFormat}, {<<>>})
                 \cup WrittenAs(Answers \cup {Spaced}, MCFormats, Comments)
MCRereads == WrittenAs({Answer(TRUE), Array(<<One>>), One}, {NoFormat}, {<<>>})
MCRoots == {EmptyObject, EmptyArray, Null}

\* Texts that nobody wrote: not closed, not opened, names that are none, a
\* number before a string, unknown words, several roots.
A == <<Quote, "a", Quote>>
MCTexts ==
    { <<>>, <<"}">>, <<"[", "[", "1">>, <<"{">> \o A \o <<":", "1", "}", "]">>,
      <<"{">> \o A \o <<":", "1", ",", "}">>, <<"1", ":", "2">>, <<"{", "1", ":", "2", "}">>,
      <<"[", "1">> \o A \o <<"]">>, <<"[", "a", "1">>, <<"1", "1", ",", "2">>,
      <<"1", "{">> \o A \o <<":", "null", "}">>, <<"{", "}", "{">> \o A \o <<"1">> }

-----------------------------------------------------------------------------
\* A task that does not run has one state.
MessageRests ==
    /\ body = <<>> /\ count = 0 /\ i = 0 /\ dataStart = 0 /\ images = <<>>
    /\ reading = "header" /\ written = NotOurs /\ writes = 0
ParserRests ==
    ParserInit /\ root = Null

Init ==
    /\ task \in {"message", "preflight", "json"}
    /\ IF task = "message" THEN MessageInit ELSE MessageRests
    /\ PreflightInit
    /\ IF task = "json" THEN ParserInit ELSE ParserRests

Next ==
    /\ UNCHANGED task
    /\ \/ task = "message" /\ MessageNext /\ UNCHANGED <<preflightVars, parserVars>>
       \/ task = "preflight" /\ PreflightNext /\ UNCHANGED <<messageVars, parserVars>>
       \/ task = "json" /\ ParserNext /\ UNCHANGED <<messageVars, preflightVars>>

Spec == Init /\ [][Next]_vars

TypeOK == MessageTypeOK /\ PreflightTypeOK /\ ParserTypeOK
=============================================================================
