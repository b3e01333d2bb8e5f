----------------------------- MODULE MCReadJson -----------------------------
(***************************************************************************)
(* Three families of documents: many containers with the shortest strings  *)
(* and primitives (structure), the same with whitespace anywhere (spaced), *)
(* and members whose strings take every way through parse_string (text).   *)
(***************************************************************************)
EXTENDS ReadJson

VARIABLE family  \* of Families

MCvars == <<vars, family>>

\* The bytes of a family, and its bounds: the length of a document and the
\* number of its tokens.  Only structure reaches MAX_TOKENS, and goes past it.
StructureChars == {"{", "}", "[", "]", ":", ",", "\"", "x"}

Families ==
  [ structure |-> [chars |-> StructureChars, len |-> 17, tokens |-> MAX_TOKENS + 1],
    spaced |-> [chars |-> StructureChars \cup {"tab"}, len |-> 11, tokens |-> 4],
    text |-> [chars |-> {"{", "}", ":", "\"", "\\", "u", "A", "x", "ctl", "hi"},
              len |-> 13, tokens |-> 3] ]

MCChars == UNION {Families[f].chars : f \in DOMAIN Families}

\* Bytes of the string or primitive the scan is in.
InLexeme(d) == Len(d) - start - 1

\* At most n bytes are read after the top-level object.
Trailing(d, n) == expect = "Done" /\ Len(d) >= RootEnd + n

\* Structure: a string holds at most one byte, x or a brace; a primitive is one x.
StructureReads(d, m, c) ==
  CASE Trailing(d, 3) -> FALSE
    [] m = "scan" -> TRUE
    [] m = "string" -> c = "\"" \/ (c \in {"x", "}"} /\ InLexeme(d) < 1)
    [] OTHER -> c \in Stops

\* Text: a string of at most six bytes, none of them structural but quotes; a
\* key is one byte or one escape, a primitive at most two bytes.
TextReads(d, m, c) ==
  CASE Trailing(d, 2) -> FALSE
    [] m = "scan" -> TRUE
    [] m = "primitive" -> (c \in {"x", "\"", "hi"} /\ InLexeme(d) < 1) \/ c \in Stops
    [] OTHER -> \/ c = "\""
                \/ /\ c \notin Structure
                   /\ IF Len(tokens) # 1 THEN InLexeme(d) < 6
                      ELSE m = "escape" \/ (c \in {"x", "\\"} /\ InLexeme(d) < 1)

MCReads(d, m, c) ==
  /\ c \in Families[family].chars
  /\ Len(d) < Families[family].len
  /\ m = "scan" /\ Len(tokens) >= Families[family].tokens => c \in Stops
  /\ IF family = "text" THEN TextReads(d, m, c) ELSE StructureReads(d, m, c)

MCInit == Init /\ family \in DOMAIN Families

MCNext == Next /\ UNCHANGED family

MCSpec == MCInit /\ [][MCNext]_MCvars

-----------------------------------------------------------------------------
(* The documents of each family, from the grammar.                         *)

StructureBodies == {<<>>, <<"x">>, <<"}">>}

Prepend(S, T) == {s \o t : s \in S, t \in T}

\* String bodies of n bytes: printable bytes, escapes, and \u with its digits.
RECURSIVE BodiesOf(_)
BodiesOf(n) ==
  IF n = 0 THEN {<<>>}
  ELSE Prepend({<<c>> : c \in {"u", "A", "x", "hi"}}, BodiesOf(n - 1))
         \cup (IF n < 2 THEN {}
               ELSE Prepend({<<"\\", c>> : c \in {"\"", "\\"}}, BodiesOf(n - 2)))
         \cup (IF n < 6 THEN {}
               ELSE Prepend({<<"\\", "u">> \o h : h \in [1 .. 4 -> {"A"}]}, BodiesOf(n - 6)))

SeqsUpTo(S, n) == UNION {[1 .. k -> S] : k \in 0 .. n}

TextPrimitives ==
  {s \in SeqsUpTo(Families.text.chars, 2) :
     /\ s # <<>>
     /\ s[1] \notin Structure
     /\ \A i \in DOMAIN s : s[i] \notin Stops \cup {"hi", "ctl"}}

StructureTexts == INSTANCE JsonGrammar WITH
  Chars <- Families.structure.chars, KeyBodies <- StructureBodies,
  Bodies <- StructureBodies, Primitives <- {<<"x">>}

SpacedTexts == INSTANCE JsonGrammar WITH
  Chars <- Families.spaced.chars, KeyBodies <- StructureBodies,
  Bodies <- StructureBodies, Primitives <- {<<"x">>}, MAX_TOKENS <- Families.spaced.tokens

TextTexts == INSTANCE JsonGrammar WITH
  Chars <- Families.text.chars, KeyBodies <- {<<>>, <<"x">>, <<"\\", "\"">>, <<"\\", "\\">>},
  Bodies <- UNION {BodiesOf(n) : n \in 0 .. 6}, Primitives <- TextPrimitives,
  MAX_TOKENS <- Families.text.tokens

StructureDocuments == StructureTexts!Documents(Families.structure.len)
SpacedDocuments == SpacedTexts!Documents(Families.spaced.len)
TextDocuments == TextTexts!Documents(Families.text.len)

Documents == [structure |-> StructureDocuments, spaced |-> SpacedDocuments, text |-> TextDocuments]

Whole == [f \in DOMAIN Families |-> {d.text : d \in Documents[f]}]

Beginnings == [f \in DOMAIN Families |-> UNION {Prefixes(d) : d \in Whole[f]}]

\* What the tokenizer and the check of the trailing bytes let through is a JSON
\* object and nothing else, and the tokens are exactly those of its parts, in the
\* order of the document (F-3, V12): none is missing because the array was full,
\* none is written past its end, none has the span or the kind of another.
TokensAreTheDocument ==
  /\ Len(tokens) <= MAX_TOKENS
  /\ ntok > 0 /\ result # "UnexpectedUnparsedBytes" /\ result # "running"
       => [text |-> js, toks |-> tokens] \in Documents[family]

Broken == outcome \in {"Inval", "NoMem"} \/ result = "UnexpectedUnparsedBytes"

\* No document of the grammar whose tokens fit the array is refused for its
\* structure, and none is called incomplete before its end: a refusal for bad
\* characters or for too many tokens comes at a byte after which no such document
\* can follow.
NoDocumentIsRefused ==
  /\ Broken => js \notin Beginnings[family]
  /\ result \in {"JsonIncompleteJson", "JsonZeroTokens"} => js \notin Whole[family]
=============================================================================
