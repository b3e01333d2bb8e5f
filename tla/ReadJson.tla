------------------------------ MODULE ReadJson ------------------------------
(***************************************************************************)
(* Parsed::read_json (kadena-core/src/parser.rs): the tokenizer, then what *)
(* follows the top-level object, then the keys.  The text of a value, as   *)
(* the review shows it, is in Display.                                     *)
(***************************************************************************)
EXTENDS Jsmn, Json, Display

VARIABLES
  ntok,    \* Parsed::ntok
  result   \* "running", "Ok" or the ParserError

vars == <<jsmnVars, ntok, result>>

Answer(r) == result' = r /\ UNCHANGED jsmnVars

\* The document holds a NUL byte, which is looked for before anything is read.
HasNul ==
  /\ js = <<>> /\ ~ended /\ result = "running"
  /\ Answer("UnexpectedCharacters")
  /\ UNCHANGED ntok

Scan ==
  /\ result = "running"
  /\ Tokenize
  /\ UNCHANGED <<ntok, result>>

ErrorOf ==
  [NoMem |-> "JsonTooManyTokens", Inval |-> "UnexpectedCharacters", Part |-> "JsonIncompleteJson"]

ScanFailed ==
  /\ result = "running" /\ outcome \in {"NoMem", "Inval", "Part"}
  /\ Answer(ErrorOf[outcome])
  /\ UNCHANGED ntok

NoTokens ==
  /\ result = "running" /\ outcome = "Ok" /\ tokens = <<>>
  /\ Answer("JsonZeroTokens")
  /\ UNCHANGED ntok

\* A string's span excludes its closing quote.
RootEnd == tokens[1].end + IF tokens[1].kind = "String" THEN 1 ELSE 0

OnlyWhitespaceAfterRoot == \A i \in RootEnd + 1 .. Len(js) : js[i] \in Whitespace

CheckTokens ==
  /\ result = "running" /\ outcome = "Ok" /\ tokens # <<>>
  /\ ntok' = Len(tokens)
  /\ Answer(IF ~OnlyWhitespaceAfterRoot THEN "UnexpectedUnparsedBytes"
            ELSE check_key_integrity(js, tokens))

Init == JsmnInit /\ ntok = 0 /\ result = "running"

Next == HasNul \/ Scan \/ ScanFailed \/ NoTokens \/ CheckTokens

Spec == Init /\ [][Next]_vars

-----------------------------------------------------------------------------
(* Properties.                                                             *)

Accepted == result = "Ok"

-----------------------------------------------------------------------------
(* Containment of spans: the structure of the document without a walk.     *)

Inside(i, c) ==
  /\ tokens[c].kind \in Containers
  /\ tokens[c].start < tokens[i].start /\ tokens[i].end < tokens[c].end

\* The tokens directly inside a container.
Children(c) ==
  {i \in DOMAIN tokens : Inside(i, c) /\ ~\E d \in DOMAIN tokens : Inside(i, d) /\ Inside(d, c)}

Rank(S, i) == Cardinality({j \in S : j < i})

Keys(c) == {i \in Children(c) : Rank(Children(c), i) % 2 = 0}

ObjectsOf(toks) == {c \in DOMAIN toks : toks[c].kind = "Object"}
ArraysOf(toks) == {c \in DOMAIN toks : toks[c].kind = "Array"}

\* In an accepted document the walks of json.rs, which only compare a start with
\* the last end, find the members and elements that lie directly inside the
\* container, at every depth and however empty the values are: an object is read
\* in pairs of a key and the value written after its colon.
LookupsFollowNesting ==
  Accepted =>
    /\ \A c \in ArraysOf(tokens) :
         /\ Elements(tokens, c) = Children(c)
         /\ array_get_element_count(tokens, c) = Cardinality(Children(c))
         /\ \A n \in 0 .. Cardinality(Children(c)) - 1 :
              Rank(Children(c), array_get_nth_element(tokens, c, n)) = n
    /\ \A c \in ObjectsOf(tokens) :
         /\ ObjectKeys(tokens, c) = Keys(c)
         /\ object_get_element_count(tokens, c) * 2 = Cardinality(Children(c))
         /\ \A n \in 0 .. Cardinality(Keys(c)) - 1 :
              Rank(Children(c), object_get_nth_value(tokens, c, n)) = 2 * n + 1

\* In an accepted document no object has two keys that a decoder reads as one
\* (V4, V18): the member a lookup finds, which is the first with the bytes, is
\* the only one with the name.
MembersAreUnambiguous ==
  Accepted =>
    \A c \in ObjectsOf(tokens) : \A k \in Keys(c) :
      LET key == Span(js, tokens[k])
      IN  /\ object_get_value(js, tokens, c, key) = k + 1
          /\ \A i \in DOMAIN key : key[i] # "\\"

-----------------------------------------------------------------------------
(* Display.                                                                *)

\* Reads a screen text back: \x and its two digits are a byte that is not
\* printable, any other escape is two characters of the value.
ReadBack(text) ==
  LET at(i) == IF i \in DOMAIN text THEN text[i] ELSE "end"
      from[i \in 1 .. Len(text) + 4] ==
        IF i > Len(text) THEN <<>>
        ELSE IF at(i) # "\\" THEN <<at(i)>> \o from[i + 1]
        ELSE IF at(i + 1) = "x" THEN <<"hi">> \o from[i + 4]
        ELSE <<at(i), at(i + 1)>> \o from[i + 2]
  IN  from[1]

\* What the screen shows of a string of an accepted document determines its bytes
\* (V13): no two values look the same, although a value may itself hold the
\* characters of an escape.
ShownTextIsTheValue ==
  Accepted =>
    \A i \in DOMAIN tokens :
      tokens[i].kind = "String" =>
        ReadBack(Shown(Span(js, tokens[i]))) = Span(js, tokens[i])
=============================================================================
