-------------------------------- MODULE Jsmn --------------------------------
(***************************************************************************)
(* The strict JSON tokenizer (kadena-core/src/jsmn.rs, parse_strict).      *)
(*                                                                         *)
(* The document is chosen byte by byte as the tokenizer reaches it, which  *)
(* is the same as choosing it beforehand: nothing is decided by a byte that*)
(* was not reached.  mode says which loop the scan is in: the main loop of *)
(* parse_impl, parse_primitive, or parse_string at a byte, after a         *)
(* backslash, or among the digits of a \u escape.                          *)
(*                                                                         *)
(* A byte is the class the tokenizer puts it in: the structural characters *)
(* stand for themselves, "t" for an escape letter that is not a hex digit, *)
(* "b" for one that is (b, f), "A" for any other hex digit, "x" for any    *)
(* other printable byte; " " is the space, "tab" a whitespace byte below   *)
(* 0x20, "ctl" another byte below 0x20, "hi" a byte from 0x7F on.          *)
(* Positions count from 0 as in the code, tokens from 1: toksuper is 0     *)
(* where the code has -1.                                                  *)
(***************************************************************************)
EXTENDS Integers, Sequences, FiniteSets, FiniteSetsExt

CONSTANTS
  Chars,           \* the classes of bytes the documents are made of
  MAX_TOKENS,      \* 768, or 110 on Nano X
  MaxLen,          \* bound on the documents: their length
  Reads(_, _, _)   \* bound on the documents: which byte may follow, given the
                   \* document so far, the mode, and the byte

AllChars ==
  {"{", "}", "[", "]", ":", ",", "\"", "\\", "u", "t", "b", "A", "x", " ", "tab", "ctl", "hi"}

\* The "not set" position of a span.
UNSET == 65535

ASSUME CharsAssumption == Chars \subseteq AllChars
ASSUME TokensAssumption == MAX_TOKENS \in Nat
ASSUME LenAssumption == MaxLen \in Nat /\ MaxLen < UNSET

VARIABLES
  js,        \* the document as far as it has been reached
  ended,     \* whether that is all of it
  pos,       \* Parser::pos
  mode,      \* the loop the scan is in
  start,     \* parse_string, parse_primitive: where the token begins
  hex,       \* parse_string: digits of a \u escape read so far
  tokens,    \* the tokens written; toknext is their number
  toksuper,  \* Parser::toksuper
  expect,    \* what the grammar accepts next
  outcome    \* "running", "Ok", or the JsmnError

jsmnVars == <<js, ended, pos, mode, start, hex, tokens, toksuper, expect, outcome>>

-----------------------------------------------------------------------------
(* Tokens.                                                                 *)

Token(kind, from, to) == [kind |-> kind, start |-> from, end |-> to]

is_open(t) == t.start # UNSET /\ t.end = UNSET

Containers == {"Object", "Array"}

OpenBelow(toks, n) == {i \in DOMAIN toks : i < n /\ is_open(toks[i])}

\* The last open token before token n, 0 if there is none.
InnermostOpen(toks, n) == IF OpenBelow(toks, n) = {} THEN 0 ELSE Max(OpenBelow(toks, n))

\* alloc_token fails.
Full == Len(tokens) >= MAX_TOKENS

-----------------------------------------------------------------------------
(* The grammar: what each state of the scan accepts, and what follows.     *)

Whitespace == {" ", "tab"}

Structure == {"{", "}", "[", "]", ":", ",", "\""}

\* A byte as the grammar sees it.
Lexeme(c) == IF c \in Structure THEN c ELSE "primitive"

Accepts_TrailingComma ==
  [ Root |-> {"{"}, Value |-> {"{", "[", "\"", "primitive", "]"},
    ValueOrClose |-> {"{", "[", "\"", "primitive", "]"},
    Key |-> {"\"", "}"}, KeyOrClose |-> {"\"", "}"}, Colon |-> {":"},
    CommaOrClose |-> {",", "}", "]"}, Done |-> Structure \cup {"primitive"} ]

Accepts ==
  [ Root |-> {"{"}, Value |-> {"{", "[", "\"", "primitive"},
    ValueOrClose |-> {"{", "[", "\"", "primitive", "]"},
    Key |-> {"\""}, KeyOrClose |-> {"\"", "}"}, Colon |-> {":"},
    CommaOrClose |-> {",", "}", "]"}, Done |-> Structure \cup {"primitive"} ]

\* The grammar is checked up to the end of the top-level object.
check == expect # "Done"

Expect(e) == expect' = IF check THEN e ELSE expect

-----------------------------------------------------------------------------
(* Steps.                                                                  *)

Here == js[pos + 1]

\* The loop named has a byte to look at.
In(m) == outcome = "running" /\ mode = m /\ pos < Len(js)

\* The main loop is at a byte that the grammar accepts.
Scanning(c) == In("scan") /\ Here = c /\ Lexeme(c) \in Accepts[expect]

Return(error) ==
  /\ outcome' = error
  /\ UNCHANGED <<js, ended, pos, mode, start, hex, tokens, toksuper, expect>>

Advance == pos' = pos + 1 /\ UNCHANGED <<js, ended, outcome>>

Read(c) ==
  /\ outcome = "running" /\ ~ended /\ pos = Len(js) /\ Len(js) < MaxLen
  /\ Reads(js, mode, c)
  /\ js' = Append(js, c)
  /\ UNCHANGED <<ended, pos, mode, start, hex, tokens, toksuper, expect, outcome>>

ReadEnd ==
  /\ outcome = "running" /\ ~ended /\ pos = Len(js)
  /\ ended' = TRUE
  /\ UNCHANGED <<js, pos, mode, start, hex, tokens, toksuper, expect, outcome>>

\* Every branch of parse_impl refuses first what the grammar does not accept.
NotGrammar ==
  /\ In("scan") /\ Here \notin Whitespace
  /\ Lexeme(Here) \notin Accepts[expect]
  /\ Return("Inval")

SkipWhitespace ==
  /\ In("scan") /\ Here \in Whitespace
  /\ Advance
  /\ UNCHANGED <<mode, start, hex, tokens, toksuper, expect>>

Open(c, kind, then) ==
  /\ Scanning(c)
  /\ IF Full THEN Return("NoMem")
     ELSE /\ Advance
          /\ tokens' = Append(tokens, Token(kind, pos, UNSET))
          /\ toksuper' = Len(tokens) + 1
          /\ Expect(then)
          /\ UNCHANGED <<mode, start, hex>>

OpenObject == Open("{", "Object", "KeyOrClose")

OpenArray == Open("[", "Array", "ValueOrClose")

\* A closing bracket closes the innermost open token, which must be of its kind.
Close(c, kind) ==
  /\ Scanning(c)
  /\ LET i == InnermostOpen(tokens, Len(tokens) + 1)
     IN  IF i = 0 THEN Return("Inval")
         ELSE IF tokens[i].kind # kind THEN Return("Inval")
         ELSE /\ Advance
              /\ tokens' = [tokens EXCEPT ![i].end = pos + 1]
              /\ toksuper' = InnermostOpen(tokens, i)
              /\ Expect(IF toksuper' # 0 THEN "CommaOrClose" ELSE "Done")
              /\ UNCHANGED <<mode, start, hex>>

CloseObject == Close("}", "Object")

CloseArray == Close("]", "Array")

Colon ==
  /\ Scanning(":")
  /\ Advance
  /\ toksuper' = Len(tokens)
  /\ Expect("Value")
  /\ UNCHANGED <<mode, start, hex, tokens>>

SuperAtComma_Kept == toksuper

\* A comma points toksuper back at the innermost open container.
SuperAtComma ==
  LET open == {i \in OpenBelow(tokens, Len(tokens) + 1) : tokens[i].kind \in Containers}
  IN  IF (toksuper # 0 /\ tokens[toksuper].kind \in Containers) \/ open = {}
      THEN toksuper ELSE Max(open)

\* open_container
OpenContainer(i) ==
  IF i # 0 /\ is_open(tokens[i]) /\ tokens[i].kind \in Containers
  THEN tokens[i].kind ELSE "None"

Comma ==
  /\ Scanning(",")
  /\ IF check /\ OpenContainer(SuperAtComma) = "None" THEN Return("Inval")
     ELSE /\ Advance
          /\ toksuper' = SuperAtComma
          /\ Expect(IF OpenContainer(SuperAtComma) = "Object" THEN "Key" ELSE "Value")
          /\ UNCHANGED <<mode, start, hex, tokens>>

-----------------------------------------------------------------------------
(* parse_string.                                                           *)

OpenString ==
  /\ Scanning("\"")
  /\ Advance
  /\ mode' = "string" /\ start' = pos
  /\ Expect(IF expect \in {"Key", "KeyOrClose"} THEN "Colon" ELSE "CommaOrClose")
  /\ UNCHANGED <<hex, tokens, toksuper>>

\* check is as it was at the quote: a string does not end the top-level object.
StringByte ==
  /\ In("string") /\ Here \notin {"\"", "\\"}
  /\ IF check /\ Here \in {"tab", "ctl"} THEN Return("Inval")
     ELSE Advance /\ UNCHANGED <<mode, start, hex, tokens, toksuper, expect>>

CloseString ==
  /\ In("string") /\ Here = "\""
  /\ IF Full THEN Return("NoMem")
     ELSE /\ Advance
          /\ tokens' = Append(tokens, Token("String", start + 1, pos))
          /\ mode' = "scan"
          /\ UNCHANGED <<start, hex, toksuper, expect>>

Backslash ==
  /\ In("string") /\ Here = "\\"
  /\ Advance
  /\ mode' = "escape"
  /\ UNCHANGED <<start, hex, tokens, toksuper, expect>>

\* The characters of a two-character escape: "b" and "t" are its letters.
EscapeLetters == {"\"", "\\", "t", "b"}

Escape ==
  /\ In("escape")
  /\ IF Here \notin EscapeLetters \cup {"u"} THEN Return("Inval")
     ELSE /\ Advance
          /\ mode' = IF Here = "u" THEN "hex" ELSE "string"
          /\ hex' = 0
          /\ UNCHANGED <<start, tokens, toksuper, expect>>

is_hex(c) == c \in {"A", "b"}

HexDigit ==
  /\ In("hex")
  /\ IF ~is_hex(Here) THEN Return("Inval")
     ELSE /\ Advance
          /\ hex' = hex + 1
          /\ mode' = IF hex + 1 = 4 THEN "string" ELSE "hex"
          /\ UNCHANGED <<start, tokens, toksuper, expect>>

\* The document ends inside a string.
EndInString ==
  /\ outcome = "running" /\ ended /\ pos = Len(js)
  /\ mode \in {"string", "escape", "hex"}
  /\ Return("Part")

-----------------------------------------------------------------------------
(* parse_primitive.                                                        *)

\* A quote or an opening bracket does not end a primitive.
Stops == {":", ",", "]", "}"} \cup Whitespace

OpenPrimitive ==
  /\ In("scan") /\ Here \notin Structure \cup Whitespace
  /\ "primitive" \in Accepts[expect]
  /\ mode' = "primitive" /\ start' = pos
  /\ Expect("CommaOrClose")
  /\ UNCHANGED <<js, ended, pos, hex, tokens, toksuper, outcome>>

PrimitiveByte ==
  /\ In("primitive") /\ Here \notin Stops
  /\ IF Here \in {"ctl", "hi"} THEN Return("Inval")
     ELSE Advance /\ UNCHANGED <<mode, start, hex, tokens, toksuper, expect>>

PrimitiveAtEnd ==
  /\ outcome = "running" /\ mode = "primitive"
  /\ IF pos < Len(js) THEN Here \in Stops ELSE ended

ClosePrimitive ==
  /\ PrimitiveAtEnd
  /\ IF Full THEN Return("NoMem")
     ELSE /\ tokens' = Append(tokens, Token("Primitive", start, pos))
          /\ mode' = "scan"
          /\ UNCHANGED <<js, ended, pos, start, hex, toksuper, expect, outcome>>

-----------------------------------------------------------------------------

\* The end of parse_impl.
EndOfScan ==
  /\ outcome = "running" /\ ended /\ pos = Len(js) /\ mode = "scan"
  /\ Return(IF \E i \in DOMAIN tokens : is_open(tokens[i]) THEN "Part" ELSE "Ok")

JsmnInit ==
  /\ js = <<>> /\ ended = FALSE
  /\ pos = 0 /\ mode = "scan" /\ start = 0 /\ hex = 0
  /\ tokens = <<>> /\ toksuper = 0
  /\ expect = "Root"
  /\ outcome = "running"

Tokenize ==
  \/ \E c \in Chars : Read(c)
  \/ ReadEnd
  \/ NotGrammar \/ SkipWhitespace
  \/ OpenObject \/ OpenArray \/ CloseObject \/ CloseArray \/ Colon \/ Comma
  \/ OpenString \/ StringByte \/ CloseString \/ Backslash \/ Escape \/ HexDigit \/ EndInString
  \/ OpenPrimitive \/ PrimitiveByte \/ ClosePrimitive
  \/ EndOfScan
=============================================================================
