---------------------------- MODULE JsonGrammar -----------------------------
(***************************************************************************)
(* The reference for the tokenizer: every text of the JSON grammar up to a *)
(* length, with the tokens of its parts, built up from shorter ones.       *)
(* A primitive is any run of printable bytes that starts like one, as      *)
(* docs/apdu.md (28) leaves it.                                            *)
(***************************************************************************)
EXTENDS Integers, Sequences, FiniteSets

CONSTANTS
  Chars,        \* the classes of bytes the texts are made of, as in Jsmn
  KeyBodies,    \* the strings that are keys, without their quotes
  Bodies,       \* the strings that are values
  Primitives,   \* the primitives
  MAX_TOKENS    \* texts with more tokens are left out

\* Puts a text after another: the spans move with it.
Cat(u, v) ==
  [ text |-> u.text \o v.text,
    toks |-> u.toks \o [i \in DOMAIN v.toks |->
               [v.toks[i] EXCEPT !.start = @ + Len(u.text), !.end = @ + Len(u.text)]] ]

Lit(c) == [text |-> <<c>>, toks |-> <<>>]

Leaf(kind, text, from, to) ==
  [text |-> text, toks |-> << [kind |-> kind, start |-> from, end |-> to] >>]

\* Two texts with a separator between them.
Product(S, c, T) ==
  IF c \notin Chars THEN {}
  ELSE {Cat(Cat(p[1], Lit(c)), p[2]) :
          p \in {p \in S \X T : Len(p[1].toks) + Len(p[2].toks) <= MAX_TOKENS}}

Spaces == {" ", "tab"} \cap Chars

\* Whitespace before or after, once: applied to the texts one byte shorter.
Spaced(S) == {Cat(Lit(c), u) : c \in Spaces, u \in S} \cup {Cat(u, Lit(c)) : c \in Spaces, u \in S}

Blank(n) == {[text |-> s, toks |-> <<>>] : s \in [1 .. n -> Spaces]}

\* A container around texts: its own token comes first.
Around(kind, open, S, close) ==
  {[text |-> <<open>> \o u.text \o <<close>>,
    toks |-> <<[kind |-> kind, start |-> 0, end |-> Len(u.text) + 2]>>
               \o Cat(Lit(open), u).toks] : u \in {u \in S : Len(u.toks) < MAX_TOKENS}}

StringsOf(S, n) ==
  {Leaf("String", <<"\"">> \o b \o <<"\"">>, 1, n - 1) : b \in {b \in S : Len(b) = n - 2}}

PrimitivesOf(n) == {Leaf("Primitive", p, 0, n) : p \in {p \in Primitives : Len(p) = n}}

\* The texts of length n, given those of every shorter length in t.  A document
\* of length max has room for values of max - 5 (the braces, an empty key, a colon).
Level(t, n, max) ==
  LET of(part, k) == IF k \in 1 .. n - 1 THEN t[k][part] ELSE {}
      array == IF {"[", "]"} \subseteq Chars
               THEN Around("Array", "[", Blank(n - 2) \cup of("elements", n - 2), "]") ELSE {}
      object == Around("Object", "{", Blank(n - 2) \cup of("members", n - 2), "}")
      value == IF n > max - 5 THEN {} ELSE
                 (IF n > 1 THEN StringsOf(Bodies, n) \cup array \cup object ELSE {})
                 \cup PrimitivesOf(n) \cup Spaced(of("value", n - 1))
      key == (IF n > 1 THEN StringsOf(KeyBodies, n) ELSE {}) \cup Spaced(of("key", n - 1))
      member == UNION {Product(of("key", k), ":", of("value", n - 1 - k)) : k \in 1 .. n - 2}
  IN  [ value |-> value,
        key |-> key,
        root |-> (IF n > 1 THEN object ELSE {}) \cup Spaced(of("root", n - 1)),
        member |-> member,
        elements |-> value \cup IF n > max - 5 THEN {} ELSE
          UNION {Product(of("value", k), ",", of("elements", n - 1 - k)) : k \in 1 .. n - 2},
        members |-> member \cup
          UNION {Product(of("member", k), ",", of("members", n - 1 - k)) : k \in 1 .. n - 2} ]

RECURSIVE Texts(_, _)
Texts(n, max) ==
  IF n = 0 THEN <<>> ELSE LET t == Texts(n - 1, max) IN Append(t, Level(t, n, max))

\* The documents up to a length: an object, and whitespace around it.
Documents(max) == LET t == Texts(max, max) IN UNION {t[n].root : n \in 1 .. max}
=============================================================================
