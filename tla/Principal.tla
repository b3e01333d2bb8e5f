----------------------------- MODULE Principal ------------------------------
(***************************************************************************)
(* Whether an account name is a Pact principal                             *)
(* (kadena-core/src/principal.rs).  A byte is a class: "a" a hex letter,   *)
(* "t" another letter, - or _, "9" a digit, "%" another symbol of an       *)
(* identifier, "." and ":" themselves, a letter of Kinds at the start.     *)
(* A parser gives the set of what is left of the text: empty if it fails.  *)
(***************************************************************************)
EXTENDS Integers, Sequences

CONSTANTS
  HASH_LEN,   \* 43
  KEY_LEN,    \* 64
  Reserved    \* the identifiers that are none: true and false

ASSUME LengthsAssumption == HASH_LEN \in Nat \ {0} /\ KEY_LEN \in Nat \ {0}

Kinds == {"k", "w", "r", "u", "m", "p", "c"}

B64URL == {"a", "t", "9"}
is_ascii_hexdigit == {"a", "9"}
ident_start == {"a", "t", "%"}
ident_rest == {"a", "t", "9", "%"}

Rest(s, n) == SubSeq(s, n + 1, Len(s))

\* Option::and_then
Then(rests, parser(_)) == UNION {parser(s) : s \in rests}

strip_prefix(s, b) == IF s # <<>> /\ s[1] = b THEN {Rest(s, 1)} ELSE {}

colon(s) == strip_prefix(s, ":")

\* The identifier s starts with, as long as it can be.
Identifier(s) ==
  LET n == CHOOSE n \in 1 .. Len(s) :
             /\ \A i \in 2 .. n : s[i] \in ident_rest
             /\ n < Len(s) => s[n + 1] \notin ident_rest
  IN  SubSeq(s, 1, n)

ident(s) ==
  IF s = <<>> \/ s[1] \notin ident_start \/ Identifier(s) \in Reserved
  THEN {}
  ELSE {Rest(s, Len(Identifier(s)))}

\* A dot and an identifier, if they are there.
Qualified(s) ==
  LET rests == Then(strip_prefix(s, "."), ident)
  IN  IF rests = {} THEN {s} ELSE rests

name_Unqualified(s) == Then(ident(s), Qualified)

name(s) == Then(Then(ident(s), Qualified), Qualified)

module(s) == Then(ident(s), Qualified)

hash(s) ==
  IF Len(s) < HASH_LEN \/ \E i \in 1 .. HASH_LEN : s[i] \notin B64URL
  THEN {}
  ELSE {Rest(s, HASH_LEN)}

is_principal(account) ==
  /\ Len(account) >= 2
  /\ account[2] = ":"
  /\ LET kind == account[1]
         body == Rest(account, 2)
         end == {<<>>}
     IN  \/ kind = "k" /\ Len(body) = KEY_LEN /\ \A i \in DOMAIN body : body[i] \in is_ascii_hexdigit
         \/ kind \in {"w", "p"} /\ Then(Then(hash(body), colon), name) = end
         \/ kind = "r" /\ body # <<>>
         \/ kind = "u" /\ Then(Then(name(body), colon), hash) = end
         \/ kind = "m" /\ Then(Then(module(body), colon), name) = end
         \/ kind = "c" /\ hash(body) = end
=============================================================================
