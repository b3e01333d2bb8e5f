-------------------------------- MODULE Json --------------------------------
(***************************************************************************)
(* Navigation of the token array (kadena-core/src/json.rs): which token a  *)
(* key or an element resolves to, and the integrity of the keys.           *)
(*                                                                         *)
(* Every lookup walks the tokens after the container.  It remembers where  *)
(* the last element ended, skips a token that starts no later (a token     *)
(* inside that element), and stops at a token past the container.          *)
(***************************************************************************)
EXTENDS Integers, Sequences, FiniteSets, FiniteSetsExt

\* The bytes of a token.
Span(buf, t) == SubSeq(buf, t.start + 1, t.end)

\* The walk stops before token i, or earlier.
Past(toks, c, i) == \E j \in c + 1 .. i : toks[j].start > toks[c].end

Skipped_Before(prevEnd, t) == t.start < prevEnd

\* A token inside the last element.
Skipped(prevEnd, t) == t.start <= prevEnd

\* Where the last element found up to token i ends, if the element at token j
\* ends with token j + width.
PrevEnd(toks, c, width) ==
  LET end[i \in c .. Len(toks) - width] ==
        IF i = c THEN toks[c].start
        ELSE LET prev == end[i - 1]
             IN  IF Skipped(prev, toks[i]) THEN prev ELSE toks[i + width].end
  IN  end

\* The tokens the walk finds.
Walk(toks, c, width) ==
  LET end == PrevEnd(toks, c, width)
  IN  {i \in c + 1 .. Len(toks) - width :
         ~Past(toks, c, i) /\ ~Skipped(end[i - 1], toks[i])}

\* The elements of an array.
Elements(toks, array) == Walk(toks, array, 0)

\* The keys of an object (ObjectKeys, object_get_nth_key): the value of a key
\* is the token after it.
ObjectKeys(toks, object) == Walk(toks, object, 1)

\* The n-th of a set of tokens, counting from 0.
Nth(S, n) == CHOOSE i \in S : Cardinality({j \in S : j < i}) = n

NoData == 0

array_get_element_count(toks, array) == Cardinality(Elements(toks, array))

array_get_nth_element(toks, array, n) ==
  IF n < Cardinality(Elements(toks, array)) THEN Nth(Elements(toks, array), n) ELSE NoData

object_get_element_count(toks, object) == Cardinality(ObjectKeys(toks, object))

object_get_nth_key(toks, object, n) ==
  IF n < Cardinality(ObjectKeys(toks, object)) THEN Nth(ObjectKeys(toks, object), n) ELSE NoData

object_get_nth_value(toks, object, n) ==
  IF object_get_nth_key(toks, object, n) = NoData THEN NoData
  ELSE object_get_nth_key(toks, object, n) + 1

\* The value of the first key with these bytes.
object_get_value(buf, toks, object, key) ==
  LET matches == {k \in ObjectKeys(toks, object) : Span(buf, toks[k]) = key}
  IN  IF matches = {} THEN NoData ELSE Min(matches) + 1

-----------------------------------------------------------------------------

EscapedKey(buf, t) == \E i \in t.start + 1 .. t.end : buf[i] = "\\"

EarlierKeys_Last(toks, object, a) ==
  LET earlier == {b \in ObjectKeys(toks, object) : b < a}
  IN  IF earlier = {} THEN {} ELSE {Max(earlier)}

EarlierKeys(toks, object, a) == {b \in ObjectKeys(toks, object) : b < a}

DuplicatedKey(buf, toks, object, a) ==
  \E b \in EarlierKeys(toks, object, a) : Span(buf, toks[b]) = Span(buf, toks[a])

\* The error of the first key at fault, objects in the order of their tokens and
\* keys in the order of the document; a backslash counts before a duplicate.
check_key_integrity(buf, toks) ==
  LET objects == {o \in DOMAIN toks : toks[o].kind = "Object"}
      faults == {f \in objects \X DOMAIN toks :
                   /\ f[2] \in ObjectKeys(toks, f[1])
                   /\ EscapedKey(buf, toks[f[2]]) \/ DuplicatedKey(buf, toks, f[1], f[2])}
      first == CHOOSE f \in faults :
                 \A g \in faults : f[1] < g[1] \/ (f[1] = g[1] /\ f[2] <= g[2])
  IN  IF faults = {} THEN "Ok"
      ELSE IF EscapedKey(buf, toks[first[2]]) THEN "UnexpectedCharacters"
      ELSE "DuplicatedField"
=============================================================================
