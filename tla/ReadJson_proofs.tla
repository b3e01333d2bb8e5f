-------------------------- MODULE ReadJson_proofs ---------------------------
(***************************************************************************)
(* What read_json accepts (ReadJson), for documents of any length and any  *)
(* nesting.                                                                *)
(*                                                                         *)
(* The tokenizer does not check what follows the top-level object, so its  *)
(* tokens are in order only until something other than whitespace is       *)
(* reached there; from then on the document is Spoiled, and read_json      *)
(* refuses it.  Until then the spans are Laminar, the keys and values      *)
(* alternate inside every object (Paired), and what the grammar expects    *)
(* says which container is open and whether a key waits for its value      *)
(* (Scope).  From these follow what the walks of json.rs find.             *)
(***************************************************************************)
EXTENDS ReadJson, Induction, FiniteSetTheorems

-----------------------------------------------------------------------------
(* Token arrays.                                                           *)

Tok == [kind : {"Object", "Array", "String", "Primitive"}, start : Nat, end : Nat]

\* Token i is in the span of c: while c is open, whatever is written after it.
Within(t, i, c) == c < i /\ t[c].kind \in Containers /\ t[i].start < t[c].end

\* c is the innermost such token.
Parent(t, i, c) == Within(t, i, c) /\ \A d \in c + 1 .. i - 1 : ~Within(t, i, d)

\* A token lies in an earlier one or behind it, and never next to its end.
Ordered(t, i, j) ==
  /\ t[i].start < t[j].start
  /\ t[j].start # t[i].end
  /\ t[j].start < t[i].end =>
       t[i].kind \in Containers /\ (t[j].end < t[i].end \/ t[i].end = UNSET)

Laminar(t) ==
  /\ \A j \in 1 .. Len(t) : t[j].start <= t[j].end
  /\ \A j \in 1 .. Len(t) : \A i \in 1 .. j - 1 : Ordered(t, i, j)

Closed(t) == \A i \in 1 .. Len(t) : t[i].end # UNSET

LEMMA TokType ==
  ASSUME NEW t \in Seq(Tok)
  PROVE  /\ Len(t) \in Nat /\ DOMAIN t = 1 .. Len(t)
         /\ \A i \in 1 .. Len(t) : t[i].start \in Nat /\ t[i].end \in Nat
<1>1. Len(t) \in Nat /\ DOMAIN t = 1 .. Len(t)
  BY LenProperties
<1>2. \A i \in 1 .. Len(t) : t[i] \in Tok
  BY ElementOfSeq
<1> QED
  BY <1>1, <1>2 DEF Tok

LEMMA OrderedAt ==
  ASSUME NEW t \in Seq(Tok), Laminar(t), NEW j \in 1 .. Len(t), NEW i \in 1 .. j - 1
  PROVE  /\ t[i].start < t[j].start
         /\ t[j].start # t[i].end
         /\ t[j].start < t[i].end =>
              t[i].kind \in Containers /\ (t[j].end < t[i].end \/ t[i].end = UNSET)
<1>1. Ordered(t, i, j)
  BY DEF Laminar
<1> QED
  BY <1>1 DEF Ordered

\* The tokens directly inside a container are those it is the parent of.
LEMMA InsideIsWithin ==
  ASSUME tokens \in Seq(Tok), Laminar(tokens), Closed(tokens),
         NEW i \in 1 .. Len(tokens), NEW c \in 1 .. Len(tokens)
  PROVE  Inside(i, c) <=> Within(tokens, i, c)
<1>1. PICK m \in Nat : m = Len(tokens)
  BY TokType
<1>2. i \in 1 .. m /\ c \in 1 .. m
  BY <1>1
<1>3. /\ tokens[i].start \in Nat /\ tokens[i].end \in Nat
      /\ tokens[c].start \in Nat /\ tokens[c].end \in Nat /\ tokens[c].end # UNSET
      /\ tokens[i].start <= tokens[i].end
  BY <1>1, <1>2, TokType DEF Closed, Laminar
<1>4. ASSUME Inside(i, c) PROVE Within(tokens, i, c)
  <2>1. /\ tokens[c].kind \in Containers
        /\ tokens[c].start < tokens[i].start /\ tokens[i].end < tokens[c].end
    BY <1>4 DEF Inside
  <2>2. c < i
    <3>1. i < c => i \in 1 .. c - 1
      BY <1>2
    <3>2. i < c => tokens[i].start < tokens[c].start
      BY <3>1, OrderedAt
    <3>3. i # c
      BY <1>3, <2>1
    <3> QED
      BY <1>2, <1>3, <2>1, <3>2, <3>3
  <2> QED
    BY <1>3, <2>1, <2>2 DEF Within
<1>5. ASSUME Within(tokens, i, c) PROVE Inside(i, c)
  <2>1. c \in 1 .. i - 1 /\ tokens[c].kind \in Containers /\ tokens[i].start < tokens[c].end
    BY <1>2, <1>5 DEF Within
  <2>2. tokens[c].start < tokens[i].start /\ tokens[i].end < tokens[c].end
    BY <1>3, <2>1, OrderedAt
  <2> QED
    BY <2>1, <2>2 DEF Inside
<1> QED
  BY <1>4, <1>5

\* What contains a token contains the tokens before it that start after it.
LEMMA WithinEarlier ==
  ASSUME NEW t \in Seq(Tok), Laminar(t), NEW i \in 1 .. Len(t), NEW c \in 1 .. i - 1,
         Within(t, i, c), NEW d \in c + 1 .. i - 1
  PROVE  Within(t, d, c)
<1>1. PICK m \in Nat : m = Len(t)
  BY TokType
<1>2. /\ i \in 1 .. m /\ c \in 1 .. m /\ d \in 1 .. m /\ d \in 1 .. i - 1 /\ c < d
      /\ t[i].start \in Nat /\ t[d].start \in Nat /\ t[c].end \in Nat
  BY <1>1, TokType
<1>3. t[d].start < t[i].start
  BY <1>1, <1>2, OrderedAt
<1> QED
  BY <1>2, <1>3 DEF Within

LEMMA ChildrenAreOfParent ==
  ASSUME tokens \in Seq(Tok), Laminar(tokens), Closed(tokens), NEW c \in 1 .. Len(tokens)
  PROVE  Children(c) = {i \in 1 .. Len(tokens) : Parent(tokens, i, c)}
<1>1. PICK m \in Nat : m = Len(tokens) /\ DOMAIN tokens = 1 .. m
  BY TokType
<1>2. \A i, d \in 1 .. m : Inside(i, d) <=> Within(tokens, i, d)
  BY <1>1, InsideIsWithin
<1>3. ASSUME NEW i \in 1 .. m
      PROVE  (Inside(i, c) /\ ~\E d \in 1 .. m : Inside(i, d) /\ Inside(d, c))
               <=> Parent(tokens, i, c)
  <2>1. Parent(tokens, i, c) =>
          Inside(i, c) /\ ~\E d \in 1 .. m : Inside(i, d) /\ Inside(d, c)
    <3> SUFFICES ASSUME Parent(tokens, i, c), NEW d \in 1 .. m, Inside(i, d), Inside(d, c)
                 PROVE  FALSE
      BY <1>1, <1>2 DEF Parent
    <3>1. Within(tokens, i, d) /\ Within(tokens, d, c)
      BY <1>1, <1>2
    <3>2. d \in c + 1 .. i - 1
      BY <1>1, <3>1 DEF Within
    <3> QED
      BY <3>1, <3>2 DEF Parent
  <2>2. ASSUME Inside(i, c), ~\E d \in 1 .. m : Inside(i, d) /\ Inside(d, c)
        PROVE  Parent(tokens, i, c)
    <3>1. Within(tokens, i, c) /\ c \in 1 .. i - 1
      BY <1>1, <1>2, <2>2 DEF Within
    <3>2. ASSUME NEW d \in c + 1 .. i - 1, Within(tokens, i, d) PROVE FALSE
      <4>1. d \in 1 .. m
        BY <1>1, <3>2
      <4>2. Within(tokens, d, c)
        BY <1>1, <3>1, WithinEarlier
      <4> QED
        BY <1>1, <1>2, <2>2, <3>2, <4>1, <4>2
    <3> QED
      BY <3>1, <3>2 DEF Parent
  <2> QED
    BY <2>1, <2>2
<1> QED
  BY <1>1, <1>3 DEF Children

\* A token inside a container is inside a child of it, or a child.
LEMMA Enclosing ==
  ASSUME NEW t \in Seq(Tok), Laminar(t), Closed(t), NEW i \in 1 .. Len(t), NEW c \in 1 .. i - 1,
         Within(t, i, c), ~Parent(t, i, c)
  PROVE  \E j \in c + 1 .. i - 1 : Parent(t, j, c) /\ Within(t, i, j)
<1>1. PICK m \in Nat : m = Len(t)
  BY TokType
<1> DEFINE T == {d \in c + 1 .. i - 1 : Within(t, i, d)}
<1>2. T \in SUBSET Nat /\ T # {}
  BY DEF Parent
<1>3. PICK j \in T : \A d \in T : j <= d
  <2> HIDE DEF T
  <2> QED
    BY <1>2, Least
<1>4. j \in c + 1 .. i - 1 /\ Within(t, i, j) /\ i \in 1 .. m /\ j \in 1 .. m
  BY <1>1, <1>3
<1>5. Within(t, j, c)
  BY <1>4, WithinEarlier
<1>6. ASSUME NEW d \in c + 1 .. j - 1, Within(t, j, d) PROVE FALSE
  <2>1. d \in 1 .. j - 1 /\ d \in 1 .. m /\ d \in c + 1 .. i - 1 /\ ~(j <= d) /\ d < i
    BY <1>4
  <2>2. t[j].start < t[d].end /\ t[d].end # UNSET /\ t[d].kind \in Containers
    BY <1>1, <1>6, <2>1 DEF Within, Closed
  <2>3. t[j].end < t[d].end
    BY <1>1, <1>4, <2>1, <2>2, OrderedAt
  <2>4. t[i].start < t[j].end
    BY <1>4 DEF Within
  <2>5. t[i].start \in Nat /\ t[j].end \in Nat /\ t[d].end \in Nat
    BY <1>1, <1>4, <2>1, TokType
  <2>6. Within(t, i, d)
    BY <2>1, <2>2, <2>3, <2>4, <2>5 DEF Within
  <2>7. d \in T
    BY <2>1, <2>6
  <2> QED
    BY <1>3, <2>1, <2>7
<1> QED
  BY <1>4, <1>5, <1>6 DEF Parent

-----------------------------------------------------------------------------
(* The walks of json.rs.                                                   *)

\* PrevEnd, as it recurs.
LEMMA PrevEndDef ==
  ASSUME NEW t \in Seq(Tok), NEW w \in {0, 1}, NEW c \in 1 .. Len(t) - w
  PROVE  /\ PrevEnd(t, c, w) \in [c .. Len(t) - w -> Nat]
         /\ PrevEnd(t, c, w)[c] = t[c].start
         /\ \A i \in c + 1 .. Len(t) - w :
              PrevEnd(t, c, w)[i] =
                IF Skipped(PrevEnd(t, c, w)[i - 1], t[i]) THEN PrevEnd(t, c, w)[i - 1]
                ELSE t[i + w].end
<1>1. PICK m \in Nat : m = Len(t) - w - c /\ Len(t) = m + w + c
  <2>1. PICK l \in Nat : l = Len(t)
    BY TokType
  <2>2. l - w - c \in Nat /\ l = (l - w - c) + w + c
    BY <2>1
  <2> QED
    BY <2>1, <2>2
<1> DEFINE More(prev, i) == IF Skipped(prev, t[i]) THEN prev ELSE t[i + w].end
           F == [p \in Nat \X Nat |-> IF p[2] \in 1 .. m THEN More(p[1], c + p[2]) ELSE 0]
           Is(g) == g = [i \in c .. Len(t) - w |-> IF i = c THEN t[c].start ELSE More(g[i - 1], i)]
<1>2. \A i \in c .. c + m : t[i].start \in Nat /\ t[i + w].end \in Nat
  <2> TAKE i \in c .. c + m
  <2>1. i \in 1 .. Len(t) /\ i + w \in 1 .. Len(t)
    BY <1>1
  <2> QED
    BY <2>1, TokType
<1>3. \A prev \in Nat, i \in c + 1 .. c + m : More(prev, i) \in Nat
  BY <1>2
<1> HIDE DEF More
<1>4. F \in Steps(Nat)
  <2>1. \A k \in 1 .. m : c + k \in c + 1 .. c + m
    OBVIOUS
  <2>2. ASSUME NEW p \in Nat \X Nat PROVE F[p] \in Nat
    BY <1>3, <2>1
  <2>3. F = [p \in Nat \X Nat |-> F[p]]
    OBVIOUS
  <2> HIDE DEF F
  <2> QED
    BY <2>2, <2>3 DEF Steps
<1>5. \A a \in Nat, k \in 1 .. m : F[<<a, k>>] = More(a, c + k)
  OBVIOUS
<1> HIDE DEF F
<1>6. PICK h \in [0 .. m -> Nat] : h[0] = t[c].start /\ \A k \in 1 .. m : h[k] = F[<<h[k - 1], k>>]
  <2>1. t[c].start \in Nat
    BY <1>2
  <2>2. \E h \in Tables(m, Nat) : Recurs(h, m, t[c].start, F)
    BY <1>4, <2>1, Recursive, Zenon
  <2> QED
    BY <2>2 DEF Tables, Recurs
<1> DEFINE g == [i \in c .. c + m |-> h[i - c]]
<1>7. Is(g)
  <2>1. ASSUME NEW i \in c .. c + m PROVE g[i] = IF i = c THEN t[c].start ELSE More(g[i - 1], i)
    <3>1. g[i] = h[i - c] /\ i - c \in 0 .. m
      OBVIOUS
    <3>2. CASE i = c
      BY <1>6, <3>1, <3>2
    <3>3. CASE i # c
      <4>1. i - c \in 1 .. m /\ i - 1 \in c .. c + m /\ (i - 1) - c = (i - c) - 1 /\ c + (i - c) = i
            /\ (i - c) - 1 \in 0 .. m
        BY <3>3
      <4>2. g[i - 1] = h[(i - c) - 1] /\ h[(i - c) - 1] \in Nat
        BY <4>1
      <4> QED
        BY <1>5, <1>6, <3>1, <3>3, <4>1, <4>2
    <3> QED
      BY <3>2, <3>3
  <2>2. c .. Len(t) - w = c .. c + m
    BY <1>1
  <2>3. g = [i \in c .. c + m |-> g[i]]
    OBVIOUS
  <2> HIDE DEF g
  <2> QED
    BY <2>1, <2>2, <2>3
<1> DEFINE e == CHOOSE f : Is(f)
<1>8. PrevEnd(t, c, w) = e
  BY DEF PrevEnd, More
<1>9. Is(e)
  <2> HIDE DEF Is, g
  <2> QED
    BY <1>7
<1> HIDE DEF e
<1>10. e = [i \in c .. c + m |-> IF i = c THEN t[c].start ELSE More(e[i - 1], i)]
  <2>1. c .. Len(t) - w = c .. c + m
    BY <1>1
  <2> QED
    BY <1>9, <2>1
<1>11. e[c] = t[c].start /\ \A i \in c + 1 .. c + m : e[i] = More(e[i - 1], i)
  BY <1>10
<1>12. e \in [c .. c + m -> Nat]
  <2> DEFINE P == {k \in Nat : k \in 0 .. m => e[c + k] \in Nat}
  <2>1. 0 \in P /\ P \in SUBSET Nat
    BY <1>2, <1>11
  <2>2. ASSUME NEW k \in 0 .. m - 1, k \in P PROVE k + 1 \in P
    <3>1. /\ k \in 0 .. m /\ c + (k + 1) \in c + 1 .. c + m /\ (c + (k + 1)) - 1 = c + k
          /\ k + 1 \in Nat
      OBVIOUS
    <3>2. e[c + (k + 1)] = More(e[c + k], c + (k + 1)) /\ e[c + k] \in Nat
      BY <1>11, <2>2, <3>1
    <3> QED
      BY <1>3, <3>1, <3>2
  <2> HIDE DEF P
  <2>3. \A k \in 0 .. m : k \in P
    BY <2>1, <2>2, Inductive
  <2>4. ASSUME NEW i \in c .. c + m PROVE e[i] \in Nat
    <3>1. i - c \in 0 .. m /\ c + (i - c) = i
      OBVIOUS
    <3>2. i - c \in P
      BY <2>3, <3>1
    <3> QED
      BY <3>1, <3>2 DEF P
  <2>5. DOMAIN e = c .. c + m /\ e = [i \in c .. c + m |-> e[i]]
    BY <1>10
  <2> QED
    BY <2>4, <2>5
<1>13. Len(t) - w = c + m
  BY <1>1
<1> QED
  BY <1>8, <1>11, <1>12, <1>13 DEF More

\* The walk goes on as long as it is in the container.
LEMMA PastIsBehind ==
  ASSUME NEW t \in Seq(Tok), Laminar(t), NEW i \in 1 .. Len(t), NEW c \in 1 .. i - 1
  PROVE  ~Past(t, c, i) <=> t[i].start < t[c].end
<1>1. PICK m \in Nat : m = Len(t)
  BY TokType
<1>2. i \in 1 .. m /\ c \in 1 .. m /\ i \in c + 1 .. i
  BY <1>1
<1>3. t[i].start \in Nat /\ t[c].end \in Nat /\ t[i].start # t[c].end
  BY <1>1, <1>2, TokType, OrderedAt
<1>4. ASSUME ~Past(t, c, i) PROVE t[i].start < t[c].end
  <2>1. ~(t[i].start > t[c].end)
    BY <1>2, <1>4 DEF Past
  <2> QED
    BY <1>3, <2>1
<1>5. ASSUME t[i].start < t[c].end, NEW j \in c + 1 .. i, t[j].start > t[c].end PROVE FALSE
  <2>1. j \in 1 .. m /\ (j = i \/ j \in 1 .. i - 1)
    BY <1>2
  <2>2. t[j].start <= t[i].start /\ t[j].start \in Nat
    BY <1>1, <1>2, <1>3, <2>1, TokType, OrderedAt
  <2> QED
    BY <1>3, <1>5, <2>2
<1> QED
  BY <1>4, <1>5 DEF Past

\* A token that a child of c does not contain starts behind it.
LEMMA BehindSibling ==
  ASSUME NEW t \in Seq(Tok), Laminar(t), NEW i \in 1 .. Len(t), NEW c \in 1 .. i - 1,
         Parent(t, i, c), NEW j \in c + 1 .. i - 1
  PROVE  t[i].start > t[j].end
<1>1. PICK m \in Nat : m = Len(t)
  BY TokType
<1>2. i \in 1 .. m /\ j \in 1 .. m /\ j \in 1 .. i - 1 /\ j < i
  BY <1>1
<1>3. ~Within(t, i, j)
  BY DEF Parent
<1>4. t[i].start \in Nat /\ t[j].end \in Nat
  BY <1>1, <1>2, TokType
<1>5. t[i].start # t[j].end /\ (t[i].start < t[j].end => t[j].kind \in Containers)
  BY <1>1, <1>2, OrderedAt
<1> QED
  BY <1>2, <1>3, <1>4, <1>5 DEF Within

\* The elements of an array: e is the end of the last child.
LEMMA ArrayWalk ==
  ASSUME NEW t \in Seq(Tok), Laminar(t), Closed(t),
         NEW c \in 1 .. Len(t), t[c].kind \in Containers
  PROVE  Elements(t, c) = {i \in 1 .. Len(t) : Parent(t, i, c)}
<1> DEFINE e == PrevEnd(t, c, 0)
           Child(j) == Parent(t, j, c)
           E(i) == /\ \A j \in c + 1 .. i : Child(j) => t[j].end <= e[i]
                   /\ e[i] = t[c].start \/ \E j \in c + 1 .. i : Child(j) /\ e[i] = t[j].end
<1>1. PICK m \in Nat : m = Len(t)
  BY TokType
<1>2. c \in 1 .. m /\ m - 0 = m
  BY <1>1
<1>3. /\ e \in [c .. m -> Nat] /\ e[c] = t[c].start
      /\ \A i \in c + 1 .. m : e[i] = IF Skipped(e[i - 1], t[i]) THEN e[i - 1] ELSE t[i + 0].end
  <2>1. 0 \in {0, 1} /\ c \in 1 .. Len(t) - 0
    BY <1>1, <1>2
  <2>2. /\ e \in [c .. Len(t) - 0 -> Nat] /\ e[c] = t[c].start
        /\ \A i \in c + 1 .. Len(t) - 0 :
             e[i] = IF Skipped(e[i - 1], t[i]) THEN e[i - 1] ELSE t[i + 0].end
    BY <2>1, PrevEndDef
  <2> HIDE DEF e
  <2> QED
    BY <1>1, <1>2, <2>2
<1>4. \A i \in 1 .. m : t[i].start \in Nat /\ t[i].end \in Nat
  BY <1>1, TokType
<1>5. Elements(t, c) = {i \in c + 1 .. m : ~Past(t, c, i) /\ ~Skipped(e[i - 1], t[i])}
  BY <1>1, <1>2 DEF Elements, Walk
<1> HIDE DEF e
<1>6. ASSUME NEW i \in c .. m - 1, E(i), t[i + 1].start < t[c].end
      PROVE  ~Skipped(e[i], t[i + 1]) <=> Child(i + 1)
  <2>1. i + 1 \in 1 .. m /\ c \in 1 .. (i + 1) - 1 /\ (i + 1) - 1 = i /\ i \in c .. m
    BY <1>2
  <2>2. Within(t, i + 1, c)
    BY <1>6, <2>1 DEF Within
  <2>3. t[i + 1].start \in Nat /\ e[i] \in Nat
    BY <1>3, <1>4, <2>1
  <2>4. ASSUME Child(i + 1) PROVE ~Skipped(e[i], t[i + 1])
    <3>1. CASE e[i] = t[c].start
      <4>1. t[c].start < t[i + 1].start
        BY <1>1, <2>1, OrderedAt
      <4> QED
        BY <1>2, <1>4, <2>3, <3>1, <4>1 DEF Skipped
    <3>2. CASE \E j \in c + 1 .. i : Child(j) /\ e[i] = t[j].end
      <4>1. PICK j \in c + 1 .. i : e[i] = t[j].end
        BY <3>2
      <4>2. j \in c + 1 .. (i + 1) - 1
        BY <4>1, <2>1
      <4>3. t[i + 1].start > t[j].end
        BY <1>1, <2>1, <2>4, <4>2, BehindSibling
      <4> QED
        BY <2>3, <4>1, <4>3 DEF Skipped
    <3> QED
      BY <1>6, <3>1, <3>2
  <2>5. ASSUME ~Child(i + 1) PROVE Skipped(e[i], t[i + 1])
    <3>1. PICK j \in c + 1 .. (i + 1) - 1 : Child(j) /\ Within(t, i + 1, j)
      BY <1>1, <2>1, <2>2, <2>5, Enclosing
    <3>2. j \in c + 1 .. i /\ j \in 1 .. m
      BY <1>2, <2>1, <3>1
    <3>3. t[i + 1].start < t[j].end /\ t[j].end <= e[i]
      BY <1>6, <3>1, <3>2 DEF Within
    <3> QED
      BY <1>4, <2>3, <3>2, <3>3 DEF Skipped
  <2> QED
    BY <2>4, <2>5
<1>7. ASSUME NEW i \in c .. m - 1, E(i), t[i + 1].start < t[c].end PROVE E(i + 1)
  <2>1. i + 1 \in c + 1 .. m /\ (i + 1) - 1 = i /\ i \in c .. m /\ (i + 1) + 0 = i + 1 /\ i + 1 \in 1 .. m
    BY <1>2
  <2>2. e[i + 1] = IF Skipped(e[i], t[i + 1]) THEN e[i] ELSE t[i + 1].end
    BY <1>3, <2>1
  <2>3. \A j \in c + 1 .. i + 1 : j \in c + 1 .. i \/ j = i + 1
    OBVIOUS
  <2>4. c + 1 .. i \subseteq c + 1 .. i + 1
    OBVIOUS
  <2>5. CASE Child(i + 1)
    <3>1. e[i + 1] = t[i + 1].end /\ ~Skipped(e[i], t[i + 1])
      BY <1>6, <1>7, <2>2, <2>5
    <3>2. e[i] \in Nat /\ t[i + 1].end \in Nat /\ t[i + 1].start \in Nat /\ t[i + 1].start <= t[i + 1].end
      BY <1>1, <1>3, <1>4, <2>1 DEF Laminar
    <3>3. e[i] <= e[i + 1]
      BY <3>1, <3>2 DEF Skipped
    <3>4. ASSUME NEW j \in c + 1 .. i + 1, Child(j) PROVE t[j].end <= e[i + 1]
      <4>1. CASE j = i + 1
        BY <3>1, <3>2, <4>1
      <4>2. CASE j \in c + 1 .. i
        <5>1. t[j].end <= e[i] /\ t[j].end \in Nat
          BY <1>2, <1>4, <1>7, <3>4, <4>2
        <5> QED
          BY <3>1, <3>2, <3>3, <5>1
      <4> QED
        BY <2>3, <4>1, <4>2
    <3> HIDE DEF Child
    <3> QED
      BY <2>1, <2>5, <3>1, <3>4
  <2>6. CASE ~Child(i + 1)
    <3>1. e[i + 1] = e[i]
      BY <1>6, <1>7, <2>2, <2>6
    <3> HIDE DEF Child
    <3> QED
      BY <1>7, <2>3, <2>4, <2>6, <3>1
  <2> QED
    BY <2>5, <2>6
<1> DEFINE P == {k \in Nat : k \in 0 .. m - c /\ (k = 0 \/ t[c + k].start < t[c].end) => E(c + k)}
<1>8. 0 \in P /\ P \in SUBSET Nat
  BY <1>2, <1>3
<1>9. ASSUME NEW k \in 0 .. (m - c) - 1, k \in P PROVE k + 1 \in P
  <2> SUFFICES ASSUME t[c + (k + 1)].start < t[c].end PROVE E(c + (k + 1))
    BY <1>2
  <2>1. /\ c + k \in c .. m - 1 /\ (c + k) + 1 = c + (k + 1) /\ k \in 0 .. m - c
        /\ c + k \in 1 .. m /\ c + (k + 1) \in 1 .. m /\ c + k \in 1 .. (c + (k + 1)) - 1
    BY <1>2
  <2>2. t[c + k].start < t[c + (k + 1)].start
    BY <1>1, <2>1, OrderedAt
  <2>3. t[c + k].start < t[c].end
    <3>1. t[c + k].start \in Nat /\ t[c + (k + 1)].start \in Nat /\ t[c].end \in Nat
      BY <1>2, <1>4, <2>1
    <3>2. PICK x \in Nat, y \in Nat, z \in Nat :
            x = t[c + k].start /\ y = t[c + (k + 1)].start /\ z = t[c].end
      BY <3>1
    <3>3. x < y /\ y < z
      BY <2>2, <3>2
    <3>4. x < z
      BY <3>3
    <3> QED
      BY <3>2, <3>4
  <2> HIDE DEF E
  <2>4. E(c + k)
    BY <1>9, <2>1, <2>3
  <2>5. E((c + k) + 1)
    BY <1>7, <2>1, <2>4
  <2> QED
    BY <2>1, <2>5
<1> HIDE DEF P, E
<1>10. \A k \in 0 .. m - c : k \in P
  <2>1. m - c \in Nat
    BY <1>2
  <2> QED
    BY <1>8, <1>9, <2>1, Inductive
<1>11. ASSUME NEW i \in c + 1 .. m
       PROVE  ~Past(t, c, i) /\ ~Skipped(e[i - 1], t[i]) <=> Child(i)
  <2>1. /\ i \in 1 .. m /\ c \in 1 .. i - 1 /\ i - 1 \in c .. m - 1 /\ (i - 1) + 1 = i
        /\ (i - 1) - c \in 0 .. m - c /\ c + ((i - 1) - c) = i - 1 /\ c < i
    BY <1>2
  <2>2. ~Past(t, c, i) <=> t[i].start < t[c].end
    BY <1>1, <2>1, PastIsBehind
  <2>3. Child(i) => t[i].start < t[c].end
    BY DEF Parent, Within
  <2>4. ASSUME t[i].start < t[c].end PROVE ~Skipped(e[i - 1], t[i]) <=> Child(i)
    <3>1. (i - 1) - c = 0 \/ t[i - 1].start < t[c].end
      <4>1. CASE i - 1 = c
        BY <1>2, <4>1
      <4>2. CASE i - 1 # c
        <5>1. i - 1 \in 1 .. m
          BY <2>1, <4>2, <1>2
        <5>2. t[i - 1].start < t[i].start
          BY <1>1, <2>1, <5>1, OrderedAt
        <5>3. t[i - 1].start \in Nat /\ t[i].start \in Nat /\ t[c].end \in Nat
          BY <1>2, <1>4, <2>1, <5>1
        <5> QED
          BY <2>4, <5>2, <5>3
      <4> QED
        BY <4>1, <4>2
    <3>2. (i - 1) - c \in P /\ (i - 1) - c \in Nat
      BY <1>10, <2>1
    <3>3. E(i - 1)
      BY <2>1, <3>1, <3>2 DEF P
    <3> QED
      BY <1>6, <2>1, <2>4, <3>3
  <2> QED
    BY <2>2, <2>3, <2>4
<1>12. \A i \in 1 .. m : Child(i) => i \in c + 1 .. m
  BY <1>2 DEF Parent, Within
<1> HIDE DEF Child
<1>13. Elements(t, c) = {i \in 1 .. m : Child(i)}
  <2>1. c + 1 .. m \subseteq 1 .. m
    BY <1>2
  <2> QED
    BY <1>5, <1>11, <1>12, <2>1
<1> QED
  BY <1>1, <1>13 DEF Child

\* K are the keys: strings directly inside an object, each followed by its value,
\* and every other token directly inside an object is such a value.
Paired(t, K) ==
  /\ K \subseteq 1 .. Len(t)
  /\ \A k \in K :
       t[k].kind = "String" /\ \E c \in 1 .. k - 1 : t[c].kind = "Object" /\ Parent(t, k, c)
  /\ \A k \in K :
       k < Len(t) => k + 1 \notin K /\ \A c \in 1 .. k - 1 : Parent(t, k, c) => Parent(t, k + 1, c)
  /\ \A c \in 1 .. Len(t) : \A i \in c + 1 .. Len(t) :
       t[c].kind = "Object" /\ Parent(t, i, c) /\ i \notin K => i - 1 \in K /\ Parent(t, i - 1, c)

LEMMA ParentIsBefore ==
  ASSUME NEW t, NEW i \in Nat, NEW c \in Nat, Parent(t, i, c)
  PROVE  c < i
BY DEF Parent, Within

\* A key of c is followed by a value of c.
LEMMA KeyHasValue ==
  ASSUME NEW t \in Seq(Tok), NEW K, Paired(t, K), Len(t) \notin K,
         NEW c \in 1 .. Len(t), NEW k \in K, Parent(t, k, c)
  PROVE  k \in c + 1 .. Len(t) - 1 /\ k + 1 \notin K /\ Parent(t, k + 1, c)
<1>1. PICK m \in Nat : m = Len(t)
  BY TokType
<1>2. k \in 1 .. m
  BY <1>1 DEF Paired
<1>3. c < k /\ k # m
  BY <1>1, <1>2, ParentIsBefore
<1>4. k < Len(t) /\ c \in 1 .. k - 1
  BY <1>1, <1>2, <1>3
<1>5. k + 1 \notin K /\ Parent(t, k + 1, c)
  BY <1>4 DEF Paired
<1> QED
  BY <1>1, <1>2, <1>3, <1>5

\* The keys of an object: e is the end of the last value.
LEMMA ObjectWalk ==
  ASSUME NEW t \in Seq(Tok), Laminar(t), Closed(t), NEW K, Paired(t, K), Len(t) \notin K,
         NEW c \in 1 .. Len(t), t[c].kind = "Object"
  PROVE  ObjectKeys(t, c) = {k \in K : Parent(t, k, c)}
<1> DEFINE e == PrevEnd(t, c, 1)
           Key(j) == j \in K /\ Parent(t, j, c)
           E(i) == /\ \A j \in c + 1 .. i : Key(j) => t[j + 1].end <= e[i]
                   /\ e[i] = t[c].start \/ \E j \in c + 1 .. i : Key(j) /\ e[i] = t[j + 1].end
<1>1. PICK m \in Nat : m = Len(t)
  BY TokType
<1>2. c \in 1 .. m /\ K \subseteq 1 .. m
  BY <1>1 DEF Paired
<1>3. \A j \in K : Key(j) => j \in c + 1 .. m - 1 /\ j + 1 \notin K /\ Parent(t, j + 1, c)
  BY <1>1, KeyHasValue
<1>4. \A i \in 1 .. m : t[i].start \in Nat /\ t[i].end \in Nat /\ t[i].start <= t[i].end
  BY <1>1, TokType DEF Laminar
<1>5. ObjectKeys(t, c) = {i \in c + 1 .. m - 1 : ~Past(t, c, i) /\ ~Skipped(e[i - 1], t[i])}
  BY <1>1, <1>2 DEF ObjectKeys, Walk
<1>6. CASE c = m
  <2>1. c + 1 .. m - 1 = {}
    BY <1>6
  <2>2. {k \in K : Parent(t, k, c)} = {}
    BY <1>3, <2>1
  <2>3. ObjectKeys(t, c) = {}
    BY <1>5, <2>1
  <2> QED
    BY <2>2, <2>3
<1>7. CASE c # m
  <2>1. /\ e \in [c .. m - 1 -> Nat] /\ e[c] = t[c].start
        /\ \A i \in c + 1 .. m - 1 : e[i] = IF Skipped(e[i - 1], t[i]) THEN e[i - 1] ELSE t[i + 1].end
    <3>1. 1 \in {0, 1} /\ c \in 1 .. Len(t) - 1
      BY <1>1, <1>2, <1>7
    <3>2. /\ e \in [c .. Len(t) - 1 -> Nat] /\ e[c] = t[c].start
          /\ \A i \in c + 1 .. Len(t) - 1 :
               e[i] = IF Skipped(e[i - 1], t[i]) THEN e[i - 1] ELSE t[i + 1].end
      BY <3>1, PrevEndDef
    <3> HIDE DEF e
    <3> QED
      BY <1>1, <3>2
  <2> HIDE DEF e
  <2>2. ASSUME NEW i \in c .. m - 2, E(i), t[i + 1].start < t[c].end
        PROVE  ~Skipped(e[i], t[i + 1]) <=> Key(i + 1)
    <3>1. i + 1 \in 1 .. m /\ c \in 1 .. (i + 1) - 1 /\ (i + 1) - 1 = i /\ i \in c .. m - 1
          /\ i + 1 \in c + 1 .. m /\ i \in 1 .. m
      BY <1>2
    <3>2. Within(t, i + 1, c)
      BY <2>2, <3>1 DEF Within, Containers
    <3>3. t[i + 1].start \in Nat /\ t[i + 1].end \in Nat /\ t[i + 1].start <= t[i + 1].end /\ e[i] \in Nat
      BY <1>4, <2>1, <3>1
    <3>4. ASSUME Key(i + 1) PROVE ~Skipped(e[i], t[i + 1])
      <4>1. CASE e[i] = t[c].start
        <5>1. t[c].start < t[i + 1].start
          BY <1>1, <3>1, OrderedAt
        <5> QED
          BY <1>2, <1>4, <3>3, <4>1, <5>1 DEF Skipped
      <4>2. CASE \E j \in c + 1 .. i : Key(j) /\ e[i] = t[j + 1].end
        <5>1. PICK j \in c + 1 .. i : Key(j) /\ e[i] = t[j + 1].end
          BY <4>2
        <5>2. j + 1 # i + 1
          BY <1>3, <3>4, <5>1
        <5>3. j + 1 \in c + 1 .. (i + 1) - 1
          BY <3>1, <5>1, <5>2
        <5>4. t[i + 1].start > t[j + 1].end
          BY <1>1, <3>1, <3>4, <5>3, BehindSibling
        <5> QED
          BY <3>3, <5>1, <5>4 DEF Skipped
      <4> QED
        BY <2>2, <4>1, <4>2
    <3>5. ASSUME ~Key(i + 1) PROVE Skipped(e[i], t[i + 1])
      <4>1. CASE Parent(t, i + 1, c)
        <5>1. i \in K /\ Parent(t, i, c)
          <6>1. (i + 1) - 1 \in K /\ Parent(t, (i + 1) - 1, c)
            BY <1>1, <3>1, <3>5, <4>1 DEF Paired
          <6> QED
            BY <3>1, <6>1
        <5>2. i \in c + 1 .. i
          BY <1>3, <5>1
        <5>3. t[i + 1].end <= e[i]
          BY <2>2, <5>1, <5>2
        <5> QED
          BY <3>3, <5>3 DEF Skipped
      <4>2. CASE ~Parent(t, i + 1, c)
        <5>1. PICK j \in c + 1 .. (i + 1) - 1 : Parent(t, j, c) /\ Within(t, i + 1, j)
          BY <1>1, <3>1, <3>2, <4>2, Enclosing
        <5>2. j \in c + 1 .. m /\ j \in 1 .. m /\ (j - 1) + 1 = j
          BY <1>2, <3>1
        <5>3. j \notin K
          BY <5>1 DEF Paired, Within, Containers
        <5>4. j - 1 \in K /\ Parent(t, j - 1, c)
          BY <1>1, <1>2, <5>1, <5>2, <5>3 DEF Paired
        <5>5. j - 1 \in c + 1 .. i
          <6>1. Key(j - 1)
            BY <5>4
          <6>2. j - 1 \in c + 1 .. m - 1
            BY <1>3, <5>4, <6>1
          <6>3. j <= i /\ j \in Nat /\ i \in Nat
            BY <1>2, <3>1
          <6> QED
            BY <1>2, <6>2, <6>3
        <5>6. t[(j - 1) + 1].end <= e[i]
          BY <2>2, <5>4, <5>5
        <5>7. t[i + 1].start < t[j].end /\ t[j].end <= e[i] /\ t[j].end \in Nat
          BY <1>4, <5>1, <5>2, <5>6 DEF Within
        <5> QED
          BY <3>3, <5>7 DEF Skipped
      <4> QED
        BY <4>1, <4>2
    <3> QED
      BY <3>4, <3>5
  <2>3. ASSUME NEW i \in c .. m - 2, E(i), t[i + 1].start < t[c].end PROVE E(i + 1)
    <3>1. /\ i + 1 \in c + 1 .. m - 1 /\ (i + 1) - 1 = i /\ i \in c .. m - 1 /\ i + 1 \in 1 .. m
          /\ (i + 1) + 1 \in 1 .. m /\ i + 1 \in 1 .. ((i + 1) + 1) - 1
      BY <1>2
    <3>2. e[i + 1] = IF Skipped(e[i], t[i + 1]) THEN e[i] ELSE t[(i + 1) + 1].end
      BY <2>1, <3>1
    <3>3. \A j \in c + 1 .. i + 1 : j \in c + 1 .. i \/ j = i + 1
      OBVIOUS
    <3>4. c + 1 .. i \subseteq c + 1 .. i + 1
      OBVIOUS
    <3>5. CASE Key(i + 1)
      <4>1. e[i + 1] = t[(i + 1) + 1].end /\ ~Skipped(e[i], t[i + 1])
        BY <2>2, <2>3, <3>2, <3>5
      <4>2. /\ e[i] \in Nat /\ t[i + 1].start \in Nat /\ t[(i + 1) + 1].start \in Nat
            /\ t[(i + 1) + 1].end \in Nat /\ t[(i + 1) + 1].start <= t[(i + 1) + 1].end
        BY <1>4, <2>1, <3>1
      <4>3. t[i + 1].start < t[(i + 1) + 1].start
        BY <1>1, <3>1, OrderedAt
      <4>4. e[i] <= e[i + 1] /\ e[i + 1] \in Nat
        BY <4>1, <4>2, <4>3, SMTT(30) DEF Skipped
      <4>5. ASSUME NEW j \in c + 1 .. i + 1, Key(j) PROVE t[j + 1].end <= e[i + 1]
        <5>1. CASE j = i + 1
          BY <4>1, <4>2, <5>1
        <5>2. CASE j \in c + 1 .. i
          <6>1. j + 1 \in 1 .. m
            BY <1>2, <3>1, <5>2
          <6>2. t[j + 1].end <= e[i] /\ t[j + 1].end \in Nat
            BY <1>4, <2>3, <4>5, <5>2, <6>1
          <6> QED
            BY <4>2, <4>4, <6>2
        <5> QED
          BY <3>3, <5>1, <5>2
      <4> HIDE DEF Key
      <4> QED
        BY <3>1, <3>5, <4>1, <4>5
    <3>6. CASE ~Key(i + 1)
      <4>1. e[i + 1] = e[i]
        BY <2>2, <2>3, <3>2, <3>6
      <4> HIDE DEF Key
      <4> QED
        BY <2>3, <3>3, <3>4, <3>6, <4>1
    <3> QED
      BY <3>5, <3>6
  <2> DEFINE d == (m - 1) - c
             P == {k \in Nat : k \in 0 .. d /\ (k = 0 \/ t[c + k].start < t[c].end) => E(c + k)}
  <2>4. 0 \in P /\ P \in SUBSET Nat
    BY <1>2, <2>1
  <2>5. ASSUME NEW k \in 0 .. d - 1, k \in P PROVE k + 1 \in P
    <3> SUFFICES ASSUME t[c + (k + 1)].start < t[c].end PROVE E(c + (k + 1))
      BY <1>2
    <3>1. /\ c + k \in c .. m - 2 /\ (c + k) + 1 = c + (k + 1) /\ k \in 0 .. d
          /\ c + k \in 1 .. m /\ c + (k + 1) \in 1 .. m /\ c + k \in 1 .. (c + (k + 1)) - 1
      BY <1>2
    <3>2. t[c + k].start < t[c + (k + 1)].start
      BY <1>1, <3>1, OrderedAt
    <3>3. PICK x \in Nat, y \in Nat, z \in Nat :
            x = t[c + k].start /\ y = t[c + (k + 1)].start /\ z = t[c].end
      BY <1>2, <1>4, <3>1
    <3>4. x < y /\ y < z
      BY <3>2, <3>3
    <3>5. x < z
      BY <3>4
    <3>6. t[c + k].start < t[c].end
      BY <3>3, <3>5
    <3> HIDE DEF E, d
    <3>7. E(c + k)
      BY <2>5, <3>1, <3>6
    <3>8. E((c + k) + 1)
      BY <2>3, <3>1, <3>7
    <3> QED
      BY <3>1, <3>8
  <2> HIDE DEF P, E
  <2>6. \A k \in 0 .. d : k \in P
    <3>1. d \in Nat
      BY <1>2, <1>7
    <3> HIDE DEF d
    <3> QED
      BY <2>4, <2>5, <3>1, Inductive
  <2>7. ASSUME NEW i \in c + 1 .. m - 1
        PROVE  ~Past(t, c, i) /\ ~Skipped(e[i - 1], t[i]) <=> Key(i)
    <3>1. /\ i \in 1 .. m /\ c \in 1 .. i - 1 /\ i - 1 \in c .. m - 2 /\ (i - 1) + 1 = i
          /\ (i - 1) - c \in 0 .. d /\ c + ((i - 1) - c) = i - 1 /\ c < i
      BY <1>2
    <3>2. ~Past(t, c, i) <=> t[i].start < t[c].end
      BY <1>1, <3>1, PastIsBehind
    <3>3. Key(i) => t[i].start < t[c].end
      BY DEF Parent, Within
    <3>4. ASSUME t[i].start < t[c].end PROVE ~Skipped(e[i - 1], t[i]) <=> Key(i)
      <4>1. (i - 1) - c = 0 \/ t[i - 1].start < t[c].end
        <5>1. CASE i - 1 = c
          BY <1>2, <5>1
        <5>2. CASE i - 1 # c
          <6>1. i - 1 \in 1 .. m /\ i - 1 \in 1 .. i - 1
            BY <3>1, <5>2, <1>2
          <6>2. t[i - 1].start < t[i].start
            BY <1>1, <3>1, <6>1, OrderedAt
          <6>3. t[i - 1].start \in Nat /\ t[i].start \in Nat /\ t[c].end \in Nat
            BY <1>2, <1>4, <3>1, <6>1
          <6> QED
            BY <3>4, <6>2, <6>3
        <5> QED
          BY <5>1, <5>2
      <4>2. (i - 1) - c \in P /\ (i - 1) - c \in Nat
        BY <2>6, <3>1
      <4>3. E(i - 1)
        BY <3>1, <4>1, <4>2 DEF P
      <4> QED
        BY <2>2, <3>1, <3>4, <4>3
    <3> QED
      BY <3>2, <3>3, <3>4
  <2>8. \A k \in K : Key(k) => k \in c + 1 .. m - 1
    BY <1>3
  <2>9. \A k : Key(k) => k \in K
    OBVIOUS
  <2> HIDE DEF Key
  <2>10. ObjectKeys(t, c) = {k \in K : Key(k)}
    BY <1>5, <2>7, <2>8, <2>9
  <2> QED
    BY <2>10 DEF Key
<1> QED
  BY <1>6, <1>7

-----------------------------------------------------------------------------
(* Ranks.                                                                  *)

\* The rank of the next number.
LEMMA RankStep ==
  ASSUME NEW m \in Nat, NEW S \in SUBSET (1 .. m), NEW i \in 1 .. m + 1
  PROVE  /\ Rank(S, i) \in Nat
         /\ i \in S => Rank(S, i + 1) = Rank(S, i) + 1
         /\ i \notin S => Rank(S, i + 1) = Rank(S, i)
<1> DEFINE B == {j \in S : j < i}
<1>1. IsFiniteSet(B) /\ i \notin B
  <2>1. IsFiniteSet(1 .. m)
    BY FS_Interval
  <2>2. B \subseteq 1 .. m
    OBVIOUS
  <2> QED
    BY <2>1, <2>2, FS_Subset
<1>2. \A j \in S : j < i + 1 <=> j < i \/ j = i
  OBVIOUS
<1>3. i \in S => {j \in S : j < i + 1} = B \cup {i}
  BY <1>2
<1>4. i \notin S => {j \in S : j < i + 1} = B
  BY <1>2
<1>5. Cardinality(B) \in Nat /\ Cardinality(B \cup {i}) = Cardinality(B) + 1
  <2> HIDE DEF B
  <2> QED
    BY <1>1, FS_CardinalityType, FS_AddElement
<1> HIDE DEF B
<1>6. Rank(S, i) = Cardinality(B)
  BY DEF Rank, B
<1>7. Rank(S, i + 1) = Cardinality({j \in S : j < i + 1})
  BY DEF Rank
<1> QED
  BY <1>3, <1>4, <1>5, <1>6, <1>7

LEMMA RankEnds ==
  ASSUME NEW m \in Nat, NEW S \in SUBSET (1 .. m)
  PROVE  Rank(S, 1) = 0 /\ Rank(S, m + 1) = Cardinality(S)
<1>1. \A j \in S : ~(j < 1) /\ j < m + 1
  OBVIOUS
<1>2. {j \in S : j < 1} = {} /\ {j \in S : j < m + 1} = S
  BY <1>1, Zenon
<1> QED
  BY <1>2, FS_EmptySet DEF Rank

\* Every rank below the cardinality is taken.
LEMMA RankTaken ==
  ASSUME NEW m \in Nat, NEW S \in SUBSET (1 .. m), NEW n \in 0 .. Cardinality(S) - 1
  PROVE  \E i \in S : Rank(S, i) = n
<1> DEFINE T == {i \in 1 .. m + 1 : Rank(S, i) > n}
<1>1. \A i \in 1 .. m + 1 : Rank(S, i) \in Nat
  BY RankStep
<1>2. Rank(S, 1) = 0 /\ Rank(S, m + 1) = Cardinality(S)
  BY RankEnds
<1>3. m + 1 \in T /\ T \in SUBSET Nat
  <2>1. m + 1 \in 1 .. m + 1
    OBVIOUS
  <2>2. Rank(S, m + 1) \in Nat
    BY <1>1, <2>1
  <2>3. Rank(S, m + 1) > n
    BY <1>2, <2>2
  <2> QED
    BY <2>1, <2>3
<1>4. PICK x \in T : \A y \in T : x <= y
  <2> HIDE DEF T
  <2> QED
    BY <1>3, Least
<1>5. x \in 1 .. m + 1 /\ Rank(S, x) > n
  OBVIOUS
<1>6. x # 1
  BY <1>2, <1>5
<1>7. x - 1 \in 1 .. m + 1 /\ (x - 1) + 1 = x /\ ~(x <= x - 1)
  BY <1>5, <1>6
<1>8. x - 1 \notin T
  BY <1>4, <1>7
<1>9. ~(Rank(S, x - 1) > n) /\ Rank(S, x - 1) \in Nat
  BY <1>1, <1>7, <1>8
<1>10. /\ x - 1 \in S => Rank(S, (x - 1) + 1) = Rank(S, x - 1) + 1
       /\ x - 1 \notin S => Rank(S, (x - 1) + 1) = Rank(S, x - 1)
  BY <1>7, RankStep
<1>11. x - 1 \in S
  BY <1>5, <1>7, <1>9, <1>10
<1>12. Rank(S, x) = Rank(S, x - 1) + 1
  BY <1>7, <1>10, <1>11
<1>13. Rank(S, x - 1) = n
  BY <1>5, <1>9, <1>12
<1> QED
  BY <1>11, <1>13

LEMMA NthRank ==
  ASSUME NEW m \in Nat, NEW S \in SUBSET (1 .. m), NEW n \in 0 .. Cardinality(S) - 1
  PROVE  Nth(S, n) \in S /\ Rank(S, Nth(S, n)) = n
<1>1. \E i \in S : Cardinality({j \in S : j < i}) = n
  BY RankTaken DEF Rank
<1> QED
  BY <1>1 DEF Nth, Rank

\* The members of C are pairs of neighbours, K the first of each pair.
LEMMA PairRanks ==
  ASSUME NEW m \in Nat, NEW C \in SUBSET (1 .. m), NEW K \in SUBSET C,
         \A k \in K : k + 1 \in C \ K,
         \A i \in C \ K : i - 1 \in K
  PROVE  /\ \A i \in C : i \in K => Rank(C, i) = 2 * Rank(K, i)
         /\ \A i \in C : i \in K => Rank(C, i + 1) = 2 * Rank(K, i) + 1
         /\ \A i \in C : i \notin K => Rank(C, i) = 2 * Rank(K, i) - 1
         /\ Cardinality(C) = 2 * Cardinality(K)
<1> DEFINE E(i) == Rank(C, i) = IF i - 1 \in K THEN 2 * Rank(K, i) - 1 ELSE 2 * Rank(K, i)
           P == {i \in Nat : E(i + 1)}
<1>1. K \in SUBSET (1 .. m)
  OBVIOUS
<1>2. \A i \in 1 .. m + 1 : /\ Rank(C, i) \in Nat /\ Rank(K, i) \in Nat
                            /\ Rank(C, i + 1) = IF i \in C THEN Rank(C, i) + 1 ELSE Rank(C, i)
                            /\ Rank(K, i + 1) = IF i \in K THEN Rank(K, i) + 1 ELSE Rank(K, i)
  BY <1>1, RankStep
<1>3. /\ Rank(C, 1) = 0 /\ Rank(C, m + 1) = Cardinality(C)
      /\ Rank(K, 1) = 0 /\ Rank(K, m + 1) = Cardinality(K)
  BY <1>1, RankEnds
<1>4. 0 \in P
  <2>1. 1 - 1 \notin K
    OBVIOUS
  <2>2. E(1)
    BY <1>3, <2>1
  <2> QED
    BY <2>2
<1>5. ASSUME NEW i \in 1 .. m, E(i) PROVE E(i + 1)
  <2>1. i \in 1 .. m + 1 /\ (i + 1) - 1 = i /\ (i - 1) + 1 = i
    OBVIOUS
  <2>2. PICK x \in Nat, y \in Nat : x = Rank(C, i) /\ y = Rank(K, i)
    BY <1>2, <2>1
  <2>3. /\ Rank(C, i + 1) = IF i \in C THEN x + 1 ELSE x
        /\ Rank(K, i + 1) = IF i \in K THEN y + 1 ELSE y
    BY <1>2, <2>1, <2>2
  <2>4. x = IF i - 1 \in K THEN 2 * y - 1 ELSE 2 * y
    BY <1>5, <2>2
  <2>5. CASE i \in K
    <3>1. i - 1 \notin K /\ i \in C
      BY <2>1, <2>5
    <3> QED
      BY <2>1, <2>3, <2>4, <2>5, <3>1
  <2>6. CASE i \in C /\ i \notin K
    <3>1. i - 1 \in K
      BY <2>6
    <3> QED
      BY <2>1, <2>3, <2>4, <2>6, <3>1
  <2>7. CASE i \notin C
    <3>1. i - 1 \notin K /\ i \notin K
      BY <2>1, <2>7
    <3> QED
      BY <2>1, <2>3, <2>4, <2>7, <3>1
  <2> QED
    BY <2>5, <2>6, <2>7
<1>6. \A i \in 0 .. m - 1 : i \in P => i + 1 \in P
  <2> SUFFICES ASSUME NEW i \in 0 .. m - 1, i \in P PROVE i + 1 \in P
    OBVIOUS
  <2>1. i + 1 \in 1 .. m /\ i + 1 \in Nat
    OBVIOUS
  <2> HIDE DEF E
  <2> QED
    BY <1>5, <2>1
<1>7. P \in SUBSET Nat
  OBVIOUS
<1>8. \A i \in 1 .. m + 1 : E(i)
  <2> SUFFICES ASSUME NEW i \in 1 .. m + 1 PROVE E(i)
    OBVIOUS
  <2>1. i - 1 \in 0 .. m /\ (i - 1) + 1 = i
    OBVIOUS
  <2> HIDE DEF E
  <2>2. i - 1 \in P
    <3> HIDE DEF P
    <3> QED
      BY <1>4, <1>6, <1>7, <2>1, Inductive
  <2> QED
    BY <2>1, <2>2
<1>9. ASSUME NEW i \in C PROVE /\ i \in K => Rank(C, i) = 2 * Rank(K, i)
                               /\ i \in K => Rank(C, i + 1) = 2 * Rank(K, i) + 1
                               /\ i \notin K => Rank(C, i) = 2 * Rank(K, i) - 1
  <2>1. i \in 1 .. m + 1 /\ (i - 1) + 1 = i
    OBVIOUS
  <2>2. i \in K <=> i - 1 \notin K
    BY <2>1
  <2>3. E(i)
    BY <1>8, <2>1
  <2>4. PICK x \in Nat, y \in Nat : x = Rank(C, i) /\ y = Rank(K, i)
    BY <1>2, <2>1
  <2>5. Rank(C, i + 1) = x + 1
    BY <1>2, <2>1, <2>4
  <2> QED
    BY <2>2, <2>3, <2>4, <2>5
<1>10. Cardinality(C) = 2 * Cardinality(K)
  <2>1. m + 1 \in 1 .. m + 1 /\ (m + 1) - 1 = m /\ m + 1 \notin C
    OBVIOUS
  <2>2. m \notin K
    BY <2>1
  <2>3. E(m + 1)
    BY <1>8, <2>1
  <2> QED
    BY <1>3, <2>1, <2>2, <2>3
<1> QED
  BY <1>9, <1>10

-----------------------------------------------------------------------------
(* What the walks find in a whole token array.                             *)

\* The keys of an object are the first, third, ... of its children.
LEMMA KeysOfObject ==
  ASSUME tokens \in Seq(Tok), Laminar(tokens), Closed(tokens),
         NEW K, Paired(tokens, K), Len(tokens) \notin K,
         NEW c \in ObjectsOf(tokens)
  PROVE  /\ ObjectKeys(tokens, c) = Keys(c)
         /\ Keys(c) \in SUBSET (1 .. Len(tokens) - 1)
         /\ Cardinality(Children(c)) = 2 * Cardinality(Keys(c))
         /\ \A k \in Keys(c) : Rank(Children(c), k + 1) = 2 * Rank(Keys(c), k) + 1
<1> DEFINE C == Children(c)
           O == {k \in K : Parent(tokens, k, c)}
<1>1. PICK m \in Nat : m = Len(tokens) /\ DOMAIN tokens = 1 .. m
  BY TokType
<1>2. c \in 1 .. m /\ tokens[c].kind = "Object"
  BY <1>1 DEF ObjectsOf
<1>3. C = {i \in 1 .. m : Parent(tokens, i, c)}
  BY <1>1, <1>2, ChildrenAreOfParent
<1>4. ObjectKeys(tokens, c) = O
  BY <1>1, <1>2, ObjectWalk
<1>5. K \subseteq 1 .. m
  BY <1>1 DEF Paired
<1>6. C \in SUBSET (1 .. m) /\ O \in SUBSET C
  BY <1>3, <1>5
<1>7. ASSUME NEW k \in O PROVE k \in 1 .. m - 1 /\ k + 1 \in C \ O
  <2>1. k \in c + 1 .. m - 1 /\ k + 1 \notin K /\ Parent(tokens, k + 1, c)
    BY <1>1, <1>2, KeyHasValue
  <2>2. k \in 1 .. m - 1 /\ k + 1 \in 1 .. m
    BY <1>2, <2>1
  <2> QED
    BY <1>3, <2>1, <2>2
<1>8. ASSUME NEW i \in C \ O PROVE i - 1 \in O
  <2>1. i \in 1 .. m /\ Parent(tokens, i, c) /\ i \notin K
    BY <1>3
  <2>2. i \in c + 1 .. m
    BY <1>2, <2>1, ParentIsBefore
  <2> QED
    BY <1>1, <1>2, <2>1, <2>2 DEF Paired
<1> HIDE DEF C, O
<1>9. /\ \A i \in C : i \in O => Rank(C, i) = 2 * Rank(O, i)
      /\ \A i \in C : i \in O => Rank(C, i + 1) = 2 * Rank(O, i) + 1
      /\ \A i \in C : i \notin O => Rank(C, i) = 2 * Rank(O, i) - 1
      /\ Cardinality(C) = 2 * Cardinality(O)
  BY <1>6, <1>7, <1>8, PairRanks
<1>10. ASSUME NEW i \in C PROVE Rank(C, i) % 2 = 0 <=> i \in O
  <2>1. i \in 1 .. m + 1 /\ O \in SUBSET (1 .. m)
    BY <1>6
  <2>2. Rank(O, i) \in Nat
    BY <2>1, RankStep
  <2>3. PICK y \in Nat : y = Rank(O, i)
    BY <2>2
  <2>4. (2 * y) % 2 = 0 /\ (2 * y - 1) % 2 = 1
    OBVIOUS
  <2> QED
    BY <1>9, <2>3, <2>4
<1>11. Keys(c) = O
  <2>1. Keys(c) = {i \in C : Rank(C, i) % 2 = 0}
    BY DEF Keys, C
  <2> QED
    BY <1>6, <1>10, <2>1
<1>12. Keys(c) \in SUBSET (1 .. m - 1)
  BY <1>7, <1>11
<1>13. \A k \in O : k \in C
  BY <1>6
<1> QED
  BY <1>1, <1>4, <1>9, <1>11, <1>12, <1>13 DEF C

LEMMA ElementsOfArray ==
  ASSUME tokens \in Seq(Tok), Laminar(tokens), Closed(tokens), NEW c \in ArraysOf(tokens)
  PROVE  /\ Elements(tokens, c) = Children(c)
         /\ array_get_element_count(tokens, c) = Cardinality(Children(c))
         /\ \A n \in 0 .. Cardinality(Children(c)) - 1 :
              Rank(Children(c), array_get_nth_element(tokens, c, n)) = n
<1>1. PICK m \in Nat : m = Len(tokens) /\ DOMAIN tokens = 1 .. m
  BY TokType
<1>2. c \in 1 .. m /\ tokens[c].kind \in Containers
  BY <1>1 DEF ArraysOf, Containers
<1>3. Elements(tokens, c) = Children(c) /\ Children(c) \in SUBSET (1 .. m)
  BY <1>1, <1>2, ArrayWalk, ChildrenAreOfParent
<1>4. ASSUME NEW n \in 0 .. Cardinality(Children(c)) - 1
      PROVE  Rank(Children(c), array_get_nth_element(tokens, c, n)) = n
  <2>1. n < Cardinality(Children(c))
    <3>1. IsFiniteSet(1 .. m)
      BY FS_Interval
    <3>2. Cardinality(Children(c)) \in Nat
      BY <1>3, <3>1, FS_Subset, FS_CardinalityType
    <3> QED
      BY <3>2
  <2>2. array_get_nth_element(tokens, c, n) = Nth(Children(c), n)
    BY <1>3, <2>1 DEF array_get_nth_element
  <2> QED
    BY <1>3, <2>2, NthRank
<1> QED
  BY <1>3, <1>4 DEF array_get_element_count

LEMMA MembersOfObject ==
  ASSUME tokens \in Seq(Tok), Laminar(tokens), Closed(tokens),
         NEW K, Paired(tokens, K), Len(tokens) \notin K,
         NEW c \in ObjectsOf(tokens)
  PROVE  /\ ObjectKeys(tokens, c) = Keys(c)
         /\ object_get_element_count(tokens, c) * 2 = Cardinality(Children(c))
         /\ \A n \in 0 .. Cardinality(Keys(c)) - 1 :
              Rank(Children(c), object_get_nth_value(tokens, c, n)) = 2 * n + 1
<1>1. PICK m \in Nat : m = Len(tokens)
  BY TokType
<1>2. /\ ObjectKeys(tokens, c) = Keys(c)
      /\ Keys(c) \in SUBSET (1 .. m - 1)
      /\ Cardinality(Children(c)) = 2 * Cardinality(Keys(c))
      /\ \A k \in Keys(c) : Rank(Children(c), k + 1) = 2 * Rank(Keys(c), k) + 1
  BY <1>1, KeysOfObject
<1>3. Cardinality(Keys(c)) \in Nat /\ Keys(c) \in SUBSET (1 .. m)
  <2>1. IsFiniteSet(1 .. m) /\ 1 .. m - 1 \subseteq 1 .. m
    BY FS_Interval
  <2>2. Keys(c) \in SUBSET (1 .. m)
    BY <1>2, <2>1
  <2> QED
    BY <2>1, <2>2, FS_Subset, FS_CardinalityType
<1>4. ASSUME NEW n \in 0 .. Cardinality(Keys(c)) - 1
      PROVE  Rank(Children(c), object_get_nth_value(tokens, c, n)) = 2 * n + 1
  <2>1. n < Cardinality(Keys(c))
    BY <1>3
  <2>2. object_get_nth_key(tokens, c, n) = Nth(Keys(c), n)
    BY <1>2, <2>1 DEF object_get_nth_key
  <2>3. Nth(Keys(c), n) \in Keys(c) /\ Rank(Keys(c), Nth(Keys(c), n)) = n
    BY <1>3, NthRank
  <2>4. Nth(Keys(c), n) # 0
    BY <1>3, <2>3
  <2>5. object_get_nth_value(tokens, c, n) = Nth(Keys(c), n) + 1
    BY <2>2, <2>4 DEF object_get_nth_value, NoData
  <2> QED
    BY <1>2, <2>3, <2>5
<1>5. object_get_element_count(tokens, c) = Cardinality(Keys(c))
  BY <1>2 DEF object_get_element_count
<1>6. object_get_element_count(tokens, c) * 2 = Cardinality(Children(c))
  BY <1>2, <1>3, <1>5
<1> QED
  BY <1>2, <1>4, <1>6

LEMMA LookupsOfWhole ==
  ASSUME tokens \in Seq(Tok), Laminar(tokens), Closed(tokens),
         NEW K, Paired(tokens, K), Len(tokens) \notin K
  PROVE  LookupsFollowNesting
BY ElementsOfArray, MembersOfObject DEF LookupsFollowNesting

-----------------------------------------------------------------------------
(* What check_key_integrity leaves.                                        *)

LEMMA NoFaults ==
  ASSUME check_key_integrity(js, tokens) = "Ok", NEW c \in ObjectsOf(tokens),
         NEW k \in ObjectKeys(tokens, c), k \in DOMAIN tokens
  PROVE  ~EscapedKey(js, tokens[k]) /\ ~DuplicatedKey(js, tokens, c, k)
<1> DEFINE objects == {o \in DOMAIN tokens : tokens[o].kind = "Object"}
           faults == {f \in objects \X DOMAIN tokens :
                        /\ f[2] \in ObjectKeys(tokens, f[1])
                        /\ EscapedKey(js, tokens[f[2]]) \/ DuplicatedKey(js, tokens, f[1], f[2])}
           first == CHOOSE f \in faults :
                      \A g \in faults : f[1] < g[1] \/ (f[1] = g[1] /\ f[2] <= g[2])
<1>1. check_key_integrity(js, tokens) =
        IF faults = {} THEN "Ok"
        ELSE IF EscapedKey(js, tokens[first[2]]) THEN "UnexpectedCharacters"
        ELSE "DuplicatedField"
  BY Zenon DEF check_key_integrity
<1>2. c \in objects
  BY DEF ObjectsOf
<1> HIDE DEF objects, first
<1>3. faults = {}
  <2> HIDE DEF faults
  <2> QED
    BY <1>1
<1>4. <<c, k>> \in objects \X DOMAIN tokens /\ <<c, k>>[1] = c /\ <<c, k>>[2] = k
  BY <1>2
<1>5. <<c, k>> \notin faults
  <2> HIDE DEF faults
  <2> QED
    BY <1>3
<1> QED
  BY <1>4, <1>5

LEMMA SpanBytes ==
  ASSUME NEW D, NEW u \in Seq(D), NEW s \in Nat, NEW e \in Nat, s <= e, e <= Len(u)
  PROVE  /\ SubSeq(u, s + 1, e) \in Seq(D)
         /\ Len(SubSeq(u, s + 1, e)) = e - s
         /\ DOMAIN SubSeq(u, s + 1, e) = 1 .. e - s
         /\ \A j \in 1 .. e - s : SubSeq(u, s + 1, e)[j] = u[s + j]
<1>1. Len(u) \in Nat
  BY LenProperties
<1>2. \A j \in s + 1 .. e : u[j] \in D
  <2>1. \A j \in s + 1 .. e : j \in 1 .. Len(u)
    BY <1>1
  <2> QED
    BY <2>1, ElementOfSeq
<1>3. s + 1 \in Int /\ e \in Int
  OBVIOUS
<1>4. /\ SubSeq(u, s + 1, e) \in Seq(D)
      /\ Len(SubSeq(u, s + 1, e)) = IF s + 1 <= e THEN e - (s + 1) + 1 ELSE 0
      /\ \A j \in 1 .. e - (s + 1) + 1 : SubSeq(u, s + 1, e)[j] = u[(s + 1) + j - 1]
  BY <1>2, <1>3, SubSeqProperties
<1>5. Len(SubSeq(u, s + 1, e)) = e - s
  BY <1>4
<1>6. DOMAIN SubSeq(u, s + 1, e) = 1 .. e - s
  BY <1>4, <1>5, LenProperties
<1>7. \A j \in 1 .. e - s : (s + 1) + j - 1 = s + j /\ j \in 1 .. e - (s + 1) + 1
  OBVIOUS
<1> QED
  BY <1>4, <1>5, <1>6, <1>7

LEMMA MembersOfChecked ==
  ASSUME tokens \in Seq(Tok), Laminar(tokens), Closed(tokens),
         NEW K, Paired(tokens, K), Len(tokens) \notin K,
         js \in Seq(AllChars), \A i \in 1 .. Len(tokens) : tokens[i].end <= Len(js),
         check_key_integrity(js, tokens) = "Ok"
  PROVE  MembersAreUnambiguous
<1> SUFFICES ASSUME NEW c \in ObjectsOf(tokens), NEW k \in Keys(c)
             PROVE  LET key == Span(js, tokens[k])
                    IN  /\ object_get_value(js, tokens, c, key) = k + 1
                        /\ \A i \in DOMAIN key : key[i] # "\\"
  BY DEF MembersAreUnambiguous
<1> DEFINE key == Span(js, tokens[k])
           matches == {b \in ObjectKeys(tokens, c) : Span(js, tokens[b]) = key}
<1>1. PICK m \in Nat : m = Len(tokens) /\ DOMAIN tokens = 1 .. m
  BY TokType
<1>2. ObjectKeys(tokens, c) = Keys(c) /\ Keys(c) \in SUBSET (1 .. m - 1)
  BY <1>1, KeysOfObject
<1>3. \A b \in Keys(c) : b \in 1 .. m
  BY <1>2
<1>4. \A b \in Keys(c) : ~EscapedKey(js, tokens[b]) /\ ~DuplicatedKey(js, tokens, c, b)
  BY <1>1, <1>2, <1>3, NoFaults
<1>5. ASSUME NEW b \in Keys(c), Span(js, tokens[b]) = key PROVE b = k
  <2>1. ~(b < k)
    <3>1. ~DuplicatedKey(js, tokens, c, k)
      BY <1>4
    <3> HIDE DEF key
    <3> QED
      BY <1>2, <1>5, <3>1 DEF DuplicatedKey, EarlierKeys, key
  <2>2. ~(k < b)
    <3>1. ~DuplicatedKey(js, tokens, c, b)
      BY <1>4
    <3> QED
      BY <1>2, <1>5, <3>1 DEF DuplicatedKey, EarlierKeys
  <2>3. b \in Nat /\ k \in Nat
    BY <1>3
  <2> QED
    BY <2>1, <2>2, <2>3
<1>6. matches = {k}
  <2> HIDE DEF key
  <2>1. Span(js, tokens[k]) = key
    BY DEF key
  <2> QED
    BY <1>2, <1>5, <2>1
<1>7. Min(matches) = k
  <2>1. Min({k}) = CHOOSE x \in {k} : \A y \in {k} : x <= y
    BY DEF Min
  <2>2. k \in Nat
    BY <1>3
  <2>3. k <= k
    BY <2>2
  <2>4. Min({k}) = k
    BY <2>1, <2>3
  <2> QED
    BY <1>6, <2>4
<1>8. object_get_value(js, tokens, c, key) = IF matches = {} THEN NoData ELSE Min(matches) + 1
  BY Zenon DEF object_get_value
<1>9. object_get_value(js, tokens, c, key) = k + 1
  <2> HIDE DEF matches, key
  <2> QED
    BY <1>6, <1>7, <1>8
<1>10. ASSUME NEW i \in DOMAIN key PROVE key[i] # "\\"
  <2>1. PICK s \in Nat, e \in Nat : s = tokens[k].start /\ e = tokens[k].end
    BY <1>1, <1>3, TokType
  <2>2. s <= e /\ e <= Len(js)
    BY <1>1, <1>3, <2>1 DEF Laminar
  <2>3. key = SubSeq(js, s + 1, e)
    BY <2>1 DEF Span
  <2>4. DOMAIN key = 1 .. e - s /\ \A j \in 1 .. e - s : key[j] = js[s + j]
    BY <2>2, <2>3, SpanBytes
  <2>5. key[i] = js[s + i] /\ s + i \in s + 1 .. e
    <3> HIDE DEF key
    <3> QED
      BY <2>4
  <2>6. \A j \in s + 1 .. e : js[j] # "\\"
    BY <1>4, <2>1 DEF EscapedKey
  <2> QED
    BY <2>5, <2>6
<1> QED
  BY <1>9, <1>10

-----------------------------------------------------------------------------
(* How the tokenizer grows a token array: a token is appended behind the   *)
(* closed ones, or the innermost open one is closed.                       *)

Bounded(t) == \A i \in 1 .. Len(t) : t[i].start < UNSET /\ t[i].end <= UNSET

\* Only containers stay open.
OpenAreContainers(t) == \A i \in 1 .. Len(t) : t[i].end = UNSET => t[i].kind \in Containers

\* Everything written starts and ends before p.
Fresh(t, p) ==
  \A i \in 1 .. Len(t) : t[i].start < p /\ (t[i].end # UNSET => t[i].end < p)

\* ... or at p.
Behind(t, p) ==
  \A i \in 1 .. Len(t) : t[i].start <= p /\ (t[i].end # UNSET => t[i].end <= p)

\* i is the last open token before token n, or 0.
IsTop(t, n, i) ==
  \/ i = 0 /\ \A j \in 1 .. n - 1 : t[j].end # UNSET
  \/ i \in 1 .. n - 1 /\ t[i].end = UNSET /\ \A j \in i + 1 .. n - 1 : t[j].end # UNSET

LEMMA InnermostIsTop ==
  ASSUME NEW t \in Seq(Tok), Bounded(t), NEW n \in 1 .. Len(t) + 1
  PROVE  IsTop(t, n, InnermostOpen(t, n))
<1> DEFINE S == OpenBelow(t, n)
<1>1. PICK m \in Nat : m = Len(t) /\ DOMAIN t = 1 .. m
  BY TokType
<1>2. n \in 1 .. m + 1 /\ \A i \in 1 .. m : t[i].start # UNSET
  <2>1. \A i \in 1 .. m : t[i].start < UNSET /\ t[i].start \in Nat
    BY <1>1, TokType DEF Bounded
  <2> QED
    BY <1>1, <2>1 DEF UNSET
<1>3. S = {i \in 1 .. n - 1 : t[i].end = UNSET}
  <2>1. S = {i \in 1 .. m : i < n /\ t[i].end = UNSET}
    BY <1>1, <1>2 DEF OpenBelow, is_open
  <2>2. \A i : i \in 1 .. m /\ i < n <=> i \in 1 .. n - 1
    BY <1>2
  <2> HIDE DEF S
  <2> QED
    BY <2>1, <2>2
<1>4. CASE S = {}
  <2>1. InnermostOpen(t, n) = 0
    BY <1>4 DEF InnermostOpen
  <2> QED
    BY <1>3, <1>4, <2>1 DEF IsTop
<1>5. CASE S # {}
  <2>1. InnermostOpen(t, n) = Max(S)
    BY <1>5 DEF InnermostOpen
  <2>2. S \in SUBSET (0 .. m)
    BY <1>2, <1>3
  <2>3. \E x \in S : \A y \in S : x >= y
    <3> HIDE DEF S
    <3> QED
      BY <1>5, <2>2, Greatest
  <2> HIDE DEF S
  <2>4. Max(S) \in S /\ \A y \in S : Max(S) >= y
    BY <2>3 DEF Max
  <2>5. PICK x \in S : x = Max(S) /\ \A y \in S : x >= y
    BY <2>4
  <2>6. x \in 1 .. n - 1 /\ t[x].end = UNSET
    BY <1>3
  <2>7. ASSUME NEW j \in x + 1 .. n - 1, t[j].end = UNSET PROVE FALSE
    <3>1. j \in 1 .. n - 1 /\ ~(x >= j)
      BY <1>2, <2>6
    <3> QED
      BY <1>3, <2>5, <2>7, <3>1
  <2> QED
    BY <2>1, <2>5, <2>6, <2>7 DEF IsTop
<1> QED
  BY <1>4, <1>5

LEMMA TopUnique ==
  ASSUME NEW t, NEW n \in Nat, NEW i, NEW j, IsTop(t, n, i), IsTop(t, n, j)
  PROVE  i = j
<1>1. CASE i = 0
  BY <1>1 DEF IsTop
<1>2. CASE j = 0
  BY <1>2 DEF IsTop
<1>3. CASE i # 0 /\ j # 0
  <2>1. /\ i \in 1 .. n - 1 /\ t[i].end = UNSET /\ \A k \in i + 1 .. n - 1 : t[k].end # UNSET
        /\ j \in 1 .. n - 1 /\ t[j].end = UNSET /\ \A k \in j + 1 .. n - 1 : t[k].end # UNSET
    BY <1>3 DEF IsTop
  <2>2. j \notin i + 1 .. n - 1 /\ i \notin j + 1 .. n - 1
    BY <2>1
  <2> QED
    BY <2>1, <2>2
<1> QED
  BY <1>1, <1>2, <1>3

LEMMA Appended ==
  ASSUME NEW D, NEW t \in Seq(D), NEW x \in D
  PROVE  /\ Append(t, x) \in Seq(D)
         /\ Len(Append(t, x)) = Len(t) + 1
         /\ \A i \in 1 .. Len(t) : Append(t, x)[i] = t[i]
         /\ Append(t, x)[Len(t) + 1] = x
BY AppendProperties

LEMMA AppendedKeeps ==
  ASSUME NEW t \in Seq(Tok), NEW x \in Tok,
         Laminar(t), Bounded(t), OpenAreContainers(t), Fresh(t, x.start),
         x.start <= x.end, x.start < UNSET, x.end <= UNSET,
         x.end = UNSET => x.kind \in Containers
  PROVE  /\ Laminar(Append(t, x)) /\ Bounded(Append(t, x)) /\ OpenAreContainers(Append(t, x))
<1> DEFINE u == Append(t, x)
<1>1. PICK m \in Nat : m = Len(t)
  BY TokType
<1>2. /\ u \in Seq(Tok) /\ Len(u) = m + 1 /\ u[m + 1] = x
      /\ \A i \in 1 .. m : u[i] = t[i]
  BY <1>1, Appended
<1> HIDE DEF u
<1>3. \A i \in 1 .. m + 1 : i \in 1 .. m \/ i = m + 1
  OBVIOUS
<1>4. Bounded(u)
  BY <1>1, <1>2, <1>3 DEF Bounded
<1>5. OpenAreContainers(u)
  BY <1>1, <1>2, <1>3 DEF OpenAreContainers
<1>6. \A j \in 1 .. m + 1 : u[j].start <= u[j].end
  BY <1>1, <1>2, <1>3 DEF Laminar
<1>7. ASSUME NEW j \in 1 .. m, NEW i \in 1 .. j - 1 PROVE Ordered(u, i, j)
  <2>1. i \in 1 .. m /\ u[i] = t[i] /\ u[j] = t[j]
    BY <1>2
  <2>2. Ordered(t, i, j)
    BY <1>1 DEF Laminar
  <2> QED
    BY <2>1, <2>2 DEF Ordered
<1>8. ASSUME NEW i \in 1 .. m PROVE Ordered(u, i, m + 1)
  <2>1. /\ t[i].start < x.start /\ (t[i].end # UNSET => t[i].end < x.start)
        /\ (t[i].end = UNSET => t[i].kind \in Containers)
    BY <1>1 DEF Fresh, OpenAreContainers
  <2>2. t[i].end \in Nat /\ x.start \in Nat
    BY <1>1, TokType DEF Tok
  <2>3. /\ x.start # t[i].end
        /\ x.start < t[i].end => t[i].end = UNSET
    BY <2>1, <2>2 DEF UNSET
  <2> QED
    BY <1>2, <2>1, <2>3 DEF Ordered
<1>9. \A j \in 1 .. m + 1 : \A i \in 1 .. j - 1 : Ordered(u, i, j)
  <2> SUFFICES ASSUME NEW j \in 1 .. m + 1, NEW i \in 1 .. j - 1 PROVE Ordered(u, i, j)
    OBVIOUS
  <2>1. CASE j = m + 1
    BY <1>8, <2>1
  <2>2. CASE j \in 1 .. m
    BY <1>7, <2>2
  <2> QED
    BY <1>3, <2>1, <2>2
<1>10. Laminar(u)
  BY <1>2, <1>6, <1>9 DEF Laminar
<1> QED
  BY <1>4, <1>5, <1>10 DEF u

\* The parents of the tokens there are do not change.
LEMMA AppendedOldParent ==
  ASSUME NEW t \in Seq(Tok), NEW x \in Tok, NEW i \in 1 .. Len(t), NEW c \in 1 .. Len(t)
  PROVE  Parent(Append(t, x), i, c) <=> Parent(t, i, c)
<1> DEFINE u == Append(t, x)
<1>1. PICK m \in Nat : m = Len(t)
  BY TokType
<1>2. \A k \in 1 .. m : u[k] = t[k]
  BY <1>1, Appended
<1>3. i \in 1 .. m /\ c \in 1 .. m
  BY <1>1
<1> HIDE DEF u
<1>4. \A d \in 1 .. m : Within(u, i, d) <=> Within(t, i, d)
  BY <1>2, <1>3 DEF Within
<1>5. \A d \in c + 1 .. i - 1 : d \in 1 .. m
  BY <1>3
<1>6. Parent(u, i, c) <=> Parent(t, i, c)
  BY <1>3, <1>4, <1>5 DEF Parent
<1> QED
  BY <1>6 DEF u

\* The parent of the new token is the innermost open one.
LEMMA AppendedNewParent ==
  ASSUME NEW t \in Seq(Tok), NEW x \in Tok, OpenAreContainers(t), Fresh(t, x.start),
         x.start < UNSET, NEW p, IsTop(t, Len(t) + 1, p), NEW c \in 1 .. Len(t)
  PROVE  Parent(Append(t, x), Len(t) + 1, c) <=> c = p
<1> DEFINE u == Append(t, x)
<1>1. PICK m \in Nat : m = Len(t)
  BY TokType
<1>2. (\A k \in 1 .. m : u[k] = t[k]) /\ u[m + 1] = x
  BY <1>1, Appended
<1>3. c \in 1 .. m /\ IsTop(t, m + 1, p) /\ (m + 1) - 1 = m
  BY <1>1
<1> HIDE DEF u
<1>4. ASSUME NEW d \in 1 .. m PROVE Within(u, m + 1, d) <=> t[d].end = UNSET
  <2>1. /\ (t[d].end # UNSET => t[d].end < x.start)
        /\ (t[d].end = UNSET => t[d].kind \in Containers)
    BY <1>1 DEF Fresh, OpenAreContainers
  <2>2. t[d].end \in Nat /\ x.start \in Nat /\ d < m + 1
    BY <1>1, TokType DEF Tok
  <2>3. x.start < t[d].end <=> t[d].end = UNSET
    BY <2>1, <2>2
  <2> QED
    BY <1>2, <2>1, <2>2, <2>3 DEF Within
<1>5. ASSUME c = p PROVE Parent(u, m + 1, c)
  <2>1. t[c].end = UNSET /\ \A j \in c + 1 .. m : t[j].end # UNSET
    BY <1>3, <1>5 DEF IsTop
  <2>2. \A d \in c + 1 .. m : d \in 1 .. m
    BY <1>3
  <2> QED
    BY <1>3, <1>4, <2>1, <2>2 DEF Parent
<1>6. ASSUME Parent(u, m + 1, c) PROVE c = p
  <2>1. t[c].end = UNSET
    BY <1>3, <1>4, <1>6 DEF Parent
  <2>2. \A j \in c + 1 .. m : t[j].end # UNSET
    <3>1. \A d \in c + 1 .. m : d \in 1 .. m
      BY <1>3
    <3> QED
      BY <1>3, <1>4, <1>6, <3>1 DEF Parent
  <2>3. IsTop(t, m + 1, c)
    BY <1>3, <2>1, <2>2 DEF IsTop
  <2>4. m + 1 \in Nat
    OBVIOUS
  <2> QED
    BY <1>3, <2>3, <2>4, TopUnique
<1> QED
  BY <1>1, <1>5, <1>6 DEF u

LEMMA AppendedTop ==
  ASSUME NEW t \in Seq(Tok), NEW x \in Tok, NEW p, IsTop(t, Len(t) + 1, p)
  PROVE  /\ x.end = UNSET => IsTop(Append(t, x), (Len(t) + 1) + 1, Len(t) + 1)
         /\ x.end # UNSET => IsTop(Append(t, x), (Len(t) + 1) + 1, p)
<1> DEFINE u == Append(t, x)
<1>1. PICK m \in Nat : m = Len(t)
  BY TokType
<1>2. (\A k \in 1 .. m : u[k] = t[k]) /\ u[m + 1] = x
  BY <1>1, Appended
<1>3. IsTop(t, m + 1, p) /\ (m + 1) - 1 = m /\ ((m + 1) + 1) - 1 = m + 1
  BY <1>1
<1> HIDE DEF u
<1>4. ASSUME x.end = UNSET PROVE IsTop(u, (m + 1) + 1, m + 1)
  <2>1. m + 1 \in 1 .. m + 1 /\ (m + 1) + 1 .. m + 1 = {}
    OBVIOUS
  <2> QED
    BY <1>2, <1>3, <1>4, <2>1 DEF IsTop
<1>5. ASSUME x.end # UNSET PROVE IsTop(u, (m + 1) + 1, p)
  <2>1. \A j \in 1 .. m + 1 : j \in 1 .. m \/ j = m + 1
    OBVIOUS
  <2>2. CASE p = 0
    BY <1>2, <1>3, <1>5, <2>1, <2>2 DEF IsTop
  <2>3. CASE p # 0
    <3>1. p \in 1 .. m /\ t[p].end = UNSET /\ \A j \in p + 1 .. m : t[j].end # UNSET
      BY <1>3, <2>3 DEF IsTop
    <3>2. p \in 1 .. m + 1 /\ \A j \in p + 1 .. m + 1 : j \in 1 .. m + 1 /\ (j \in p + 1 .. m \/ j = m + 1)
      BY <3>1
    <3>3. u[p].end = UNSET
      BY <1>2, <3>1
    <3>4. \A j \in p + 1 .. m + 1 : u[j].end # UNSET
      BY <1>2, <1>5, <2>1, <3>1, <3>2
    <3> QED
      BY <1>3, <3>2, <3>3, <3>4 DEF IsTop
  <2> QED
    BY <2>2, <2>3
<1> QED
  BY <1>1, <1>4, <1>5 DEF u

LEMMA ParentUnique ==
  ASSUME NEW t, NEW i \in Nat, NEW c \in Nat, NEW d \in Nat, Parent(t, i, c), Parent(t, i, d)
  PROVE  c = d
<1>1. Within(t, i, c) /\ Within(t, i, d) /\ c < i /\ d < i
  BY DEF Parent, Within
<1>2. d \notin c + 1 .. i - 1 /\ c \notin d + 1 .. i - 1
  BY <1>1 DEF Parent
<1> QED
  BY <1>1, <1>2

\* A key is written into the innermost open object.
LEMMA AppendedKey ==
  ASSUME NEW t \in Seq(Tok), NEW x \in Tok, OpenAreContainers(t), Fresh(t, x.start),
         x.start < UNSET, x.kind = "String",
         NEW p \in 1 .. Len(t), IsTop(t, Len(t) + 1, p), t[p].kind = "Object",
         NEW K, Paired(t, K), Len(t) \notin K
  PROVE  /\ Paired(Append(t, x), K \cup {Len(t) + 1})
         /\ Parent(Append(t, x), Len(t) + 1, p)
<1> DEFINE u == Append(t, x)
<1>1. PICK m \in Nat : m = Len(t)
  BY TokType
<1>2. Len(u) = m + 1 /\ (\A k \in 1 .. m : u[k] = t[k]) /\ u[m + 1] = x
  BY <1>1, Appended
<1>3. \A i, c \in 1 .. m : Parent(u, i, c) <=> Parent(t, i, c)
  BY <1>1, AppendedOldParent
<1>4. \A c \in 1 .. m : Parent(u, m + 1, c) <=> c = p
  BY <1>1, AppendedNewParent
<1> HIDE DEF u
<1>5. p \in 1 .. m /\ Parent(u, m + 1, p)
  BY <1>1, <1>4
<1> DEFINE L == K \cup {m + 1}
<1>6. K \subseteq 1 .. m /\ m \notin K
  BY <1>1 DEF Paired
<1>7. L \subseteq 1 .. m + 1
  BY <1>6
<1>8. ASSUME NEW k \in L
      PROVE  u[k].kind = "String" /\ \E c \in 1 .. k - 1 : u[c].kind = "Object" /\ Parent(u, k, c)
  <2>1. CASE k = m + 1
    <3>1. p \in 1 .. k - 1 /\ u[p].kind = "Object"
      BY <1>2, <1>5, <2>1
    <3> QED
      BY <1>2, <1>5, <2>1, <3>1
  <2>2. CASE k \in K
    <3>1. t[k].kind = "String" /\ \E c \in 1 .. k - 1 : t[c].kind = "Object" /\ Parent(t, k, c)
      BY <2>2 DEF Paired
    <3>2. PICK c \in 1 .. k - 1 : t[c].kind = "Object" /\ Parent(t, k, c)
      BY <3>1
    <3>3. k \in 1 .. m /\ c \in 1 .. m
      BY <1>6, <2>2
    <3> QED
      BY <1>2, <1>3, <3>1, <3>2, <3>3
  <2> QED
    BY <2>1, <2>2
<1>9. ASSUME NEW k \in L, k < m + 1
      PROVE  k + 1 \notin L /\ \A c \in 1 .. k - 1 : Parent(u, k, c) => Parent(u, k + 1, c)
  <2>1. k \in K /\ k \in 1 .. m /\ k # m
    BY <1>6, <1>9
  <2>2. k < m /\ k + 1 \in 1 .. m /\ k + 1 # m + 1
    BY <2>1
  <2>3. k + 1 \notin K /\ \A c \in 1 .. k - 1 : Parent(t, k, c) => Parent(t, k + 1, c)
    BY <1>1, <2>1, <2>2 DEF Paired
  <2>4. \A c \in 1 .. k - 1 : c \in 1 .. m
    BY <2>1
  <2> QED
    BY <1>3, <2>1, <2>2, <2>3, <2>4
<1>10. ASSUME NEW c \in 1 .. m + 1, NEW i \in c + 1 .. m + 1,
              u[c].kind = "Object", Parent(u, i, c), i \notin L
       PROVE  i - 1 \in L /\ Parent(u, i - 1, c)
  <2>1. i \in 1 .. m /\ c \in 1 .. m /\ i \in c + 1 .. m /\ i - 1 \in 1 .. m
    BY <1>10
  <2>2. t[c].kind = "Object" /\ Parent(t, i, c) /\ i \notin K
    BY <1>2, <1>3, <1>10, <2>1
  <2>3. i - 1 \in K /\ Parent(t, i - 1, c)
    BY <1>1, <2>1, <2>2 DEF Paired
  <2> QED
    BY <1>3, <2>1, <2>3
<1> HIDE DEF L
<1>11. Paired(u, L)
  BY <1>2, <1>7, <1>8, <1>9, <1>10 DEF Paired
<1> QED
  BY <1>1, <1>5, <1>11 DEF u, L

\* A value is written after its key, or into an array, or is the first token.
LEMMA AppendedValue ==
  ASSUME NEW t \in Seq(Tok), NEW x \in Tok, OpenAreContainers(t), Fresh(t, x.start),
         x.start < UNSET,
         NEW p, IsTop(t, Len(t) + 1, p),
         NEW K, Paired(t, K),
         p # 0 /\ t[p].kind = "Object" <=> Len(t) \in K,
         Len(t) \in K => Parent(t, Len(t), p)
  PROVE  Paired(Append(t, x), K) /\ Len(t) + 1 \notin K
<1> DEFINE u == Append(t, x)
<1>1. PICK m \in Nat : m = Len(t)
  BY TokType
<1>2. Len(u) = m + 1 /\ (\A k \in 1 .. m : u[k] = t[k]) /\ u[m + 1] = x
  BY <1>1, Appended
<1>3. \A i, c \in 1 .. m : Parent(u, i, c) <=> Parent(t, i, c)
  BY <1>1, AppendedOldParent
<1>4. \A c \in 1 .. m : Parent(u, m + 1, c) <=> c = p
  BY <1>1, AppendedNewParent
<1> HIDE DEF u
<1>5. K \subseteq 1 .. m /\ m + 1 \notin K /\ K \subseteq 1 .. m + 1
  BY <1>1 DEF Paired
<1>6. ASSUME NEW k \in K
      PROVE  u[k].kind = "String" /\ \E c \in 1 .. k - 1 : u[c].kind = "Object" /\ Parent(u, k, c)
  <2>1. t[k].kind = "String" /\ \E c \in 1 .. k - 1 : t[c].kind = "Object" /\ Parent(t, k, c)
    BY DEF Paired
  <2>2. PICK c \in 1 .. k - 1 : t[c].kind = "Object" /\ Parent(t, k, c)
    BY <2>1
  <2>3. k \in 1 .. m /\ c \in 1 .. m
    BY <1>5
  <2> QED
    BY <1>2, <1>3, <2>1, <2>2, <2>3
<1>7. ASSUME NEW k \in K
      PROVE  k + 1 \notin K /\ \A c \in 1 .. k - 1 : Parent(u, k, c) => Parent(u, k + 1, c)
  <2>1. k \in 1 .. m /\ \A c \in 1 .. k - 1 : c \in 1 .. m
    BY <1>5
  <2>2. CASE k = m
    <3>1. Parent(t, m, p) /\ p # 0
      BY <1>1, <2>2
    <3>2. p \in 1 .. m
      BY <1>1, <3>1 DEF IsTop
    <3>3. ASSUME NEW c \in 1 .. k - 1, Parent(u, k, c) PROVE Parent(u, k + 1, c)
      <4>1. Parent(t, m, c) /\ c \in Nat /\ p \in Nat /\ c \in 1 .. m
        BY <1>3, <2>1, <2>2, <3>2, <3>3
      <4>2. c = p
        BY <3>1, <4>1, ParentUnique
      <4> QED
        BY <1>4, <2>2, <3>2, <4>2
    <3> QED
      BY <1>5, <2>2, <3>3
  <2>3. CASE k # m
    <3>1. k < m /\ k + 1 \in 1 .. m
      BY <2>1, <2>3
    <3>2. k + 1 \notin K /\ \A c \in 1 .. k - 1 : Parent(t, k, c) => Parent(t, k + 1, c)
      BY <1>1, <3>1 DEF Paired
    <3> QED
      BY <1>3, <2>1, <3>1, <3>2
  <2> QED
    BY <2>2, <2>3
<1>8. ASSUME NEW c \in 1 .. m + 1, NEW i \in c + 1 .. m + 1,
             u[c].kind = "Object", Parent(u, i, c), i \notin K
      PROVE  i - 1 \in K /\ Parent(u, i - 1, c)
  <2>1. CASE i = m + 1
    <3>1. c \in 1 .. m /\ i - 1 = m
      BY <2>1
    <3>2. c = p /\ c # 0 /\ t[p].kind = "Object"
      BY <1>2, <1>4, <1>8, <2>1, <3>1
    <3>3. m \in K
      BY <1>1, <3>2
    <3>4. Parent(t, m, c) /\ m \in 1 .. m
      BY <1>1, <1>5, <3>2, <3>3
    <3> QED
      BY <1>3, <3>1, <3>3, <3>4
  <2>2. CASE i # m + 1
    <3>1. i \in 1 .. m /\ c \in 1 .. m /\ i \in c + 1 .. m /\ i - 1 \in 1 .. m
      BY <2>2
    <3>2. t[c].kind = "Object" /\ Parent(t, i, c)
      BY <1>2, <1>3, <1>8, <3>1
    <3>3. i - 1 \in K /\ Parent(t, i - 1, c)
      BY <1>1, <1>8, <3>1, <3>2 DEF Paired
    <3> QED
      BY <1>3, <3>1, <3>3
  <2> QED
    BY <2>1, <2>2
<1>9. Paired(u, K)
  BY <1>2, <1>5, <1>6, <1>7, <1>8 DEF Paired
<1> QED
  BY <1>1, <1>5, <1>9 DEF u

\* The innermost open token is closed behind everything written.
LEMMA ClosedKeeps ==
  ASSUME NEW t \in Seq(Tok), NEW e \in Nat, NEW p \in 1 .. Len(t), IsTop(t, Len(t) + 1, p),
         Laminar(t), Bounded(t), OpenAreContainers(t), Behind(t, e - 1), e < UNSET, NEW u,
         u = [t EXCEPT ![p].end = e]
  PROVE  /\ u \in Seq(Tok) /\ Len(u) = Len(t)
         /\ \A i \in 1 .. Len(t) : u[i].kind = t[i].kind /\ u[i].start = t[i].start
         /\ \A i \in 1 .. Len(t) : u[i].end = IF i = p THEN e ELSE t[i].end
         /\ Laminar(u) /\ Bounded(u) /\ OpenAreContainers(u)
         /\ \A i, c \in 1 .. Len(t) : Parent(u, i, c) <=> Parent(t, i, c)
<1>1. PICK m \in Nat : m = Len(t) /\ DOMAIN t = 1 .. m
  BY TokType
<1>2. \A i \in 1 .. m : t[i] \in Tok
  BY <1>1, ElementOfSeq
<1>3. p \in 1 .. m /\ t[p].end = UNSET /\ \A j \in p + 1 .. m : t[j].end # UNSET
  BY <1>1 DEF IsTop
<1>4. [t[p] EXCEPT !.end = e] \in Tok
  BY <1>2, <1>3 DEF Tok
<1>5. u \in Seq(Tok) /\ Len(u) = m
  BY <1>1, <1>2, <1>3, <1>4, ExceptSeq
<1>6. ASSUME NEW i \in 1 .. m
      PROVE  u[i].kind = t[i].kind /\ u[i].start = t[i].start /\ u[i].end = IF i = p THEN e ELSE t[i].end
  <2>1. u[i] = IF i = p THEN [t[p] EXCEPT !.end = e] ELSE t[i]
    BY <1>1
  <2>2. t[p] \in [kind : {"Object", "Array", "String", "Primitive"}, start : Nat, end : Nat]
    BY <1>2, <1>3 DEF Tok
  <2> QED
    BY <2>1, <2>2
<1>7. \A i \in 1 .. m : t[i].start \in Nat /\ t[i].end \in Nat /\ t[i].end <= UNSET /\ t[i].start <= t[i].end
                        /\ t[i].start <= e - 1 /\ (t[i].end # UNSET => t[i].end <= e - 1)
                        /\ (t[i].end = UNSET => t[i].kind \in Containers)
  BY <1>1, TokType DEF Bounded, Behind, Laminar, OpenAreContainers
<1>8. Bounded(u)
  BY <1>1, <1>3, <1>5, <1>6 DEF Bounded, UNSET
<1>9. OpenAreContainers(u)
  BY <1>1, <1>5, <1>6 DEF OpenAreContainers, UNSET
<1>10. \A j \in 1 .. m : u[j].start <= u[j].end
  BY <1>6, <1>7
<1>11. ASSUME NEW j \in 1 .. m, NEW i \in 1 .. j - 1 PROVE Ordered(u, i, j)
  <2>1. i \in 1 .. m
    OBVIOUS
  <2>2. Ordered(t, i, j)
    BY <1>1 DEF Laminar
  <2>3. CASE i = p
    <3>1. j \in p + 1 .. m
      BY <2>3
    <3>2. t[j].end # UNSET /\ j # p
      BY <1>3, <3>1
    <3>3. t[j].start <= e - 1 /\ t[j].end <= e - 1 /\ t[j].start \in Nat /\ t[j].end \in Nat
      BY <1>7, <3>2
    <3>4. u[i].end = e /\ u[j].end = t[j].end /\ u[i].kind \in Containers /\ u[j].start = t[j].start
          /\ u[i].start = t[i].start
      BY <1>3, <1>6, <1>7, <2>3, <2>1, <3>2
    <3>5. t[j].start # e /\ t[j].end < e
      BY <3>3
    <3>6. t[i].start < t[j].start
      BY <2>2 DEF Ordered
    <3> QED
      BY <3>4, <3>5, <3>6 DEF Ordered
  <2>4. CASE i # p /\ j # p
    BY <1>6, <2>1, <2>2, <2>4 DEF Ordered
  <2>5. CASE i # p /\ j = p
    <3>1. t[j].end = UNSET /\ t[i].end \in Nat /\ t[i].end <= UNSET
      BY <1>3, <1>7, <2>1, <2>5
    <3>2. ~(t[j].end < t[i].end)
      BY <3>1 DEF UNSET
    <3> QED
      BY <1>6, <2>1, <2>2, <2>5, <3>2 DEF Ordered
  <2> QED
    BY <2>3, <2>4, <2>5
<1>12. Laminar(u)
  BY <1>5, <1>10, <1>11 DEF Laminar
<1>13. ASSUME NEW i \in 1 .. m, NEW d \in 1 .. m PROVE Within(u, i, d) <=> Within(t, i, d)
  <2>1. CASE d = p
    <3>1. t[i].start < e
      BY <1>7
    <3>2. t[i].start < UNSET
      BY <1>1 DEF Bounded
    <3> QED
      BY <1>3, <1>6, <2>1, <3>1, <3>2 DEF Within
  <2>2. CASE d # p
    BY <1>6, <2>2 DEF Within
  <2> QED
    BY <2>1, <2>2
<1>14. ASSUME NEW i \in 1 .. m, NEW c \in 1 .. m PROVE Parent(u, i, c) <=> Parent(t, i, c)
  <2>1. \A d \in c + 1 .. i - 1 : d \in 1 .. m
    OBVIOUS
  <2> QED
    BY <1>13, <2>1 DEF Parent
<1> QED
  BY <1>1, <1>5, <1>6, <1>8, <1>9, <1>12, <1>14

LEMMA ClosedPairs ==
  ASSUME NEW t \in Seq(Tok), NEW u \in Seq(Tok), Len(u) = Len(t),
         \A i \in 1 .. Len(t) : u[i].kind = t[i].kind,
         \A i, c \in 1 .. Len(t) : Parent(u, i, c) <=> Parent(t, i, c),
         NEW K, Paired(t, K)
  PROVE  Paired(u, K)
<1>1. PICK m \in Nat : m = Len(t)
  BY TokType
<1>2. K \subseteq 1 .. m /\ Len(u) = m
  BY <1>1 DEF Paired
<1>3. \A k \in K : k \in 1 .. m /\ \A c \in 1 .. k - 1 : c \in 1 .. m
  BY <1>2
<1>4. \A i, c \in 1 .. m : Parent(u, i, c) <=> Parent(t, i, c)
  BY <1>1
<1>5. \A i \in 1 .. m : u[i].kind = t[i].kind
  BY <1>1
<1>6. ASSUME NEW k \in K
      PROVE  u[k].kind = "String" /\ \E c \in 1 .. k - 1 : u[c].kind = "Object" /\ Parent(u, k, c)
  BY <1>3, <1>4, <1>5 DEF Paired
<1>7. ASSUME NEW k \in K, k < m
      PROVE  k + 1 \notin K /\ \A c \in 1 .. k - 1 : Parent(u, k, c) => Parent(u, k + 1, c)
  <2>1. k + 1 \in 1 .. m
    BY <1>3, <1>7
  <2>2. k + 1 \notin K /\ \A c \in 1 .. k - 1 : Parent(t, k, c) => Parent(t, k + 1, c)
    BY <1>1, <1>7 DEF Paired
  <2> QED
    BY <1>3, <1>4, <2>1, <2>2
<1>8. ASSUME NEW c \in 1 .. m, NEW i \in c + 1 .. m,
             u[c].kind = "Object", Parent(u, i, c), i \notin K
      PROVE  i - 1 \in K /\ Parent(u, i - 1, c)
  <2>1. i \in 1 .. m /\ i - 1 \in 1 .. m
    OBVIOUS
  <2>2. t[c].kind = "Object" /\ Parent(t, i, c)
    BY <1>4, <1>5, <1>8, <2>1
  <2>3. i - 1 \in K /\ Parent(t, i - 1, c)
    BY <1>1, <1>8, <2>2 DEF Paired
  <2> QED
    BY <1>4, <2>1, <2>3
<1> QED
  BY <1>1, <1>2, <1>6, <1>7, <1>8 DEF Paired

LEMMA ClosedTop ==
  ASSUME NEW t \in Seq(Tok), NEW e, e # UNSET, NEW p \in 1 .. Len(t),
         IsTop(t, Len(t) + 1, p), NEW q, IsTop(t, p, q),
         NEW u, \A i \in 1 .. Len(t) : u[i].end = IF i = p THEN e ELSE t[i].end
  PROVE  IsTop(u, Len(t) + 1, q)
<1>1. PICK m \in Nat : m = Len(t)
  BY TokType
<1>2. /\ p \in 1 .. m /\ (m + 1) - 1 = m /\ \A j \in p + 1 .. m : t[j].end # UNSET
      /\ \A i \in 1 .. m : u[i].end = IF i = p THEN e ELSE t[i].end
  BY <1>1 DEF IsTop
<1>3. \A j \in 1 .. m : j \in 1 .. p - 1 \/ j = p \/ j \in p + 1 .. m
  BY <1>2
<1>4. CASE q = 0
  <2>1. \A j \in 1 .. p - 1 : t[j].end # UNSET
    BY <1>4 DEF IsTop
  <2>2. \A j \in 1 .. m : u[j].end # UNSET
    BY <1>2, <1>3, <2>1
  <2> QED
    BY <1>1, <1>2, <1>4, <2>2 DEF IsTop
<1>5. CASE q # 0
  <2>1. q \in 1 .. p - 1 /\ t[q].end = UNSET /\ \A j \in q + 1 .. p - 1 : t[j].end # UNSET
    BY <1>5 DEF IsTop
  <2>2. q \in 1 .. m /\ q # p /\ \A j \in q + 1 .. m : j \in 1 .. m /\ (j \in q + 1 .. p - 1 \/ j = p \/ j \in p + 1 .. m)
    BY <1>2, <2>1
  <2>3. u[q].end = UNSET
    BY <1>2, <2>1, <2>2
  <2>4. \A j \in q + 1 .. m : u[j].end # UNSET
    BY <1>2, <2>1, <2>2
  <2> QED
    BY <1>1, <1>2, <2>2, <2>3, <2>4 DEF IsTop
<1> QED
  BY <1>4, <1>5

-----------------------------------------------------------------------------
(* The tokenizer's types.                                                  *)

Modes == {"scan", "string", "escape", "hex", "primitive"}
Expected == {"Root", "Value", "ValueOrClose", "Key", "KeyOrClose", "Colon", "CommaOrClose", "Done"}

JsonTypes ==
  /\ js \in Seq(AllChars) /\ Len(js) <= MaxLen
  /\ pos \in Nat /\ pos <= Len(js)
  /\ mode \in Modes
  /\ start \in Nat /\ start <= pos
  /\ tokens \in Seq(Tok) /\ Bounded(tokens)
  /\ \A i \in 1 .. Len(tokens) : tokens[i].end # UNSET => tokens[i].end <= pos
  /\ toksuper \in 0 .. Len(tokens)
  /\ expect \in Expected

LEMMA Numbers ==
  ASSUME JsonTypes
  PROVE  Len(js) \in Nat /\ Len(js) < UNSET /\ pos < UNSET /\ start < UNSET /\ Len(tokens) \in Nat
<1>1. Len(js) \in Nat /\ Len(tokens) \in Nat
  BY LenProperties, TokType DEF JsonTypes
<1>2. PICK l \in Nat : l = Len(js)
  BY <1>1
<1>3. l <= MaxLen /\ MaxLen \in Nat /\ MaxLen < UNSET /\ pos \in Nat /\ pos <= l /\ start \in Nat /\ start <= pos
  BY <1>2, LenAssumption DEF JsonTypes
<1>4. l < UNSET /\ pos < UNSET /\ start < UNSET
  BY <1>3 DEF UNSET
<1> QED
  BY <1>1, <1>2, <1>4

\* A token is appended.
LEMMA TypesAppend ==
  ASSUME NEW t \in Seq(Tok), Bounded(t), NEW p \in Nat,
         \A i \in 1 .. Len(t) : t[i].end # UNSET => t[i].end <= p,
         NEW q \in Nat, p <= q,
         NEW x \in Tok, x.start < UNSET, x.end <= UNSET, x.end # UNSET => x.end <= q
  PROVE  /\ Append(t, x) \in Seq(Tok) /\ Bounded(Append(t, x))
         /\ \A i \in 1 .. Len(Append(t, x)) :
              Append(t, x)[i].end # UNSET => Append(t, x)[i].end <= q
         /\ Len(Append(t, x)) = Len(t) + 1 /\ Len(t) \in Nat
<1> DEFINE u == Append(t, x)
<1>1. PICK m \in Nat : m = Len(t)
  BY TokType
<1>2. u \in Seq(Tok) /\ Len(u) = m + 1 /\ u[m + 1] = x /\ \A i \in 1 .. m : u[i] = t[i]
  BY <1>1, Appended
<1> HIDE DEF u
<1>3. \A i \in 1 .. m + 1 : i \in 1 .. m \/ i = m + 1
  OBVIOUS
<1>4. Bounded(u)
  BY <1>1, <1>2, <1>3 DEF Bounded
<1>5. \A i \in 1 .. m : t[i].end \in Nat /\ (t[i].end # UNSET => t[i].end <= p)
  BY <1>1, TokType
<1>6. \A i \in 1 .. m : t[i].end # UNSET => t[i].end <= q
  BY <1>5
<1>7. \A i \in 1 .. m + 1 : u[i].end # UNSET => u[i].end <= q
  BY <1>2, <1>3, <1>6
<1> QED
  BY <1>1, <1>2, <1>4, <1>7 DEF u

LEMMA TypesClose ==
  ASSUME NEW t \in Seq(Tok), Bounded(t), NEW p \in Nat, p + 1 < UNSET,
         \A i \in 1 .. Len(t) : t[i].end # UNSET => t[i].end <= p,
         NEW c \in 1 .. Len(t), NEW u, u = [t EXCEPT ![c].end = p + 1]
  PROVE  /\ u \in Seq(Tok) /\ Bounded(u)
         /\ \A i \in 1 .. Len(u) : u[i].end # UNSET => u[i].end <= p + 1
         /\ Len(u) = Len(t) /\ Len(t) \in Nat
<1>1. PICK m \in Nat : m = Len(t) /\ DOMAIN t = 1 .. m
  BY TokType
<1>2. \A i \in 1 .. m : t[i] \in Tok
  BY <1>1, ElementOfSeq
<1>a. c \in 1 .. m /\ p + 1 \in Nat
  BY <1>1
<1>b. t[c] \in Tok
  BY <1>2, <1>a
<1>3. c \in 1 .. m /\ [t[c] EXCEPT !.end = p + 1] \in Tok
  BY <1>a, <1>b DEF Tok
<1>4. u \in Seq(Tok) /\ Len(u) = m
  BY <1>1, <1>3, ExceptSeq
<1>5. ASSUME NEW i \in 1 .. m
      PROVE  u[i].start = t[i].start /\ u[i].end = IF i = c THEN p + 1 ELSE t[i].end
  <2>1. u[i] = IF i = c THEN [t[c] EXCEPT !.end = p + 1] ELSE t[i]
    BY <1>1
  <2>2. t[c] \in [kind : {"Object", "Array", "String", "Primitive"}, start : Nat, end : Nat]
    BY <1>2, <1>3 DEF Tok
  <2> QED
    BY <2>1, <2>2
<1>6. \A i \in 1 .. m : t[i].end \in Nat /\ (t[i].end # UNSET => t[i].end <= p)
  BY <1>1, TokType
<1>7. \A i \in 1 .. m : t[i].end # UNSET => t[i].end <= p + 1
  BY <1>6
<1>8. \A i \in 1 .. m : u[i].end # UNSET => u[i].end <= p + 1
  BY <1>5, <1>7
<1>9. Bounded(u)
  BY <1>1, <1>4, <1>5 DEF Bounded, UNSET
<1> QED
  BY <1>1, <1>4, <1>8, <1>9

\* The open tokens before n are tokens before n.
LEMMA InnermostType ==
  ASSUME NEW t \in Seq(Tok), Bounded(t), NEW n \in 1 .. Len(t) + 1
  PROVE  InnermostOpen(t, n) \in 0 .. n - 1
<1>1. n \in Nat
  BY TokType
<1>2. IsTop(t, n, InnermostOpen(t, n))
  BY InnermostIsTop
<1> QED
  BY <1>1, <1>2 DEF IsTop

LEMMA TokenIsTok ==
  ASSUME NEW kind \in {"Object", "Array", "String", "Primitive"}, NEW from \in Nat, NEW to \in Nat
  PROVE  /\ Token(kind, from, to) \in Tok /\ Token(kind, from, to).kind = kind
         /\ Token(kind, from, to).start = from /\ Token(kind, from, to).end = to
BY DEF Token, Tok

\* A byte is passed.
LEMMA Advances ==
  ASSUME JsonTypes, NEW m, In(m), Advance
  PROVE  /\ js' = js /\ pos' = pos + 1 /\ pos' \in Nat /\ pos' <= Len(js') /\ Len(js') <= MaxLen
         /\ pos + 1 < UNSET /\ js' \in Seq(AllChars) /\ start <= pos'
         /\ \A i \in 1 .. Len(tokens) : tokens[i].end # UNSET => tokens[i].end <= pos'
<1>1. pos \in Nat /\ pos < Len(js) /\ Len(js) \in Nat /\ start \in Nat /\ start <= pos /\ js \in Seq(AllChars)
      /\ Len(js) <= MaxLen
  BY Numbers DEF JsonTypes, In
<1>2. js' = js /\ pos' = pos + 1
  BY DEF Advance
<1>a. PICK l \in Nat : l = Len(js)
  BY <1>1
<1>b. pos < l /\ l < UNSET
  BY <1>1, <1>a, Numbers
<1>c. pos + 1 \in Nat /\ pos + 1 <= l /\ pos + 1 < UNSET /\ start <= pos + 1
  BY <1>1, <1>b DEF UNSET
<1>3. pos + 1 \in Nat /\ pos + 1 <= Len(js) /\ pos + 1 < UNSET /\ start <= pos + 1
  BY <1>a, <1>c
<1>4. ASSUME NEW i \in 1 .. Len(tokens), tokens[i].end # UNSET PROVE tokens[i].end <= pos + 1
  <2>1. tokens[i].end \in Nat /\ tokens[i].end <= pos
    BY <1>4, TokType DEF JsonTypes
  <2> QED
    BY <1>1, <2>1
<1> QED
  BY <1>1, <1>2, <1>3, <1>4
LEMMA TypesInit ==
  ASSUME JsmnInit
  PROVE  JsonTypes
<1>1. << >> \in Seq(AllChars) /\ << >> \in Seq(Tok) /\ Len(<< >>) = 0
  BY EmptySeq
<1>2. \A i \in 1 .. Len(tokens) : FALSE
  BY DEF JsmnInit
<1>3. Bounded(tokens)
  BY <1>2 DEF Bounded
<1> QED
  BY <1>1, <1>2, <1>3, LenAssumption DEF JsmnInit, JsonTypes, Modes, Expected

\* What a step that keeps the tokens owes.
LEMMA TypesKept ==
  ASSUME JsonTypes, UNCHANGED <<tokens, js>>, toksuper' \in 0 .. Len(tokens),
         \/ pos' = pos
         \/ \E m : In(m) /\ Advance,
         mode' \in Modes, start' \in Nat, start' <= pos', expect' \in Expected
  PROVE  JsonTypes'
<1>1. CASE pos' = pos
  BY <1>1 DEF JsonTypes, Bounded
<1>2. CASE \E m : In(m) /\ Advance
  <2>1. /\ js' = js /\ pos' = pos + 1 /\ pos' \in Nat /\ pos' <= Len(js') /\ Len(js') <= MaxLen
        /\ \A i \in 1 .. Len(tokens) : tokens[i].end # UNSET => tokens[i].end <= pos'
    BY <1>2, Advances
  <2> QED
    BY <2>1 DEF JsonTypes, Bounded
<1> QED
  BY <1>1, <1>2

LEMMA TypesReturn ==
  ASSUME JsonTypes, NEW error, Return(error)
  PROVE  JsonTypes'
BY DEF Return, JsonTypes, Bounded

LEMMA TypesStep ==
  ASSUME JsonTypes, Tokenize
  PROVE  JsonTypes'
<1> USE DEF Modes, Expected
<1>0. /\ pos \in Nat /\ start \in Nat /\ start <= pos /\ toksuper \in 0 .. Len(tokens)
      /\ mode \in Modes /\ expect \in Expected /\ Len(tokens) \in Nat
  BY Numbers DEF JsonTypes
<1>a. pos <= pos /\ pos <= pos + 1 /\ start <= pos + 1 /\ pos + 1 \in Nat
  BY <1>0
<1>1. ASSUME NEW c \in Chars, Read(c) PROVE JsonTypes'
  <2>1. c \in AllChars
    BY CharsAssumption
  <2>2. PICK l \in Nat : l = Len(js)
    BY Numbers
  <2>3. js' \in Seq(AllChars) /\ Len(js') = l + 1
    BY <1>1, <2>1, <2>2, Appended DEF Read, JsonTypes
  <2>4. l < MaxLen /\ pos = l
    BY <1>1, <2>2 DEF Read
  <2>5. l + 1 <= MaxLen /\ pos <= l + 1
    BY <2>4, LenAssumption
  <2> QED
    BY <1>1, <2>3, <2>5 DEF Read, JsonTypes, Bounded
<1>2. CASE ReadEnd
  BY <1>2 DEF ReadEnd, JsonTypes, Bounded
<1>3. CASE NotGrammar
  BY <1>3, TypesReturn DEF NotGrammar
<1>4. CASE SkipWhitespace
  <2>1. In("scan") /\ Advance /\ UNCHANGED <<mode, start, hex, tokens, toksuper, expect, js>> /\ pos' = pos + 1
    BY <1>4 DEF SkipWhitespace, Advance
  <2> QED
    BY <1>0, <1>a, <2>1, TypesKept
<1>5. ASSUME NEW c, NEW kind \in {"Object", "Array"}, NEW then \in {"KeyOrClose", "ValueOrClose"}, Open(c, kind, then)
      PROVE  JsonTypes'
  <2>1. CASE Full
    BY <1>5, <2>1, TypesReturn DEF Open
  <2>2. CASE ~Full
    <3>1. /\ In("scan") /\ Advance /\ tokens' = Append(tokens, Token(kind, pos, UNSET))
          /\ toksuper' = Len(tokens) + 1 /\ expect' \in Expected /\ UNCHANGED <<mode, start>>
      BY <1>0, <1>5, <2>2 DEF Open, Scanning, Expect
    <3>2. /\ js' = js /\ pos' = pos + 1 /\ pos' \in Nat /\ pos' <= Len(js') /\ Len(js') <= MaxLen
          /\ js' \in Seq(AllChars) /\ start <= pos' /\ pos <= pos'
      BY <1>a, <3>1, Advances
    <3>3. UNSET \in Nat /\ UNSET <= UNSET /\ pos < UNSET /\ kind \in {"Object", "Array", "String", "Primitive"}
      BY Numbers DEF UNSET
    <3>4. /\ Token(kind, pos, UNSET) \in Tok
          /\ Token(kind, pos, UNSET).start = pos /\ Token(kind, pos, UNSET).end = UNSET
      BY <1>0, <3>3, TokenIsTok
    <3>5. /\ tokens' \in Seq(Tok) /\ Bounded(tokens')
          /\ \A i \in 1 .. Len(tokens') : tokens'[i].end # UNSET => tokens'[i].end <= pos'
          /\ Len(tokens') = Len(tokens) + 1
      BY <1>0, <3>1, <3>2, <3>3, <3>4, TypesAppend DEF JsonTypes
    <3>6. toksuper' \in 0 .. Len(tokens')
      BY <1>0, <3>1, <3>5
    <3> QED
      BY <1>0, <3>1, <3>2, <3>5, <3>6 DEF JsonTypes, Bounded
  <2> QED
    BY <2>1, <2>2
<1>6. ASSUME NEW c, NEW kind, Close(c, kind) PROVE JsonTypes'
  <2> DEFINE i == InnermostOpen(tokens, Len(tokens) + 1)
  <2>1. CASE i = 0
    BY <1>6, <2>1, TypesReturn DEF Close
  <2>2. CASE i # 0 /\ tokens[i].kind # kind
    BY <1>6, <2>2, TypesReturn DEF Close
  <2>3. CASE i # 0 /\ tokens[i].kind = kind
    <3>1. /\ In("scan") /\ Advance /\ tokens' = [tokens EXCEPT ![i].end = pos + 1]
          /\ toksuper' = InnermostOpen(tokens, i) /\ expect' \in Expected /\ UNCHANGED <<mode, start>>
      BY <1>0, <1>6, <2>3 DEF Close, Scanning, Expect
    <3>2. /\ js' = js /\ pos' = pos + 1 /\ pos' \in Nat /\ pos' <= Len(js') /\ Len(js') <= MaxLen
          /\ js' \in Seq(AllChars) /\ start <= pos' /\ pos + 1 < UNSET
      BY <3>1, Advances
    <3>3. tokens \in Seq(Tok) /\ Bounded(tokens) /\ Len(tokens) + 1 \in 1 .. Len(tokens) + 1
      BY <1>0 DEF JsonTypes
    <3>4. i \in 0 .. (Len(tokens) + 1) - 1
      BY <3>3, InnermostType
    <3>5. i \in 1 .. Len(tokens) /\ i \in 1 .. Len(tokens) + 1
      <4> HIDE DEF i
      <4> QED
        BY <1>0, <2>3, <3>4
    <3>6. InnermostOpen(tokens, i) \in 0 .. i - 1
      BY <3>3, <3>5, InnermostType
    <3> HIDE DEF i
    <3>7. /\ tokens' \in Seq(Tok) /\ Bounded(tokens')
          /\ \A j \in 1 .. Len(tokens') : tokens'[j].end # UNSET => tokens'[j].end <= pos + 1
          /\ Len(tokens') = Len(tokens)
      BY <1>0, <3>1, <3>2, <3>3, <3>5, TypesClose DEF JsonTypes
    <3>8. toksuper' \in 0 .. Len(tokens')
      BY <1>0, <3>1, <3>5, <3>6, <3>7
    <3> QED
      BY <1>0, <3>1, <3>2, <3>7, <3>8 DEF JsonTypes, Bounded
  <2> QED
    BY <2>1, <2>2, <2>3
<1>7. CASE Colon
  <2>1. /\ In("scan") /\ Advance /\ UNCHANGED <<mode, start, hex, tokens, js>> /\ pos' = pos + 1
        /\ toksuper' = Len(tokens) /\ expect' \in Expected
    BY <1>0, <1>7 DEF Colon, Advance, Scanning, Expect
  <2> QED
    BY <1>0, <1>a, <2>1, TypesKept
<1>8. SuperAtComma \in 0 .. Len(tokens)
  <2> DEFINE open == {i \in OpenBelow(tokens, Len(tokens) + 1) : tokens[i].kind \in Containers}
  <2>1. CASE (toksuper # 0 /\ tokens[toksuper].kind \in Containers) \/ open = {}
    BY <1>0, <2>1 DEF SuperAtComma
  <2>2. CASE ~((toksuper # 0 /\ tokens[toksuper].kind \in Containers) \/ open = {})
    <3>1. SuperAtComma = Max(open) /\ open # {}
      BY <2>2 DEF SuperAtComma
    <3>2. DOMAIN tokens = 1 .. Len(tokens)
      BY TokType DEF JsonTypes
    <3>3. open \in SUBSET (0 .. Len(tokens))
      BY <1>0, <3>2 DEF OpenBelow
    <3> HIDE DEF open
    <3>4. PICK l \in Nat : l = Len(tokens)
      BY <1>0
    <3>5. \E x \in open : \A y \in open : x >= y
      BY <3>1, <3>3, <3>4, Greatest
    <3>6. Max(open) \in open
      BY <3>5 DEF Max
    <3> QED
      BY <3>1, <3>3, <3>6
  <2> QED
    BY <2>1, <2>2
<1>9. CASE Comma
  <2>1. CASE check /\ OpenContainer(SuperAtComma) = "None"
    BY <1>9, <2>1, TypesReturn DEF Comma
  <2>2. CASE ~(check /\ OpenContainer(SuperAtComma) = "None")
    <3>1. /\ In("scan") /\ Advance /\ UNCHANGED <<mode, start, hex, tokens, js>> /\ pos' = pos + 1
          /\ toksuper' = SuperAtComma /\ expect' \in Expected
      BY <1>0, <1>9, <2>2 DEF Comma, Advance, Scanning, Expect
    <3> QED
      BY <1>0, <1>a, <1>8, <3>1, TypesKept
  <2> QED
    BY <2>1, <2>2
<1>10. CASE OpenString
  <2>1. /\ In("scan") /\ Advance /\ UNCHANGED <<tokens, js, toksuper>> /\ pos' = pos + 1
        /\ mode' = "string" /\ start' = pos /\ expect' \in Expected
    BY <1>0, <1>10 DEF OpenString, Advance, Scanning, Expect
  <2> QED
    BY <1>0, <1>a, <2>1, TypesKept
<1>11. CASE StringByte
  <2>1. CASE check /\ Here \in {"tab", "ctl"}
    BY <1>11, <2>1, TypesReturn DEF StringByte
  <2>2. CASE ~(check /\ Here \in {"tab", "ctl"})
    <3>1. In("string") /\ Advance /\ UNCHANGED <<mode, start, hex, tokens, toksuper, expect, js>> /\ pos' = pos + 1
      BY <1>11, <2>2 DEF StringByte, Advance
    <3> QED
      BY <1>0, <1>a, <3>1, TypesKept
  <2> QED
    BY <2>1, <2>2
<1>12. CASE CloseString
  <2>1. CASE Full
    BY <1>12, <2>1, TypesReturn DEF CloseString
  <2>2. CASE ~Full
    <3>1. /\ In("string") /\ Advance /\ tokens' = Append(tokens, Token("String", start + 1, pos))
          /\ mode' = "scan" /\ UNCHANGED <<start, hex, toksuper, expect>>
      BY <1>12, <2>2 DEF CloseString
    <3>2. /\ js' = js /\ pos' = pos + 1 /\ pos' \in Nat /\ pos' <= Len(js') /\ Len(js') <= MaxLen
          /\ js' \in Seq(AllChars) /\ start <= pos' /\ pos <= pos' /\ pos + 1 < UNSET
      BY <1>a, <3>1, Advances
    <3>3. start + 1 \in Nat /\ start + 1 < UNSET /\ pos <= UNSET
      BY <1>0, <3>2, Numbers DEF UNSET
    <3>4. /\ Token("String", start + 1, pos) \in Tok
          /\ Token("String", start + 1, pos).start = start + 1 /\ Token("String", start + 1, pos).end = pos
      BY <1>0, <3>3, TokenIsTok
    <3>5. /\ tokens' \in Seq(Tok) /\ Bounded(tokens')
          /\ \A i \in 1 .. Len(tokens') : tokens'[i].end # UNSET => tokens'[i].end <= pos'
          /\ Len(tokens') = Len(tokens) + 1
      BY <1>0, <3>1, <3>2, <3>3, <3>4, TypesAppend, ZenonT(60) DEF JsonTypes
    <3>6. toksuper' \in 0 .. Len(tokens')
      BY <1>0, <3>1, <3>5
    <3> QED
      BY <1>0, <3>1, <3>2, <3>5, <3>6 DEF JsonTypes, Bounded
  <2> QED
    BY <2>1, <2>2
<1>13. CASE Backslash
  <2>1. /\ In("string") /\ Advance /\ UNCHANGED <<start, hex, tokens, toksuper, expect, js>> /\ pos' = pos + 1
        /\ mode' = "escape"
    BY <1>13 DEF Backslash, Advance
  <2> QED
    BY <1>0, <1>a, <2>1, TypesKept
<1>14. CASE Escape
  <2>1. CASE Here \notin EscapeLetters \cup {"u"}
    BY <1>14, <2>1, TypesReturn DEF Escape
  <2>2. CASE ~(Here \notin EscapeLetters \cup {"u"})
    <3>1. /\ In("escape") /\ Advance /\ UNCHANGED <<start, tokens, toksuper, expect, js>> /\ pos' = pos + 1
          /\ mode' \in Modes
      BY <1>14, <2>2 DEF Escape, Advance
    <3> QED
      BY <1>0, <1>a, <3>1, TypesKept
  <2> QED
    BY <2>1, <2>2
<1>15. CASE HexDigit
  <2>1. CASE ~is_hex(Here)
    BY <1>15, <2>1, TypesReturn DEF HexDigit
  <2>2. CASE is_hex(Here)
    <3>1. /\ In("hex") /\ Advance /\ UNCHANGED <<start, tokens, toksuper, expect, js>> /\ pos' = pos + 1
          /\ mode' \in Modes
      BY <1>15, <2>2 DEF HexDigit, Advance
    <3> QED
      BY <1>0, <1>a, <3>1, TypesKept
  <2> QED
    BY <2>1, <2>2
<1>16. CASE EndInString
  BY <1>16, TypesReturn DEF EndInString
<1>17. CASE OpenPrimitive
  <2>1. /\ UNCHANGED <<tokens, js, toksuper, pos>> /\ mode' = "primitive" /\ start' = pos /\ expect' \in Expected
    BY <1>0, <1>17 DEF OpenPrimitive, Expect
  <2> QED
    BY <1>0, <1>a, <2>1, TypesKept
<1>18. CASE PrimitiveByte
  <2>1. CASE Here \in {"ctl", "hi"}
    BY <1>18, <2>1, TypesReturn DEF PrimitiveByte
  <2>2. CASE ~(Here \in {"ctl", "hi"})
    <3>1. In("primitive") /\ Advance /\ UNCHANGED <<mode, start, hex, tokens, toksuper, expect, js>> /\ pos' = pos + 1
      BY <1>18, <2>2 DEF PrimitiveByte, Advance
    <3> QED
      BY <1>0, <1>a, <3>1, TypesKept
  <2> QED
    BY <2>1, <2>2
<1>19. CASE ClosePrimitive
  <2>1. CASE Full
    BY <1>19, <2>1, TypesReturn DEF ClosePrimitive
  <2>2. CASE ~Full
    <3>1. /\ tokens' = Append(tokens, Token("Primitive", start, pos))
          /\ mode' = "scan" /\ UNCHANGED <<js, pos, start, hex, toksuper, expect>>
      BY <1>19, <2>2 DEF ClosePrimitive
    <3>2. start < UNSET /\ pos <= UNSET
      BY <1>0, Numbers DEF UNSET
    <3>3. /\ Token("Primitive", start, pos) \in Tok
          /\ Token("Primitive", start, pos).start = start /\ Token("Primitive", start, pos).end = pos
      BY <1>0, TokenIsTok
    <3>4. /\ tokens' \in Seq(Tok) /\ Bounded(tokens')
          /\ \A i \in 1 .. Len(tokens') : tokens'[i].end # UNSET => tokens'[i].end <= pos
          /\ Len(tokens') = Len(tokens) + 1
      BY <1>0, <1>a, <3>1, <3>2, <3>3, TypesAppend DEF JsonTypes
    <3>5. toksuper' \in 0 .. Len(tokens')
      BY <1>0, <3>1, <3>4
    <3> QED
      BY <1>0, <3>1, <3>4, <3>5 DEF JsonTypes, Bounded
  <2> QED
    BY <2>1, <2>2
<1>20. CASE EndOfScan
  BY <1>20, TypesReturn DEF EndOfScan
<1>21. CASE OpenObject \/ OpenArray
  BY <1>5, <1>21 DEF OpenObject, OpenArray
<1>22. CASE CloseObject \/ CloseArray
  BY <1>6, <1>22 DEF CloseObject, CloseArray
<1> QED
  BY <1>1, <1>2, <1>3, <1>4, <1>7, <1>9, <1>10, <1>11, <1>12, <1>13, <1>14, <1>15, <1>16,
     <1>17, <1>18, <1>19, <1>20, <1>21, <1>22 DEF Tokenize

-----------------------------------------------------------------------------
(* The tokens of a document that is still in order.                        *)

\* Where the next token starts is free.
Values == {"Root", "Value", "ValueOrClose", "Key", "KeyOrClose"}

Placed(t, m, e, s, p) ==
  IF m # "scan" THEN Fresh(t, s) /\ (m # "primitive" => s < p)
  ELSE IF e \in Values THEN Fresh(t, p)
  ELSE Behind(t, p)

\* What the grammar expects says which container is open and whether the last
\* token is a key that waits for its value.
Scope(t, K, top, m, e) ==
  LET pending == Len(t) \in K
      object == top # 0 /\ t[top].kind = "Object"
  IN  /\ m = "scan" =>
           /\ e = "Root" => Len(t) = 0
           /\ e \in {"Key", "KeyOrClose"} => object /\ ~pending
           /\ e = "Colon" => object /\ pending
           /\ e = "Value" => top # 0 /\ (object <=> pending)
           /\ e = "ValueOrClose" => top # 0 /\ ~object /\ ~pending
           /\ e = "CommaOrClose" => top # 0 /\ ~pending
           /\ e = "Done" => top = 0 /\ ~pending /\ Len(t) # 0
      /\ m # "scan" =>
           /\ top # 0
           /\ \/ e = "Colon" /\ object /\ ~pending /\ m # "primitive"
              \/ e = "CommaOrClose" /\ (object <=> pending)

Sound(t, K, top, super, m, e, s, p) ==
  /\ Laminar(t) /\ OpenAreContainers(t)
  /\ Len(t) # 0 => t[1].kind = "Object"
  /\ IsTop(t, Len(t) + 1, top)
  /\ super # 0 /\ t[super].kind \in Containers => super = top
  /\ Paired(t, K) /\ (Len(t) \in K => Parent(t, Len(t), top))
  /\ Placed(t, m, e, s, p)
  /\ Scope(t, K, top, m, e)

LEMMA FreshLater ==
  ASSUME NEW t \in Seq(Tok), NEW p \in Nat, NEW q \in Nat, p <= q
  PROVE  /\ Fresh(t, p) => Fresh(t, q) /\ Behind(t, q)
         /\ Behind(t, p) => Behind(t, q)
         /\ Behind(t, p) /\ p < q => Fresh(t, q)
<1>1. \A i \in 1 .. Len(t) : t[i].start \in Nat /\ t[i].end \in Nat
  BY TokType
<1> QED
  BY <1>1 DEF Fresh, Behind

LEMMA FreshAppend ==
  ASSUME NEW t \in Seq(Tok), NEW x \in Tok, NEW q \in Nat
  PROVE  /\ Fresh(t, q) /\ x.start < q /\ (x.end # UNSET => x.end < q) => Fresh(Append(t, x), q)
         /\ Behind(t, q) /\ x.start <= q /\ (x.end # UNSET => x.end <= q) => Behind(Append(t, x), q)
<1> DEFINE u == Append(t, x)
<1>1. PICK m \in Nat : m = Len(t)
  BY TokType
<1>2. Len(u) = m + 1 /\ u[m + 1] = x /\ \A i \in 1 .. m : u[i] = t[i]
  BY <1>1, Appended
<1> HIDE DEF u
<1>3. \A i \in 1 .. m + 1 : i \in 1 .. m \/ i = m + 1
  OBVIOUS
<1>4. Fresh(t, q) /\ x.start < q /\ (x.end # UNSET => x.end < q) => Fresh(u, q)
  BY <1>1, <1>2, <1>3 DEF Fresh
<1>5. Behind(t, q) /\ x.start <= q /\ (x.end # UNSET => x.end <= q) => Behind(u, q)
  BY <1>1, <1>2, <1>3 DEF Behind
<1> QED
  BY <1>4, <1>5 DEF u

InText == {"string", "escape", "hex"}

\* A byte is passed, or nothing but the byte in hand changes.
LEMMA SoundMove ==
  ASSUME NEW t \in Seq(Tok), NEW p \in Nat, NEW s \in Nat, s <= p,
         NEW q \in Nat, p <= q,
         NEW K, NEW top, NEW super, NEW m, NEW e, Sound(t, K, top, super, m, e, s, p),
         NEW n, n = m \/ (m \in InText /\ n \in InText)
  PROVE  Sound(t, K, top, super, n, e, s, q)
<1>1. Placed(t, m, e, s, p) => Placed(t, n, e, s, q)
  <2>1. Fresh(t, p) => Fresh(t, q)
    BY FreshLater
  <2>2. Behind(t, p) => Behind(t, q)
    BY FreshLater
  <2>3. s < p => s < q
    OBVIOUS
  <2> QED
    BY <2>1, <2>2, <2>3 DEF Placed, InText
<1>2. Scope(t, K, top, m, e) => Scope(t, K, top, n, e)
  BY DEF Scope, InText
<1> QED
  BY <1>1, <1>2 DEF Sound

\* A colon or a comma.
LEMMA SoundSeparator ==
  ASSUME NEW t \in Seq(Tok), NEW p \in Nat, NEW s,
         NEW K, NEW top, NEW super, NEW e, Sound(t, K, top, super, "scan", e, s, p),
         NEW after, NEW f,
         \/ e = "Colon" /\ after = Len(t) /\ f = "Value"
         \/ /\ e = "CommaOrClose" /\ after = top
            /\ f = IF t[top].kind = "Object" THEN "Key" ELSE "Value"
  PROVE  Sound(t, K, top, after, "scan", f, s, p + 1)
<1>1. Placed(t, "scan", f, s, p + 1)
  <2>1. Behind(t, p)
    BY DEF Sound, Placed, Values
  <2>2. Fresh(t, p + 1)
    BY <2>1, FreshLater
  <2> QED
    BY <2>2 DEF Placed, Values
<1>2. Scope(t, K, top, "scan", f)
  BY DEF Sound, Scope
<1>3. after # 0 /\ t[after].kind \in Containers => after = top
  <2>1. CASE e = "Colon"
    <3>1. Len(t) \in K
      BY <2>1 DEF Sound, Scope
    <3>2. t[Len(t)].kind = "String"
      BY <3>1 DEF Sound, Paired
    <3> QED
      BY <2>1, <3>2 DEF Containers
  <2>2. CASE e # "Colon"
    BY <2>2
  <2> QED
    BY <2>1, <2>2
<1> QED
  BY <1>1, <1>2, <1>3 DEF Sound

\* A string or a primitive begins.
LEMMA SoundBegin ==
  ASSUME NEW t \in Seq(Tok), NEW p \in Nat, NEW s,
         NEW K, NEW top, NEW super, NEW e, Sound(t, K, top, super, "scan", e, s, p),
         NEW q, NEW n, NEW f,
         \/ /\ e \in {"Key", "KeyOrClose"} /\ n = "string" /\ f = "Colon" /\ q = p + 1
         \/ /\ e \in {"Value", "ValueOrClose"} /\ n = "string" /\ f = "CommaOrClose" /\ q = p + 1
         \/ /\ e \in {"Value", "ValueOrClose"} /\ n = "primitive" /\ f = "CommaOrClose" /\ q = p
  PROVE  Sound(t, K, top, super, n, f, p, q)
<1>1. Fresh(t, p)
  BY DEF Sound, Placed, Values
<1>2. Placed(t, n, f, p, q)
  BY <1>1 DEF Placed
<1>3. Scope(t, K, top, n, f)
  BY DEF Sound, Scope
<1> QED
  BY <1>2, <1>3 DEF Sound

LEMMA AppendedFirst ==
  ASSUME NEW t \in Seq(Tok), NEW x \in Tok, Len(t) # 0 => t[1].kind = "Object",
         Len(t) = 0 => x.kind = "Object"
  PROVE  Append(t, x)[1].kind = "Object"
<1>1. PICK m \in Nat : m = Len(t)
  BY TokType
<1>2. Append(t, x)[m + 1] = x /\ \A i \in 1 .. m : Append(t, x)[i] = t[i]
  BY <1>1, Appended
<1>3. CASE m = 0
  BY <1>1, <1>2, <1>3
<1>4. CASE m # 0
  <2>1. 1 \in 1 .. m
    BY <1>4
  <2> QED
    BY <1>1, <1>2, <1>4, <2>1
<1> QED
  BY <1>3, <1>4

LEMMA AppendedSuper ==
  ASSUME NEW t \in Seq(Tok), NEW x \in Tok, NEW super \in 0 .. Len(t), NEW top,
         super # 0 /\ t[super].kind \in Containers => super = top
  PROVE  super # 0 /\ Append(t, x)[super].kind \in Containers => super = top
<1>1. super # 0 => super \in 1 .. Len(t)
  BY TokType
<1> QED
  BY <1>1, Appended

\* An object or an array is opened.
LEMMA SoundOpen ==
  ASSUME NEW t \in Seq(Tok), Bounded(t), NEW p \in Nat, p < UNSET, NEW s,
         NEW K, NEW top, NEW super, NEW e, Sound(t, K, top, super, "scan", e, s, p),
         NEW kind, NEW f,
         \/ e \in Values \ {"Key", "KeyOrClose"} /\ kind = "Object" /\ f = "KeyOrClose"
         \/ e \in {"Value", "ValueOrClose"} /\ kind = "Array" /\ f = "ValueOrClose"
  PROVE  Sound(Append(t, Token(kind, p, UNSET)), K, Len(t) + 1, Len(t) + 1, "scan", f, s, p + 1)
<1> DEFINE x == Token(kind, p, UNSET)
           u == Append(t, x)
<1>1. PICK m \in Nat : m = Len(t)
  BY TokType
<1>2. x \in Tok /\ x.kind = kind /\ x.start = p /\ x.end = UNSET
  <2>1. kind \in {"Object", "Array", "String", "Primitive"} /\ UNSET \in Nat
    BY DEF UNSET
  <2> QED
    BY <2>1, TokenIsTok
<1> HIDE DEF x
<1>3. UNSET <= UNSET /\ p <= UNSET /\ kind \in Containers /\ p <= p + 1 /\ p + 1 \in Nat /\ p < p + 1
  BY DEF UNSET, Containers
<1>4. Fresh(t, p)
  BY DEF Sound, Placed, Values
<1>5. Laminar(u) /\ OpenAreContainers(u)
  BY <1>2, <1>3, <1>4, AppendedKeeps DEF Sound
<1>6. u[1].kind = "Object"
  <2>1. Len(t) = 0 => kind = "Object"
    <3>1. Len(t) = 0 => top = 0
      BY <1>1 DEF Sound, IsTop
    <3> QED
      BY <3>1 DEF Sound, Scope
  <2> QED
    BY <1>2, <2>1, AppendedFirst DEF Sound
<1>7. IsTop(u, (Len(t) + 1) + 1, Len(t) + 1)
  BY <1>2, AppendedTop DEF Sound
<1>8. top # 0 /\ t[top].kind = "Object" <=> Len(t) \in K
  <2>1. CASE e = "Root"
    <3>1. top = 0 /\ Len(t) \notin K
      BY <1>1, <2>1 DEF Sound, Scope, IsTop, Paired
    <3> QED
      BY <3>1
  <2>2. CASE e # "Root"
    BY <2>2 DEF Sound, Scope, Values
  <2> QED
    BY <2>1, <2>2
<1>9. Paired(u, K) /\ Len(t) + 1 \notin K
  BY <1>2, <1>4, <1>8, AppendedValue DEF Sound
<1>10. Fresh(u, p + 1)
  BY <1>2, <1>3, <1>4, FreshAppend, FreshLater
<1>11. Len(u) = Len(t) + 1 /\ u[Len(t) + 1] = x /\ Len(t) + 1 # 0
  BY <1>1, <1>2, Appended
<1> HIDE DEF u
<1>12. Placed(u, "scan", f, s, p + 1)
  BY <1>10 DEF Placed, Values
<1>13. Scope(u, K, Len(t) + 1, "scan", f)
  BY <1>2, <1>9, <1>11 DEF Scope
<1>14. Sound(u, K, Len(t) + 1, Len(t) + 1, "scan", f, s, p + 1)
  BY <1>5, <1>6, <1>7, <1>9, <1>11, <1>12, <1>13 DEF Sound
<1> QED
  BY <1>14 DEF u, x

\* A string or a primitive ends: a key, or a value.
LEMMA SoundEnd ==
  ASSUME NEW t \in Seq(Tok), Bounded(t), NEW p \in Nat, p < UNSET, NEW s \in Nat, s <= p,
         NEW K, NEW top, NEW super \in 0 .. Len(t), NEW m, NEW e, Sound(t, K, top, super, m, e, s, p),
         NEW x \in Tok, NEW q,
         \/ m = "string" /\ x = Token("String", s + 1, p) /\ q = p + 1
         \/ m = "primitive" /\ x = Token("Primitive", s, p) /\ q = p
  PROVE  \E L : Sound(Append(t, x), L, top, super, "scan", e, s, q)
<1> DEFINE u == Append(t, x)
<1>1. PICK l \in Nat : l = Len(t)
  BY TokType
<1>2. Fresh(t, s) /\ (m = "string" => s < p)
  BY DEF Sound, Placed
<1>3. /\ x.start \in Nat /\ s <= x.start /\ x.start <= p /\ x.end = p
      /\ x.kind = (IF m = "string" THEN "String" ELSE "Primitive")
  BY <1>2 DEF Token
<1>4. p # UNSET /\ x.start < UNSET /\ p <= UNSET /\ x.start <= x.end
  BY <1>3 DEF UNSET
<1>5. Fresh(t, x.start)
  BY <1>2, <1>3, FreshLater
<1>6. Laminar(u) /\ OpenAreContainers(u)
  BY <1>3, <1>4, <1>5, AppendedKeeps DEF Sound
<1>7. top # 0 /\ top \in 1 .. Len(t) /\ Len(t) # 0
  BY <1>1 DEF Sound, Scope, IsTop
<1>8. u[1].kind = "Object"
  BY <1>7, AppendedFirst DEF Sound
<1>9. IsTop(u, (Len(t) + 1) + 1, top)
  BY <1>3, <1>4, AppendedTop DEF Sound
<1>10. super # 0 /\ u[super].kind \in Containers => super = top
  BY AppendedSuper DEF Sound
<1>11. Len(u) = Len(t) + 1 /\ u[top] = t[top] /\ Len(t) + 1 # 0
  BY <1>1, <1>7, Appended
<1>12. Behind(u, q) /\ q \in Nat
  <2>1. q \in Nat /\ s <= q /\ p <= q
    OBVIOUS
  <2>2. Behind(t, q)
    BY <1>2, <2>1, FreshLater
  <2>3. x.start <= q /\ x.end <= q
    BY <1>3, <2>1
  <2> QED
    BY <2>1, <2>2, <2>3, FreshAppend
<1>13. e \in {"Colon", "CommaOrClose"}
  BY DEF Sound, Scope
<1>14. Placed(u, "scan", e, s, q)
  BY <1>12, <1>13 DEF Placed, Values
<1>15. CASE e = "Colon"
  <2>1. t[top].kind = "Object" /\ Len(t) \notin K /\ m # "primitive"
    BY <1>15 DEF Sound, Scope
  <2> DEFINE L == K \cup {Len(t) + 1}
  <2>2. x.kind = "String"
    BY <1>3, <2>1
  <2>3. Paired(u, L) /\ Parent(u, Len(t) + 1, top)
    BY <1>4, <1>5, <1>7, <2>1, <2>2, AppendedKey DEF Sound
  <2> HIDE DEF u
  <2>4. Scope(u, L, top, "scan", e)
    BY <1>7, <1>11, <1>15, <2>1 DEF Scope
  <2> HIDE DEF L
  <2>5. Sound(u, L, top, super, "scan", e, s, q)
    BY <1>6, <1>8, <1>9, <1>10, <1>11, <1>14, <2>3, <2>4 DEF Sound
  <2> QED
    BY <2>5 DEF u
<1>16. CASE e = "CommaOrClose"
  <2>1. top # 0 /\ t[top].kind = "Object" <=> Len(t) \in K
    BY <1>16 DEF Sound, Scope
  <2>2. Paired(u, K) /\ Len(t) + 1 \notin K
    BY <1>4, <1>5, <2>1, AppendedValue DEF Sound
  <2> HIDE DEF u
  <2>3. Scope(u, K, top, "scan", e)
    BY <1>7, <1>11, <1>16, <2>2 DEF Scope
  <2>4. Sound(u, K, top, super, "scan", e, s, q)
    BY <1>6, <1>8, <1>9, <1>10, <1>11, <1>14, <2>2, <2>3 DEF Sound
  <2> QED
    BY <2>4 DEF u
<1> QED
  BY <1>13, <1>15, <1>16

\* The innermost open token is closed.
LEMMA SoundClose ==
  ASSUME NEW t \in Seq(Tok), Bounded(t), NEW p \in Nat, p + 1 < UNSET, NEW s,
         NEW K, NEW top \in 1 .. Len(t), NEW super, NEW e, Sound(t, K, top, super, "scan", e, s, p),
         e \in {"KeyOrClose", "ValueOrClose", "CommaOrClose"},
         NEW u, u = [t EXCEPT ![top].end = p + 1],
         NEW next, IsTop(t, top, next),
         NEW f, f = IF next # 0 THEN "CommaOrClose" ELSE "Done"
  PROVE  Sound(u, K, next, next, "scan", f, s, p + 1)
<1>1. PICK l \in Nat : l = Len(t)
  BY TokType
<1>2. Behind(t, p) /\ (p + 1) - 1 = p /\ p + 1 \in Nat
  BY FreshLater DEF Sound, Placed, Values
<1>3. /\ u \in Seq(Tok) /\ Len(u) = Len(t)
      /\ \A i \in 1 .. Len(t) : u[i].kind = t[i].kind /\ u[i].start = t[i].start
      /\ \A i \in 1 .. Len(t) : u[i].end = IF i = top THEN p + 1 ELSE t[i].end
      /\ Laminar(u) /\ Bounded(u) /\ OpenAreContainers(u)
      /\ \A i, c \in 1 .. Len(t) : Parent(u, i, c) <=> Parent(t, i, c)
  <2>1. PICK q \in Nat : q = p + 1
    BY <1>2
  <2>2. /\ Behind(t, q - 1) /\ q < UNSET /\ u = [t EXCEPT ![top].end = q]
        /\ IsTop(t, Len(t) + 1, top) /\ Laminar(t) /\ OpenAreContainers(t)
    BY <1>2, <2>1 DEF Sound
  <2>3. /\ u \in Seq(Tok) /\ Len(u) = Len(t)
        /\ \A i \in 1 .. Len(t) : u[i].kind = t[i].kind /\ u[i].start = t[i].start
        /\ \A i \in 1 .. Len(t) : u[i].end = IF i = top THEN q ELSE t[i].end
        /\ Laminar(u) /\ Bounded(u) /\ OpenAreContainers(u)
        /\ \A i, c \in 1 .. Len(t) : Parent(u, i, c) <=> Parent(t, i, c)
    BY <2>2, ClosedKeeps
  <2> QED
    BY <2>1, <2>3
<1>4. Paired(u, K)
  <2>1. Paired(t, K)
    BY DEF Sound
  <2>2. \A i \in 1 .. Len(t) : u[i].kind = t[i].kind
    BY <1>3
  <2> QED
    BY <1>3, <2>1, <2>2, ClosedPairs
<1>5. p + 1 # UNSET
  BY DEF UNSET
<1>6. IsTop(u, Len(t) + 1, next)
  <2>1. IsTop(t, Len(t) + 1, top)
    BY DEF Sound
  <2> QED
    BY <1>3, <1>5, <2>1, ClosedTop, ZenonT(60)
<1>7. Len(t) \notin K /\ Len(t) # 0
  BY <1>1 DEF Sound, Scope
<1>8. u[1].kind = "Object"
  <2>1. 1 \in 1 .. Len(t)
    BY <1>1, <1>7
  <2> QED
    BY <1>3, <1>7, <2>1 DEF Sound
<1>9. Behind(u, p + 1)
  <2>1. Behind(t, p + 1)
    BY <1>2, FreshLater
  <2> QED
    BY <1>2, <1>3, <2>1 DEF Behind
<1>10. Placed(u, "scan", f, s, p + 1)
  BY <1>9 DEF Placed, Values
<1>11. Scope(u, K, next, "scan", f)
  BY <1>3, <1>7 DEF Scope
<1> QED
  BY <1>3, <1>4, <1>6, <1>7, <1>8, <1>10, <1>11 DEF Sound

-----------------------------------------------------------------------------
(* The scan: either the tokens are in order, or something other than       *)
(* whitespace was reached after the top-level object, and read_json        *)
(* refuses the document whatever the tokenizer makes of the rest.          *)

Spoiled ==
  /\ Len(tokens) # 0 /\ tokens[1].kind = "Object" /\ tokens[1].end # UNSET
  /\ \E i \in tokens[1].end + 1 .. Len(js) : js[i] \notin Whitespace

InOrder == \E K, top : Sound(tokens, K, top, toksuper, mode, expect, start, pos)

\* Past the top-level object the scan is at whitespace.
LEMMA NotDone ==
  ASSUME JsonTypes, InOrder, ~Spoiled, In("scan"), Here \notin Whitespace
  PROVE  expect # "Done"
<1> SUFFICES ASSUME expect = "Done" PROVE FALSE
  OBVIOUS
<1>1. PICK K, top : Sound(tokens, K, top, toksuper, mode, expect, start, pos)
  BY DEF InOrder
<1>2. mode = "scan" /\ pos < Len(js) /\ Len(tokens) \in Nat /\ Len(js) \in Nat /\ pos \in Nat
  BY Numbers DEF In, JsonTypes
<1>3. top = 0 /\ Len(tokens) # 0
  BY <1>1, <1>2 DEF Sound, Scope
<1>4. 1 \in 1 .. Len(tokens) /\ 1 \in 1 .. (Len(tokens) + 1) - 1
  BY <1>2, <1>3
<1>5. tokens[1].kind = "Object" /\ tokens[1].end # UNSET
  BY <1>1, <1>3, <1>4 DEF Sound, IsTop
<1>6. tokens[1].end \in Nat /\ tokens[1].end <= pos
  BY <1>4, <1>5, TokType DEF JsonTypes
<1>7. pos + 1 \in tokens[1].end + 1 .. Len(js)
  BY <1>2, <1>6
<1> QED
  BY <1>3, <1>5, <1>7 DEF Spoiled, Here

\* What passes a byte or returns keeps the tokens in order.
LEMMA InOrderMove ==
  ASSUME JsonTypes, InOrder, UNCHANGED <<tokens, toksuper, expect, start>>,
         pos' = pos \/ pos' = pos + 1, mode' = mode \/ (mode \in InText /\ mode' \in InText)
  PROVE  InOrder'
<1>1. PICK K, top : Sound(tokens, K, top, toksuper, mode, expect, start, pos)
  BY DEF InOrder
<1>2. tokens \in Seq(Tok) /\ pos \in Nat /\ start \in Nat /\ start <= pos /\ pos' \in Nat /\ pos <= pos'
  BY DEF JsonTypes
<1>3. Sound(tokens, K, top, toksuper, mode', expect, start, pos')
  BY <1>1, <1>2, SoundMove
<1> QED
  BY <1>3 DEF InOrder

LEMMA InOrderReturn ==
  ASSUME JsonTypes, InOrder, NEW error, Return(error)
  PROVE  InOrder'
BY InOrderMove DEF Return

\* The grammar, as sets.
LEMMA Grammar ==
  ASSUME JsonTypes
  PROVE  /\ "{" \in Accepts[expect] => expect \in {"Root", "Value", "ValueOrClose", "Done"}
         /\ "[" \in Accepts[expect] => expect \in {"Value", "ValueOrClose", "Done"}
         /\ "primitive" \in Accepts[expect] => expect \in {"Value", "ValueOrClose", "Done"}
         /\ "\"" \in Accepts[expect] => expect \in {"Value", "ValueOrClose", "Key", "KeyOrClose", "Done"}
         /\ "}" \in Accepts[expect] => expect \in {"KeyOrClose", "CommaOrClose", "Done"}
         /\ "]" \in Accepts[expect] => expect \in {"ValueOrClose", "CommaOrClose", "Done"}
         /\ ":" \in Accepts[expect] => expect \in {"Colon", "Done"}
         /\ "," \in Accepts[expect] => expect \in {"CommaOrClose", "Done"}
<1>1. expect \in {"Root", "Value", "ValueOrClose", "Key", "KeyOrClose", "Colon", "CommaOrClose", "Done"}
  BY DEF JsonTypes, Expected
<1>2. /\ Accepts["Root"] = {"{"} /\ Accepts["Value"] = {"{", "[", "\"", "primitive"}
      /\ Accepts["ValueOrClose"] = {"{", "[", "\"", "primitive", "]"}
      /\ Accepts["Key"] = {"\""} /\ Accepts["KeyOrClose"] = {"\"", "}"}
      /\ Accepts["Colon"] = {":"} /\ Accepts["CommaOrClose"] = {",", "}", "]"}
  BY DEF Accepts
<1>3. CASE expect = "Root"
  BY <1>2, <1>3
<1>4. CASE expect = "Value"
  BY <1>2, <1>4
<1>5. CASE expect = "ValueOrClose"
  BY <1>2, <1>5
<1>6. CASE expect = "Key"
  BY <1>2, <1>6
<1>9. CASE expect = "KeyOrClose"
  BY <1>2, <1>9
<1>7. CASE expect \in {"Colon", "CommaOrClose"}
  BY <1>2, <1>7
<1>8. CASE expect = "Done"
  BY <1>8
<1> QED
  BY <1>1, <1>3, <1>4, <1>5, <1>6, <1>7, <1>8, <1>9

LEMMA AtStructure ==
  ASSUME JsonTypes, InOrder, ~Spoiled, NEW c \in Structure, Scanning(c)
  PROVE  c \in Accepts[expect] /\ expect # "Done" /\ check /\ In("scan") /\ mode = "scan"
<1>1. Lexeme(c) = c /\ c \notin Whitespace
  BY DEF Lexeme, Structure, Whitespace
<1> QED
  BY <1>1, NotDone DEF Scanning, check, In

LEMMA InOrderOpen ==
  ASSUME JsonTypes, InOrder, ~Spoiled, OpenObject \/ OpenArray
  PROVE  InOrder'
<1>1. PICK c \in {"{", "["}, kind \in {"Object", "Array"}, then \in {"KeyOrClose", "ValueOrClose"} :
         /\ Open(c, kind, then)
         /\ c = "{" => kind = "Object" /\ then = "KeyOrClose"
         /\ c = "[" => kind = "Array" /\ then = "ValueOrClose"
  BY DEF OpenObject, OpenArray
<1>2. CASE Full
  BY <1>1, <1>2, InOrderReturn DEF Open
<1>3. CASE ~Full
  <2>1. Scanning(c) /\ c \in Structure
    BY <1>1 DEF Open, Structure
  <2>2. c \in Accepts[expect] /\ expect # "Done" /\ check /\ In("scan") /\ mode = "scan"
    BY <2>1, AtStructure
  <2>3. /\ tokens' = Append(tokens, Token(kind, pos, UNSET)) /\ toksuper' = Len(tokens) + 1
        /\ expect' = then /\ mode' = "scan" /\ start' = start /\ pos' = pos + 1
    BY <1>1, <1>3, <2>2 DEF Open, Advance, Expect
  <2>4. PICK K, top : Sound(tokens, K, top, toksuper, "scan", expect, start, pos)
    BY <2>2 DEF InOrder
  <2>5. tokens \in Seq(Tok) /\ Bounded(tokens) /\ pos \in Nat /\ pos < UNSET
    BY Numbers DEF JsonTypes
  <2>6. \/ expect \in Values \ {"Key", "KeyOrClose"} /\ kind = "Object" /\ then = "KeyOrClose"
        \/ expect \in {"Value", "ValueOrClose"} /\ kind = "Array" /\ then = "ValueOrClose"
    BY <1>1, <2>2, Grammar DEF Values
  <2>7. Sound(Append(tokens, Token(kind, pos, UNSET)), K, Len(tokens) + 1, Len(tokens) + 1,
              "scan", then, start, pos + 1)
    BY <2>4, <2>5, <2>6, SoundOpen
  <2> QED
    BY <2>3, <2>7 DEF InOrder
<1> QED
  BY <1>2, <1>3

LEMMA Successor ==
  ASSUME NEW m \in Nat
  PROVE  /\ m + 1 \in 1 .. m + 1 /\ m + 1 \in Nat
         /\ \A j \in 1 .. (m + 1) - 1 : j \in 1 .. m /\ j \in 1 .. m + 1
OBVIOUS

LEMMA InOrderClose ==
  ASSUME JsonTypes, InOrder, ~Spoiled, CloseObject \/ CloseArray
  PROVE  InOrder'
<1> DEFINE i == InnermostOpen(tokens, Len(tokens) + 1)
<1>1. PICK c \in {"}", "]"}, kind \in {"Object", "Array"} : Close(c, kind)
  BY DEF CloseObject, CloseArray
<1>2. CASE i = 0 \/ tokens[i].kind # kind
  <2>1. Return("Inval")
    BY <1>1, <1>2 DEF Close
  <2> QED
    BY <2>1, InOrderReturn
<1>3. CASE i # 0 /\ tokens[i].kind = kind
  <2>1. Scanning(c) /\ c \in Structure
    BY <1>1 DEF Close, Structure
  <2>2. c \in Accepts[expect] /\ expect # "Done" /\ check /\ In("scan") /\ mode = "scan"
    BY <2>1, AtStructure
  <2>3. /\ Advance
        /\ tokens' = [tokens EXCEPT ![i].end = pos + 1] /\ toksuper' = InnermostOpen(tokens, i)
        /\ expect' = (IF toksuper' # 0 THEN "CommaOrClose" ELSE "Done")
        /\ mode' = "scan" /\ start' = start
    BY <1>1, <1>3, <2>2 DEF Close, Expect
  <2>4. PICK K, top : Sound(tokens, K, top, toksuper, "scan", expect, start, pos)
    BY <2>2 DEF InOrder
  <2>5. tokens \in Seq(Tok) /\ Bounded(tokens) /\ pos \in Nat /\ Len(tokens) \in Nat
    BY Numbers DEF JsonTypes
  <2>6. pos + 1 < UNSET /\ pos' = pos + 1
    BY <2>2, <2>3, Advances
  <2>7. IsTop(tokens, Len(tokens) + 1, i) /\ Len(tokens) + 1 \in Nat
    <3> HIDE DEF i
    <3>1. PICK m \in Nat : m = Len(tokens)
      BY <2>5
    <3>2. m + 1 \in 1 .. m + 1 /\ m + 1 \in Nat
      BY Successor
    <3>3. Len(tokens) + 1 \in 1 .. Len(tokens) + 1 /\ Len(tokens) + 1 \in Nat
      BY <3>1, <3>2
    <3> QED
      BY <2>5, <3>3, InnermostIsTop DEF i
  <2>8. i = top
    BY <2>4, <2>7, TopUnique DEF Sound
  <2> HIDE DEF i
  <2>9. top \in 1 .. Len(tokens) /\ top \in 1 .. Len(tokens) + 1
    <3>1. i \in 1 .. (Len(tokens) + 1) - 1
      BY <1>3, <2>7 DEF IsTop
    <3>2. PICK m \in Nat : m = Len(tokens)
      BY <2>5
    <3>3. top \in 1 .. (m + 1) - 1
      BY <2>8, <3>1, <3>2
    <3>4. top \in 1 .. m /\ top \in 1 .. m + 1
      BY <3>3, Successor
    <3> QED
      BY <3>2, <3>4
  <2>10. IsTop(tokens, top, InnermostOpen(tokens, top))
    BY <2>5, <2>9, InnermostIsTop
  <2>11. expect \in {"KeyOrClose", "ValueOrClose", "CommaOrClose"}
    BY <2>2, Grammar
  <2>12. Sound(tokens', K, toksuper', toksuper', "scan", expect', start, pos + 1)
    BY <2>3, <2>4, <2>5, <2>6, <2>8, <2>9, <2>10, <2>11, SoundClose
  <2> QED
    BY <2>3, <2>6, <2>12 DEF InOrder
<1> QED
  BY <1>2, <1>3

\* A comma goes back to the innermost open container.
LEMMA SuperIsTop ==
  ASSUME JsonTypes, NEW K, NEW top, Sound(tokens, K, top, toksuper, mode, expect, start, pos), top # 0
  PROVE  /\ SuperAtComma = top
         /\ OpenContainer(top) = tokens[top].kind /\ tokens[top].kind \in Containers
<1> DEFINE open == {i \in OpenBelow(tokens, Len(tokens) + 1) : tokens[i].kind \in Containers}
<1>1. PICK m \in Nat : m = Len(tokens) /\ DOMAIN tokens = 1 .. m
  BY TokType DEF JsonTypes
<1>2. top \in 1 .. m /\ tokens[top].end = UNSET /\ \A j \in top + 1 .. m : tokens[j].end # UNSET
  BY <1>1 DEF Sound, IsTop
<1>3. tokens[top].kind \in Containers
  BY <1>1, <1>2 DEF Sound, OpenAreContainers
<1>4. tokens[top].start # UNSET
  <2>1. tokens[top].start \in Nat /\ tokens[top].start < UNSET
    BY <1>1, <1>2, TokType DEF JsonTypes, Bounded
  <2> QED
    BY <2>1 DEF UNSET
<1>5. is_open(tokens[top])
  BY <1>2, <1>4 DEF is_open
<1>6. top \in open
  BY <1>1, <1>2, <1>3, <1>5 DEF OpenBelow
<1>7. \A y \in open : y \in 1 .. m /\ tokens[y].end = UNSET
  BY <1>1 DEF OpenBelow, is_open
<1>8. \A y \in open : top >= y
  <2> SUFFICES ASSUME NEW y \in open PROVE top >= y
    OBVIOUS
  <2>1. y \in 1 .. m /\ y \notin top + 1 .. m
    BY <1>2, <1>7
  <2> QED
    BY <1>2, <2>1
<1>9. SuperAtComma = IF (toksuper # 0 /\ tokens[toksuper].kind \in Containers) \/ open = {}
                     THEN toksuper ELSE Max(open)
  BY Zenon DEF SuperAtComma
<1> HIDE DEF open
<1>10. Max(open) = top
  <2>1. Max(open) \in open /\ \A y \in open : Max(open) >= y
    BY <1>6, <1>8 DEF Max
  <2>2. Max(open) \in Nat /\ Max(open) >= top /\ top >= Max(open) /\ top \in Nat
    <3>1. \A y \in open : y \in Nat
      BY <1>7
    <3> QED
      BY <1>6, <1>8, <2>1, <3>1
  <2> QED
    BY <2>2
<1>11. SuperAtComma = top
  BY <1>6, <1>9, <1>10 DEF Sound
<1> QED
  BY <1>3, <1>5, <1>11 DEF OpenContainer

LEMMA InOrderSeparator ==
  ASSUME JsonTypes, InOrder, ~Spoiled, Colon \/ Comma
  PROVE  InOrder'
<1>1. tokens \in Seq(Tok) /\ pos \in Nat
  BY DEF JsonTypes
<1>2. CASE Colon
  <2>1. Scanning(":") /\ ":" \in Structure
    BY <1>2 DEF Colon, Structure
  <2>2. ":" \in Accepts[expect] /\ expect # "Done" /\ check /\ mode = "scan"
    BY <2>1, AtStructure
  <2>3. /\ toksuper' = Len(tokens) /\ expect' = "Value" /\ mode' = "scan" /\ pos' = pos + 1
        /\ UNCHANGED <<start, tokens>>
    BY <1>2, <2>2 DEF Colon, Advance, Expect
  <2>4. PICK K, top : Sound(tokens, K, top, toksuper, "scan", expect, start, pos)
    BY <2>2 DEF InOrder
  <2>5. expect = "Colon"
    BY <2>2, Grammar
  <2>6. Sound(tokens, K, top, Len(tokens), "scan", "Value", start, pos + 1)
    BY <1>1, <2>4, <2>5, SoundSeparator
  <2> QED
    BY <2>3, <2>6 DEF InOrder
<1>3. CASE Comma
  <2>1. Scanning(",") /\ "," \in Structure
    BY <1>3 DEF Comma, Structure
  <2>2. "," \in Accepts[expect] /\ expect # "Done" /\ check /\ mode = "scan"
    BY <2>1, AtStructure
  <2>3. PICK K, top : Sound(tokens, K, top, toksuper, mode, expect, start, pos)
    BY DEF InOrder
  <2>4. expect = "CommaOrClose"
    BY <2>2, Grammar
  <2>5. top # 0
    BY <2>2, <2>3, <2>4 DEF Sound, Scope
  <2>6. /\ SuperAtComma = top /\ OpenContainer(top) = tokens[top].kind
        /\ tokens[top].kind \in Containers
    BY <2>3, <2>5, SuperIsTop
  <2>7. OpenContainer(SuperAtComma) # "None"
    BY <2>6 DEF Containers
  <2>8. /\ toksuper' = top /\ mode' = "scan" /\ pos' = pos + 1 /\ UNCHANGED <<start, tokens>>
        /\ expect' = IF tokens[top].kind = "Object" THEN "Key" ELSE "Value"
    BY <1>3, <2>2, <2>6, <2>7 DEF Comma, Advance, Expect
  <2>9. Sound(tokens, K, top, top, "scan", expect', start, pos + 1)
    BY <1>1, <2>2, <2>3, <2>4, <2>8, SoundSeparator
  <2> QED
    BY <2>8, <2>9 DEF InOrder
<1> QED
  BY <1>2, <1>3

LEMMA InOrderBegin ==
  ASSUME JsonTypes, InOrder, ~Spoiled, OpenString \/ OpenPrimitive
  PROVE  InOrder'
<1>1. tokens \in Seq(Tok) /\ pos \in Nat
  BY DEF JsonTypes
<1>2. CASE OpenString
  <2>1. Scanning("\"") /\ "\"" \in Structure
    BY <1>2 DEF OpenString, Structure
  <2>2. "\"" \in Accepts[expect] /\ expect # "Done" /\ check /\ mode = "scan"
    BY <2>1, AtStructure
  <2>3. /\ mode' = "string" /\ start' = pos /\ pos' = pos + 1 /\ UNCHANGED <<toksuper, tokens>>
        /\ expect' = IF expect \in {"Key", "KeyOrClose"} THEN "Colon" ELSE "CommaOrClose"
    BY <1>2, <2>2 DEF OpenString, Advance, Expect
  <2>4. PICK K, top : Sound(tokens, K, top, toksuper, "scan", expect, start, pos)
    BY <2>2 DEF InOrder
  <2>5. expect \in {"Value", "ValueOrClose", "Key", "KeyOrClose"}
    BY <2>2, Grammar
  <2>6. Sound(tokens, K, top, toksuper, "string", expect', pos, pos + 1)
    BY <1>1, <2>3, <2>4, <2>5, SoundBegin
  <2> QED
    BY <2>3, <2>6 DEF InOrder
<1>3. CASE OpenPrimitive
  <2>1. In("scan") /\ mode = "scan" /\ Here \notin Whitespace /\ "primitive" \in Accepts[expect]
    BY <1>3 DEF OpenPrimitive, In
  <2>2. expect # "Done" /\ check
    BY <2>1, NotDone DEF check
  <2>3. /\ mode' = "primitive" /\ start' = pos /\ UNCHANGED <<pos, toksuper, tokens>>
        /\ expect' = "CommaOrClose"
    BY <1>3, <2>2 DEF OpenPrimitive, Expect
  <2>4. PICK K, top : Sound(tokens, K, top, toksuper, "scan", expect, start, pos)
    BY <2>1 DEF InOrder
  <2>5. expect \in {"Value", "ValueOrClose"}
    BY <2>1, <2>2, Grammar
  <2>6. Sound(tokens, K, top, toksuper, "primitive", "CommaOrClose", pos, pos)
    BY <1>1, <2>4, <2>5, SoundBegin
  <2> QED
    BY <2>3, <2>6 DEF InOrder
<1> QED
  BY <1>2, <1>3

LEMMA InOrderEnd ==
  ASSUME JsonTypes, InOrder, CloseString \/ ClosePrimitive
  PROVE  InOrder'
<1>1. CASE Full
  BY <1>1, InOrderReturn DEF CloseString, ClosePrimitive
<1>2. CASE ~Full
  <2>1. PICK K, top : Sound(tokens, K, top, toksuper, mode, expect, start, pos)
    BY DEF InOrder
  <2>2. /\ tokens \in Seq(Tok) /\ Bounded(tokens) /\ pos \in Nat /\ pos < UNSET /\ start \in Nat
        /\ start <= pos /\ toksuper \in 0 .. Len(tokens)
    BY Numbers DEF JsonTypes
  <2>3. PICK x \in Tok :
          /\ tokens' = Append(tokens, x)
          /\ \/ mode = "string" /\ x = Token("String", start + 1, pos) /\ pos' = pos + 1
             \/ mode = "primitive" /\ x = Token("Primitive", start, pos) /\ pos' = pos
    <3>1. CASE CloseString
      <4>1. tokens' = Append(tokens, Token("String", start + 1, pos)) /\ mode = "string" /\ pos' = pos + 1
        BY <1>2, <3>1 DEF CloseString, Advance, In
      <4>2. Token("String", start + 1, pos) \in Tok
        BY <2>2, TokenIsTok
      <4> QED
        BY <4>1, <4>2
    <3>2. CASE ClosePrimitive
      <4>1. tokens' = Append(tokens, Token("Primitive", start, pos)) /\ mode = "primitive" /\ pos' = pos
        BY <1>2, <3>2 DEF ClosePrimitive, PrimitiveAtEnd
      <4>2. Token("Primitive", start, pos) \in Tok
        BY <2>2, TokenIsTok
      <4> QED
        BY <4>1, <4>2
    <3> QED
      BY <3>1, <3>2
  <2>4. \E L : Sound(Append(tokens, x), L, top, toksuper, "scan", expect, start, pos')
    BY <2>1, <2>2, <2>3, SoundEnd
  <2>5. mode' = "scan" /\ UNCHANGED <<start, toksuper, expect>>
    BY <1>2 DEF CloseString, ClosePrimitive
  <2> QED
    BY <2>3, <2>4, <2>5 DEF InOrder
<1> QED
  BY <1>1, <1>2

LEMMA InOrderStep ==
  ASSUME JsonTypes, InOrder, ~Spoiled, Tokenize
  PROVE  InOrder'
<1>1. CASE \/ ReadEnd \/ NotGrammar \/ SkipWhitespace \/ StringByte \/ Backslash \/ Escape \/ HexDigit
           \/ EndInString \/ PrimitiveByte \/ EndOfScan \/ \E c \in Chars : Read(c)
  <2>1. /\ UNCHANGED <<tokens, toksuper, expect, start>>
        /\ pos' = pos \/ pos' = pos + 1
        /\ mode' = mode \/ (mode \in InText /\ mode' \in InText)
    BY <1>1 DEF ReadEnd, NotGrammar, SkipWhitespace, StringByte, Backslash, Escape, HexDigit,
                EndInString, PrimitiveByte, EndOfScan, Read, Return, Advance, In, InText
  <2> QED
    BY <2>1, InOrderMove
<1> QED
  BY <1>1, InOrderOpen, InOrderClose, InOrderSeparator, InOrderBegin, InOrderEnd DEF Tokenize

LEMMA SpoiledStays ==
  ASSUME JsonTypes, Spoiled, Tokenize
  PROVE  Spoiled'
<1>1. PICK m \in Nat : m = Len(tokens) /\ DOMAIN tokens = 1 .. m
  BY TokType DEF JsonTypes
<1>2. m # 0 /\ 1 \in 1 .. m /\ tokens[1].kind = "Object" /\ tokens[1].end # UNSET
  BY <1>1 DEF Spoiled
<1>3. PICK i \in tokens[1].end + 1 .. Len(js) : js[i] \notin Whitespace
  BY DEF Spoiled
<1>4. tokens \in Seq(Tok) /\ Bounded(tokens) /\ js \in Seq(AllChars) /\ Len(js) \in Nat /\ tokens[1].end \in Nat
  BY <1>1, <1>2, Numbers, TokType DEF JsonTypes
<1>5. /\ Len(js') \in Nat /\ Len(js) <= Len(js') /\ \A j \in 1 .. Len(js) : js'[j] = js[j]
  <2>1. ASSUME NEW c \in Chars, Read(c)
        PROVE  Len(js') \in Nat /\ Len(js) <= Len(js') /\ \A j \in 1 .. Len(js) : js'[j] = js[j]
    <3>1. c \in AllChars
      BY CharsAssumption
    <3>2. js' = Append(js, c)
      BY <2>1 DEF Read
    <3>3. Len(js') = Len(js) + 1 /\ \A j \in 1 .. Len(js) : js'[j] = js[j]
      BY <1>4, <3>1, <3>2, Appended
    <3> QED
      BY <1>4, <3>3
  <2>2. CASE ~\E c \in Chars : Read(c)
    <3>1. js' = js
      BY <2>2 DEF Tokenize, ReadEnd, NotGrammar, SkipWhitespace, OpenObject, OpenArray, Open,
                  CloseObject, CloseArray, Close, Colon, Comma, OpenString, StringByte, CloseString,
                  Backslash, Escape, HexDigit, EndInString, OpenPrimitive, PrimitiveByte,
                  ClosePrimitive, EndOfScan, Advance, Return
    <3> QED
      BY <1>4, <3>1
  <2> QED
    BY <2>1, <2>2
<1>6. Len(tokens') # 0 /\ tokens'[1] = tokens[1]
  <2>1. ASSUME NEW x \in Tok, tokens' = Append(tokens, x) PROVE Len(tokens') # 0 /\ tokens'[1] = tokens[1]
    <3>1. Len(tokens') = Len(tokens) + 1 /\ \A j \in 1 .. Len(tokens) : tokens'[j] = tokens[j]
      BY <1>4, <2>1, Appended
    <3> QED
      BY <1>1, <1>2, <3>1
  <2>2. CASE tokens' = tokens
    BY <1>1, <1>2, <2>2
  <2>3. ASSUME NEW c, NEW kind \in {"Object", "Array"}, NEW then, Open(c, kind, then)
        PROVE  Len(tokens') # 0 /\ tokens'[1] = tokens[1]
    <3>1. \/ tokens' = tokens
          \/ tokens' = Append(tokens, Token(kind, pos, UNSET))
      BY <2>3 DEF Open, Return
    <3>2. Token(kind, pos, UNSET) \in Tok
      BY TokenIsTok DEF JsonTypes, UNSET
    <3> QED
      BY <2>1, <2>2, <3>1, <3>2
  <2>4. ASSUME NEW c, NEW kind, Close(c, kind) PROVE Len(tokens') # 0 /\ tokens'[1] = tokens[1]
    <3> DEFINE k == InnermostOpen(tokens, Len(tokens) + 1)
    <3>1. CASE tokens' = [tokens EXCEPT ![k].end = pos + 1] /\ k # 0
      <4>1. Len(tokens) + 1 \in 1 .. Len(tokens) + 1
        BY <1>1
      <4>2. IsTop(tokens, Len(tokens) + 1, k)
        BY <1>4, <4>1, InnermostIsTop
      <4> HIDE DEF k
      <4>3. k \in 1 .. (Len(tokens) + 1) - 1 /\ tokens[k].end = UNSET
        BY <3>1, <4>2 DEF IsTop
      <4>4. k \in 1 .. m /\ k # 1
        BY <1>1, <1>2, <4>3
      <4>5. tokens'[1] = tokens[1] /\ DOMAIN tokens' = 1 .. m
        BY <1>1, <1>2, <3>1, <4>4
      <4>6. tokens[k] \in Tok /\ pos + 1 \in Nat
        BY <1>1, <1>4, <4>4, ElementOfSeq DEF JsonTypes
      <4>7. [tokens[k] EXCEPT !.end = pos + 1] \in Tok
        BY <4>6 DEF Tok
      <4>8. Len(tokens') = m
        BY <1>1, <1>4, <3>1, <4>4, <4>7, ExceptSeq
      <4> QED
        BY <1>2, <4>5, <4>8
    <3>2. CASE ~(tokens' = [tokens EXCEPT ![k].end = pos + 1] /\ k # 0)
      <4>1. tokens' = tokens
        BY <2>4, <3>2 DEF Close, Return
      <4> QED
        BY <2>2, <4>1
    <3> QED
      BY <3>1, <3>2
  <2>5. CASE CloseString
    <3>1. tokens' = tokens \/ tokens' = Append(tokens, Token("String", start + 1, pos))
      BY <2>5 DEF CloseString, Return
    <3>2. start + 1 \in Nat /\ pos \in Nat
      BY DEF JsonTypes
    <3>3. Token("String", start + 1, pos) \in Tok
      BY <3>2, TokenIsTok
    <3> QED
      BY <2>1, <2>2, <3>1, <3>3
  <2>6. CASE ClosePrimitive
    <3>1. tokens' = tokens \/ tokens' = Append(tokens, Token("Primitive", start, pos))
      BY <2>6 DEF ClosePrimitive, Return
    <3>2. Token("Primitive", start, pos) \in Tok
      BY TokenIsTok DEF JsonTypes
    <3> QED
      BY <2>1, <2>2, <3>1, <3>2
  <2>7. CASE OpenObject \/ OpenArray
    BY <2>3, <2>7 DEF OpenObject, OpenArray
  <2>8. CASE CloseObject \/ CloseArray
    BY <2>4, <2>8 DEF CloseObject, CloseArray
  <2>9. CASE \/ ReadEnd \/ NotGrammar \/ SkipWhitespace \/ Colon \/ Comma \/ OpenString \/ StringByte
             \/ Backslash \/ Escape \/ HexDigit \/ EndInString \/ OpenPrimitive \/ PrimitiveByte
             \/ EndOfScan \/ \E c \in Chars : Read(c)
    <3>1. tokens' = tokens
      BY <2>9 DEF ReadEnd, NotGrammar, SkipWhitespace, Colon, Comma, OpenString, StringByte,
                  Backslash, Escape, HexDigit, EndInString, OpenPrimitive, PrimitiveByte,
                  EndOfScan, Read, Return
    <3> QED
      BY <2>2, <3>1
  <2> QED
    BY <2>5, <2>6, <2>7, <2>8, <2>9 DEF Tokenize
<1>7. i \in tokens'[1].end + 1 .. Len(js') /\ js'[i] \notin Whitespace
  <2>1. i \in 1 .. Len(js) /\ i \in tokens[1].end + 1 .. Len(js')
    BY <1>3, <1>4, <1>5
  <2> QED
    BY <1>3, <1>5, <1>6, <2>1
<1> QED
  BY <1>2, <1>6, <1>7 DEF Spoiled

-----------------------------------------------------------------------------
(* The invariant of read_json.                                             *)

\* What an accepted document passed.
Verdict ==
  /\ outcome = "Ok" => mode = "scan" /\ Closed(tokens)
  /\ result = "Ok" =>
       /\ outcome = "Ok" /\ tokens # << >>
       /\ OnlyWhitespaceAfterRoot /\ check_key_integrity(js, tokens) = "Ok"

JsonInv == JsonTypes /\ (Spoiled \/ InOrder) /\ Verdict

LEMMA ClosedAtEnd ==
  ASSUME JsonTypes, ~\E i \in DOMAIN tokens : is_open(tokens[i])
  PROVE  Closed(tokens)
<1>1. PICK m \in Nat : m = Len(tokens) /\ DOMAIN tokens = 1 .. m
  BY TokType DEF JsonTypes
<1>2. \A i \in 1 .. m : tokens[i].start \in Nat /\ tokens[i].start < UNSET
  BY <1>1, TokType DEF JsonTypes, Bounded
<1>3. \A i \in 1 .. m : tokens[i].start # UNSET
  BY <1>2 DEF UNSET
<1> QED
  BY <1>1, <1>3 DEF is_open, Closed

LEMMA JsonInvInit ==
  ASSUME Init
  PROVE  JsonInv
<1>1. JsonTypes
  BY TypesInit DEF Init
<1>2. Len(tokens) = 0 /\ toksuper = 0 /\ mode = "scan" /\ expect = "Root" /\ pos = 0 /\ start = 0
  BY DEF Init, JsmnInit
<1>3. 1 .. Len(tokens) = {} /\ 1 .. (Len(tokens) + 1) - 1 = {}
  BY <1>2
<1>4. Paired(tokens, {}) /\ Laminar(tokens) /\ OpenAreContainers(tokens) /\ Fresh(tokens, pos)
  BY <1>3 DEF Paired, Laminar, OpenAreContainers, Fresh
<1>5. IsTop(tokens, Len(tokens) + 1, 0)
  BY <1>3 DEF IsTop
<1>6. Placed(tokens, mode, expect, start, pos) /\ Scope(tokens, {}, 0, mode, expect)
  BY <1>2, <1>4 DEF Placed, Values, Scope
<1>7. Sound(tokens, {}, 0, toksuper, mode, expect, start, pos)
  BY <1>2, <1>4, <1>5, <1>6 DEF Sound
<1>8. Verdict
  BY DEF Init, JsmnInit, Verdict
<1> QED
  BY <1>1, <1>7, <1>8 DEF JsonInv, InOrder

LEMMA SpoiledOrInOrder ==
  ASSUME JsonTypes, Spoiled \/ InOrder, Tokenize
  PROVE  Spoiled' \/ InOrder'
BY SpoiledStays, InOrderStep

LEMMA JsonInvStep ==
  ASSUME JsonInv, [Next]_vars
  PROVE  JsonInv'
<1> USE DEF JsonInv
<1>1. CASE Scan
  <2>1. JsonTypes' /\ (Spoiled' \/ InOrder')
    BY <1>1, TypesStep, SpoiledOrInOrder DEF Scan
  <2>2. result' = "running" /\ outcome = "running"
    BY <1>1 DEF Scan, Tokenize, Read, ReadEnd, NotGrammar, SkipWhitespace, OpenObject, OpenArray, Open,
                CloseObject, CloseArray, Close, Colon, Comma, OpenString, StringByte, CloseString,
                Backslash, Escape, HexDigit, EndInString, OpenPrimitive, PrimitiveByte,
                ClosePrimitive, PrimitiveAtEnd, EndOfScan, Scanning, In
  <2>3. outcome' = "Ok" => EndOfScan /\ ~\E i \in DOMAIN tokens : is_open(tokens[i])
    BY <1>1, <2>2 DEF Scan, Tokenize, Read, ReadEnd, NotGrammar, SkipWhitespace, OpenObject, OpenArray, Open,
                CloseObject, CloseArray, Close, Colon, Comma, OpenString, StringByte, CloseString,
                Backslash, Escape, HexDigit, EndInString, OpenPrimitive, PrimitiveByte,
                ClosePrimitive, EndOfScan, Advance, Return
  <2>4. outcome' = "Ok" => mode' = "scan" /\ tokens' = tokens /\ Closed(tokens)
    BY <2>3, ClosedAtEnd DEF EndOfScan, Return
  <2>5. outcome' = "Ok" => mode' = "scan" /\ Closed(tokens')
    BY <2>4
  <2> QED
    BY <2>1, <2>2, <2>5 DEF Verdict, Closed
<1>2. CASE HasNul \/ ScanFailed \/ NoTokens \/ CheckTokens \/ UNCHANGED vars
  <2>1. UNCHANGED <<js, pos, mode, start, tokens, toksuper, expect, outcome>>
    BY <1>2 DEF HasNul, ScanFailed, NoTokens, CheckTokens, Answer, vars, jsmnVars
  <2>2. JsonTypes'
    BY <2>1 DEF JsonTypes, Bounded
  <2>3. Spoiled' \/ InOrder'
    BY <2>1 DEF Spoiled, InOrder
  <2>4. result' = "Ok" =>
          /\ outcome = "Ok" /\ tokens # << >>
          /\ OnlyWhitespaceAfterRoot /\ check_key_integrity(js, tokens) = "Ok"
    <3>1. CASE UNCHANGED vars
      BY <3>1 DEF vars, Verdict
    <3>2. CASE CheckTokens
      BY <3>2 DEF CheckTokens, Answer
    <3>3. CASE HasNul \/ ScanFailed \/ NoTokens
      BY <3>3 DEF HasNul, ScanFailed, NoTokens, Answer, ErrorOf
    <3> QED
      BY <1>2, <3>1, <3>2, <3>3
  <2>5. Verdict'
    BY <2>1, <2>4 DEF Verdict, Closed, OnlyWhitespaceAfterRoot, RootEnd
  <2> QED
    BY <2>2, <2>3, <2>5
<1> QED
  BY <1>1, <1>2 DEF Next

LEMMA JsonInvariant == Spec => []JsonInv
<1>1. Init => JsonInv
  BY JsonInvInit
<1>2. JsonInv /\ [Next]_vars => JsonInv'
  BY JsonInvStep
<1> QED
  BY <1>1, <1>2, PTL DEF Spec

\* Nothing but whitespace follows the object of an accepted document.
LEMMA NotSpoiled ==
  ASSUME JsonInv, Accepted
  PROVE  ~Spoiled
<1> SUFFICES ASSUME Spoiled PROVE FALSE
  OBVIOUS
<1>1. OnlyWhitespaceAfterRoot
  BY DEF JsonInv, Verdict, Accepted
<1>2. tokens \in Seq(Tok) /\ Len(tokens) \in Nat
  BY Numbers DEF JsonInv, JsonTypes
<1>3. 1 \in 1 .. Len(tokens) /\ tokens[1].kind = "Object"
  BY <1>2 DEF Spoiled
<1>4. tokens[1].end \in Nat
  BY <1>2, <1>3, TokType
<1>5. RootEnd = tokens[1].end
  BY <1>3, <1>4 DEF RootEnd
<1> QED
  BY <1>1, <1>5 DEF Spoiled, OnlyWhitespaceAfterRoot

\* The tokens of an accepted document.
LEMMA AcceptedTokens ==
  ASSUME JsonInv, Accepted
  PROVE  /\ js \in Seq(AllChars) /\ tokens \in Seq(Tok) /\ Laminar(tokens) /\ Closed(tokens)
         /\ \A i \in 1 .. Len(tokens) : tokens[i].end <= Len(js)
         /\ check_key_integrity(js, tokens) = "Ok"
         /\ \E K : Paired(tokens, K) /\ Len(tokens) \notin K
<1>1. /\ outcome = "Ok" /\ tokens # << >> /\ OnlyWhitespaceAfterRoot
      /\ check_key_integrity(js, tokens) = "Ok" /\ mode = "scan" /\ Closed(tokens)
  BY DEF JsonInv, Verdict, Accepted
<1>2. js \in Seq(AllChars) /\ tokens \in Seq(Tok) /\ Len(js) \in Nat /\ Len(tokens) \in Nat
  BY Numbers DEF JsonInv, JsonTypes
<1>3. ~Spoiled
  BY NotSpoiled
<1>4. PICK K, top : Sound(tokens, K, top, toksuper, mode, expect, start, pos)
  BY <1>3 DEF JsonInv, InOrder
<1>5. top = 0
  <2>1. (Len(tokens) + 1) - 1 = Len(tokens)
    BY <1>2
  <2> QED
    BY <1>1, <1>4, <2>1 DEF Sound, IsTop, Closed
<1>6. expect \in {"Root", "Done"}
  BY <1>1, <1>4, <1>5 DEF Sound, Scope, JsonInv, JsonTypes, Expected
<1>7. Len(tokens) \notin K
  <2>1. CASE expect = "Root"
    <3>1. Len(tokens) = 0
      BY <1>1, <1>4, <2>1 DEF Sound, Scope
    <3> QED
      BY <1>4, <3>1 DEF Sound, Paired
  <2>2. CASE expect = "Done"
    BY <1>1, <1>4, <2>2 DEF Sound, Scope
  <2> QED
    BY <1>6, <2>1, <2>2
<1>8. ASSUME NEW i \in 1 .. Len(tokens) PROVE tokens[i].end <= Len(js)
  <2>1. tokens[i].end <= pos /\ tokens[i].end \in Nat /\ pos \in Nat /\ pos <= Len(js)
    BY <1>1, <1>2, TokType DEF JsonInv, JsonTypes, Closed
  <2>2. PICK l \in Nat, e \in Nat : l = Len(js) /\ e = tokens[i].end
    BY <1>2, <2>1
  <2>3. e <= pos /\ pos <= l
    BY <2>1, <2>2
  <2> QED
    BY <2>1, <2>2, <2>3
<1> QED
  BY <1>1, <1>2, <1>4, <1>7, <1>8 DEF Sound

\* In an accepted document the lookups of json.rs find what lies directly inside
\* the container, key by key and element by element.
THEOREM LookupsSafe == Spec => []LookupsFollowNesting
<1>1. JsonInv => LookupsFollowNesting
  <2> SUFFICES ASSUME JsonInv, Accepted PROVE LookupsFollowNesting
    BY DEF LookupsFollowNesting
  <2> QED
    BY AcceptedTokens, LookupsOfWhole
<1> QED
  BY <1>1, JsonInvariant, PTL

\* In an accepted document the member a lookup finds is the only one of its name,
\* and no key is escaped.
THEOREM MembersSafe == Spec => []MembersAreUnambiguous
<1>1. JsonInv => MembersAreUnambiguous
  <2> SUFFICES ASSUME JsonInv, Accepted PROVE MembersAreUnambiguous
    BY DEF MembersAreUnambiguous
  <2> QED
    BY AcceptedTokens, MembersOfChecked
<1> QED
  BY <1>1, JsonInvariant, PTL

-----------------------------------------------------------------------------
(* The screen text of a value, byte by byte.                               *)

LEMMA ShownByteType ==
  ASSUME NEW c \in AllChars
  PROVE  /\ ShownByte(c) \in Seq(AllChars)
         /\ c \notin {"tab", "ctl", "hi"} => ShownByte(c) = <<c>>
         /\ c = "hi" => ShownByte(c) = <<"\\", "x", "A", "A">>
<1>1. c \notin {"tab", "ctl", "hi"} => ShownByte(c) = <<c>>
  BY DEF ShownByte, Printable
<1>2. c \in {"tab", "ctl", "hi"} => ShownByte(c) = <<"\\", "x", "A", "A">>
  BY DEF ShownByte, Printable
<1>3. <<c>> \in Seq(AllChars)
  OBVIOUS
<1>4. "\\" \in AllChars /\ "x" \in AllChars /\ "A" \in AllChars
  BY DEF AllChars
<1>5. <<"\\", "x", "A", "A">> \in Seq(AllChars)
  BY <1>4
<1> QED
  BY <1>1, <1>2, <1>3, <1>5

LEMMA Successors ==
  ASSUME NEW n \in Nat, NEW i \in 1 .. n + 1
  PROVE  i = n + 1 \/ i \in 1 .. n
OBVIOUS

LEMMA ShownAppend ==
  ASSUME NEW v \in Seq(AllChars), NEW c \in AllChars
  PROVE  Shown(Append(v, c)) = Shown(v) \o ShownByte(c)
<1> DEFINE w == Append(v, c)
           a == [i \in DOMAIN v |-> ShownByte(v[i])]
           b == [i \in DOMAIN w |-> ShownByte(w[i])]
<1>1. PICK n \in Nat : n = Len(v) /\ DOMAIN v = 1 .. n
  BY LenProperties
<1>2. w \in Seq(AllChars) /\ Len(w) = n + 1 /\ w[n + 1] = c /\ \A i \in 1 .. n : w[i] = v[i]
  BY <1>1, Appended
<1>3. DOMAIN w = 1 .. n + 1
  <2> HIDE DEF w
  <2> QED
    BY <1>2, LenProperties
<1> HIDE DEF w
<1>4. \A i \in 1 .. n : v[i] \in AllChars
  BY <1>1, ElementOfSeq
<1>5. a = [i \in 1 .. n |-> ShownByte(v[i])] /\ \A i \in 1 .. n : ShownByte(v[i]) \in Seq(AllChars)
  BY <1>1, <1>4, ShownByteType
<1>6. a \in Seq(Seq(AllChars)) /\ Len(a) = n
  <2> HIDE DEF a
  <2>1. a \in Seq(Seq(AllChars))
    BY <1>5, IsASeq
  <2> QED
    BY <1>5, <2>1, LenProperties
<1>7. ShownByte(c) \in Seq(AllChars)
  BY ShownByteType
<1>8. b = Append(a, ShownByte(c))
  <2>1. /\ Append(a, ShownByte(c)) \in Seq(Seq(AllChars)) /\ Len(Append(a, ShownByte(c))) = n + 1
        /\ Append(a, ShownByte(c))[n + 1] = ShownByte(c)
        /\ \A i \in 1 .. n : Append(a, ShownByte(c))[i] = a[i]
    <3> HIDE DEF a
    <3> QED
      BY <1>6, <1>7, Appended
  <2>2. b = [i \in 1 .. n + 1 |-> ShownByte(w[i])]
    BY <1>3
  <2>3. ASSUME NEW i \in 1 .. n + 1 PROVE b[i] = Append(a, ShownByte(c))[i]
    <3>1. b[i] = ShownByte(w[i])
      BY <2>2
    <3>2. CASE i = n + 1
      BY <1>2, <2>1, <3>1, <3>2
    <3>3. CASE i \in 1 .. n
      <4>1. a[i] = ShownByte(v[i])
        BY <1>5, <3>3
      <4> HIDE DEF a, b
      <4> QED
        BY <1>2, <2>1, <3>1, <3>3, <4>1
    <3>4. i = n + 1 \/ i \in 1 .. n
      BY Successors
    <3> QED
      BY <3>2, <3>3, <3>4
  <2>4. DOMAIN Append(a, ShownByte(c)) = 1 .. n + 1
    <3> HIDE DEF a
    <3> QED
      BY <2>1, LenProperties
  <2>5. PICK g \in Seq(Seq(AllChars)) : g = Append(a, ShownByte(c))
    BY <2>1
  <2>6. g = [i \in 1 .. n + 1 |-> g[i]]
    <3>1. Len(g) = n + 1
      BY <2>1, <2>5
    <3> QED
      BY <3>1, SeqDef, LenProperties
  <2> HIDE DEF a, b
  <2> QED
    BY <2>2, <2>3, <2>5, <2>6
<1>9. FlattenSeq(Append(a, ShownByte(c))) = FlattenSeq(a) \o ShownByte(c)
  <2> HIDE DEF a
  <2> QED
    BY <1>6, <1>7, FlatAppend
<1>10. Shown(w) = FlattenSeq(b) /\ Shown(v) = FlattenSeq(a)
  BY DEF Shown
<1> HIDE DEF a, b
<1> QED
  BY <1>8, <1>9, <1>10 DEF w

LEMMA ShownEmpty == Shown(<< >>) = << >>
<1>1. [i \in DOMAIN << >> |-> ShownByte(<< >>[i])] = << >>
  OBVIOUS
<1> QED
  BY <1>1, FlatEmpty DEF Shown

LEMMA ShownTyped == \A v \in Seq(AllChars) : Shown(v) \in Seq(AllChars)
<1> DEFINE P == {v \in Seq(AllChars) : Shown(v) \in Seq(AllChars)}
<1>1. << >> \in P
  <2>1. << >> \in Seq(AllChars)
    BY EmptySeq
  <2> QED
    BY <2>1, ShownEmpty
<1>2. ASSUME NEW u \in Seq(AllChars), NEW c \in AllChars, u \in P PROVE Append(u, c) \in P
  <2>1. Append(u, c) \in Seq(AllChars)
    OBVIOUS
  <2>2. PICK a \in Seq(AllChars) : a = Shown(u)
    BY <1>2
  <2>3. PICK b \in Seq(AllChars) : b = ShownByte(c)
    BY ShownByteType
  <2>4. a \o b \in Seq(AllChars)
    BY ConcatProperties
  <2> QED
    BY <2>1, <2>2, <2>3, <2>4, ShownAppend
<1> HIDE DEF P
<1>3. \A v \in Seq(AllChars) : v \in P
  BY <1>1, <1>2, InductiveSeq
<1> QED
  BY <1>3 DEF P

\* The text of the first k bytes.
Upto(v, k) == Shown(SubSeq(v, 1, k))

LEMMA UptoNext ==
  ASSUME NEW v \in Seq(AllChars), NEW k \in 0 .. Len(v) - 1
  PROVE  /\ Upto(v, k) \in Seq(AllChars) /\ v[k + 1] \in AllChars
         /\ Upto(v, k + 1) = Upto(v, k) \o ShownByte(v[k + 1])
<1>1. PICK n \in Nat : n = Len(v)
  BY LenProperties
<1>2. k + 1 \in 1 .. n /\ (k + 1) - 1 = k /\ k \in Nat /\ 1 \in 1 .. n /\ k + 1 \in 1 .. n /\ k + 1 \in Nat
  BY <1>1
<1>3. v[k + 1] \in AllChars
  BY <1>1, <1>2, ElementOfSeq
<1>4. SubSeq(v, 1, k) \in Seq(AllChars)
  <2>1. \A i \in 1 .. k : i \in 1 .. n
    BY <1>1
  <2>2. \A i \in 1 .. k : v[i] \in AllChars
    BY <1>1, <2>1, ElementOfSeq
  <2> QED
    BY <1>2, <2>2, SubSeqProperties
<1>5. SubSeq(v, 1, k + 1) = SubSeq(v, 1, (k + 1) - 1) \o <<v[k + 1]>>
  BY <1>1, <1>2, SubSeqRecursiveSecond
<1>6. SubSeq(v, 1, k + 1) = Append(SubSeq(v, 1, k), v[k + 1])
  <2>1. Append(SubSeq(v, 1, k), v[k + 1]) = SubSeq(v, 1, k) \o <<v[k + 1]>>
    BY <1>3, <1>4, AppendIsConcat
  <2> QED
    BY <1>2, <1>5, <2>1
<1> QED
  BY <1>3, <1>4, <1>6, ShownAppend, ShownTyped DEF Upto

\* Where the text of byte k + 1 stands in the text of the value.
LEMMA ShownAt ==
  ASSUME NEW v \in Seq(AllChars), NEW k \in 0 .. Len(v) - 1
  PROVE  /\ Len(Upto(v, k)) \in Nat
         /\ Len(Upto(v, k + 1)) = Len(Upto(v, k)) + Len(ShownByte(v[k + 1]))
         /\ Len(Upto(v, k + 1)) <= Len(Shown(v))
         /\ \A j \in 1 .. Len(ShownByte(v[k + 1])) :
              Shown(v)[Len(Upto(v, k)) + j] = ShownByte(v[k + 1])[j]
<1>1. PICK n \in Nat : n = Len(v)
  BY LenProperties
<1> DEFINE d == n - (k + 1)
           Starts(a, b) == Len(a) <= Len(b) /\ \A j \in 1 .. Len(a) : b[j] = a[j]
           P == {i \in Nat : i \in 0 .. d => Starts(Upto(v, k + 1), Upto(v, (k + 1) + i))}
<1>2. k \in 0 .. n - 1 /\ d \in Nat /\ d \in 0 .. d /\ (k + 1) + d = n
  BY <1>1
<1>3. \A i \in 0 .. n - 1 : /\ Upto(v, i) \in Seq(AllChars) /\ v[i + 1] \in AllChars
                            /\ Upto(v, i + 1) = Upto(v, i) \o ShownByte(v[i + 1])
  BY <1>1, UptoNext
<1>4. \A i \in 0 .. n - 1 :
        /\ ShownByte(v[i + 1]) \in Seq(AllChars)
        /\ Upto(v, i + 1) \in Seq(AllChars)
        /\ Len(Upto(v, i)) \in Nat /\ Len(ShownByte(v[i + 1])) \in Nat
        /\ Len(Upto(v, i + 1)) = Len(Upto(v, i)) + Len(ShownByte(v[i + 1]))
        /\ \A j \in 1 .. Len(Upto(v, i)) + Len(ShownByte(v[i + 1])) :
             Upto(v, i + 1)[j] = IF j <= Len(Upto(v, i)) THEN Upto(v, i)[j]
                                 ELSE ShownByte(v[i + 1])[j - Len(Upto(v, i))]
  <2> SUFFICES ASSUME NEW i \in 0 .. n - 1
               PROVE  /\ ShownByte(v[i + 1]) \in Seq(AllChars)
                      /\ Upto(v, i + 1) \in Seq(AllChars)
                      /\ Len(Upto(v, i)) \in Nat /\ Len(ShownByte(v[i + 1])) \in Nat
                      /\ Len(Upto(v, i + 1)) = Len(Upto(v, i)) + Len(ShownByte(v[i + 1]))
                      /\ \A j \in 1 .. Len(Upto(v, i)) + Len(ShownByte(v[i + 1])) :
                           Upto(v, i + 1)[j] = IF j <= Len(Upto(v, i)) THEN Upto(v, i)[j]
                                               ELSE ShownByte(v[i + 1])[j - Len(Upto(v, i))]
    OBVIOUS
  <2>1. PICK a \in Seq(AllChars) : a = Upto(v, i)
    BY <1>3
  <2>2. PICK b \in Seq(AllChars) : b = ShownByte(v[i + 1])
    BY <1>3, ShownByteType
  <2>3. /\ a \o b \in Seq(AllChars) /\ Len(a \o b) = Len(a) + Len(b)
        /\ \A j \in 1 .. Len(a) + Len(b) : (a \o b)[j] = IF j <= Len(a) THEN a[j] ELSE b[j - Len(a)]
    BY ConcatProperties
  <2>4. Upto(v, i + 1) = a \o b /\ Len(a) \in Nat /\ Len(b) \in Nat
    BY <1>3, <2>1, <2>2, LenProperties
  <2> QED
    BY <2>1, <2>2, <2>3, <2>4, Zenon
<1>5. PICK x \in Nat, y \in Nat :
        x = Len(Upto(v, k)) /\ y = Len(ShownByte(v[k + 1])) /\ Len(Upto(v, k + 1)) = x + y
  BY <1>2, <1>4
<1>6. 0 \in P
  <2>1. (k + 1) + 0 = k + 1 /\ Len(Upto(v, k + 1)) <= Len(Upto(v, k + 1))
    BY <1>2, <1>5
  <2> QED
    BY <2>1
<1>7. ASSUME NEW i \in 0 .. d - 1, i \in P PROVE i + 1 \in P
  <2>1. /\ (k + 1) + i \in 0 .. n - 1 /\ (k + 1) + (i + 1) = ((k + 1) + i) + 1 /\ i \in 0 .. d
        /\ i + 1 \in Nat
    BY <1>2
  <2>2. PICK m : m = (k + 1) + i
    OBVIOUS
  <2>3. PICK p \in Nat, q \in Nat :
          /\ p = Len(Upto(v, m)) /\ q = Len(ShownByte(v[m + 1])) /\ Len(Upto(v, m + 1)) = p + q
          /\ \A j \in 1 .. p + q : Upto(v, m + 1)[j] = IF j <= p THEN Upto(v, m)[j]
                                                      ELSE ShownByte(v[m + 1])[j - p]
    <3>1. m \in 0 .. n - 1
      BY <2>1, <2>2
    <3> QED
      BY <1>4, <3>1
  <2>4. x + y <= p /\ \A j \in 1 .. x + y : Upto(v, m)[j] = Upto(v, k + 1)[j]
    BY <1>5, <1>7, <2>1, <2>2, <2>3
  <2>5. x + y <= p + q /\ \A j \in 1 .. x + y : j \in 1 .. p + q /\ j <= p
    BY <2>4
  <2>6. \A j \in 1 .. x + y : Upto(v, m + 1)[j] = Upto(v, k + 1)[j]
    BY <2>3, <2>4, <2>5
  <2>7. Starts(Upto(v, k + 1), Upto(v, m + 1))
    BY <1>5, <2>3, <2>5, <2>6
  <2> HIDE DEF Starts
  <2> QED
    BY <2>1, <2>2, <2>7
<1>8. P \in SUBSET Nat
  OBVIOUS
<1>9. Starts(Upto(v, k + 1), Upto(v, (k + 1) + d))
  <2> HIDE DEF Starts, d
  <2>1. d \in P
    <3> HIDE DEF P
    <3> QED
      BY <1>2, <1>6, <1>7, <1>8, Inductive
  <2> QED
    BY <1>2, <2>1
<1>10. Upto(v, n) = Shown(v)
  BY <1>1, SubSeqFull DEF Upto
<1>11. x + y <= Len(Shown(v)) /\ \A j \in 1 .. x + y : Shown(v)[j] = Upto(v, k + 1)[j]
  BY <1>2, <1>5, <1>9, <1>10
<1>12. ASSUME NEW j \in 1 .. y PROVE Shown(v)[x + j] = ShownByte(v[k + 1])[j]
  <2>1. x + j \in 1 .. x + y /\ ~(x + j <= x) /\ (x + j) - x = j
    OBVIOUS
  <2>2. Upto(v, k + 1)[x + j] = IF x + j <= x THEN Upto(v, k)[x + j] ELSE ShownByte(v[k + 1])[(x + j) - x]
    BY <1>2, <1>4, <1>5, <2>1
  <2> QED
    BY <1>11, <2>1, <2>2
<1> QED
  BY <1>5, <1>11, <1>12

-----------------------------------------------------------------------------
(* Reading the screen text back.                                           *)

CharAt(text, i) == IF i \in DOMAIN text THEN text[i] ELSE "end"

Back(text, f, i) ==
  IF i > Len(text) THEN << >>
  ELSE IF CharAt(text, i) # "\\" THEN <<CharAt(text, i)>> \o f[i + 1]
  ELSE IF CharAt(text, i + 1) = "x" THEN <<"hi">> \o f[i + 4]
  ELSE <<CharAt(text, i), CharAt(text, i + 1)>> \o f[i + 2]

IsBack(text, f) == f = [i \in 1 .. Len(text) + 4 |-> Back(text, f, i)]

LEMMA BackSame ==
  ASSUME NEW text, NEW f, NEW g, NEW i,
         i > Len(text) \/ (f[i + 1] = g[i + 1] /\ f[i + 2] = g[i + 2] /\ f[i + 4] = g[i + 4])
  PROVE  Back(text, f, i) = Back(text, g, i)
BY DEF Back

LEMMA BackExists ==
  ASSUME NEW text, Len(text) \in Nat
  PROVE  \E f : IsBack(text, f)
<1>1. PICK n \in Nat : n = Len(text)
  OBVIOUS
<1> DEFINE D == 1 .. n + 4
           Is(f, k) == f = [i \in D |-> f[i]] /\ \A j \in D : j > n - k => f[j] = Back(text, f, j)
           P == {k \in Nat : \E f : Is(f, k)}
<1>2. 0 \in P
  <2> DEFINE f == [i \in D |-> << >>]
  <2>1. f = [i \in D |-> f[i]] /\ \A j \in D : f[j] = << >>
    OBVIOUS
  <2>2. \A j \in D : j > n - 0 => Back(text, f, j) = << >>
    BY <1>1 DEF Back
  <2> HIDE DEF f
  <2>3. Is(f, 0)
    BY <2>1, <2>2
  <2> HIDE DEF Is
  <2> QED
    BY <2>3, Zenon
<1>3. ASSUME NEW k \in 0 .. n - 1, k \in P PROVE k + 1 \in P
  <2>1. PICK f : Is(f, k)
    BY <1>3
  <2> DEFINE c == n - k
             g == [i \in D |-> IF i = c THEN Back(text, f, c) ELSE f[i]]
  <2>2. c \in D /\ c <= n /\ c \in Nat
    OBVIOUS
  <2>3. g = [i \in D |-> g[i]]
    OBVIOUS
  <2>4. g[c] = Back(text, f, c) /\ \A i \in D : i # c => g[i] = f[i]
    BY <2>2
  <2> HIDE DEF g
  <2>5. ASSUME NEW j \in D, j >= c PROVE Back(text, g, j) = Back(text, f, j)
    <3>1. CASE j > n
      BY <1>1, <3>1, BackSame
    <3>2. CASE ~(j > n)
      <4>1. j + 1 \in D /\ j + 2 \in D /\ j + 4 \in D /\ j + 1 # c /\ j + 2 # c /\ j + 4 # c
        BY <2>2, <2>5, <3>2
      <4>2. g[j + 1] = f[j + 1] /\ g[j + 2] = f[j + 2] /\ g[j + 4] = f[j + 4]
        BY <2>4, <4>1
      <4> QED
        BY <4>2, BackSame
    <3> QED
      BY <3>1, <3>2
  <2>6. ASSUME NEW j \in D, j > n - (k + 1) PROVE g[j] = Back(text, g, j)
    <3>1. j >= c /\ (j = c \/ j > n - k)
      BY <2>6
    <3>2. Back(text, g, j) = Back(text, f, j)
      BY <2>5, <3>1
    <3>3. CASE j = c
      BY <2>4, <3>2, <3>3
    <3>4. CASE j # c
      <4>1. f[j] = Back(text, f, j)
        BY <2>1, <3>1, <3>4
      <4> QED
        BY <2>4, <3>2, <3>4, <4>1
    <3> QED
      BY <3>3, <3>4
  <2>7. Is(g, k + 1) /\ k + 1 \in Nat
    BY <2>3, <2>6
  <2> HIDE DEF Is
  <2> QED
    BY <2>7, Zenon
<1>4. P \in SUBSET Nat /\ n \in 0 .. n
  OBVIOUS
<1>5. n \in P
  <2> HIDE DEF P
  <2> QED
    BY <1>2, <1>3, <1>4, Inductive
<1>6. PICK f : Is(f, n)
  <2> HIDE DEF Is
  <2> QED
    BY <1>5
<1>7. \A j \in D : j > n - n
  OBVIOUS
<1>8. \A j \in D : f[j] = Back(text, f, j)
  BY <1>6, <1>7
<1>9. f = [i \in D |-> f[i]]
  BY <1>6
<1> HIDE DEF D
<1>10. f = [i \in D |-> Back(text, f, i)]
  BY <1>8, <1>9
<1> QED
  BY <1>1, <1>10 DEF IsBack, D

LEMMA ReadBackDef ==
  ASSUME NEW text, Len(text) \in Nat
  PROVE  \E f : /\ ReadBack(text) = f[1]
                /\ \A i \in 1 .. Len(text) + 4 : f[i] = Back(text, f, i)
<1> DEFINE c == CHOOSE f : IsBack(text, f)
<1>1. ReadBack(text) = c[1]
  BY Zenon DEF ReadBack, IsBack, Back, CharAt
<1>2. IsBack(text, c)
  BY BackExists
<1> HIDE DEF c
<1>3. \A i \in 1 .. Len(text) + 4 : c[i] = Back(text, c, i)
  <2>1. c = [i \in 1 .. Len(text) + 4 |-> Back(text, c, i)]
    BY <1>2 DEF IsBack
  <2> HIDE DEF Back
  <2> QED
    BY <2>1
<1> QED
  BY <1>1, <1>3

-----------------------------------------------------------------------------
(* The bytes of a string that the tokenizer accepted.                      *)

\* The bytes s + 1 .. e fall into plain bytes and escapes; U is where they begin.
Units(b, U, s, e) ==
  /\ U \in SUBSET (s .. e) /\ s \in U /\ e \in U
  /\ \A u \in U : u < e =>
       \/ b[u + 1] \notin {"\\", "tab", "ctl"} /\ u + 1 \in U
       \/ b[u + 1] = "\\" /\ b[u + 2] \in EscapeLetters \cup {"u"} /\ u + 2 \in U

Text(b, s, e) == \E U : Units(b, U, s, e)

LEMMA TextEmpty ==
  ASSUME NEW b, NEW s \in Nat
  PROVE  Text(b, s, s)
<1>1. Units(b, {s}, s, s)
  BY DEF Units
<1> QED
  BY <1>1 DEF Text

LEMMA TextSame ==
  ASSUME NEW b, NEW a, NEW s \in Nat, NEW e \in Nat, Text(b, s, e), \A j \in s + 1 .. e : a[j] = b[j]
  PROVE  Text(a, s, e)
<1>1. PICK U : Units(b, U, s, e)
  BY DEF Text
<1>2. U \in SUBSET (s .. e)
  BY <1>1 DEF Units
<1>3. ASSUME NEW u \in U, u < e
      PROVE  \/ a[u + 1] \notin {"\\", "tab", "ctl"} /\ u + 1 \in U
             \/ a[u + 1] = "\\" /\ a[u + 2] \in EscapeLetters \cup {"u"} /\ u + 2 \in U
  <2>1. u + 1 \in s + 1 .. e /\ (u + 2 \in U => u + 2 \in s + 1 .. e)
    BY <1>2, <1>3
  <2>2. a[u + 1] = b[u + 1] /\ (u + 2 \in U => a[u + 2] = b[u + 2])
    BY <2>1
  <2>3. \/ b[u + 1] \notin {"\\", "tab", "ctl"} /\ u + 1 \in U
        \/ b[u + 1] = "\\" /\ b[u + 2] \in EscapeLetters \cup {"u"} /\ u + 2 \in U
    BY <1>1, <1>3 DEF Units
  <2> QED
    BY <2>2, <2>3
<1>4. Units(a, U, s, e)
  BY <1>1, <1>3 DEF Units
<1> QED
  BY <1>4 DEF Text

LEMMA TextByte ==
  ASSUME NEW b, NEW s \in Nat, NEW e \in Nat, s <= e, Text(b, s, e), b[e + 1] \notin {"\\", "tab", "ctl"}
  PROVE  Text(b, s, e + 1)
<1>1. PICK U : Units(b, U, s, e)
  BY DEF Text
<1>2. U \in SUBSET (s .. e) /\ s \in U /\ e \in U
  BY <1>1 DEF Units
<1> DEFINE V == U \cup {e + 1}
<1>3. V \in SUBSET (s .. e + 1) /\ s \in V /\ e + 1 \in V
  BY <1>2
<1>4. ASSUME NEW u \in V, u < e + 1
      PROVE  \/ b[u + 1] \notin {"\\", "tab", "ctl"} /\ u + 1 \in V
             \/ b[u + 1] = "\\" /\ b[u + 2] \in EscapeLetters \cup {"u"} /\ u + 2 \in V
  <2>1. u \in U /\ (u < e \/ u = e)
    BY <1>2, <1>4
  <2>2. CASE u = e
    BY <2>2
  <2>3. CASE u < e
    BY <1>1, <2>1, <2>3 DEF Units
  <2> QED
    BY <2>1, <2>2, <2>3
<1> HIDE DEF V
<1>5. Units(b, V, s, e + 1)
  BY <1>3, <1>4 DEF Units
<1> QED
  BY <1>5 DEF Text

LEMMA TextEscape ==
  ASSUME NEW b, NEW s \in Nat, NEW e \in Nat, s <= e, Text(b, s, e), b[e + 1] = "\\",
         b[e + 2] \in EscapeLetters \cup {"u"}
  PROVE  Text(b, s, e + 2)
<1>1. PICK U : Units(b, U, s, e)
  BY DEF Text
<1>2. U \in SUBSET (s .. e) /\ s \in U /\ e \in U
  BY <1>1 DEF Units
<1> DEFINE V == U \cup {e + 2}
<1>3. V \in SUBSET (s .. e + 2) /\ s \in V /\ e + 2 \in V
  BY <1>2
<1>4. ASSUME NEW u \in V, u < e + 2
      PROVE  \/ b[u + 1] \notin {"\\", "tab", "ctl"} /\ u + 1 \in V
             \/ b[u + 1] = "\\" /\ b[u + 2] \in EscapeLetters \cup {"u"} /\ u + 2 \in V
  <2>1. u \in U /\ (u < e \/ u = e)
    BY <1>2, <1>4
  <2>2. CASE u = e
    BY <2>2
  <2>3. CASE u < e
    BY <1>1, <2>1, <2>3 DEF Units
  <2> QED
    BY <2>1, <2>2, <2>3
<1> HIDE DEF V
<1>5. Units(b, V, s, e + 2)
  BY <1>3, <1>4 DEF Units
<1> QED
  BY <1>5 DEF Text

\* The same of the bytes by themselves.
LEMMA TextOfSpan ==
  ASSUME NEW b, NEW v, NEW s \in Nat, NEW e \in Nat, s <= e, Text(b, s, e),
         \A j \in 1 .. e - s : v[j] = b[s + j]
  PROVE  Text(v, 0, e - s)
<1>1. PICK U : Units(b, U, s, e)
  BY DEF Text
<1>2. U \in SUBSET (s .. e) /\ s \in U /\ e \in U
  BY <1>1 DEF Units
<1> DEFINE V == {u \in 0 .. e - s : s + u \in U}
<1>3. V \in SUBSET (0 .. e - s) /\ 0 \in V /\ e - s \in V
  BY <1>2
<1>4. ASSUME NEW u \in V, u < e - s
      PROVE  \/ v[u + 1] \notin {"\\", "tab", "ctl"} /\ u + 1 \in V
             \/ v[u + 1] = "\\" /\ v[u + 2] \in EscapeLetters \cup {"u"} /\ u + 2 \in V
  <2>1. /\ s + u \in U /\ s + u < e /\ u + 1 \in 1 .. e - s /\ u + 1 \in 0 .. e - s
        /\ s + (u + 1) = (s + u) + 1 /\ s + (u + 2) = (s + u) + 2
    BY <1>2, <1>4
  <2>2. v[u + 1] = b[(s + u) + 1]
    BY <2>1
  <2>3. \/ b[(s + u) + 1] \notin {"\\", "tab", "ctl"} /\ (s + u) + 1 \in U
        \/ /\ b[(s + u) + 1] = "\\" /\ b[(s + u) + 2] \in EscapeLetters \cup {"u"}
           /\ (s + u) + 2 \in U
    BY <1>1, <2>1 DEF Units
  <2>4. ASSUME (s + u) + 2 \in U PROVE u + 2 \in V /\ v[u + 2] = b[(s + u) + 2]
    <3>1. u + 2 \in 1 .. e - s /\ u + 2 \in 0 .. e - s
      BY <1>2, <2>4, <2>1
    <3> QED
      BY <2>1, <2>4, <3>1
  <2>5. (s + u) + 1 \in U => u + 1 \in V
    BY <2>1
  <2> HIDE DEF V
  <2> QED
    BY <2>2, <2>3, <2>4, <2>5
<1> HIDE DEF V
<1>5. Units(v, V, 0, e - s)
  BY <1>3, <1>4 DEF Units
<1> QED
  BY <1>5 DEF Text

LEMMA Pair ==
  ASSUME NEW D, NEW a \in D, NEW c \in D
  PROVE  /\ <<a>> \in Seq(D) /\ <<c>> \in Seq(D)
         /\ <<a>> \o <<c>> = <<a, c>>
<1>1. /\ <<a>> \in Seq(D) /\ Len(<<a>>) = 1 /\ <<a>>[1] = a
      /\ <<c>> \in Seq(D) /\ Len(<<c>>) = 1 /\ <<c>>[1] = c
  OBVIOUS
<1>2. <<a, c>> \in Seq(D) /\ Len(<<a, c>>) = 2 /\ <<a, c>>[1] = a /\ <<a, c>>[2] = c
  OBVIOUS
<1>3. PICK p \in Seq(D), q \in Seq(D), r \in Seq(D) : p = <<a>> /\ q = <<c>> /\ r = <<a, c>>
  BY <1>1, <1>2
<1>4. /\ Len(p) = 1 /\ p[1] = a /\ Len(q) = 1 /\ q[1] = c
      /\ Len(r) = 2 /\ r[1] = a /\ r[2] = c
  BY <1>1, <1>2, <1>3
<1>5. /\ p \o q \in Seq(D) /\ Len(p \o q) = Len(p) + Len(q)
      /\ \A k \in 1 .. Len(p) + Len(q) : (p \o q)[k] = IF k <= Len(p) THEN p[k] ELSE q[k - Len(p)]
  BY ConcatProperties
<1>6. Len(p \o q) = 2 /\ (p \o q)[1] = a /\ (p \o q)[2] = c
  BY <1>4, <1>5
<1>7. \A k \in 1 .. 2 : (p \o q)[k] = r[k]
  BY <1>4, <1>6
<1>8. p \o q = r
  BY <1>4, <1>5, <1>6, <1>7, SeqEqual
<1> QED
  BY <1>1, <1>3, <1>8

LEMMA PairThen ==
  ASSUME NEW a \in AllChars, NEW c \in AllChars, NEW r \in Seq(AllChars)
  PROVE  <<a>> \o (<<c>> \o r) = <<a, c>> \o r
<1>1. PICK p \in Seq(AllChars) : p = <<a>>
  BY Pair, Zenon
<1>2. PICK q \in Seq(AllChars) : q = <<c>>
  BY Pair, Zenon
<1>3. (p \o q) \o r = p \o (q \o r)
  BY ConcatAssociative
<1>4. p \o q = <<a, c>>
  BY <1>1, <1>2, Pair, Zenon
<1> QED
  BY <1>1, <1>2, <1>3, <1>4, Zenon

\* A well-formed string is read back from its screen text.
LEMMA ReadBackShown ==
  ASSUME NEW v \in Seq(AllChars), Text(v, 0, Len(v))
  PROVE  ReadBack(Shown(v)) = v
<1>1. PICK n \in Nat : n = Len(v)
  BY LenProperties
<1>2. PICK U : Units(v, U, 0, n)
  BY <1>1 DEF Text
<1>3. U \in SUBSET (0 .. n) /\ 0 \in U
  BY <1>2 DEF Units
<1>4. PICK x : x = Shown(v)
  OBVIOUS
<1>5. x \in Seq(AllChars)
  BY <1>4, ShownTyped
<1>6. PICK l \in Nat : l = Len(x) /\ DOMAIN x = 1 .. l
  BY <1>5, LenProperties
<1>7. PICK f : /\ ReadBack(x) = f[1]
               /\ \A i \in 1 .. l + 4 : f[i] = Back(x, f, i)
  BY <1>6, ReadBackDef
<1> DEFINE o(k) == Len(Upto(v, k))
           C(u) == f[o(u) + 1] = SubSeq(v, u + 1, n)
<1>8. ASSUME NEW k \in 0 .. n - 1, NEW w, w = ShownByte(v[k + 1]), NEW y \in Nat, Len(w) = y
      PROVE  /\ o(k) \in Nat /\ o(k + 1) = o(k) + y /\ o(k) + y <= l
             /\ \A j \in 1 .. y : CharAt(x, o(k) + j) = w[j]
  <2>1. /\ o(k) \in Nat
        /\ o(k + 1) = o(k) + Len(w) /\ o(k + 1) <= Len(Shown(v))
        /\ \A j \in 1 .. Len(w) : Shown(v)[o(k) + j] = w[j]
    BY <1>1, <1>8, ShownAt
  <2>2. PICK p \in Nat : p = o(k)
    BY <2>1
  <2>3. p + y <= l /\ \A j \in 1 .. y : x[p + j] = w[j]
    BY <1>4, <1>6, <1>8, <2>1, <2>2
  <2>4. \A j \in 1 .. y : p + j \in 1 .. l
    BY <2>3
  <2>5. \A j \in 1 .. y : CharAt(x, p + j) = w[j]
    BY <1>6, <2>3, <2>4 DEF CharAt
  <2> HIDE DEF o
  <2> QED
    BY <1>8, <2>1, <2>2, <2>3, <2>5
<1>9. o(n) = l /\ o(0) = 0
  <2>1. SubSeq(v, 1, n) = v
    BY <1>1, SubSeqFull
  <2>2. SubSeq(v, 1, 0) = << >>
    BY SubSeqEmpty
  <2>3. Upto(v, n) = x
    BY <1>4, <2>1 DEF Upto
  <2>4. Upto(v, 0) = << >>
    BY <2>2, ShownEmpty DEF Upto
  <2>5. Len(<< >>) = 0
    OBVIOUS
  <2> QED
    BY <1>6, <2>3, <2>4, <2>5
<1>a. \A k \in 0 .. n - 1 : Len(ShownByte(v[k + 1])) = 1 =>
         /\ o(k) \in Nat /\ o(k + 1) = o(k) + 1 /\ o(k) + 1 <= l
         /\ CharAt(x, o(k) + 1) = ShownByte(v[k + 1])[1]
  <2> SUFFICES ASSUME NEW k \in 0 .. n - 1, Len(ShownByte(v[k + 1])) = 1
               PROVE  /\ o(k) \in Nat /\ o(k + 1) = o(k) + 1 /\ o(k) + 1 <= l
                      /\ CharAt(x, o(k) + 1) = ShownByte(v[k + 1])[1]
    OBVIOUS
  <2>1. PICK w : w = ShownByte(v[k + 1])
    OBVIOUS
  <2>2. Len(w) = 1 /\ 1 \in Nat /\ 1 \in 1 .. 1
    BY <2>1
  <2> HIDE DEF o
  <2>3. /\ o(k) \in Nat /\ o(k + 1) = o(k) + 1 /\ o(k) + 1 <= l
        /\ \A j \in 1 .. 1 : CharAt(x, o(k) + j) = w[j]
    BY <1>8, <2>1, <2>2
  <2> QED
    BY <2>1, <2>2, <2>3
<1>b. \A k \in 0 .. n - 1 : Len(ShownByte(v[k + 1])) = 4 =>
         /\ o(k) \in Nat /\ o(k + 1) = o(k) + 4 /\ o(k) + 4 <= l
         /\ CharAt(x, o(k) + 1) = ShownByte(v[k + 1])[1]
         /\ CharAt(x, o(k) + 2) = ShownByte(v[k + 1])[2]
  <2> SUFFICES ASSUME NEW k \in 0 .. n - 1, Len(ShownByte(v[k + 1])) = 4
               PROVE  /\ o(k) \in Nat /\ o(k + 1) = o(k) + 4 /\ o(k) + 4 <= l
                      /\ CharAt(x, o(k) + 1) = ShownByte(v[k + 1])[1]
                      /\ CharAt(x, o(k) + 2) = ShownByte(v[k + 1])[2]
    OBVIOUS
  <2>1. PICK w : w = ShownByte(v[k + 1])
    OBVIOUS
  <2>2. Len(w) = 4 /\ 4 \in Nat /\ 1 \in 1 .. 4 /\ 2 \in 1 .. 4
    BY <2>1
  <2> HIDE DEF o
  <2>3. /\ o(k) \in Nat /\ o(k + 1) = o(k) + 4 /\ o(k) + 4 <= l
        /\ \A j \in 1 .. 4 : CharAt(x, o(k) + j) = w[j]
    BY <1>8, <2>1, <2>2
  <2> QED
    BY <2>1, <2>2, <2>3
<1> HIDE DEF o
<1>10. C(n)
  <2>1. l + 1 \in 1 .. l + 4 /\ l + 1 > l /\ n + 1 > n
    OBVIOUS
  <2>2. f[l + 1] = << >>
    BY <1>6, <1>7, <2>1 DEF Back
  <2>3. SubSeq(v, n + 1, n) = << >>
    BY SubSeqEmpty
  <2> QED
    BY <1>9, <2>2, <2>3
<1>11. ASSUME NEW u \in U, u < n, \A t \in U : t > u => C(t) PROVE C(u)
  <2>1. u \in 0 .. n - 1 /\ u + 1 \in 1 .. n /\ u + 1 \in 1 .. Len(v) /\ n \in u + 1 .. Len(v)
    BY <1>1, <1>3, <1>11
  <2>2. v[u + 1] \in AllChars
    BY <1>1, <2>1, UptoNext
  <2>3. SubSeq(v, u + 1, n) = <<v[u + 1]>> \o SubSeq(v, (u + 1) + 1, n)
    BY <2>1, SubSeqRecursiveFirst
  <2>4. \/ v[u + 1] \notin {"\\", "tab", "ctl"} /\ u + 1 \in U
        \/ v[u + 1] = "\\" /\ v[u + 2] \in EscapeLetters \cup {"u"} /\ u + 2 \in U
    BY <1>2, <1>11 DEF Units
  <2>5. CASE v[u + 1] \notin {"\\", "tab", "ctl", "hi"} /\ u + 1 \in U
    <3>1. ShownByte(v[u + 1]) = <<v[u + 1]>> /\ Len(<<v[u + 1]>>) = 1
      BY <2>2, <2>5, ShownByteType
    <3>2. PICK p \in Nat : p = o(u) /\ o(u + 1) = p + 1 /\ p + 1 <= l /\ CharAt(x, p + 1) = v[u + 1]
      <4>1. Len(ShownByte(v[u + 1])) = 1 /\ ShownByte(v[u + 1])[1] = v[u + 1]
        BY <3>1
      <4> QED
        BY <1>a, <2>1, <4>1
    <3>3. f[p + 1] = Back(x, f, p + 1) /\ ~(p + 1 > l) /\ (p + 1) + 1 = o(u + 1) + 1
      BY <1>7, <3>2
    <3>4. f[p + 1] = <<v[u + 1]>> \o f[(p + 1) + 1]
      BY <1>6, <2>5, <3>2, <3>3 DEF Back
    <3>5. f[o(u + 1) + 1] = SubSeq(v, (u + 1) + 1, n)
      BY <1>11, <2>1, <2>5
    <3> QED
      BY <2>3, <3>2, <3>3, <3>4, <3>5
  <2>6. CASE v[u + 1] = "hi" /\ u + 1 \in U
    <3>1. ShownByte(v[u + 1]) = <<"\\", "x", "A", "A">> /\ Len(<<"\\", "x", "A", "A">>) = 4
      BY <2>2, <2>6, ShownByteType
    <3>2. PICK p \in Nat : /\ p = o(u) /\ o(u + 1) = p + 4 /\ p + 4 <= l
                           /\ CharAt(x, p + 1) = "\\" /\ CharAt(x, p + 2) = "x"
      <4>1. /\ Len(ShownByte(v[u + 1])) = 4
            /\ ShownByte(v[u + 1])[1] = "\\" /\ ShownByte(v[u + 1])[2] = "x"
        BY <3>1
      <4> QED
        BY <1>b, <2>1, <4>1
    <3>3. /\ f[p + 1] = Back(x, f, p + 1) /\ ~(p + 1 > l) /\ (p + 1) + 4 = o(u + 1) + 1
          /\ (p + 1) + 1 = p + 2
      BY <1>7, <3>2
    <3>4. f[p + 1] = <<"hi">> \o f[(p + 1) + 4]
      BY <1>6, <3>2, <3>3 DEF Back
    <3>5. f[o(u + 1) + 1] = SubSeq(v, (u + 1) + 1, n)
      BY <1>11, <2>1, <2>6
    <3> QED
      BY <2>3, <2>6, <3>2, <3>3, <3>4, <3>5
  <2>7. CASE v[u + 1] = "\\" /\ v[u + 2] \in EscapeLetters \cup {"u"} /\ u + 2 \in U
    <3>1. /\ u + 1 \in 0 .. n - 1 /\ (u + 1) + 1 = u + 2 /\ u + 2 \in 1 .. Len(v) /\ n \in u + 2 .. Len(v)
          /\ u + 2 > u
      BY <1>1, <1>3, <2>1, <2>7
    <3>2. ShownByte(v[u + 1]) = <<"\\">> /\ Len(<<"\\">>) = 1
      BY <2>2, <2>7, ShownByteType
    <3>3. v[u + 2] \in AllChars /\ v[u + 2] \notin {"tab", "ctl", "hi", "x"}
      BY <2>7 DEF EscapeLetters, AllChars
    <3>4. ShownByte(v[u + 2]) = <<v[u + 2]>> /\ Len(<<v[u + 2]>>) = 1
      BY <3>3, ShownByteType
    <3>5. PICK p \in Nat : p = o(u) /\ o(u + 1) = p + 1 /\ p + 1 <= l /\ CharAt(x, p + 1) = "\\"
      <4>1. Len(ShownByte(v[u + 1])) = 1 /\ ShownByte(v[u + 1])[1] = "\\"
        BY <3>2
      <4> QED
        BY <1>a, <2>1, <4>1
    <3>6. o(u + 2) = (p + 1) + 1 /\ (p + 1) + 1 <= l /\ CharAt(x, (p + 1) + 1) = v[u + 2]
      <4>1. Len(ShownByte(v[u + 2])) = 1 /\ ShownByte(v[u + 2])[1] = v[u + 2]
        BY <3>4
      <4>2. Len(ShownByte(v[(u + 1) + 1])) = 1 /\ ShownByte(v[(u + 1) + 1])[1] = v[u + 2]
        BY <3>1, <4>1
      <4>3. /\ o((u + 1) + 1) = o(u + 1) + 1 /\ o(u + 1) + 1 <= l
            /\ CharAt(x, o(u + 1) + 1) = ShownByte(v[(u + 1) + 1])[1]
        BY <1>a, <3>1, <4>2
      <4> QED
        BY <3>1, <3>5, <4>2, <4>3
    <3>7. f[p + 1] = Back(x, f, p + 1) /\ ~(p + 1 > l) /\ (p + 1) + 2 = o(u + 2) + 1
      BY <1>7, <3>5, <3>6
    <3>8. f[p + 1] = <<"\\", v[u + 2]>> \o f[(p + 1) + 2]
      BY <1>6, <3>3, <3>5, <3>6, <3>7 DEF Back
    <3>9. f[o(u + 2) + 1] = SubSeq(v, (u + 2) + 1, n)
      BY <1>11, <2>7, <3>1
    <3>10. SubSeq(v, u + 2, n) = <<v[u + 2]>> \o SubSeq(v, (u + 2) + 1, n)
      BY <3>1, SubSeqRecursiveFirst
    <3>11. PICK r \in Seq(AllChars) : r = SubSeq(v, (u + 2) + 1, n)
      <4>1. \A j \in (u + 2) + 1 .. n : j \in 1 .. Len(v)
        BY <1>1, <1>3
      <4>2. \A j \in (u + 2) + 1 .. n : v[j] \in AllChars
        BY <4>1, ElementOfSeq
      <4>3. (u + 2) + 1 \in Int /\ n \in Int
        BY <1>3
      <4> QED
        BY <4>2, <4>3, SubSeqProperties
    <3>12. <<v[u + 1]>> \o (<<v[u + 2]>> \o r) = <<v[u + 1], v[u + 2]>> \o r
      <4>1. PICK a \in AllChars, c \in AllChars : a = v[u + 1] /\ c = v[u + 2]
        BY <2>2, <3>3
      <4>2. <<a>> \o (<<c>> \o r) = <<a, c>> \o r
        BY <3>11, PairThen, Zenon
      <4> QED
        BY <4>1, <4>2, Zenon
    <3>13. SubSeq(v, u + 1, n) = <<"\\", v[u + 2]>> \o r
      BY <2>3, <2>7, <3>1, <3>10, <3>11, <3>12, Zenon
    <3> QED
      BY <3>5, <3>7, <3>8, <3>9, <3>11, <3>13, Zenon
  <2> QED
    BY <2>4, <2>5, <2>6, <2>7
<1> DEFINE P == {d \in Nat : \A u \in U : u >= n - d => C(u)}
<1>12. 0 \in P
  <2>1. \A u \in U : u >= n - 0 => u = n
    BY <1>3
  <2> HIDE DEF C
  <2> QED
    BY <1>10, <2>1
<1> HIDE DEF C
<1>13. ASSUME NEW d \in 0 .. n - 1, d \in P PROVE d + 1 \in P
  <2>1. ASSUME NEW u \in U, u >= n - (d + 1) PROVE C(u)
    <3>1. u >= n - d \/ (u < n /\ \A t \in U : t > u => t >= n - d)
      BY <1>3, <2>1
    <3> QED
      BY <1>11, <1>13, <3>1
  <2> QED
    BY <2>1
<1>14. P \in SUBSET Nat /\ n \in 0 .. n
  OBVIOUS
<1>15. n \in P
  <2> HIDE DEF P
  <2> QED
    BY <1>12, <1>13, <1>14, Inductive
<1>16. C(0)
  <2>1. 0 >= n - n
    OBVIOUS
  <2> QED
    BY <1>3, <1>15, <2>1
<1>17. f[1] = SubSeq(v, 1, n)
  <2>1. 0 + 1 = 1
    OBVIOUS
  <2> QED
    BY <1>9, <1>16, <2>1 DEF C
<1>18. SubSeq(v, 1, n) = v
  BY <1>1, SubSeqFull
<1> QED
  BY <1>4, <1>7, <1>17, <1>18

-----------------------------------------------------------------------------
(* The strings of the document, and the one being read, are such bytes.    *)

Strung(b, x) == x.start <= x.end /\ x.end <= Len(b) /\ Text(b, x.start, x.end)

Texts(t, b) == \A i \in 1 .. Len(t) : t[i].kind = "String" => Strung(b, t[i])

Reading(b, m, s, p) ==
  /\ m \in {"string", "hex"} => s + 1 <= p /\ Text(b, s + 1, p)
  /\ m = "escape" =>
       \E q \in Nat : p = q + 1 /\ s + 1 <= q /\ Text(b, s + 1, q) /\ b[q + 1] = "\\"

TextInv == Texts(tokens, js) /\ Reading(js, mode, start, pos)

LEMMA TextsAppend ==
  ASSUME NEW t \in Seq(Tok), NEW x \in Tok, NEW b, Texts(t, b), x.kind = "String" => Strung(b, x)
  PROVE  Texts(Append(t, x), b)
<1>1. PICK m \in Nat : m = Len(t)
  BY TokType
<1>2. PICK u : u = Append(t, x)
  OBVIOUS
<1>3. Len(u) = m + 1 /\ (\A i \in 1 .. m : u[i] = t[i]) /\ u[m + 1] = x
  BY <1>1, <1>2, Appended
<1>4. ASSUME NEW i \in 1 .. m + 1, u[i].kind = "String" PROVE Strung(b, u[i])
  <2>1. CASE i = m + 1
    BY <1>3, <1>4, <2>1
  <2>2. CASE i \in 1 .. m
    <3>1. u[i] = t[i]
      BY <1>3, <2>2
    <3> QED
      BY <1>1, <1>4, <2>2, <3>1 DEF Texts
  <2> QED
    BY <2>1, <2>2, Successors
<1>5. Texts(u, b)
  BY <1>3, <1>4 DEF Texts
<1> QED
  BY <1>2, <1>5

LEMMA TextsClose ==
  ASSUME NEW t \in Seq(Tok), NEW b, Texts(t, b), NEW c \in 1 .. Len(t), t[c].kind # "String",
         NEW e \in Nat, NEW u, u = [t EXCEPT ![c].end = e]
  PROVE  Texts(u, b)
<1>1. PICK m \in Nat : m = Len(t) /\ DOMAIN t = 1 .. m
  BY TokType
<1>2. t[c] \in Tok /\ c \in 1 .. m
  BY <1>1, ElementOfSeq
<1>3. [t[c] EXCEPT !.end = e] \in Tok /\ [t[c] EXCEPT !.end = e].kind = t[c].kind
  BY <1>2 DEF Tok
<1>4. Len(u) = m
  BY <1>1, <1>2, <1>3, ExceptSeq
<1>5. \A i \in 1 .. m : u[i] = IF i = c THEN [t[c] EXCEPT !.end = e] ELSE t[i]
  BY <1>1
<1>6. \A i \in 1 .. m : u[i].kind = "String" => i # c /\ u[i] = t[i]
  BY <1>3, <1>5
<1>7. \A i \in 1 .. m : u[i].kind = "String" => Strung(b, u[i])
  BY <1>1, <1>6 DEF Texts
<1> QED
  BY <1>4, <1>7 DEF Texts

\* A byte that is reached leaves the ones before it.
LEMMA TextLonger ==
  ASSUME NEW b \in Seq(AllChars), NEW c \in AllChars, NEW s \in Nat, NEW e \in Nat, e <= Len(b),
         Text(b, s, e)
  PROVE  Text(Append(b, c), s, e)
<1>1. PICK l \in Nat : l = Len(b)
  BY LenProperties
<1>2. \A j \in 1 .. l : Append(b, c)[j] = b[j]
  BY <1>1, Appended
<1>3. \A j \in s + 1 .. e : j \in 1 .. l
  BY <1>1
<1>4. \A j \in s + 1 .. e : Append(b, c)[j] = b[j]
  BY <1>2, <1>3
<1> QED
  BY <1>4, TextSame

LEMMA TextsLonger ==
  ASSUME NEW t \in Seq(Tok), NEW b \in Seq(AllChars), NEW c \in AllChars, Texts(t, b)
  PROVE  Texts(t, Append(b, c))
<1>1. PICK l \in Nat : l = Len(b)
  BY LenProperties
<1>2. Len(Append(b, c)) = l + 1
  BY <1>1, Appended
<1>3. ASSUME NEW i \in 1 .. Len(t), t[i].kind = "String" PROVE Strung(Append(b, c), t[i])
  <2>1. PICK s \in Nat, e \in Nat : s = t[i].start /\ e = t[i].end
    BY TokType
  <2>2. s <= e /\ e <= l /\ Text(b, s, e)
    BY <1>1, <1>3, <2>1 DEF Texts, Strung
  <2>3. Text(Append(b, c), s, e)
    BY <1>1, <2>2, TextLonger
  <2>4. e <= l + 1
    BY <2>2
  <2> QED
    BY <1>2, <2>1, <2>2, <2>3, <2>4 DEF Strung
<1> QED
  BY <1>3 DEF Texts

LEMMA ReadingLonger ==
  ASSUME NEW b \in Seq(AllChars), NEW c \in AllChars, NEW m, NEW s \in Nat, NEW p \in Nat, p <= Len(b),
         Reading(b, m, s, p)
  PROVE  Reading(Append(b, c), m, s, p)
<1>1. PICK l \in Nat : l = Len(b)
  BY LenProperties
<1>2. \A j \in 1 .. l : Append(b, c)[j] = b[j]
  BY <1>1, Appended
<1>3. s + 1 \in Nat
  OBVIOUS
<1>4. CASE m \in {"string", "hex"}
  <2>1. s + 1 <= p /\ Text(b, s + 1, p)
    BY <1>4 DEF Reading
  <2>2. Text(Append(b, c), s + 1, p)
    BY <1>3, <2>1, TextLonger
  <2> QED
    BY <1>4, <2>1, <2>2 DEF Reading
<1>5. CASE m = "escape"
  <2>1. PICK q \in Nat : p = q + 1 /\ s + 1 <= q /\ Text(b, s + 1, q) /\ b[q + 1] = "\\"
    BY <1>5 DEF Reading
  <2>2. q + 1 \in 1 .. l /\ q <= l
    BY <1>1, <2>1
  <2>3. Text(Append(b, c), s + 1, q) /\ Append(b, c)[q + 1] = "\\"
    BY <1>1, <1>2, <1>3, <2>1, <2>2, TextLonger
  <2> QED
    BY <1>5, <2>1, <2>3 DEF Reading
<1> QED
  BY <1>4, <1>5 DEF Reading

\* Inside a string the grammar is still checked.
LEMMA InsideRoot ==
  ASSUME InOrder, mode # "scan"
  PROVE  check
BY DEF InOrder, Sound, Scope, check

LEMMA TextInvReturn ==
  ASSUME TextInv, NEW error, Return(error)
  PROVE  TextInv'
BY DEF TextInv, Return, Texts, Reading

\* The scan outside a string.
LEMMA TextInvOutside ==
  ASSUME TextInv, Texts(tokens', js'), mode' \notin InText
  PROVE  TextInv'
BY DEF TextInv, Reading, InText

LEMMA TextInvRead ==
  ASSUME JsonTypes, TextInv, NEW c \in Chars, Read(c)
  PROVE  TextInv'
<1>1. js \in Seq(AllChars) /\ c \in AllChars /\ tokens \in Seq(Tok) /\ start \in Nat /\ pos \in Nat /\ pos <= Len(js)
  BY CharsAssumption DEF JsonTypes
<1>2. js' = Append(js, c) /\ tokens' = tokens /\ mode' = mode /\ start' = start /\ pos' = pos
  BY DEF Read
<1>3. Texts(tokens, Append(js, c)) /\ Reading(Append(js, c), mode, start, pos)
  BY <1>1, TextsLonger, ReadingLonger DEF TextInv
<1> QED
  BY <1>2, <1>3 DEF TextInv

LEMMA TextInvOpen ==
  ASSUME JsonTypes, TextInv, NEW c, NEW kind \in {"Object", "Array"}, NEW then, Open(c, kind, then)
  PROVE  TextInv'
<1>1. CASE Full
  BY <1>1, TextInvReturn DEF Open
<1>2. CASE ~Full
  <2>1. /\ tokens' = Append(tokens, Token(kind, pos, UNSET)) /\ js' = js
        /\ mode' = "scan"
    BY <1>2 DEF Open, Advance, Scanning, In
  <2>2. UNSET \in Nat /\ pos \in Nat /\ tokens \in Seq(Tok)
    BY DEF UNSET, JsonTypes
  <2>3. Token(kind, pos, UNSET) \in Tok /\ Token(kind, pos, UNSET).kind # "String"
    BY <2>2, TokenIsTok
  <2>4. Texts(tokens', js')
    BY <2>1, <2>2, <2>3, TextsAppend DEF TextInv
  <2> QED
    BY <2>1, <2>4, TextInvOutside DEF InText
<1> QED
  BY <1>1, <1>2

LEMMA TextInvClose ==
  ASSUME JsonTypes, TextInv, NEW c, NEW kind \in {"Object", "Array"}, Close(c, kind)
  PROVE  TextInv'
<1> DEFINE i == InnermostOpen(tokens, Len(tokens) + 1)
<1>1. CASE i = 0 \/ tokens[i].kind # kind
  <2>1. Return("Inval")
    BY <1>1 DEF Close
  <2> QED
    BY <2>1, TextInvReturn
<1>2. CASE i # 0 /\ tokens[i].kind = kind
  <2>1. tokens' = [tokens EXCEPT ![i].end = pos + 1] /\ js' = js /\ mode' = "scan"
    BY <1>2 DEF Close, Advance, Scanning, In
  <2>2. tokens \in Seq(Tok) /\ Bounded(tokens) /\ pos + 1 \in Nat /\ Len(tokens) \in Nat
    BY Numbers DEF JsonTypes
  <2>3. PICK m \in Nat : m = Len(tokens)
    BY <2>2
  <2>4. m + 1 \in 1 .. m + 1
    BY Successor
  <2>5. i \in 0 .. (m + 1) - 1
    BY <2>2, <2>3, <2>4, InnermostType
  <2> HIDE DEF i
  <2>6. i \in 1 .. Len(tokens)
    BY <1>2, <2>3, <2>5
  <2>7. Texts(tokens', js)
    BY <1>2, <2>1, <2>2, <2>6, TextsClose DEF TextInv
  <2> QED
    BY <2>1, <2>7, TextInvOutside DEF InText
<1> QED
  BY <1>1, <1>2

\* A quote begins a string without bytes.
LEMMA TextInvQuote ==
  ASSUME JsonTypes, TextInv, OpenString
  PROVE  TextInv'
<1>1. tokens' = tokens /\ js' = js /\ mode' = "string" /\ start' = pos /\ pos' = pos + 1
  BY DEF OpenString, Advance
<1>2. pos + 1 \in Nat /\ pos + 1 <= pos + 1
  BY DEF JsonTypes
<1>3. Text(js, pos + 1, pos + 1)
  BY <1>2, TextEmpty
<1>4. Reading(js, "string", pos, pos + 1)
  BY <1>2, <1>3 DEF Reading
<1> QED
  BY <1>1, <1>4 DEF TextInv

\* A byte of a string, or a digit of an escape.
LEMMA TextInvByte ==
  ASSUME JsonTypes, InOrder, TextInv, StringByte \/ HexDigit
  PROVE  TextInv'
<1>1. mode \in {"string", "hex"}
  BY DEF StringByte, HexDigit, In
<1>2. check
  BY <1>1, InsideRoot
<1>3. CASE Return("Inval")
  BY <1>3, TextInvReturn
<1>4. CASE ~Return("Inval")
  <2>1. /\ tokens' = tokens /\ js' = js /\ mode' \in {"string", "hex"} /\ start' = start /\ pos' = pos + 1
        /\ js[pos + 1] \notin {"\\", "tab", "ctl"}
    BY <1>1, <1>2, <1>4 DEF StringByte, HexDigit, In, Advance, Here, is_hex
  <2>2. start + 1 \in Nat /\ pos \in Nat
    BY DEF JsonTypes
  <2>3. start + 1 <= pos /\ Text(js, start + 1, pos)
    BY <1>1 DEF TextInv, Reading
  <2>4. Text(js, start + 1, pos + 1) /\ start + 1 <= pos + 1
    BY <2>1, <2>2, <2>3, TextByte
  <2>5. Reading(js, mode', start, pos + 1)
    BY <2>1, <2>4 DEF Reading
  <2> QED
    BY <2>1, <2>5 DEF TextInv
<1> QED
  BY <1>3, <1>4

LEMMA TextInvBackslash ==
  ASSUME JsonTypes, TextInv, Backslash
  PROVE  TextInv'
<1>1. /\ tokens' = tokens /\ js' = js /\ mode' = "escape" /\ start' = start /\ pos' = pos + 1
      /\ js[pos + 1] = "\\" /\ mode = "string"
  BY DEF Backslash, In, Advance, Here
<1>2. pos \in Nat /\ start + 1 <= pos /\ Text(js, start + 1, pos)
  BY <1>1 DEF JsonTypes, TextInv, Reading
<1>3. Reading(js, "escape", start, pos + 1)
  BY <1>1, <1>2 DEF Reading
<1> QED
  BY <1>1, <1>3 DEF TextInv

LEMMA TextInvEscape ==
  ASSUME JsonTypes, TextInv, Escape
  PROVE  TextInv'
<1>1. CASE Return("Inval")
  BY <1>1, TextInvReturn
<1>2. CASE ~Return("Inval")
  <2>1. /\ tokens' = tokens /\ js' = js /\ mode' \in {"string", "hex"} /\ start' = start /\ pos' = pos + 1
        /\ js[pos + 1] \in EscapeLetters \cup {"u"} /\ mode = "escape"
    BY <1>2 DEF Escape, In, Advance, Here
  <2>2. PICK q \in Nat : pos = q + 1 /\ start + 1 <= q /\ Text(js, start + 1, q) /\ js[q + 1] = "\\"
    BY <2>1 DEF TextInv, Reading
  <2>3. start + 1 \in Nat /\ pos + 1 = q + 2
    BY <2>2 DEF JsonTypes
  <2>4. js[q + 2] \in EscapeLetters \cup {"u"}
    BY <2>1, <2>3
  <2>5. Text(js, start + 1, q + 2) /\ start + 1 <= q + 2
    BY <2>2, <2>3, <2>4, TextEscape
  <2>6. Reading(js, mode', start, pos + 1)
    BY <2>1, <2>3, <2>5 DEF Reading
  <2> QED
    BY <2>1, <2>6 DEF TextInv
<1> QED
  BY <1>1, <1>2

\* The closing quote writes the token.
LEMMA TextInvUnquote ==
  ASSUME JsonTypes, TextInv, CloseString
  PROVE  TextInv'
<1>1. CASE Full
  BY <1>1, TextInvReturn DEF CloseString
<1>2. CASE ~Full
  <2>1. /\ tokens' = Append(tokens, Token("String", start + 1, pos)) /\ js' = js /\ mode' = "scan"
        /\ mode = "string"
    BY <1>2 DEF CloseString, Advance, In
  <2>2. start + 1 \in Nat /\ pos \in Nat /\ pos <= Len(js) /\ tokens \in Seq(Tok)
    BY DEF JsonTypes
  <2>3. start + 1 <= pos /\ Text(js, start + 1, pos)
    BY <2>1 DEF TextInv, Reading
  <2>4. PICK x \in Tok : /\ x = Token("String", start + 1, pos)
                         /\ x.start = start + 1 /\ x.end = pos
    BY <2>2, TokenIsTok
  <2>5. Strung(js, x)
    BY <2>2, <2>3, <2>4 DEF Strung
  <2>6. Texts(tokens', js')
    BY <2>1, <2>2, <2>4, <2>5, TextsAppend DEF TextInv
  <2> QED
    BY <2>1, <2>6, TextInvOutside DEF InText
<1> QED
  BY <1>1, <1>2

LEMMA TextInvPrimitive ==
  ASSUME JsonTypes, TextInv, ClosePrimitive
  PROVE  TextInv'
<1>1. CASE Full
  BY <1>1, TextInvReturn DEF ClosePrimitive
<1>2. CASE ~Full
  <2>1. tokens' = Append(tokens, Token("Primitive", start, pos)) /\ js' = js /\ mode' = "scan"
    BY <1>2 DEF ClosePrimitive
  <2>2. start \in Nat /\ pos \in Nat /\ tokens \in Seq(Tok)
    BY DEF JsonTypes
  <2>3. Token("Primitive", start, pos) \in Tok /\ Token("Primitive", start, pos).kind # "String"
    BY <2>2, TokenIsTok
  <2>4. Texts(tokens', js')
    BY <2>1, <2>2, <2>3, TextsAppend DEF TextInv
  <2> QED
    BY <2>1, <2>4, TextInvOutside DEF InText
<1> QED
  BY <1>1, <1>2

LEMMA TextInvStep ==
  ASSUME JsonTypes, InOrder, TextInv, Tokenize
  PROVE  TextInv'
<1>1. CASE ReadEnd
  BY <1>1 DEF ReadEnd, TextInv
<1>2. CASE NotGrammar \/ EndInString \/ EndOfScan
  BY <1>2, TextInvReturn DEF NotGrammar, EndInString, EndOfScan
<1>3. CASE SkipWhitespace \/ Colon \/ Comma \/ OpenPrimitive \/ PrimitiveByte
  <2>1. tokens' = tokens /\ js' = js /\ mode' \in {"scan", "primitive"}
    BY <1>3 DEF SkipWhitespace, Colon, Comma, OpenPrimitive, PrimitiveByte, Return, Advance, Scanning, In
  <2>2. Texts(tokens', js')
    BY <2>1 DEF TextInv
  <2> QED
    BY <2>1, <2>2, TextInvOutside DEF InText
<1>4. CASE OpenObject \/ OpenArray
  BY <1>4, TextInvOpen DEF OpenObject, OpenArray
<1>5. CASE CloseObject \/ CloseArray
  BY <1>5, TextInvClose DEF CloseObject, CloseArray
<1>6. CASE \E c \in Chars : Read(c)
  BY <1>6, TextInvRead
<1> QED
  BY <1>1, <1>2, <1>3, <1>4, <1>5, <1>6, TextInvQuote, TextInvByte, TextInvBackslash, TextInvEscape,
     TextInvUnquote, TextInvPrimitive DEF Tokenize

LEMMA JsonTextInvariant == Spec => [](JsonInv /\ (Spoiled \/ TextInv))
<1>1. Init => JsonInv /\ TextInv
  <2> SUFFICES ASSUME Init PROVE JsonInv /\ TextInv
    OBVIOUS
  <2>1. Len(tokens) = 0 /\ mode = "scan"
    BY DEF Init, JsmnInit
  <2>2. 1 .. Len(tokens) = {}
    BY <2>1
  <2> QED
    BY <2>1, <2>2, JsonInvInit DEF TextInv, Texts, Reading
<1>2. JsonInv /\ (Spoiled \/ TextInv) /\ [Next]_vars => (JsonInv /\ (Spoiled \/ TextInv))'
  <2> SUFFICES ASSUME JsonInv, Spoiled \/ TextInv, [Next]_vars
               PROVE  JsonInv' /\ (Spoiled' \/ TextInv')
    OBVIOUS
  <2>1. JsonInv'
    BY JsonInvStep
  <2>2. CASE Scan
    <3>1. JsonTypes /\ (Spoiled \/ InOrder) /\ Tokenize
      BY <2>2 DEF JsonInv, Scan
    <3> QED
      BY <2>1, <3>1, SpoiledStays, TextInvStep
  <2>3. CASE HasNul \/ ScanFailed \/ NoTokens \/ CheckTokens \/ UNCHANGED vars
    <3>1. UNCHANGED <<js, pos, mode, start, tokens>>
      BY <2>3 DEF HasNul, ScanFailed, NoTokens, CheckTokens, Answer, vars, jsmnVars
    <3> QED
      BY <2>1, <3>1 DEF Spoiled, TextInv
  <2> QED
    BY <2>2, <2>3 DEF Next
<1> QED
  BY <1>1, <1>2, PTL DEF Spec

\* What the screen shows of a string of an accepted document determines its bytes
\* (V13): the text reads back as the value, although the value may itself hold
\* the characters of an escape.
THEOREM ShownSafe == Spec => []ShownTextIsTheValue
<1>1. JsonInv /\ (Spoiled \/ TextInv) => ShownTextIsTheValue
  <2> SUFFICES ASSUME JsonInv, Spoiled \/ TextInv, Accepted,
                      NEW i \in DOMAIN tokens, tokens[i].kind = "String"
               PROVE  ReadBack(Shown(Span(js, tokens[i]))) = Span(js, tokens[i])
    BY DEF ShownTextIsTheValue
  <2>1. js \in Seq(AllChars) /\ tokens \in Seq(Tok) /\ TextInv
    BY AcceptedTokens, NotSpoiled
  <2>2. i \in 1 .. Len(tokens)
    BY <2>1, TokType
  <2>3. PICK s \in Nat, e \in Nat : s = tokens[i].start /\ e = tokens[i].end
    BY <2>1, <2>2, TokType
  <2>4. s <= e /\ e <= Len(js) /\ Text(js, s, e)
    BY <2>1, <2>2, <2>3 DEF TextInv, Texts, Strung
  <2>5. PICK v \in Seq(AllChars) : /\ v = SubSeq(js, s + 1, e) /\ Len(v) = e - s
                                   /\ \A j \in 1 .. e - s : v[j] = js[s + j]
    <3>1. /\ SubSeq(js, s + 1, e) \in Seq(AllChars)
          /\ Len(SubSeq(js, s + 1, e)) = e - s
          /\ \A j \in 1 .. e - s : SubSeq(js, s + 1, e)[j] = js[s + j]
      BY <2>1, <2>4, SpanBytes
    <3> QED
      BY <3>1, Zenon
  <2>6. Text(v, 0, e - s)
    BY <2>4, <2>5, TextOfSpan
  <2>7. ReadBack(Shown(v)) = v
    BY <2>5, <2>6, ReadBackShown
  <2> QED
    BY <2>3, <2>5, <2>7 DEF Span
<1> QED
  BY <1>1, JsonTextInvariant, PTL
=============================================================================
