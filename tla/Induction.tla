------------------------------ MODULE Induction -----------------------------
(***************************************************************************)
(* Induction over the naturals, in a first-order form that the provers can *)
(* use: the least element of a set of naturals, and a set that holds 0 and *)
(* the successor of each of its members.  With these, what a recursive     *)
(* function is and what holds of it for every length is proved: FlattenSeq *)
(* of the community modules, at the end.                                   *)
(***************************************************************************)
EXTENDS Integers, Sequences, SequencesExt, SequenceTheorems, WellFoundedInduction, TLAPS

\* A set of naturals has a least element.
LEMMA Least ==
  ASSUME NEW T \in SUBSET Nat, T # {}
  PROVE  \E x \in T : \A y \in T : x <= y
<1> DEFINE R == OpToRel(<, Nat)
<1>1. IsWellFoundedOn(R, Nat)
  BY NatLessThanWellFounded
<1>2. \A x, y \in Nat : x < y => <<x, y>> \in R
  BY DEF OpToRel
<1> HIDE DEF R
<1>3. PICK x \in T : \A y \in T : ~(<<y, x>> \in R)
  BY <1>1, WFMin
<1>4. ASSUME NEW y \in T PROVE x <= y
  <2>1. x \in Nat /\ y \in Nat /\ ~(y < x)
    BY <1>2, <1>3
  <2> QED
    BY <2>1
<1> QED
  BY <1>4

\* A set of naturals up to n has a greatest element.
LEMMA Greatest ==
  ASSUME NEW n \in Nat, NEW T \in SUBSET (0 .. n), T # {}
  PROVE  \E x \in T : \A y \in T : x >= y
<1> DEFINE U == {n - y : y \in T}
<1>1. U \in SUBSET Nat /\ U # {}
  <2>1. \A y \in T : n - y \in Nat
    OBVIOUS
  <2>2. PICK y : y \in T
    OBVIOUS
  <2> QED
    BY <2>1, <2>2, Zenon
<1>2. PICK u \in U : \A w \in U : u <= w
  <2> HIDE DEF U
  <2> QED
    BY <1>1, Least
<1>3. PICK x \in T : u = n - x
  OBVIOUS
<1>4. ASSUME NEW y \in T PROVE x >= y
  <2>1. n - y \in U
    OBVIOUS
  <2>2. n - x <= n - y /\ x \in 0 .. n /\ y \in 0 .. n
    BY <1>2, <1>3, <2>1
  <2> QED
    BY <2>2
<1> QED
  BY <1>4

\* What holds of 0 and of the successors holds up to n.
LEMMA Inductive ==
  ASSUME NEW n \in Nat, NEW P \in SUBSET Nat,
         0 \in P, \A i \in 0 .. n - 1 : i \in P => i + 1 \in P
  PROVE  \A i \in 0 .. n : i \in P
<1> DEFINE T == {i \in 0 .. n : i \notin P}
<1> SUFFICES ASSUME T # {} PROVE FALSE
  OBVIOUS
<1>1. T \in SUBSET Nat
  OBVIOUS
<1>2. PICK x \in T : \A y \in T : x <= y
  <2> HIDE DEF T
  <2> QED
    BY <1>1, Least
<1>3. x \in 0 .. n /\ x \notin P /\ x # 0
  OBVIOUS
<1>4. x - 1 \in 0 .. n - 1 /\ x - 1 \in 0 .. n /\ ~(x <= x - 1) /\ (x - 1) + 1 = x
  BY <1>3
<1>5. x - 1 \in P
  BY <1>2, <1>4
<1> QED
  BY <1>3, <1>4, <1>5

\* What holds of the empty sequence and of one more element holds of every sequence.
LEMMA InductiveSeq ==
  ASSUME NEW D, NEW P, << >> \in P, \A u \in Seq(D), c \in D : u \in P => Append(u, c) \in P
  PROVE  \A s \in Seq(D) : s \in P
<1> DEFINE Q == {k \in Nat : \A s \in Seq(D) : Len(s) = k => s \in P}
<1>1. 0 \in Q
  BY EmptySeq
<1>2. ASSUME NEW k \in Nat, k \in Q PROVE k + 1 \in Q
  <2> SUFFICES ASSUME NEW s \in Seq(D), Len(s) = k + 1 PROVE s \in P
    OBVIOUS
  <2>1. k + 1 \in 1 .. Len(s) /\ (k + 1) - 1 = k /\ k <= Len(s) /\ 1 \in 1 .. Len(s)
    OBVIOUS
  <2>2. s[k + 1] \in D /\ \A i \in 1 .. k : s[i] \in D
    BY <2>1, ElementOfSeq
  <2>3. /\ SubSeq(s, 1, k) \in Seq(D)
        /\ Len(SubSeq(s, 1, k)) = IF 1 <= k THEN k - 1 + 1 ELSE 0
    BY <2>2, SubSeqProperties
  <2>4. Len(SubSeq(s, 1, k)) = k
    BY <2>3
  <2>5. SubSeq(s, 1, k) \in P
    BY <1>2, <2>3, <2>4
  <2>6. s = SubSeq(s, 1, Len(s)) /\ SubSeq(s, 1, k + 1) = SubSeq(s, 1, k) \o <<s[k + 1]>>
    BY <2>1, SubSeqFull, SubSeqRecursiveSecond
  <2>7. SubSeq(s, 1, k) \o <<s[k + 1]>> = Append(SubSeq(s, 1, k), s[k + 1])
    BY <2>2, <2>3, AppendIsConcat
  <2> QED
    BY <2>2, <2>3, <2>5, <2>6, <2>7
<1>3. Q \in SUBSET Nat
  OBVIOUS
<1> HIDE DEF Q
<1>4. \A n \in Nat : n \in Q
  <2> TAKE n \in Nat
  <2>1. \A i \in 0 .. n - 1 : i \in Q => i + 1 \in Q
    BY <1>2
  <2>2. \A i \in 0 .. n : i \in Q
    BY <1>1, <1>3, <2>1, Inductive
  <2> QED
    BY <2>2
<1> QED
  BY <1>4 DEF Q

\* Recursion over 0 .. n: F gives the value at k from the value at k - 1.
Steps(V) == [V \X Nat -> V]
Tables(n, V) == [0 .. n -> V]
Recurs(g, n, b, F) == g[0] = b /\ \A k \in 1 .. n : g[k] = F[<<g[k - 1], k>>]

\* A function defined by recursion exists.
LEMMA Recursive ==
  ASSUME NEW n \in Nat, NEW V, NEW b \in V, NEW F \in Steps(V)
  PROVE  \E g \in Tables(n, V) : Recurs(g, n, b, F)
<1> USE DEF Steps, Tables
<1> DEFINE Is(g, m) == g[0] = b /\ \A k \in 1 .. m : g[k] = F[<<g[k - 1], k>>]
           P == {m \in Nat : \E g \in [0 .. m -> V] : Is(g, m)}
<1>1. 0 \in P
  <2> DEFINE g == [k \in 0 .. 0 |-> b]
  <2>1. g \in [0 .. 0 -> V] /\ Is(g, 0)
    OBVIOUS
  <2> HIDE DEF g, Is
  <2> QED
    BY <2>1
<1>2. ASSUME NEW m \in Nat, m \in P PROVE m + 1 \in P
  <2>1. PICK g \in [0 .. m -> V] : Is(g, m)
    BY <1>2
  <2> DEFINE top == F[<<g[m], m + 1>>]
             h == [k \in 0 .. m + 1 |-> IF k <= m THEN g[k] ELSE top]
  <2>2. top \in V
    <3>1. g[m] \in V /\ m + 1 \in Nat
      OBVIOUS
    <3> QED
      BY <3>1
  <2>3. h[0] = b
    BY <2>1
  <2>4. ASSUME NEW k \in 1 .. m + 1 PROVE h[k] = F[<<h[k - 1], k>>]
    <3>1. CASE k <= m
      <4>1. k \in 1 .. m /\ k \in 0 .. m + 1 /\ k - 1 \in 0 .. m + 1 /\ k - 1 <= m
        BY <3>1
      <4>2. h[k] = g[k] /\ h[k - 1] = g[k - 1]
        BY <3>1, <4>1
      <4> HIDE DEF h
      <4> QED
        BY <2>1, <4>1, <4>2
    <3>2. CASE k = m + 1
      <4>1. m \in 0 .. m + 1 /\ k \in 0 .. m + 1 /\ k - 1 = m /\ ~(k <= m) /\ m <= m
        BY <3>2
      <4> HIDE DEF top
      <4>2. h[k] = top /\ h[k - 1] = g[m]
        BY <4>1
      <4> HIDE DEF h
      <4> QED
        BY <3>2, <4>2 DEF top
    <3> QED
      BY <3>1, <3>2
  <2>5. h \in [0 .. m + 1 -> V]
    <3> HIDE DEF top
    <3>1. ASSUME NEW k \in 0 .. m + 1, k <= m PROVE g[k] \in V
      BY <3>1
    <3> QED
      BY <2>2, <3>1
  <2>6. Is(h, m + 1)
    <3> HIDE DEF h
    <3> QED
      BY <2>3, <2>4
  <2>7. m + 1 \in Nat
    OBVIOUS
  <2> HIDE DEF h, Is
  <2> QED
    BY <2>5, <2>6, <2>7
<1>3. P \in SUBSET Nat /\ n \in 0 .. n
  OBVIOUS
<1> HIDE DEF P
<1>4. n \in P
  BY <1>1, <1>2, <1>3, Inductive
<1>5. \E g \in [0 .. n -> V] : Is(g, n)
  <2> HIDE DEF Is
  <2> QED
    BY <1>4 DEF P
<1> QED
  BY <1>5, Zenon DEF Recurs

-----------------------------------------------------------------------------
(* FlattenSeq.                                                             *)

IsFlat(ss, n, g) == g = [i \in 1 .. n |-> IF i = 1 THEN ss[i] ELSE g[i - 1] \o ss[i]]

LEMMA FlatExists ==
  ASSUME NEW ss, NEW n \in Nat
  PROVE  \E g : IsFlat(ss, n, g)
<1> DEFINE More(g, k) == g[k - 1] \o ss[k]
           P == {k \in Nat : \E g : IsFlat(ss, k, g)}
<1>1. 0 \in P
  <2> DEFINE g == [k \in 1 .. 0 |-> << >>]
  <2>1. g = [k \in 1 .. 0 |-> IF k = 1 THEN ss[k] ELSE More(g, k)]
    OBVIOUS
  <2> QED
    BY <2>1 DEF IsFlat
<1>2. ASSUME NEW m \in Nat, m \in P PROVE m + 1 \in P
  <2>1. PICK g : g = [k \in 1 .. m |-> IF k = 1 THEN ss[k] ELSE More(g, k)]
    BY <1>2 DEF IsFlat
  <2> DEFINE last == IF m = 0 THEN ss[1] ELSE More(g, m + 1)
             h == [k \in 1 .. m + 1 |-> IF k <= m THEN g[k] ELSE last]
  <2>2. ASSUME NEW k \in 1 .. m + 1
        PROVE  h[k] = IF k = 1 THEN ss[k] ELSE More(h, k)
    <3>1. CASE k = 1 /\ k <= m
      BY <2>1, <3>1
    <3>2. CASE k # 1 /\ k <= m
      <4>1. k \in 1 .. m /\ k - 1 \in 1 .. m /\ k - 1 <= m /\ k - 1 \in 1 .. m + 1
        BY <3>2
      <4>2. h[k] = g[k] /\ h[k - 1] = g[k - 1]
        BY <3>2, <4>1
      <4>3. g[k] = More(g, k)
        BY <2>1, <3>2, <4>1
      <4> HIDE DEF h
      <4> QED
        BY <3>2, <4>2, <4>3
    <3>3. CASE k = m + 1 /\ k # 1
      <4>1. m \in 1 .. m + 1 /\ k - 1 = m /\ (m + 1) - 1 = m /\ ~(k <= m) /\ m <= m /\ m # 0
        BY <3>3
      <4> HIDE DEF last
      <4>2. h[k] = last /\ h[m] = g[m]
        BY <4>1
      <4> HIDE DEF h
      <4> QED
        BY <3>3, <4>1, <4>2 DEF last
    <3>4. CASE k = m + 1 /\ k = 1
      <4>1. ~(k <= m) /\ m = 0
        BY <3>4
      <4> HIDE DEF last
      <4>2. h[k] = last
        BY <4>1
      <4> HIDE DEF h
      <4> QED
        BY <3>4, <4>1, <4>2 DEF last
    <3> QED
      BY <3>1, <3>2, <3>3, <3>4
  <2>3. h = [k \in 1 .. m + 1 |-> h[k]]
    OBVIOUS
  <2> HIDE DEF h
  <2>4. h = [k \in 1 .. m + 1 |-> IF k = 1 THEN ss[k] ELSE More(h, k)]
    <3> HIDE DEF More
    <3> QED
      BY <2>2, <2>3
  <2>5. IsFlat(ss, m + 1, h)
    BY <2>4, Zenon DEF IsFlat
  <2>6. m + 1 \in Nat
    OBVIOUS
  <2> QED
    BY <2>5, <2>6, Zenon
<1>3. P \in SUBSET Nat /\ n \in 0 .. n
  OBVIOUS
<1> HIDE DEF P
<1>4. n \in P
  BY <1>1, <1>2, <1>3, Inductive
<1> QED
  BY <1>4 DEF P

\* g[k] is the first k sequences of ss in one.
Flattening(ss, g) ==
  /\ FlattenSeq(ss) = g[Len(ss)]
  /\ g[1] = ss[1]
  /\ \A k \in 2 .. Len(ss) : g[k] = g[k - 1] \o ss[k]

LEMMA FlatDef ==
  ASSUME NEW ss, Len(ss) \in Nat, Len(ss) # 0
  PROVE  \E g : Flattening(ss, g)
<1> DEFINE c == CHOOSE g : IsFlat(ss, Len(ss), g)
<1>1. FlattenSeq(ss) = c[Len(ss)]
  BY Zenon DEF FlattenSeq, IsFlat
<1>2. IsFlat(ss, Len(ss), c)
  BY FlatExists
<1> HIDE DEF c
<1>3. PICK n \in Nat : n = Len(ss) /\ n >= 1
  OBVIOUS
<1>4. c = [k \in 1 .. n |-> IF k = 1 THEN ss[k] ELSE c[k - 1] \o ss[k]]
  BY <1>2, <1>3 DEF IsFlat
<1>5. c[1] = ss[1]
  <2>1. 1 \in 1 .. n
    BY <1>3
  <2> QED
    BY <1>4, <2>1
<1>6. ASSUME NEW k \in 2 .. n
      PROVE  c[k] = c[k - 1] \o ss[k]
  <2>1. k \in 1 .. n /\ k # 1
    OBVIOUS
  <2> QED
    BY <1>4, <2>1
<1>7. Flattening(ss, c)
  BY <1>1, <1>3, <1>5, <1>6 DEF Flattening
<1> QED
  BY <1>7

LEMMA FlatEmpty == FlattenSeq(<< >>) = << >>
BY DEF FlattenSeq

LEMMA FlatAppend ==
  ASSUME NEW D, NEW ss \in Seq(Seq(D)), NEW t \in Seq(D)
  PROVE  FlattenSeq(Append(ss, t)) = FlattenSeq(ss) \o t
<1>1. PICK n \in Nat : n = Len(ss)
  BY LenProperties
<1>2. PICK tt : tt = Append(ss, t)
  OBVIOUS
<1>3. Len(tt) = n + 1 /\ (\A k \in 1 .. n : tt[k] = ss[k]) /\ tt[n + 1] = t
  BY <1>1, <1>2, AppendProperties
<1>4. PICK h : Flattening(tt, h)
  <2>1. Len(tt) \in Nat /\ Len(tt) # 0
    BY <1>3
  <2> QED
    BY <2>1, FlatDef
<1>5. /\ FlattenSeq(tt) = h[n + 1] /\ h[1] = tt[1]
      /\ \A k \in 2 .. n + 1 : h[k] = h[k - 1] \o tt[k]
  BY <1>3, <1>4 DEF Flattening
<1>6. CASE n = 0
  <2>1. ss = << >>
    BY <1>1, <1>6, EmptySeq
  <2>2. FlattenSeq(tt) = t
    BY <1>3, <1>5, <1>6
  <2>3. << >> \o t = t
    BY ConcatEmptySeq
  <2> QED
    BY <1>2, <2>1, <2>2, <2>3, FlatEmpty
<1>7. CASE n # 0
  <2>1. PICK g : Flattening(ss, g)
    BY <1>1, <1>7, FlatDef
  <2>2. /\ FlattenSeq(ss) = g[n] /\ g[1] = ss[1]
        /\ \A k \in 2 .. n : g[k] = g[k - 1] \o ss[k]
    BY <1>1, <2>1 DEF Flattening
  <2> DEFINE P == {k \in Nat : k + 1 <= n => h[k + 1] = g[k + 1]}
  <2>3. 0 \in P
    <3>1. 1 \in 1 .. n /\ 0 + 1 = 1
      BY <1>7
    <3> QED
      BY <1>3, <1>5, <2>2, <3>1
  <2>4. ASSUME NEW k \in 0 .. n - 1, k \in P PROVE k + 1 \in P
    <3> SUFFICES ASSUME (k + 1) + 1 <= n PROVE h[(k + 1) + 1] = g[(k + 1) + 1]
      OBVIOUS
    <3>1. /\ (k + 1) + 1 \in 2 .. n /\ (k + 1) + 1 \in 2 .. n + 1 /\ (k + 1) + 1 \in 1 .. n
          /\ ((k + 1) + 1) - 1 = k + 1 /\ k + 1 <= n
      OBVIOUS
    <3>2. h[k + 1] = g[k + 1] /\ tt[(k + 1) + 1] = ss[(k + 1) + 1]
      BY <1>3, <2>4, <3>1
    <3>3. g[(k + 1) + 1] = g[k + 1] \o ss[(k + 1) + 1]
      BY <2>2, <3>1
    <3>4. h[(k + 1) + 1] = h[k + 1] \o tt[(k + 1) + 1]
      BY <1>5, <3>1
    <3> QED
      BY <3>2, <3>3, <3>4, Zenon
  <2>5. P \in SUBSET Nat /\ n - 1 \in 0 .. n /\ (n - 1) + 1 = n /\ (n - 1) + 1 <= n
        /\ n + 1 \in 2 .. n + 1 /\ (n + 1) - 1 = n
    BY <1>7
  <2> HIDE DEF P
  <2>6. n - 1 \in P
    BY <2>3, <2>4, <2>5, Inductive
  <2>7. h[n] = g[n]
    BY <2>5, <2>6 DEF P
  <2>8. h[n + 1] = h[n] \o tt[n + 1]
    BY <1>5, <2>5
  <2> QED
    BY <1>2, <1>3, <1>5, <2>2, <2>7, <2>8, Zenon
<1> QED
  BY <1>6, <1>7
=============================================================================
