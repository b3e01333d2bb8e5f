-------------------------- MODULE NanoScreen_proofs -------------------------
(***************************************************************************)
(* The Nano layout for every value, title, window and number of lines, and *)
(* for every measurement of NBGL: nothing of a value or of a title is      *)
(* hidden, and no page but the last ends in spaces.                        *)
(***************************************************************************)
EXTENDS NanoScreen, Induction

-----------------------------------------------------------------------------
(* Only.                                                                   *)

IsOnly(s, S, n, g) ==
  g = [k \in 0 .. n |-> IF k = 0 THEN << >>
                        ELSE IF s[k] \in S THEN Append(g[k - 1], s[k]) ELSE g[k - 1]]

LEMMA OnlyExists ==
  ASSUME NEW s, NEW S, NEW n \in Nat
  PROVE  \E g : IsOnly(s, S, n, g)
<1> DEFINE More(g, k) == IF s[k] \in S THEN Append(g[k - 1], s[k]) ELSE g[k - 1]
           P == {k \in Nat : \E g : IsOnly(s, S, k, g)}
<1>1. 0 \in P
  <2> DEFINE g == [k \in 0 .. 0 |-> << >>]
  <2>1. g = [k \in 0 .. 0 |-> IF k = 0 THEN << >> ELSE More(g, k)]
    OBVIOUS
  <2> QED
    BY <2>1 DEF IsOnly
<1>2. ASSUME NEW m \in Nat, m \in P PROVE m + 1 \in P
  <2>1. PICK g : g = [k \in 0 .. m |-> IF k = 0 THEN << >> ELSE More(g, k)]
    BY <1>2 DEF IsOnly
  <2> DEFINE last == More(g, m + 1)
             h == [k \in 0 .. m + 1 |-> IF k <= m THEN g[k] ELSE last]
  <2>2. ASSUME NEW k \in 0 .. m + 1
        PROVE  h[k] = IF k = 0 THEN << >> ELSE More(h, k)
    <3>1. CASE k = 0
      BY <2>1, <3>1
    <3>2. CASE k # 0 /\ k <= m
      <4>1. k \in 0 .. m /\ k - 1 \in 0 .. m /\ k - 1 <= m /\ k - 1 \in 0 .. m + 1
        BY <3>2
      <4>2. h[k] = g[k] /\ h[k - 1] = g[k - 1]
        BY <3>2, <4>1
      <4>3. g[k] = More(g, k)
        BY <2>1, <3>2, <4>1
      <4> HIDE DEF h
      <4> QED
        BY <3>2, <4>2, <4>3
    <3>3. CASE k = m + 1
      <4>1. m \in 0 .. m + 1 /\ k - 1 = m /\ (m + 1) - 1 = m /\ ~(k <= m) /\ k # 0 /\ m <= m
        BY <3>3
      <4> HIDE DEF last
      <4>2. h[k] = last /\ h[m] = g[m]
        BY <4>1
      <4> HIDE DEF h
      <4> QED
        BY <3>3, <4>1, <4>2 DEF last
    <3> QED
      BY <3>1, <3>2, <3>3
  <2>3. h = [k \in 0 .. m + 1 |-> h[k]]
    OBVIOUS
  <2> HIDE DEF h
  <2>4. h = [k \in 0 .. m + 1 |-> IF k = 0 THEN << >> ELSE More(h, k)]
    <3> HIDE DEF More
    <3> QED
      BY <2>2, <2>3
  <2>5. IsOnly(s, S, m + 1, h)
    BY <2>4, Zenon DEF IsOnly
  <2>6. m + 1 \in Nat
    OBVIOUS
  <2> QED
    BY <2>5, <2>6, Zenon
<1>3. P \in SUBSET Nat /\ n \in 0 .. n
  OBVIOUS
<1> HIDE DEF P
<1>4. n \in P
  BY <1>1, <1>2, <1>3, Inductive
<1> QED
  BY <1>4 DEF P

\* g[k] is what is kept of the first k elements of s.
Filtering(s, S, g) ==
  /\ Only(s, S) = g[Len(s)]
  /\ g[0] = << >>
  /\ \A k \in 1 .. Len(s) : g[k] = IF s[k] \in S THEN Append(g[k - 1], s[k]) ELSE g[k - 1]

LEMMA OnlyDef ==
  ASSUME NEW s, NEW S, Len(s) \in Nat
  PROVE  \E g : Filtering(s, S, g)
<1> DEFINE c == CHOOSE g : IsOnly(s, S, Len(s), g)
<1>1. Only(s, S) = c[Len(s)]
  BY DEF Only, IsOnly
<1>2. IsOnly(s, S, Len(s), c)
  BY OnlyExists
<1> HIDE DEF c
<1>3. PICK n \in Nat : n = Len(s)
  OBVIOUS
<1>4. c = [k \in 0 .. n |-> IF k = 0 THEN << >>
                            ELSE IF s[k] \in S THEN Append(c[k - 1], s[k]) ELSE c[k - 1]]
  BY <1>2, <1>3 DEF IsOnly
<1>5. c[0] = << >>
  BY <1>4
<1>6. ASSUME NEW k \in 1 .. n
      PROVE  c[k] = IF s[k] \in S THEN Append(c[k - 1], s[k]) ELSE c[k - 1]
  <2>1. k \in 0 .. n /\ k # 0
    OBVIOUS
  <2> QED
    BY <1>4, <2>1
<1>7. Filtering(s, S, c)
  BY <1>1, <1>3, <1>5, <1>6 DEF Filtering
<1> QED
  BY <1>7

LEMMA OnlyEmpty == ASSUME NEW S PROVE Only(<< >>, S) = << >>
<1>1. Len(<< >>) = 0
  OBVIOUS
<1>2. PICK g : Filtering(<< >>, S, g)
  BY <1>1, OnlyDef
<1> QED
  BY <1>1, <1>2 DEF Filtering

LEMMA OnlyAppend ==
  ASSUME NEW s \in Seq(Int), NEW c \in Int, NEW S
  PROVE  Only(Append(s, c), S) = IF c \in S THEN Append(Only(s, S), c) ELSE Only(s, S)
<1>1. PICK n \in Nat : n = Len(s)
  BY LenProperties
<1>2. PICK t : t = Append(s, c)
  OBVIOUS
<1>3. Len(t) = n + 1 /\ (\A k \in 1 .. n : t[k] = s[k]) /\ t[n + 1] = c
  BY <1>1, <1>2, AppendProperties
<1>4. PICK g : Filtering(s, S, g)
  BY <1>1, OnlyDef
<1>5. PICK h : Filtering(t, S, h)
  <2>1. Len(t) \in Nat
    BY <1>3
  <2> QED
    BY <2>1, OnlyDef
<1>6. /\ Only(s, S) = g[n] /\ g[0] = << >>
      /\ \A k \in 1 .. n : g[k] = IF s[k] \in S THEN Append(g[k - 1], s[k]) ELSE g[k - 1]
  BY <1>1, <1>4 DEF Filtering
<1>7. /\ Only(t, S) = h[n + 1] /\ h[0] = << >>
      /\ \A k \in 1 .. n + 1 : h[k] = IF t[k] \in S THEN Append(h[k - 1], t[k]) ELSE h[k - 1]
  BY <1>3, <1>5 DEF Filtering
<1> DEFINE P == {k \in Nat : k <= n => h[k] = g[k]}
<1>8. 0 \in P
  BY <1>6, <1>7
<1>9. ASSUME NEW k \in 0 .. n - 1, k \in P PROVE k + 1 \in P
  <2>1. k + 1 \in 1 .. n /\ k + 1 \in 1 .. n + 1 /\ (k + 1) - 1 = k /\ k <= n /\ k + 1 \in Nat
    OBVIOUS
  <2>2. h[k] = g[k] /\ t[k + 1] = s[k + 1]
    BY <1>3, <1>9, <2>1
  <2>3. g[k + 1] = IF s[k + 1] \in S THEN Append(g[k], s[k + 1]) ELSE g[k]
    BY <1>6, <2>1
  <2>4. h[k + 1] = IF t[k + 1] \in S THEN Append(h[k], t[k + 1]) ELSE h[k]
    BY <1>7, <2>1
  <2> QED
    BY <2>1, <2>2, <2>3, <2>4
<1>10. P \in SUBSET Nat /\ n \in 0 .. n /\ n <= n /\ n + 1 \in 1 .. n + 1 /\ (n + 1) - 1 = n
  OBVIOUS
<1> HIDE DEF P
<1>11. n \in P
  BY <1>8, <1>9, <1>10, Inductive
<1>12. h[n] = g[n]
  BY <1>10, <1>11 DEF P
<1>13. h[n + 1] = IF t[n + 1] \in S THEN Append(h[n], t[n + 1]) ELSE h[n]
  BY <1>7, <1>10
<1> QED
  BY <1>2, <1>3, <1>6, <1>7, <1>12, <1>13

LEMMA OnlyTyped ==
  ASSUME NEW S
  PROVE  \A s \in Seq(Int) : Only(s, S) \in Seq(Int)
<1> DEFINE P == {s \in Seq(Int) : Only(s, S) \in Seq(Int)}
<1>1. << >> \in P
  <2>1. Only(<< >>, S) = << >> /\ << >> \in Seq(Int)
    BY OnlyEmpty
  <2> QED
    BY <2>1, Zenon
<1>2. ASSUME NEW u \in Seq(Int), NEW c \in Int, u \in P PROVE Append(u, c) \in P
  <2>1. Append(u, c) \in Seq(Int)
    OBVIOUS
  <2>2. Only(Append(u, c), S) = Append(Only(u, S), c) \/ Only(Append(u, c), S) = Only(u, S)
    BY OnlyAppend
  <2>3. PICK w \in Seq(Int) : w = Only(u, S)
    BY <1>2
  <2>4. Append(w, c) \in Seq(Int)
    OBVIOUS
  <2>5. Only(Append(u, c), S) \in Seq(Int)
    BY <2>2, <2>3, <2>4, Zenon
  <2> QED
    BY <2>1, <2>5, Zenon
<1> HIDE DEF P
<1>3. \A s \in Seq(Int) : s \in P
  BY <1>1, <1>2, InductiveSeq
<1> QED
  BY <1>3 DEF P

LEMMA OnlyConcat ==
  ASSUME NEW S, NEW s \in Seq(Int), NEW t \in Seq(Int)
  PROVE  Only(s \o t, S) = Only(s, S) \o Only(t, S)
<1> DEFINE P == {x \in Seq(Int) : Only(s \o x, S) = Only(s, S) \o Only(x, S)}
<1>0. Only(s, S) \in Seq(Int)
  BY OnlyTyped
<1>1. << >> \in P
  <2>1. s \o << >> = s /\ Only(s, S) \o << >> = Only(s, S)
    BY <1>0, ConcatEmptySeq
  <2>2. Only(<< >>, S) = << >> /\ << >> \in Seq(Int)
    BY OnlyEmpty
  <2> QED
    BY <2>1, <2>2, Zenon
<1>2. ASSUME NEW u \in Seq(Int), NEW c \in Int, u \in P PROVE Append(u, c) \in P
  <2>1. s \o Append(u, c) = Append(s \o u, c) /\ s \o u \in Seq(Int) /\ Append(u, c) \in Seq(Int)
    OBVIOUS
  <2>2. Only(Append(s \o u, c), S) = IF c \in S THEN Append(Only(s \o u, S), c) ELSE Only(s \o u, S)
    BY <2>1, OnlyAppend
  <2>3. Only(Append(u, c), S) = IF c \in S THEN Append(Only(u, S), c) ELSE Only(u, S)
    BY OnlyAppend
  <2>4. PICK a \in Seq(Int), b \in Seq(Int) : a = Only(s, S) /\ b = Only(u, S)
    BY OnlyTyped
  <2>5. a \o Append(b, c) = Append(a \o b, c)
    BY SMTT(30)
  <2>6. Only(s \o u, S) = a \o b
    BY <1>2, <2>4
  <2> QED
    BY <2>1, <2>2, <2>3, <2>4, <2>5, <2>6
<1> HIDE DEF P
<1>3. \A x \in Seq(Int) : x \in P
  BY <1>1, <1>2, InductiveSeq
<1> QED
  BY <1>3 DEF P

LEMMA OnlyNone ==
  ASSUME NEW S, NEW s \in Seq(Int), \A i \in DOMAIN s : s[i] \notin S
  PROVE  Only(s, S) = << >>
<1> DEFINE P == {x \in Seq(Int) : (\A i \in DOMAIN x : x[i] \notin S) => Only(x, S) = << >>}
<1>1. << >> \in P
  <2>1. Only(<< >>, S) = << >> /\ << >> \in Seq(Int)
    BY OnlyEmpty
  <2> QED
    BY <2>1, Zenon
<1>2. ASSUME NEW u \in Seq(Int), NEW c \in Int, u \in P PROVE Append(u, c) \in P
  <2>0. Append(u, c) \in Seq(Int)
    OBVIOUS
  <2> SUFFICES ASSUME \A i \in DOMAIN Append(u, c) : Append(u, c)[i] \notin S
               PROVE  Only(Append(u, c), S) = << >>
    BY <2>0, Zenon
  <2>1. PICK n \in Nat : n = Len(u) /\ DOMAIN u = 1 .. n
    BY LenProperties
  <2>2. /\ DOMAIN Append(u, c) = 1 .. n + 1 /\ Append(u, c)[n + 1] = c
        /\ \A i \in 1 .. n : Append(u, c)[i] = u[i]
    BY <2>1, AppendProperties, LenProperties
  <2>3. n + 1 \in 1 .. n + 1 /\ \A i \in 1 .. n : i \in 1 .. n + 1
    OBVIOUS
  <2>4. c \notin S /\ \A i \in DOMAIN u : u[i] \notin S
    BY <2>1, <2>2, <2>3
  <2> QED
    BY <1>2, <2>4, OnlyAppend
<1> HIDE DEF P
<1>3. \A x \in Seq(Int) : x \in P
  BY <1>1, <1>2, InductiveSeq
<1> QED
  BY <1>3 DEF P

-----------------------------------------------------------------------------
(* FlattenSeq.                                                             *)

LEMMA FlatTyped == \A ss \in Seq(Seq(Int)) : FlattenSeq(ss) \in Seq(Int)
<1> DEFINE P == {ss \in Seq(Seq(Int)) : FlattenSeq(ss) \in Seq(Int)}
<1>1. << >> \in P
  <2>1. FlattenSeq(<< >>) = << >> /\ << >> \in Seq(Int) /\ << >> \in Seq(Seq(Int))
    BY FlatEmpty
  <2> QED
    BY <2>1, Zenon
<1>2. ASSUME NEW u \in Seq(Seq(Int)), NEW t \in Seq(Int), u \in P PROVE Append(u, t) \in P
  <2>1. Append(u, t) \in Seq(Seq(Int))
    OBVIOUS
  <2>2. PICK w \in Seq(Int) : w = FlattenSeq(u)
    BY <1>2
  <2>3. w \o t \in Seq(Int)
    OBVIOUS
  <2>4. FlattenSeq(Append(u, t)) \in Seq(Int)
    BY <2>2, <2>3, FlatAppend
  <2> QED
    BY <2>1, <2>4, Zenon
<1> HIDE DEF P
<1>3. \A ss \in Seq(Seq(Int)) : ss \in P
  BY <1>1, <1>2, InductiveSeq
<1> QED
  BY <1>3 DEF P

-----------------------------------------------------------------------------
(* Pages.                                                                  *)

\* The text does not end in a line break.
EndsWell(s) == s # << >> => s[Len(s)] # BREAK

LEMMA Joined ==
  ASSUME NEW x \in Seq(Int), NEW y \in Seq(Int)
  PROVE  \E z \in Seq(Int) : z = x \o y
<1>1. x \o y \in Seq(Int)
  BY ConcatProperties
<1> QED
  BY <1>1, Zenon

LEMMA ConcatTwice ==
  ASSUME NEW a \in Seq(Int), NEW b \in Seq(Int), NEW c \in Seq(Int)
  PROVE  (a \o b) \o c = a \o (b \o c)
BY SMTT(30)

LEMMA OneChar ==
  ASSUME NEW c \in Int
  PROVE  <<c>> \in Seq(Int) /\ <<c>> # << >> /\ << >> \in Seq(Int)
OBVIOUS

LEMMA ConcatEnds ==
  ASSUME NEW x \in Seq(Int), NEW y \in Seq(Int), y # << >>
  PROVE  EndsWell(x \o y) <=> EndsWell(y)
<1>1. PICK m \in Nat, n \in Nat : m = Len(x) /\ n = Len(y) /\ n >= 1
  BY LenProperties, EmptySeq
<1>2. Len(x \o y) = m + n /\ x \o y \in Seq(Int)
  BY <1>1, ConcatProperties
<1>3. x \o y # << >>
  BY <1>1, <1>2
<1>4. (x \o y)[m + n] = y[n]
  BY <1>1
<1> QED
  BY <1>1, <1>2, <1>3, <1>4 DEF EndsWell

LEMMA OneSubSeq ==
  ASSUME NEW s \in Seq(Int), NEW k \in 1 .. Len(s)
  PROVE  SubSeq(s, k, k) = <<s[k]>>
<1>1. PICK n \in Nat : n = Len(s)
  BY LenProperties
<1>2. k \in Int /\ s[k] \in Int /\ \A i \in k .. k : s[i] \in Int
  BY <1>1, ElementOfSeq
<1>3. SubSeq(s, k, k) \in Seq(Int) /\ Len(SubSeq(s, k, k)) = 1 /\ SubSeq(s, k, k)[1] = s[k]
  BY <1>2, SubSeqProperties
<1>4. <<s[k]>> \in Seq(Int) /\ Len(<<s[k]>>) = 1 /\ <<s[k]>>[1] = s[k]
  BY <1>2
<1>5. PICK u \in Seq(Int), w \in Seq(Int) : u = SubSeq(s, k, k) /\ w = <<s[k]>>
  BY <1>3, <1>4
<1>6. \A i \in 1 .. Len(u) : u[i] = w[i]
  BY <1>3, <1>4, <1>5
<1> QED
  BY <1>3, <1>4, <1>5, <1>6, SeqEqual

LEMMA HeadFirst ==
  ASSUME NEW s \in Seq(Int), s # << >>
  PROVE  s = <<Head(s)>> \o Tail(s)
<1>1. PICK n \in Nat : n = Len(s) /\ n >= 1
  BY LenProperties, EmptySeq
<1>2. Head(s) = s[1] /\ Tail(s) = SubSeq(s, 2, n)
  BY <1>1
<1>3. 1 \in 1 .. Len(s) /\ 1 \in 1 .. Len(s) + 1 /\ 1 \in 1 - 1 .. Len(s) /\ n \in 1 .. Len(s)
  BY <1>1
<1>4. SubSeq(s, 1, 1) \o SubSeq(s, 1 + 1, n) = SubSeq(s, 1, n)
  BY <1>3, ConcatAdjacentSubSeq
<1> QED
  BY <1>1, <1>2, <1>3, <1>4, OneSubSeq, SubSeqFull

\* Where a page ends.
LEMMA TakeIs ==
  ASSUME rest \in Seq(Int), NEW len \in 1 .. Len(rest)
  PROVE  /\ Take(len) \in 1 .. len
         /\ len = Len(rest) => Take(len) = len
         /\ len # Len(rest) => /\ \A k \in Take(len) + 1 .. len : rest[k] = SPACE
                               /\ Take(len) > 1 => rest[Take(len)] # SPACE
<1>1. PICK n \in Nat : n = Len(rest)
  BY LenProperties
<1>2. CASE len = Len(rest)
  BY <1>1, <1>2 DEF Take
<1>3. CASE len # Len(rest)
  <2> DEFINE T == {1} \cup {k \in 1 .. len : rest[k] # SPACE}
  <2>1. len \in Nat /\ T \in SUBSET (0 .. len) /\ T # {}
    BY <1>1
  <2>2. Take(len) = Max(T)
    BY <1>3 DEF Take
  <2>3. \A k : k \in T <=> k = 1 \/ (k \in 1 .. len /\ rest[k] # SPACE)
    OBVIOUS
  <2> HIDE DEF T
  <2>4. \E x \in T : \A y \in T : x >= y
    BY <2>1, Greatest
  <2>5. Max(T) \in T /\ \A y \in T : Max(T) >= y
    BY <2>4, Zenon DEF Max
  <2>6. PICK take \in T : take = Take(len) /\ \A y \in T : take >= y
    BY <2>2, <2>5
  <2>7. take \in 1 .. len
    BY <1>1, <2>3
  <2>8. ASSUME NEW k \in take + 1 .. len PROVE rest[k] = SPACE
    <3>1. ~(take >= k) /\ k \in 1 .. len
      BY <2>7
    <3>2. k \notin T
      BY <2>6, <3>1
    <3> QED
      BY <2>3, <3>1, <3>2
  <2>9. take > 1 => rest[take] # SPACE
    BY <2>3
  <2> QED
    BY <1>3, <2>6, <2>7, <2>8, <2>9
<1> QED
  BY <1>2, <1>3

\* What a page and the rest behind it are of what was left before.
Parted(page, hidden, break, r) ==
  /\ page \in Seq(Int) /\ r \in Seq(Int)
  /\ hidden \in {<< >>, <<SPACE>>} /\ break \in {<< >>, <<BREAK>>}
  /\ rest = page \o (hidden \o (break \o r))
  /\ r = << >> /\ break = << >> => hidden = << >>

LEMMA PageParts ==
  ASSUME rest \in Seq(Int), NEW len \in 1 .. Len(rest)
  PROVE  \E hidden, break : Parted(SubSeq(rest, 1, Take(len)), hidden, break,
                                   AfterBreak(Take(len), len))
<1>a. SPACE \in Int /\ BREAK \in Int
  BY NanoAssumption
<1>1. PICK n \in Nat : n = Len(rest)
  BY LenProperties
<1>2. PICK take \in 1 .. len : take = Take(len)
  BY TakeIs
<1>3. take \in 1 .. n /\ take \in Nat /\ 1 \in 1 .. n
  BY <1>1
<1>4. PICK page, more : page = SubSeq(rest, 1, take) /\ more = SubSeq(rest, take + 1, n)
  OBVIOUS
<1>5. rest = page \o more
  <2>1. /\ 1 \in 1 .. Len(rest) + 1 /\ take \in 1 - 1 .. Len(rest) /\ n \in take .. Len(rest)
    BY <1>1, <1>3
  <2>2. SubSeq(rest, 1, take) \o SubSeq(rest, take + 1, n) = SubSeq(rest, 1, n)
    BY <2>1, ConcatAdjacentSubSeq
  <2> QED
    BY <1>1, <1>4, <2>2, SubSeqFull
<1>6. page \in Seq(Int) /\ more \in Seq(Int)
  <2>1. (\A i \in 1 .. take : rest[i] \in Int) /\ (\A i \in take + 1 .. n : rest[i] \in Int)
    BY <1>1, <1>3, ElementOfSeq
  <2> QED
    BY <1>1, <1>4, <2>1, SubSeqProperties
<1>7. PICK start, r0, r :
        /\ start = (IF take < len THEN take + 1 ELSE take)
        /\ r0 = SubSeq(rest, start + 1, n)
        /\ r = IF r0 # << >> /\ Head(r0) = BREAK THEN Tail(r0) ELSE r0
  OBVIOUS
<1>8. r = AfterBreak(take, len)
  BY <1>1, <1>7, Zenon DEF AfterBreak
<1>9. start \in Nat /\ start >= take /\ start <= len /\ start <= n
  BY <1>1, <1>7
<1>10. r0 \in Seq(Int) /\ Len(r0) = IF start + 1 <= n THEN n - (start + 1) + 1 ELSE 0
  <2>1. \A i \in start + 1 .. n : rest[i] \in Int
    BY <1>1, <1>9, ElementOfSeq
  <2>2. start + 1 \in Int /\ n \in Int
    BY <1>9
  <2>3. r0 \in Seq(Int)
    BY <1>7, <2>1, <2>2, SubSeqProperties
  <2>4. Len(SubSeq(rest, start + 1, n)) = IF start + 1 <= n THEN n - (start + 1) + 1 ELSE 0
    BY <2>1, <2>2, SubSeqProperties
  <2> QED
    BY <1>7, <2>3, <2>4, Zenon
<1>11. PICK hidden : hidden \in {<< >>, <<SPACE>>} /\ more = hidden \o r0
                     /\ (len = n => hidden = << >>)
  <2>1. CASE take < len
    <3>0. len # Len(rest)
      BY <2>1, <1>2, TakeIs
    <3>1. rest[take + 1] = SPACE
      <4>1. take + 1 \in take + 1 .. len
        BY <2>1
      <4> QED
        BY <1>2, <3>0, <4>1, TakeIs
    <3>2. take + 1 \in 1 .. Len(rest) /\ n \in take + 1 .. Len(rest) /\ start = take + 1
      BY <1>1, <1>7, <2>1
    <3>3. more = <<SPACE>> \o r0
      <4>1. SubSeq(rest, take + 1, take + 1) = <<rest[take + 1]>>
        <5>1. PICK k \in 1 .. n : k = take + 1
          BY <1>1, <3>2
        <5> QED
          BY <1>1, <5>1, OneSubSeq
      <4>2. /\ take + 1 \in 1 .. Len(rest) + 1 /\ take + 1 \in (take + 1) - 1 .. Len(rest)
            /\ n \in take + 1 .. Len(rest)
        BY <1>1, <3>2
      <4>3. SubSeq(rest, take + 1, take + 1) \o SubSeq(rest, (take + 1) + 1, n)
              = SubSeq(rest, take + 1, n)
        BY <4>2, ConcatAdjacentSubSeq
      <4> QED
        BY <1>4, <1>7, <3>1, <3>2, <4>1, <4>3
    <3> QED
      BY <1>1, <3>0, <3>3
  <2>2. CASE ~(take < len)
    <3>1. more = r0
      BY <1>4, <1>7, <2>2
    <3>2. << >> \o r0 = r0
      BY <1>10, ConcatEmptySeq
    <3> QED
      BY <3>1, <3>2
  <2> QED
    BY <2>1, <2>2
<1>12. PICK break : break \in {<< >>, <<BREAK>>} /\ r0 = break \o r /\ r \in Seq(Int)
                    /\ (r0 # << >> /\ r = << >> => break # << >>)
  <2>1. CASE r0 # << >> /\ Head(r0) = BREAK
    <3>1. r = Tail(r0)
      BY <1>7, <2>1
    <3>2. Tail(r0) \in Seq(Int)
      BY <1>10, <2>1, HeadTailProperties
    <3>3. r0 = <<Head(r0)>> \o Tail(r0)
      BY <1>10, <2>1, HeadFirst
    <3>4. r0 = <<BREAK>> \o r /\ <<BREAK>> # << >>
      BY <2>1, <3>1, <3>3
    <3> QED
      BY <3>1, <3>2, <3>4, Zenon
  <2>2. CASE ~(r0 # << >> /\ Head(r0) = BREAK)
    <3>1. r = r0 /\ << >> \o r0 = r0
      BY <1>7, <1>10, <2>2, ConcatEmptySeq
    <3> QED
      BY <1>10, <3>1
  <2> QED
    BY <2>1, <2>2
<1>13. r = << >> /\ break = << >> => hidden = << >>
  <2> SUFFICES ASSUME r = << >>, break = << >> PROVE len = n
    BY <1>11
  <2>1. Len(r0) = 0
    BY <1>12
  <2> QED
    BY <1>1, <1>9, <1>10, <2>1
<1>14. Parted(page, hidden, break, r)
  BY <1>5, <1>6, <1>11, <1>12, <1>13, Zenon DEF Parted
<1> QED
  BY <1>2, <1>4, <1>8, <1>14, Zenon

LEMMA OnlyOne ==
  ASSUME NEW S, NEW c \in Int
  PROVE  Only(<<c>>, S) = IF c \in S THEN <<c>> ELSE << >>
<1>1. <<c>> = Append(<< >>, c) /\ << >> \in Seq(Int)
  OBVIOUS
<1>2. Only(Append(<< >>, c), S) = IF c \in S THEN Append(Only(<< >>, S), c) ELSE Only(<< >>, S)
  BY <1>1, OnlyAppend
<1>3. Only(<< >>, S) = << >>
  BY OnlyEmpty
<1> QED
  BY <1>1, <1>2, <1>3, Zenon

\* The filters: what is shown of a value, what is a title's, the spaces.
OfValue == {c \in Int : c > SPACE}
OfTitles == {c \in Int : c < SPACE} \ {BREAK}
Kinds == {OfValue, OfTitles, {SPACE}}

LEMMA KindsHaveNoBreak ==
  /\ SPACE \in Int /\ BREAK \in Int
  /\ \A S \in Kinds : BREAK \notin S
  /\ SPACE \notin OfValue /\ SPACE \notin OfTitles
BY NanoAssumption DEF Kinds, OfValue, OfTitles

\* A line break or the space before it are not kept.
LEMMA OnlyParts ==
  ASSUME NEW S, BREAK \notin S,
         NEW page, NEW hidden, NEW break, NEW r, Parted(page, hidden, break, r)
  PROVE  Only(rest, S) = Only(page, S) \o (Only(hidden, S) \o Only(r, S))
<1>1. /\ page \in Seq(Int) /\ r \in Seq(Int) /\ hidden \in Seq(Int) /\ break \in Seq(Int)
      /\ rest = page \o (hidden \o (break \o r))
  <2>1. <<SPACE>> \in Seq(Int) /\ <<BREAK>> \in Seq(Int) /\ << >> \in Seq(Int)
    BY OneChar, KindsHaveNoBreak
  <2> QED
    BY <2>1, Zenon DEF Parted
<1>2. PICK w \in Seq(Int), x \in Seq(Int) : w = break \o r /\ x = hidden \o w
  <2>1. PICK w \in Seq(Int) : w = break \o r
    BY <1>1, Joined
  <2>2. PICK x \in Seq(Int) : x = hidden \o w
    BY <1>1, Joined
  <2> QED
    BY <2>1, <2>2, Zenon
<1>3. Only(break, S) = << >>
  BY OnlyOne, OnlyEmpty, KindsHaveNoBreak DEF Parted
<1>4. Only(w, S) = Only(r, S)
  <2>1. Only(w, S) = Only(break, S) \o Only(r, S)
    BY <1>1, <1>2, OnlyConcat
  <2>2. Only(r, S) \in Seq(Int)
    BY <1>1, OnlyTyped
  <2> QED
    BY <1>3, <2>1, <2>2, ConcatEmptySeq
<1>5. Only(x, S) = Only(hidden, S) \o Only(w, S)
  BY <1>1, <1>2, OnlyConcat
<1>6. Only(rest, S) = Only(page, S) \o Only(x, S)
  BY <1>1, <1>2, OnlyConcat
<1> QED
  BY <1>4, <1>5, <1>6

\* Of what was left, a page and the rest behind it keep everything but line breaks
\* and, if the page is not the last one, one space.
LEMMA PageKeeps ==
  ASSUME rest \in Seq(Int), EndsWell(rest), NEW len \in 1 .. Len(rest),
         NEW page, NEW r, page = SubSeq(rest, 1, Take(len)), r = AfterBreak(Take(len), len)
  PROVE  /\ page \in Seq(Int) /\ r \in Seq(Int) /\ EndsWell(r)
         /\ \A S \in {OfValue, OfTitles} : Only(rest, S) = Only(page, S) \o Only(r, S)
         /\ Count(rest, SPACE) <=
              Count(page, SPACE) + Count(r, SPACE) + (IF r = << >> THEN 0 ELSE 1)
<1>1. PICK hidden, break : Parted(page, hidden, break, r)
  BY PageParts
<1>2. /\ page \in Seq(Int) /\ r \in Seq(Int) /\ hidden \in Seq(Int) /\ break \in Seq(Int)
      /\ rest = page \o (hidden \o (break \o r))
      /\ hidden \in {<< >>, <<SPACE>>} /\ break \in {<< >>, <<BREAK>>}
      /\ (r = << >> /\ break = << >> => hidden = << >>)
  <2>1. <<SPACE>> \in Seq(Int) /\ <<BREAK>> \in Seq(Int) /\ << >> \in Seq(Int)
    BY OneChar, KindsHaveNoBreak
  <2> QED
    BY <1>1, <2>1, Zenon DEF Parted
<1>3. EndsWell(r)
  <2>1. CASE r = << >>
    BY <2>1 DEF EndsWell
  <2>2. CASE r # << >>
    <3>1. PICK w \in Seq(Int) : w = break \o r
      BY <1>2, Joined
    <3>2. PICK x \in Seq(Int) : x = hidden \o w
      BY <1>2, Joined
    <3>3. w # << >> /\ x # << >>
      BY <1>2, <2>2, <3>1, <3>2
    <3>4. EndsWell(x)
      <4>1. EndsWell(page \o x)
        BY <1>2, <3>1, <3>2
      <4> QED
        BY <1>2, <3>3, <4>1, ConcatEnds
    <3>5. EndsWell(w)
      BY <1>2, <3>2, <3>3, <3>4, ConcatEnds
    <3> QED
      BY <1>2, <2>2, <3>1, <3>5, ConcatEnds
  <2> QED
    BY <2>1, <2>2
<1>4. r = << >> => hidden = << >>
  <2> SUFFICES ASSUME r = << >> PROVE break = << >>
    BY <1>2
  <2> SUFFICES ASSUME break = <<BREAK>> PROVE FALSE
    BY <1>2
  <2>1. break \o r = <<BREAK>>
    BY <1>2
  <2>2. PICK x \in Seq(Int) : x = hidden \o break
    BY <1>2, Joined
  <2>3. break # << >> /\ x # << >>
    BY <1>2, <2>2
  <2>4. EndsWell(page \o x)
    BY <1>2, <2>1, <2>2
  <2>5. EndsWell(x)
    BY <1>2, <2>3, <2>4, ConcatEnds
  <2>6. EndsWell(break)
    BY <1>2, <2>2, <2>3, <2>5, ConcatEnds
  <2> QED
    BY <2>3, <2>6 DEF EndsWell
<1>5. ASSUME NEW S \in {OfValue, OfTitles}
      PROVE  Only(rest, S) = Only(page, S) \o Only(r, S)
  <2>1. BREAK \notin S /\ SPACE \notin S
    BY KindsHaveNoBreak DEF Kinds
  <2>2. Only(hidden, S) = << >>
    BY <1>2, <2>1, OnlyOne, OnlyEmpty, KindsHaveNoBreak
  <2>3. Only(r, S) \in Seq(Int)
    BY <1>2, OnlyTyped
  <2>4. Only(rest, S) = Only(page, S) \o (<< >> \o Only(r, S))
    <3>1. Only(rest, S) = Only(page, S) \o (Only(hidden, S) \o Only(r, S))
      BY <1>1, <2>1, OnlyParts, ZenonT(60)
    <3> QED
      BY <2>2, <3>1, Zenon
  <2>5. << >> \o Only(r, S) = Only(r, S)
    BY <2>3, ConcatEmptySeq
  <2> QED
    BY <2>4, <2>5, Zenon
<1>6. Count(rest, SPACE) <= Count(page, SPACE) + Count(r, SPACE) + (IF r = << >> THEN 0 ELSE 1)
  <2>1. PICK a \in Seq(Int), b \in Seq(Int), c \in Seq(Int) :
          a = Only(page, {SPACE}) /\ b = Only(hidden, {SPACE}) /\ c = Only(r, {SPACE})
    BY <1>2, OnlyTyped
  <2>2. Only(rest, {SPACE}) = a \o (b \o c)
    BY <1>1, <2>1, OnlyParts, KindsHaveNoBreak DEF Kinds
  <2>3. b = IF hidden = << >> THEN << >> ELSE <<SPACE>>
    BY <1>2, <2>1, OnlyOne, OnlyEmpty, KindsHaveNoBreak
  <2>4. PICK n \in Nat, m \in Nat, k \in Nat : n = Len(a) /\ m = Len(b) /\ k = Len(c)
    BY LenProperties
  <2>5. m <= (IF r = << >> THEN 0 ELSE 1)
    BY <1>4, <2>3, <2>4
  <2>6. Len(Only(rest, {SPACE})) = n + (m + k)
    BY <2>2, <2>4
  <2> QED
    BY <2>1, <2>4, <2>5, <2>6 DEF Count
<1> QED
  BY <1>2, <1>3, <1>5, <1>6

-----------------------------------------------------------------------------
(* The title.                                                              *)

LEMMA TitleTyped ==
  ASSUME title \in Titles
  PROVE  /\ title \in Seq(Int) /\ Len(title) \in Nat \ {0}
         /\ title[Len(title)] # SPACE
         /\ \A i \in 1 .. Len(title) : title[i] <= SPACE /\ title[i] \in Int
<1>1. /\ title \in Seq(Int) /\ title # << >> /\ Last(title) # SPACE
      /\ \A i \in DOMAIN title : title[i] <= SPACE
  BY NanoAssumption
<1>2. Len(title) \in Nat /\ DOMAIN title = 1 .. Len(title) /\ Len(title) # 0
  BY <1>1, LenProperties, EmptySeq
<1>3. title[Len(title)] # SPACE
  BY <1>1, Zenon DEF Last
<1>4. \A i \in 1 .. Len(title) : title[i] \in Int
  BY <1>1, ElementOfSeq
<1> QED
  BY <1>1, <1>2, <1>3, <1>4

LEMMA SplitInside ==
  ASSUME title \in Titles, NEW cut \in 1 .. Len(title) - 1
  PROVE  SplitAt(cut) \in 1 .. Len(title) - 1
<1>1. PICK n \in Nat : n = Len(title) /\ cut \in 1 .. n - 1
  BY TitleTyped
<1>2. CASE SpacesIn(cut) = {}
  BY <1>1, <1>2 DEF SplitAt
<1>3. CASE SpacesIn(cut) # {}
  <2>1. cut \in Nat /\ SpacesIn(cut) \in SUBSET (0 .. cut) /\ SpacesIn(cut) \in SUBSET (2 .. cut)
    BY <1>1 DEF SpacesIn
  <2>2. \E x \in SpacesIn(cut) : \A y \in SpacesIn(cut) : x >= y
    BY <1>3, <2>1, Greatest
  <2>3. Max(SpacesIn(cut)) \in SpacesIn(cut)
    BY <2>2, Zenon DEF Max
  <2>4. PICK k \in 2 .. cut : k = Max(SpacesIn(cut))
    BY <2>1, <2>3
  <2>5. SplitAt(cut) = k - 1
    BY <1>3, <2>4 DEF SplitAt
  <2> QED
    BY <1>1, <2>4, <2>5
<1> QED
  BY <1>2, <1>3

\* The title line and the rest of the title are the title but for the spaces
\* between the two.
LEMMA SplitKeeps ==
  ASSUME title \in Titles, NEW at \in 1 .. Len(title) - 1,
         NEW h, NEW t, h = SubSeq(title, 1, at), t = RestFrom(at)
  PROVE  /\ h \in Seq(Int) /\ t \in Seq(Int)
         /\ Only(h, OfTitles) \o Only(t, OfTitles) = Only(title, OfTitles)
         /\ Only(t, OfValue) = << >>
<1>1. PICK n \in Nat : n = Len(title) /\ n # 0 /\ at \in 1 .. n - 1
  BY TitleTyped
<1> DEFINE J == {i \in at + 1 .. n : title[i] # SPACE}
<1>2. J \in SUBSET Nat /\ n \in J
  BY <1>1, TitleTyped
<1>3. \E x \in J : \A y \in J : x <= y
  BY <1>2, Least
<1>4. Min(J) \in J /\ \A y \in J : Min(J) <= y
  BY <1>3, Zenon DEF Min
<1>5. PICK j \in J : j = Min(J) /\ \A y \in J : j <= y
  BY <1>4
<1>6. t = SubSeq(title, j, n)
  BY <1>1, <1>5, Zenon DEF RestFrom
<1>7. j \in at + 1 .. n /\ \A i \in at + 1 .. j - 1 : title[i] = SPACE
  <2>1. j \in at + 1 .. n
    OBVIOUS
  <2>2. ASSUME NEW i \in at + 1 .. j - 1, title[i] # SPACE PROVE FALSE
    <3>1. i \in at + 1 .. n /\ ~(j <= i)
      BY <1>1, <2>1
    <3> QED
      BY <1>5, <2>2, <3>1
  <2> QED
    BY <2>1, <2>2
<1> HIDE DEF J
<1>8. PICK gap : gap = SubSeq(title, at + 1, j - 1)
  OBVIOUS
<1>9. title \in Seq(Int) /\ \A i \in 1 .. n : title[i] \in Int /\ title[i] <= SPACE
  BY <1>1, TitleTyped
<1>10. /\ h \in Seq(Int)
       /\ gap \in Seq(Int) /\ Len(gap) = (IF at + 1 <= j - 1 THEN (j - 1) - (at + 1) + 1 ELSE 0)
       /\ \A i \in 1 .. (j - 1) - (at + 1) + 1 : gap[i] = title[(at + 1) + i - 1]
       /\ t \in Seq(Int) /\ Len(t) = (IF j <= n THEN n - j + 1 ELSE 0)
       /\ \A i \in 1 .. n - j + 1 : t[i] = title[j + i - 1]
  <2>1. /\ at \in Int /\ at + 1 \in Int /\ j - 1 \in Int /\ j \in Int /\ n \in Int
        /\ \A i \in 1 .. at : title[i] \in Int
        /\ \A i \in at + 1 .. j - 1 : title[i] \in Int
        /\ \A i \in j .. n : title[i] \in Int
    BY <1>1, <1>7, <1>9
  <2>2. h \in Seq(Int)
    BY <2>1, SubSeqProperties
  <2>3. /\ gap \in Seq(Int) /\ Len(gap) = (IF at + 1 <= j - 1 THEN (j - 1) - (at + 1) + 1 ELSE 0)
        /\ \A i \in 1 .. (j - 1) - (at + 1) + 1 : gap[i] = title[(at + 1) + i - 1]
    BY <1>8, <2>1, SubSeqProperties
  <2>4. /\ t \in Seq(Int) /\ Len(t) = (IF j <= n THEN n - j + 1 ELSE 0)
        /\ \A i \in 1 .. n - j + 1 : t[i] = title[j + i - 1]
    BY <1>6, <2>1, SubSeqProperties
  <2> QED
    BY <2>2, <2>3, <2>4
<1>11. title = h \o (gap \o t)
  <2>1. /\ 1 \in 1 .. Len(title) + 1 /\ at \in 1 - 1 .. Len(title) /\ n \in at .. Len(title)
        /\ at + 1 \in 1 .. Len(title) + 1 /\ j - 1 \in (at + 1) - 1 .. Len(title)
        /\ n \in j - 1 .. Len(title) /\ (j - 1) + 1 = j
    BY <1>1, <1>7
  <2>2. h \o SubSeq(title, at + 1, n) = SubSeq(title, 1, n)
    BY <1>9, <2>1, ConcatAdjacentSubSeq
  <2>3. gap \o SubSeq(title, (j - 1) + 1, n) = SubSeq(title, at + 1, n)
    BY <1>8, <1>9, <2>1, ConcatAdjacentSubSeq
  <2>4. SubSeq(title, 1, n) = title
    BY <1>1, <1>9, SubSeqFull
  <2> QED
    BY <1>6, <2>1, <2>2, <2>3, <2>4
<1>12. Only(gap, OfTitles) = << >>
  <2>1. ASSUME NEW i \in DOMAIN gap PROVE gap[i] \notin OfTitles
    <3>1. i \in 1 .. Len(gap)
      BY <1>10, LenProperties
    <3>2. i \in 1 .. (j - 1) - (at + 1) + 1 /\ (at + 1) + i - 1 \in at + 1 .. j - 1
      <4>1. PICK k \in Int, a \in Int : k = j /\ a = at
        BY <1>1, <1>7
      <4>2. i \in 1 .. (IF a + 1 <= k - 1 THEN (k - 1) - (a + 1) + 1 ELSE 0)
        BY <1>10, <3>1, <4>1
      <4>3. i \in 1 .. (k - 1) - (a + 1) + 1
        BY <4>2
      <4>4. (a + 1) + i - 1 \in a + 1 .. k - 1
        BY <4>3
      <4> QED
        BY <4>1, <4>3, <4>4
    <3>3. gap[i] = SPACE
      BY <1>7, <1>10, <3>2
    <3> QED
      BY <3>3, KindsHaveNoBreak
  <2> QED
    BY <1>10, <2>1, OnlyNone
<1>13. Only(t, OfValue) = << >>
  <2>1. ASSUME NEW i \in DOMAIN t PROVE t[i] \notin OfValue
    <3>1. i \in 1 .. Len(t)
      BY <1>10, LenProperties
    <3>2. i \in 1 .. n - j + 1 /\ j + i - 1 \in 1 .. n
      <4>1. PICK k \in Int, m \in Int : k = j /\ m = n
        BY <1>1, <1>7
      <4>2. k >= 1 /\ k <= m
        BY <1>1, <1>7, <4>1
      <4>3. i \in 1 .. (IF k <= m THEN m - k + 1 ELSE 0)
        BY <1>10, <3>1, <4>1
      <4>4. i \in 1 .. m - k + 1
        BY <4>2, <4>3
      <4>5. k + i - 1 \in 1 .. m
        BY <4>2, <4>4
      <4> QED
        BY <4>1, <4>4, <4>5
    <3>3. t[i] \in Int /\ t[i] <= SPACE
      BY <1>9, <1>10, <3>2
    <3> QED
      BY <3>3, KindsHaveNoBreak DEF OfValue
  <2> QED
    BY <1>10, <2>1, OnlyNone
<1>14. Only(h, OfTitles) \o Only(t, OfTitles) = Only(title, OfTitles)
  <2>1. PICK x \in Seq(Int) : x = gap \o t
    BY <1>10, Joined
  <2>2. Only(title, OfTitles) = Only(h, OfTitles) \o Only(x, OfTitles)
    <3>1. title = h \o x
      BY <1>11, <2>1
    <3>2. Only(h \o x, OfTitles) = Only(h, OfTitles) \o Only(x, OfTitles)
      BY <1>10, OnlyConcat
    <3> QED
      BY <3>1, <3>2
  <2>3. Only(x, OfTitles) = Only(gap, OfTitles) \o Only(t, OfTitles)
    BY <1>10, <2>1, OnlyConcat, ZenonT(60)
  <2>4. Only(t, OfTitles) \in Seq(Int)
    BY <1>10, OnlyTyped
  <2> QED
    BY <1>12, <2>2, <2>3, <2>4, ConcatEmptySeq
<1> QED
  BY <1>10, <1>13, <1>14

-----------------------------------------------------------------------------
(* Pages that all begin with the rest of the title.                        *)

Prefixed(p, ss) == [i \in 1 .. Len(ss) |-> p \o ss[i]]

LEMMA PrefixedTyped ==
  ASSUME NEW p \in Seq(Int), NEW ss \in Seq(Seq(Int))
  PROVE  Prefixed(p, ss) \in Seq(Seq(Int)) /\ Len(Prefixed(p, ss)) = Len(ss)
<1>1. PICK n \in Nat : n = Len(ss)
  BY LenProperties
<1>2. ASSUME NEW i \in 1 .. n PROVE p \o ss[i] \in Seq(Int)
  <2>1. PICK x \in Seq(Int) : x = ss[i]
    BY <1>1, ElementOfSeq
  <2> QED
    BY <2>1
<1> DEFINE f == [i \in 1 .. n |-> p \o ss[i]]
<1>3. f \in Seq(Seq(Int)) /\ Len(f) = n
  BY <1>2
<1> QED
  BY <1>1, <1>3 DEF Prefixed

LEMMA PrefixedEmpty == ASSUME NEW p PROVE Prefixed(p, << >>) = << >>
BY DEF Prefixed

LEMMA PrefixedAppend ==
  ASSUME NEW p \in Seq(Int), NEW ss \in Seq(Seq(Int)), NEW t \in Seq(Int)
  PROVE  Prefixed(p, Append(ss, t)) = Append(Prefixed(p, ss), p \o t)
<1>1. PICK n \in Nat : n = Len(ss)
  BY LenProperties
<1>2. PICK tt \in Seq(Seq(Int)) : tt = Append(ss, t)
  BY AppendProperties
<1>3. Len(tt) = n + 1 /\ (\A k \in 1 .. n : tt[k] = ss[k]) /\ tt[n + 1] = t
  BY <1>1, <1>2, AppendProperties
<1>4. PICK f \in Seq(Seq(Int)) : f = Prefixed(p, ss) /\ Len(f) = n
  BY <1>1, PrefixedTyped
<1>5. PICK pt \in Seq(Int) : pt = p \o t
  BY Joined
<1>6. PICK g \in Seq(Seq(Int)) : g = Append(f, pt)
  BY AppendProperties
<1>7. Len(g) = n + 1 /\ (\A k \in 1 .. n : g[k] = f[k]) /\ g[n + 1] = pt
  BY <1>4, <1>6, AppendProperties
<1>8. PICK h \in Seq(Seq(Int)) : h = Prefixed(p, tt) /\ Len(h) = n + 1
  BY <1>3, PrefixedTyped
<1>9. \A k \in 1 .. n : f[k] = p \o ss[k]
  BY <1>1, <1>4 DEF Prefixed
<1>10. \A k \in 1 .. n + 1 : h[k] = p \o tt[k]
  BY <1>3, <1>8 DEF Prefixed
<1>11. ASSUME NEW k \in 1 .. n + 1 PROVE h[k] = g[k]
  <2>1. CASE k = n + 1
    BY <1>3, <1>5, <1>7, <1>10, <2>1
  <2>2. CASE k # n + 1
    <3>1. k \in 1 .. n
      BY <2>2
    <3> QED
      BY <1>3, <1>7, <1>9, <1>10, <3>1, Zenon
  <2> QED
    BY <2>1, <2>2
<1>12. h = g
  BY <1>7, <1>8, <1>11, SeqEqual
<1> QED
  BY <1>2, <1>4, <1>5, <1>6, <1>8, <1>12, Zenon

\* What is not of the prefix is there once, what is of it once a page.
LEMMA PrefixedKeeps ==
  ASSUME NEW p \in Seq(Int), NEW S, Only(p, S) = << >>
  PROVE  \A ss \in Seq(Seq(Int)) :
           Only(FlattenSeq(Prefixed(p, ss)), S) = Only(FlattenSeq(ss), S)
<1> DEFINE P == {ss \in Seq(Seq(Int)) :
                   Only(FlattenSeq(Prefixed(p, ss)), S) = Only(FlattenSeq(ss), S)}
<1>1. << >> \in P
  <2>1. << >> \in Seq(Seq(Int))
    OBVIOUS
  <2> QED
    BY <2>1, PrefixedEmpty, Zenon
<1>2. ASSUME NEW u \in Seq(Seq(Int)), NEW t \in Seq(Int), u \in P PROVE Append(u, t) \in P
  <2>1. Append(u, t) \in Seq(Seq(Int))
    BY AppendProperties
  <2>2. PICK f \in Seq(Seq(Int)) : f = Prefixed(p, u)
    BY PrefixedTyped
  <2>3. PICK pt \in Seq(Int) : pt = p \o t
    BY Joined
  <2>4. PICK a \in Seq(Int), b \in Seq(Int) : a = FlattenSeq(f) /\ b = FlattenSeq(u)
    BY <2>2, FlatTyped
  <2>5. FlattenSeq(Prefixed(p, Append(u, t))) = a \o pt /\ FlattenSeq(Append(u, t)) = b \o t
    BY <2>2, <2>3, <2>4, PrefixedAppend, FlatAppend, ZenonT(60)
  <2>6. Only(a \o pt, S) = Only(a, S) \o Only(pt, S) /\ Only(b \o t, S) = Only(b, S) \o Only(t, S)
    BY OnlyConcat
  <2>7. Only(pt, S) = Only(t, S)
    <3>1. Only(pt, S) = Only(p, S) \o Only(t, S)
      BY <2>3, OnlyConcat
    <3>2. Only(t, S) \in Seq(Int)
      BY OnlyTyped
    <3> QED
      BY <3>1, <3>2, ConcatEmptySeq
  <2>8. Only(a, S) = Only(b, S)
    BY <1>2, <2>2, <2>4
  <2>9. Only(FlattenSeq(Prefixed(p, Append(u, t))), S) = Only(FlattenSeq(Append(u, t)), S)
    BY <2>5, <2>6, <2>7, <2>8, Zenon
  <2> QED
    BY <2>1, <2>9, Zenon
<1> HIDE DEF P
<1>3. \A ss \in Seq(Seq(Int)) : ss \in P
  BY <1>1, <1>2, InductiveSeq
<1> QED
  BY <1>3 DEF P

LEMMA CountTyped == ASSUME NEW c PROVE \A s \in Seq(Int) : Count(s, c) \in Nat
BY OnlyTyped, LenProperties DEF Count

LEMMA CountConcat ==
  ASSUME NEW c, NEW s \in Seq(Int), NEW t \in Seq(Int)
  PROVE  Count(s \o t, c) = Count(s, c) + Count(t, c)
<1>1. Only(s, {c}) \in Seq(Int) /\ Only(t, {c}) \in Seq(Int)
  BY OnlyTyped
<1>2. Only(s \o t, {c}) = Only(s, {c}) \o Only(t, {c})
  BY OnlyConcat
<1> QED
  BY <1>1, <1>2, ConcatProperties DEF Count

LEMMA PrefixedCount ==
  ASSUME NEW p \in Seq(Int), NEW c
  PROVE  \A ss \in Seq(Seq(Int)) :
           Count(FlattenSeq(Prefixed(p, ss)), c) = Len(ss) * Count(p, c) + Count(FlattenSeq(ss), c)
<1> DEFINE P == {ss \in Seq(Seq(Int)) :
                   Count(FlattenSeq(Prefixed(p, ss)), c)
                     = Len(ss) * Count(p, c) + Count(FlattenSeq(ss), c)}
<1>0. PICK k \in Nat : k = Count(p, c)
  BY CountTyped
<1>1. << >> \in P
  <2>1. << >> \in Seq(Seq(Int)) /\ Len(<< >>) = 0 /\ << >> \in Seq(Int)
    OBVIOUS
  <2>2. PICK m \in Nat : m = Count(<< >>, c)
    BY <2>1, CountTyped
  <2>3. 0 * k + m = m
    OBVIOUS
  <2> QED
    BY <1>0, <2>1, <2>2, <2>3, PrefixedEmpty, FlatEmpty, Zenon
<1>2. ASSUME NEW u \in Seq(Seq(Int)), NEW t \in Seq(Int), u \in P PROVE Append(u, t) \in P
  <2>1. Append(u, t) \in Seq(Seq(Int)) /\ Len(Append(u, t)) = Len(u) + 1
    BY AppendProperties
  <2>2. PICK f \in Seq(Seq(Int)) : f = Prefixed(p, u)
    BY PrefixedTyped
  <2>3. PICK pt \in Seq(Int) : pt = p \o t
    BY Joined
  <2>4. PICK a \in Seq(Int), b \in Seq(Int) : a = FlattenSeq(f) /\ b = FlattenSeq(u)
    BY <2>2, FlatTyped
  <2>5. FlattenSeq(Prefixed(p, Append(u, t))) = a \o pt /\ FlattenSeq(Append(u, t)) = b \o t
    BY <2>2, <2>3, <2>4, PrefixedAppend, FlatAppend, ZenonT(60)
  <2>6. PICK n \in Nat, x \in Nat, y \in Nat, z \in Nat :
          n = Len(u) /\ x = Count(a, c) /\ y = Count(b, c) /\ z = Count(t, c)
    BY CountTyped, LenProperties
  <2>7. Count(a \o pt, c) = x + (k + z) /\ Count(b \o t, c) = y + z
    <3>1. Count(pt, c) = k + z
      BY <1>0, <2>3, <2>6, CountConcat
    <3>2. Count(a \o pt, c) = x + Count(pt, c) /\ Count(b \o t, c) = y + z
      BY <2>6, CountConcat
    <3> QED
      BY <3>1, <3>2
  <2>8. x = n * k + y
    BY <1>0, <1>2, <2>2, <2>4, <2>6
  <2>9. x + (k + z) = (n + 1) * k + (y + z)
    <3>1. PICK e \in Int : e = n * k /\ (n + 1) * k = e + k
      OBVIOUS
    <3> QED
      BY <2>8, <3>1
  <2>10. Count(FlattenSeq(Prefixed(p, Append(u, t))), c)
           = Len(Append(u, t)) * Count(p, c) + Count(FlattenSeq(Append(u, t)), c)
    BY <1>0, <2>1, <2>5, <2>6, <2>7, <2>9, Zenon
  <2> QED
    BY <2>1, <2>10, Zenon
<1> HIDE DEF P
<1>3. \A ss \in Seq(Seq(Int)) : ss \in P
  BY <1>1, <1>2, InductiveSeq
<1> QED
  BY <1>3 DEF P

-----------------------------------------------------------------------------
(* The invariant.                                                          *)

TypeInv ==
  /\ value \in Values /\ title \in Titles
  /\ step \in {"begin", "wrap", "split", "layout", "titled", "marked", "plain", "done"}
  /\ text \in Seq(Int) /\ rest \in Seq(Int) /\ head \in Seq(Int) /\ tail \in Seq(Int)
  /\ pages \in Seq(Seq(Int))

\* hard_wrap: the lines so far and the rest are the value; no line break ends the
\* text.
Wrapping ==
  step = "wrap" =>
    /\ \A S \in Kinds : Only(text, S) \o Only(rest, S) = Only(value, S)
    /\ EndsWell(text)
    /\ text = << >> => rest # << >>
    /\ \A i \in 1 .. Len(rest) : rest[i] # BREAK

TextIsValue ==
  step \notin {"begin", "wrap"} =>
    /\ text # << >> /\ EndsWell(text)
    /\ \A S \in Kinds : Only(text, S) = Only(value, S)

TitleIsSplit ==
  step \notin {"begin", "wrap", "split"} =>
    /\ Only(head, OfTitles) \o Only(tail, OfTitles) = Only(title, OfTitles)
    /\ Only(tail, OfValue) = << >>

\* The pages ps and the rest r of src: a space a page may be hidden, none behind
\* the last one.
PagesOf(src, ps, r) ==
  /\ EndsWell(r)
  /\ \A S \in {OfValue, OfTitles} : Only(FlattenSeq(ps), S) \o Only(r, S) = Only(src, S)
  /\ Count(src, SPACE) + (IF r = << >> THEN 1 ELSE 0)
       <= Count(FlattenSeq(ps), SPACE) + Count(r, SPACE) + Len(ps)
  /\ ps = << >> => r # << >>

NoTitleIn(ps, r) ==
  /\ Only(r, OfTitles) = << >>
  /\ \A i \in 1 .. Len(ps) : Only(ps[i], OfTitles) = << >>

Paged ==
  /\ step = "plain" => PagesOf(Single, pages, rest)
  /\ step \in {"titled", "marked"} => PagesOf(text, pages, rest) /\ NoTitleIn(pages, rest)
  /\ step = "titled" => tail = << >>

NInv == TypeInv /\ Wrapping /\ TextIsValue /\ TitleIsSplit /\ Paged

-----------------------------------------------------------------------------

LEMMA ValueTyped ==
  ASSUME value \in Values
  PROVE  /\ value \in Seq(Int) /\ value # << >> /\ EndsWell(value)
         /\ \A i \in 1 .. Len(value) : value[i] # BREAK
         /\ Only(value, OfTitles) = << >>
<1>1. value \in Seq(Int) /\ value # << >> /\ \A i \in DOMAIN value : value[i] >= SPACE
  BY NanoAssumption
<1>2. PICK n \in Nat : n = Len(value) /\ n # 0 /\ DOMAIN value = 1 .. n
  BY <1>1, LenProperties, EmptySeq
<1>3. ASSUME NEW i \in 1 .. n PROVE value[i] # BREAK /\ value[i] \notin OfTitles
  <2>1. value[i] \in Int /\ value[i] >= SPACE
    BY <1>1, <1>2, ElementOfSeq
  <2> QED
    BY <2>1, NanoAssumption DEF OfTitles
<1>4. n \in 1 .. n
  BY <1>2
<1>5. EndsWell(value)
  BY <1>2, <1>3, <1>4 DEF EndsWell
<1>6. Only(value, OfTitles) = << >>
  BY <1>1, <1>2, <1>3, OnlyNone
<1> QED
  BY <1>1, <1>2, <1>3, <1>5, <1>6

LEMMA MeasuredLen ==
  ASSUME rest \in Seq(Int), rest # << >>, NEW measured \in Measured
  PROVE  AtLeastOne(measured) \in 1 .. Len(rest)
<1>1. PICK n \in Nat : n = Len(rest) /\ n # 0
  BY LenProperties, EmptySeq
<1>2. WINDOW \in Nat
  BY NanoAssumption
<1>3. measured \in 0 .. n
  BY <1>1, <1>2 DEF Measured
<1> QED
  BY <1>1, <1>3 DEF AtLeastOne

LEMMA InitInv == Init => NInv
<1> SUFFICES ASSUME Init PROVE NInv
  OBVIOUS
<1>1. << >> \in Seq(Int) /\ << >> \in Seq(Seq(Int))
  OBVIOUS
<1> QED
  BY <1>1 DEF Init, NInv, TypeInv, Wrapping, TextIsValue, TitleIsSplit, Paged

LEMMA BeginInv == ASSUME NInv, Begin PROVE NInv'
<1>1. /\ step = "begin" /\ value \in Values /\ title \in Titles
      /\ UNCHANGED <<value, title, head, tail, lines, pages, out>>
      /\ head \in Seq(Int) /\ tail \in Seq(Int) /\ pages \in Seq(Seq(Int))
  BY DEF Begin, item, NInv, TypeInv
<1>2. CASE Has(value, SPACE)
  <2>1. step' = "split" /\ text' = value /\ rest' = << >>
    BY <1>2 DEF Begin
  <2>2. << >> \in Seq(Int)
    OBVIOUS
  <2> QED
    BY <1>1, <2>1, <2>2, ValueTyped
       DEF NInv, TypeInv, Wrapping, TextIsValue, TitleIsSplit, Paged
<1>3. CASE ~Has(value, SPACE)
  <2>1. step' = "wrap" /\ text' = << >> /\ rest' = value
    BY <1>3 DEF Begin
  <2>2. << >> \in Seq(Int)
    OBVIOUS
  <2>3. TypeInv'
    BY <1>1, <2>1, <2>2, ValueTyped DEF TypeInv
  <2>4. Wrapping'
    <3>1. ASSUME NEW S \in Kinds PROVE Only(<< >>, S) \o Only(value, S) = Only(value, S)
      <4>1. Only(value, S) \in Seq(Int)
        BY <1>1, ValueTyped, OnlyTyped
      <4> QED
        BY <4>1, OnlyEmpty, ConcatEmptySeq
    <3>2. EndsWell(<< >>)
      BY DEF EndsWell
    <3>3. (\A S \in Kinds : Only(text, S) \o Only(rest, S) = Only(value, S))'
      BY <1>1, <2>1, <3>1
    <3>4. EndsWell(text)'
      BY <2>1, <3>2 DEF EndsWell
    <3>5. (text = << >> => rest # << >>)' /\ (\A i \in 1 .. Len(rest) : rest[i] # BREAK)'
      BY <1>1, <2>1, ValueTyped
    <3> QED
      BY <3>3, <3>4, <3>5 DEF Wrapping
  <2> QED
    BY <2>1, <2>3, <2>4 DEF NInv, TextIsValue, TitleIsSplit, Paged
<1> QED
  BY <1>2, <1>3

LEMMA WrapLineInv == ASSUME NInv, WrapLine PROVE NInv'
<1>1. /\ step = "wrap" /\ step' = "wrap" /\ rest # << >>
      /\ UNCHANGED <<value, title, head, tail, lines, pages, out>>
      /\ value \in Values /\ title \in Titles
      /\ head \in Seq(Int) /\ tail \in Seq(Int) /\ pages \in Seq(Seq(Int))
      /\ text \in Seq(Int) /\ rest \in Seq(Int)
  BY DEF WrapLine, item, NInv, TypeInv
<1>2. /\ \A S \in Kinds : Only(text, S) \o Only(rest, S) = Only(value, S)
      /\ \A i \in 1 .. Len(rest) : rest[i] # BREAK
  BY <1>1 DEF NInv, Wrapping
<1>3. PICK measured \in Measured :
        LET len == AtLeastOne(measured) IN
        /\ text' = text \o (IF text = << >> THEN << >> ELSE <<BREAK>>) \o SubSeq(rest, 1, len)
        /\ rest' = SubSeq(rest, len + 1, Len(rest))
  BY DEF WrapLine
<1>4. PICK n \in Nat : n = Len(rest) /\ n # 0
  BY <1>1, LenProperties, EmptySeq
<1>5. PICK len \in 1 .. n : len = AtLeastOne(measured)
  BY <1>1, <1>4, MeasuredLen
<1>0. PICK line, more : line = SubSeq(rest, 1, len) /\ more = SubSeq(rest, len + 1, n)
  OBVIOUS
<1>6. PICK br \in Seq(Int) :
        /\ br \in {<< >>, <<BREAK>>}
        /\ line = SubSeq(rest, 1, len) /\ more = SubSeq(rest, len + 1, n)
        /\ text' = (text \o br) \o line /\ rest' = more
  <2>1. PICK br : br = IF text = << >> THEN << >> ELSE <<BREAK>>
    OBVIOUS
  <2>2. br \in {<< >>, <<BREAK>>} /\ br \in Seq(Int)
    BY <2>1, OneChar, KindsHaveNoBreak
  <2>3. text' = (text \o br) \o line /\ rest' = more
    BY <1>0, <1>3, <1>4, <1>5, <2>1
  <2> QED
    BY <1>0, <2>2, <2>3, Zenon
<1>7. /\ line \in Seq(Int) /\ Len(line) = len /\ line[len] = rest[len]
      /\ more \in Seq(Int) /\ \A i \in 1 .. Len(more) : more[i] # BREAK
  <2>1. /\ 1 \in Int /\ len \in Int /\ len + 1 \in Int /\ n \in Int
        /\ \A i \in 1 .. len : rest[i] \in Int
        /\ \A i \in len + 1 .. n : rest[i] \in Int
    BY <1>1, <1>4, ElementOfSeq
  <2>2. line \in Seq(Int) /\ Len(line) = len /\ line[len] = rest[len]
    <3>1. /\ line \in Seq(Int) /\ Len(line) = (IF 1 <= len THEN len - 1 + 1 ELSE 0)
          /\ \A i \in 1 .. len - 1 + 1 : line[i] = rest[1 + i - 1]
      BY <1>6, <2>1, SubSeqProperties
    <3>2. len \in 1 .. len - 1 + 1 /\ 1 + len - 1 = len
      OBVIOUS
    <3> QED
      BY <3>1, <3>2
  <2>3. /\ more \in Seq(Int) /\ Len(more) = (IF len + 1 <= n THEN n - (len + 1) + 1 ELSE 0)
        /\ \A i \in 1 .. n - (len + 1) + 1 : more[i] = rest[(len + 1) + i - 1]
    BY <1>6, <2>1, SubSeqProperties
  <2>4. ASSUME NEW i \in 1 .. Len(more) PROVE more[i] # BREAK
    <3>1. i \in 1 .. n - (len + 1) + 1 /\ (len + 1) + i - 1 \in 1 .. n
      BY <2>3
    <3> QED
      BY <1>2, <1>4, <2>3, <3>1
  <2> QED
    BY <2>2, <2>3, <2>4
<1>8. rest = line \o more
  <2>1. /\ 1 \in 1 .. Len(rest) + 1 /\ len \in 1 - 1 .. Len(rest) /\ n \in len .. Len(rest)
    BY <1>4
  <2>2. SubSeq(rest, 1, len) \o SubSeq(rest, len + 1, n) = SubSeq(rest, 1, n)
    BY <1>1, <2>1, ConcatAdjacentSubSeq
  <2> QED
    BY <1>1, <1>4, <1>6, <2>2, SubSeqFull
<1>9. PICK x \in Seq(Int) : x = text \o br
  BY <1>1, <1>6, Joined
<1>10. text' \in Seq(Int) /\ text' = x \o line
  BY <1>6, <1>7, <1>9
<1>11. ASSUME NEW S \in Kinds PROVE Only(text', S) \o Only(rest', S) = Only(value, S)
  <2>1. BREAK \notin S
    BY KindsHaveNoBreak
  <2>2. Only(br, S) = << >>
    BY <1>6, <2>1, OnlyOne, OnlyEmpty, KindsHaveNoBreak
  <2>3. PICK a \in Seq(Int), b \in Seq(Int), c \in Seq(Int) :
          a = Only(text, S) /\ b = Only(line, S) /\ c = Only(more, S)
    BY <1>1, <1>7, OnlyTyped
  <2>4. Only(x, S) = a
    <3>1. Only(text \o br, S) = Only(text, S) \o Only(br, S)
      BY <1>1, <1>6, OnlyConcat
    <3>2. a \o << >> = a
      BY ConcatEmptySeq
    <3> QED
      BY <1>9, <2>2, <2>3, <3>1, <3>2
  <2>5. Only(text', S) = a \o b
    <3>1. Only(x \o line, S) = Only(x, S) \o Only(line, S)
      BY <1>7, <1>9, OnlyConcat
    <3> QED
      BY <1>10, <2>3, <2>4, <3>1
  <2>6. Only(rest, S) = b \o c
    BY <1>7, <1>8, <2>3, OnlyConcat, ZenonT(60)
  <2>7. (a \o b) \o c = a \o (b \o c)
    BY <2>3, ConcatTwice, ZenonT(60)
  <2> QED
    BY <1>2, <1>6, <2>3, <2>5, <2>6, <2>7
<1>12. line # << >> /\ EndsWell(line)
  <2>1. line # << >>
    BY <1>7
  <2>2. rest[len] # BREAK
    BY <1>2, <1>4
  <2> QED
    BY <1>7, <2>1, <2>2 DEF EndsWell
<1>13. EndsWell(text') /\ text' # << >>
  <2>1. EndsWell(x \o line)
    BY <1>7, <1>9, <1>12, ConcatEnds
  <2>2. x \o line # << >>
    BY <1>7, <1>9, <1>12
  <2> QED
    BY <1>10, <2>1, <2>2
<1>14. Wrapping'
  <2>1. EndsWell(text)'
    BY <1>13 DEF EndsWell
  <2>2. (\A S \in Kinds : Only(text, S) \o Only(rest, S) = Only(value, S))'
    BY <1>1, <1>11
  <2>3. (\A i \in 1 .. Len(rest) : rest[i] # BREAK)'
    BY <1>6, <1>7
  <2> QED
    BY <1>13, <2>1, <2>2, <2>3 DEF Wrapping
<1>15. TypeInv'
  BY <1>1, <1>6, <1>7, <1>10 DEF TypeInv
<1> QED
  BY <1>1, <1>14, <1>15 DEF NInv, TextIsValue, TitleIsSplit, Paged

LEMMA WrappedInv == ASSUME NInv, Wrapped PROVE NInv'
<1>1. /\ step = "wrap" /\ step' = "split" /\ rest = << >>
      /\ UNCHANGED <<value, title, head, tail, text, lines, rest, pages, out>>
      /\ TypeInv
  BY DEF Wrapped, item, NInv
<1>2. /\ \A S \in Kinds : Only(text, S) \o Only(rest, S) = Only(value, S)
      /\ EndsWell(text) /\ text # << >>
  BY <1>1 DEF NInv, Wrapping
<1>3. ASSUME NEW S \in Kinds PROVE Only(text, S) = Only(value, S)
  <2>1. Only(text, S) \in Seq(Int)
    BY <1>1, OnlyTyped DEF TypeInv
  <2>2. Only(text, S) \o << >> = Only(text, S)
    BY <2>1, ConcatEmptySeq
  <2>3. Only(rest, S) = << >>
    BY <1>1, OnlyEmpty
  <2> QED
    BY <1>2, <2>2, <2>3
<1>4. TypeInv'
  BY <1>1 DEF TypeInv
<1>5. TextIsValue'
  BY <1>1, <1>2, <1>3 DEF TextIsValue, EndsWell
<1> QED
  BY <1>1, <1>4, <1>5 DEF NInv, Wrapping, TitleIsSplit, Paged

LEMMA SplitTitleInv == ASSUME NInv, SplitTitle PROVE NInv'
<1>1. /\ step = "split" /\ step' = "layout" /\ TypeInv /\ TextIsValue
      /\ UNCHANGED <<value, title, text, lines, rest, pages, out>>
  BY DEF SplitTitle, item, NInv
<1>2. PICK cut \in 0 .. Len(title) :
        IF cut \in {0, Len(title)} THEN head' = title /\ tail' = << >>
        ELSE /\ head' = SubSeq(title, 1, SplitAt(cut))
             /\ tail' = RestFrom(SplitAt(cut))
  BY DEF SplitTitle
<1>3. title \in Titles
  BY <1>1 DEF TypeInv
<1>4. /\ head' \in Seq(Int) /\ tail' \in Seq(Int)
      /\ Only(head', OfTitles) \o Only(tail', OfTitles) = Only(title, OfTitles)
      /\ Only(tail', OfValue) = << >>
  <2>1. CASE cut \in {0, Len(title)}
    <3>1. head' = title /\ tail' = << >> /\ title \in Seq(Int) /\ << >> \in Seq(Int)
      BY <1>2, <1>3, <2>1, TitleTyped
    <3>2. Only(title, OfTitles) \o << >> = Only(title, OfTitles)
      BY <3>1, OnlyTyped, ConcatEmptySeq
    <3> QED
      BY <3>1, <3>2, OnlyEmpty
  <2>2. CASE cut \notin {0, Len(title)}
    <3>1. cut \in 1 .. Len(title) - 1
      BY <1>3, <2>2, TitleTyped
    <3>2. PICK at \in 1 .. Len(title) - 1 : at = SplitAt(cut)
      BY <1>3, <3>1, SplitInside
    <3>3. PICK h, t : h = SubSeq(title, 1, at) /\ t = RestFrom(at)
      OBVIOUS
    <3>4. h = head' /\ t = tail'
      BY <1>2, <2>2, <3>2, <3>3
    <3>5. /\ h \in Seq(Int) /\ t \in Seq(Int)
          /\ Only(h, OfTitles) \o Only(t, OfTitles) = Only(title, OfTitles)
          /\ Only(t, OfValue) = << >>
      BY <1>3, <3>2, <3>3, SplitKeeps
    <3> QED
      BY <3>4, <3>5
  <2> QED
    BY <2>1, <2>2
<1>5. TypeInv'
  BY <1>1, <1>4 DEF TypeInv
<1>6. TextIsValue'
  BY <1>1 DEF TextIsValue, EndsWell
<1>7. TitleIsSplit'
  BY <1>1, <1>4 DEF TitleIsSplit
<1> QED
  BY <1>1, <1>5, <1>6, <1>7 DEF NInv, Wrapping, Paged

-----------------------------------------------------------------------------
(* Layouts.                                                                *)

Laid == step \notin {"begin", "wrap", "split"}

\* The text the pages of a layout are cut from.
LEMMA TextKeeps ==
  ASSUME NInv, Laid
  PROVE  /\ text \in Seq(Int) /\ text # << >> /\ EndsWell(text)
         /\ Only(text, OfTitles) = << >> /\ Only(text, OfValue) = Only(value, OfValue)
         /\ Count(text, SPACE) = Count(value, SPACE)
<1>1. TypeInv /\ text # << >> /\ EndsWell(text) /\ \A S \in Kinds : Only(text, S) = Only(value, S)
  BY DEF NInv, Laid, TextIsValue
<1>2. Only(value, OfTitles) = << >>
  BY <1>1, ValueTyped DEF TypeInv
<1>3. OfTitles \in Kinds /\ OfValue \in Kinds /\ {SPACE} \in Kinds
  BY DEF Kinds
<1> QED
  BY <1>1, <1>2, <1>3 DEF TypeInv, Count

LEMMA SingleKeeps ==
  ASSUME NInv, Laid
  PROVE  /\ Single \in Seq(Int) /\ Single # << >> /\ EndsWell(Single)
         /\ Only(Single, OfTitles) = Only(tail, OfTitles)
         /\ Only(Single, OfValue) = Only(value, OfValue)
         /\ Count(Single, SPACE) = Count(tail, SPACE) + Count(value, SPACE)
<1>1. /\ text \in Seq(Int) /\ text # << >> /\ EndsWell(text)
      /\ Only(text, OfTitles) = << >> /\ Only(text, OfValue) = Only(value, OfValue)
      /\ Count(text, SPACE) = Count(value, SPACE)
  BY TextKeeps
<1>2. tail \in Seq(Int) /\ Only(tail, OfValue) = << >>
  BY DEF NInv, TypeInv, Laid, TitleIsSplit
<1>3. Count(text, SPACE) \in Nat
  BY <1>1, CountTyped
<1>4. CASE tail = << >>
  <2>1. Single = text
    BY <1>4 DEF Single, has_tail
  <2>2. Only(tail, OfTitles) = << >> /\ Count(tail, SPACE) = 0
    BY <1>4, OnlyEmpty DEF Count
  <2> QED
    BY <1>1, <1>3, <2>1, <2>2
<1>5. CASE tail # << >>
  <2>1. PICK br \in Seq(Int) : br = <<BREAK>> /\ br # << >>
    BY OneChar, KindsHaveNoBreak
  <2>2. PICK p \in Seq(Int) : p = tail \o br
    BY <1>2, Joined
  <2>3. PICK x \in Seq(Int) : x = p \o text
    BY <1>1, Joined
  <2>4. Single = x
    BY <1>5, <2>1, <2>2, <2>3 DEF Single, has_tail
  <2>5. x # << >>
    BY <1>1, <2>3
  <2>6. EndsWell(x)
    BY <1>1, <2>2, <2>3, ConcatEnds
  <2>7. ASSUME NEW S \in Kinds
        PROVE  Only(x, S) = Only(tail, S) \o Only(text, S)
    <3>1. Only(br, S) = << >>
      BY <2>1, OnlyOne, KindsHaveNoBreak
    <3>2. Only(tail \o br, S) = Only(tail, S) \o Only(br, S)
      BY <1>2, OnlyConcat
    <3>3. Only(tail, S) \in Seq(Int)
      BY <1>2, OnlyTyped
    <3>4. Only(tail, S) \o << >> = Only(tail, S)
      BY <3>3, ConcatEmptySeq
    <3>5. Only(p \o text, S) = Only(p, S) \o Only(text, S)
      BY <1>1, OnlyConcat
    <3> QED
      BY <2>2, <2>3, <3>1, <3>2, <3>4, <3>5
  <2>8. OfTitles \in Kinds /\ OfValue \in Kinds /\ {SPACE} \in Kinds
    BY DEF Kinds
  <2>9. Only(x, OfTitles) = Only(tail, OfTitles)
    <3>1. Only(tail, OfTitles) \in Seq(Int)
      BY <1>2, OnlyTyped
    <3>2. Only(tail, OfTitles) \o << >> = Only(tail, OfTitles)
      BY <3>1, ConcatEmptySeq
    <3> QED
      BY <1>1, <2>7, <2>8, <3>2
  <2>10. Only(x, OfValue) = Only(value, OfValue)
    <3>1. Only(text, OfValue) \in Seq(Int)
      BY <1>1, OnlyTyped
    <3>2. << >> \o Only(text, OfValue) = Only(text, OfValue)
      BY <3>1, ConcatEmptySeq
    <3> QED
      BY <1>1, <1>2, <2>7, <2>8, <3>2
  <2>11. Count(x, SPACE) = Count(tail, SPACE) + Count(value, SPACE)
    <3>1. Only(tail, {SPACE}) \in Seq(Int) /\ Only(text, {SPACE}) \in Seq(Int)
      BY <1>1, <1>2, OnlyTyped
    <3>2. Only(x, {SPACE}) = Only(tail, {SPACE}) \o Only(text, {SPACE})
      BY <2>7, <2>8
    <3>3. Len(Only(x, {SPACE})) = Len(Only(tail, {SPACE})) + Len(Only(text, {SPACE}))
      BY <3>1, <3>2, ConcatProperties
    <3> QED
      BY <1>1, <3>3 DEF Count
  <2> QED
    BY <2>4, <2>5, <2>6, <2>9, <2>10, <2>11
<1> QED
  BY <1>4, <1>5

\* Nothing is cut yet.
LEMMA NoPagesYet ==
  ASSUME NEW src \in Seq(Int), src # << >>, EndsWell(src)
  PROVE  PagesOf(src, << >>, src)
<1>1. ASSUME NEW S \in {OfValue, OfTitles}
      PROVE  Only(FlattenSeq(<< >>), S) \o Only(src, S) = Only(src, S)
  <2>1. Only(src, S) \in Seq(Int)
    BY OnlyTyped
  <2>2. << >> \o Only(src, S) = Only(src, S)
    BY <2>1, ConcatEmptySeq
  <2> QED
    BY <2>2, FlatEmpty, OnlyEmpty
<1>2. Count(FlattenSeq(<< >>), SPACE) = 0
  BY FlatEmpty, OnlyEmpty DEF Count
<1>3. PICK k \in Nat : k = Count(src, SPACE)
  BY CountTyped
<1>4. Len(<< >>) = 0
  OBVIOUS
<1> QED
  BY <1>1, <1>2, <1>3, <1>4, SMTT(30) DEF PagesOf

LEMMA CutInv ==
  ASSUME NInv, Laid, UNCHANGED <<value, title, head, tail, text, out>>,
         NEW layout \in {"titled", "marked", "plain"}, NEW n, NEW t, Cut(layout, n, t),
         t = IF layout = "plain" THEN Single ELSE text,
         layout = "titled" => tail = << >>
  PROVE  NInv'
<1>1. /\ step' = layout /\ rest' = t /\ pages' = << >> /\ TypeInv /\ Laid
      /\ text' = text /\ tail' = tail /\ head' = head /\ title' = title /\ value' = value
  BY DEF Cut, NInv
<1>2. t \in Seq(Int) /\ t # << >> /\ EndsWell(t) /\ PagesOf(t, << >>, t)
  BY TextKeeps, SingleKeeps, NoPagesYet
<1>3. Single' = Single
  BY <1>1 DEF Single, has_tail
<1>4. TypeInv'
  <2>1. << >> \in Seq(Seq(Int))
    OBVIOUS
  <2> QED
    BY <1>1, <1>2, <2>1 DEF TypeInv
<1>5. TextIsValue' /\ TitleIsSplit'
  BY <1>1 DEF TextIsValue, TitleIsSplit, Laid, NInv, EndsWell
<1>6. layout = "plain" => PagesOf(Single', pages', rest')
  BY <1>1, <1>2, <1>3
<1>7. layout # "plain" => PagesOf(text', pages', rest') /\ NoTitleIn(pages', rest')
  <2> SUFFICES ASSUME layout # "plain" PROVE PagesOf(text', pages', rest') /\ NoTitleIn(pages', rest')
    OBVIOUS
  <2>1. t = text /\ Only(text, OfTitles) = << >> /\ Len(<< >>) = 0
    BY TextKeeps
  <2> QED
    BY <1>1, <1>2, <2>1 DEF NoTitleIn
<1>8. Paged'
  <2>1. /\ (step = "plain")' => PagesOf(Single, pages, rest)'
        /\ (step \in {"titled", "marked"})' => (PagesOf(text, pages, rest) /\ NoTitleIn(pages, rest))'
    BY <1>1, <1>6, <1>7 DEF PagesOf, NoTitleIn, EndsWell
  <2> QED
    BY <1>1, <2>1 DEF Paged
<1> QED
  BY <1>1, <1>4, <1>5, <1>8 DEF NInv, Wrapping

LEMMA TryMarkedInv ==
  ASSUME NInv, Laid, UNCHANGED <<value, title, head, tail, text, out>>, NEW n, TryMarked(n)
  PROVE  NInv'
<1>1. CASE n >= 1
  BY <1>1, CutInv DEF TryMarked
<1>2. CASE ~(n >= 1)
  BY <1>2, CutInv DEF TryMarked
<1> QED
  BY <1>1, <1>2

LEMMA SeveralPagesInv == ASSUME NInv, SeveralPages PROVE NInv'
<1>1. Laid /\ UNCHANGED <<value, title, head, tail, text, out>>
  BY DEF SeveralPages, item, Laid
<1>2. CASE has_tail
  BY <1>1, <1>2, TryMarkedInv DEF SeveralPages
<1>3. CASE ~has_tail
  <2>1. Cut("titled", VALUE_LINES, text) /\ tail = << >>
    BY <1>3 DEF SeveralPages, has_tail
  <2> QED
    BY <1>1, <2>1, CutInv
<1> QED
  BY <1>2, <1>3

LEMMA LayoutTooLargeInv == ASSUME NInv, LayoutTooLarge PROVE NInv'
<1>1. Laid /\ UNCHANGED <<value, title, head, tail, text, out>> /\ TryMarked(FewerLines)
  BY DEF LayoutTooLarge, item, Laid
<1> QED
  BY <1>1, TryMarkedInv

LEMMA OneSpaceMore ==
  \A a, b, c, d, e, n \in Nat, z \in {0, 1} :
    a <= b + c + n /\ c <= d + e + (1 - z) => a + z <= (b + d) + e + (n + 1)
OBVIOUS

\* One more page of src.
LEMMA PageAdded ==
  ASSUME NEW src \in Seq(Int), pages \in Seq(Seq(Int)), rest \in Seq(Int),
         PagesOf(src, pages, rest), NEW page \in Seq(Int), NEW r \in Seq(Int), EndsWell(r),
         \A S \in {OfValue, OfTitles} : Only(rest, S) = Only(page, S) \o Only(r, S),
         Count(rest, SPACE) <=
           Count(page, SPACE) + Count(r, SPACE) + (IF r = << >> THEN 0 ELSE 1)
  PROVE  /\ PagesOf(src, Append(pages, page), r)
         /\ NoTitleIn(pages, rest) => NoTitleIn(Append(pages, page), r)
<1>1. /\ EndsWell(rest)
      /\ \A S \in {OfValue, OfTitles} : Only(FlattenSeq(pages), S) \o Only(rest, S) = Only(src, S)
      /\ Count(src, SPACE) + (IF rest = << >> THEN 1 ELSE 0)
           <= Count(FlattenSeq(pages), SPACE) + Count(rest, SPACE) + Len(pages)
  BY DEF PagesOf
<1>2. /\ page \in Seq(Int) /\ r \in Seq(Int) /\ EndsWell(r)
      /\ \A S \in {OfValue, OfTitles} : Only(rest, S) = Only(page, S) \o Only(r, S)
      /\ Count(rest, SPACE) <=
           Count(page, SPACE) + Count(r, SPACE) + (IF r = << >> THEN 0 ELSE 1)
  OBVIOUS
<1>3. PICK f \in Seq(Int) : f = FlattenSeq(pages)
  BY FlatTyped
<1>4. FlattenSeq(Append(pages, page)) = f \o page
  BY <1>2, <1>3, FlatAppend
<1>5. PICK n \in Nat : n = Len(pages)
  BY LenProperties
<1>6. PICK ps \in Seq(Seq(Int)) : ps = Append(pages, page)
  <2>1. Append(pages, page) \in Seq(Seq(Int))
    BY <1>2, AppendProperties
  <2> QED
    BY <2>1, Zenon
<1>7. Len(ps) = n + 1 /\ (\A k \in 1 .. n : ps[k] = pages[k]) /\ ps[n + 1] = page
  BY <1>2, <1>5, <1>6, AppendProperties
<1>8. ASSUME NEW S \in {OfValue, OfTitles}
      PROVE  Only(FlattenSeq(ps), S) \o Only(r, S) = Only(src, S)
  <2>1. PICK a \in Seq(Int), b \in Seq(Int), c \in Seq(Int) :
          a = Only(f, S) /\ b = Only(page, S) /\ c = Only(r, S)
    BY <1>2, <1>3, OnlyTyped
  <2>2. Only(f \o page, S) = a \o b
    <3>1. Only(f \o page, S) = Only(f, S) \o Only(page, S)
      BY <1>3, OnlyConcat
    <3> QED
      BY <2>1, <3>1
  <2>3. (a \o b) \o c = a \o (b \o c)
    BY ConcatTwice, ZenonT(60)
  <2>4. Only(f, S) \o Only(rest, S) = Only(src, S) /\ Only(rest, S) = b \o c
    BY <1>1, <1>2, <1>3, <2>1
  <2> QED
    BY <1>4, <1>6, <2>1, <2>2, <2>3, <2>4
<1>9. Count(src, SPACE) + (IF r = << >> THEN 1 ELSE 0)
        <= Count(FlattenSeq(ps), SPACE) + Count(r, SPACE) + Len(ps)
  <2>1. PICK a \in Nat, b \in Nat, c \in Nat, d \in Nat, e \in Nat :
          /\ a = Count(src, SPACE) /\ b = Count(f, SPACE) /\ c = Count(rest, SPACE)
          /\ d = Count(page, SPACE) /\ e = Count(r, SPACE)
    BY <1>2, <1>3, CountTyped
  <2>2. Count(f \o page, SPACE) = b + d
    BY <1>2, <1>3, <2>1, CountConcat
  <2>3. a + (IF rest = << >> THEN 1 ELSE 0) <= b + c + n
    BY <1>1, <1>3, <1>5, <2>1
  <2>4. c <= d + e + (IF r = << >> THEN 0 ELSE 1)
    BY <1>2, <2>1
  <2>5. a + (IF r = << >> THEN 1 ELSE 0) <= (b + d) + e + (n + 1)
    <3>1. a <= b + c + n
      BY <2>3
    <3>2. PICK z \in {0, 1} : z = IF r = << >> THEN 1 ELSE 0
      OBVIOUS
    <3>3. c <= d + e + (1 - z)
      BY <2>4, <3>2
    <3>4. a + z <= (b + d) + e + (n + 1)
      BY <3>1, <3>3, OneSpaceMore
    <3> QED
      BY <3>2, <3>4
  <2> QED
    BY <1>4, <1>6, <1>7, <2>1, <2>2, <2>5, Zenon
<1>10. ps # << >>
  BY <1>7
<1>11. PagesOf(src, ps, r)
  BY <1>2, <1>8, <1>9, <1>10 DEF PagesOf
<1>12. ASSUME NoTitleIn(pages, rest) PROVE NoTitleIn(ps, r)
  <2>1. PICK b \in Seq(Int), c \in Seq(Int) : b = Only(page, OfTitles) /\ c = Only(r, OfTitles)
    BY <1>2, OnlyTyped
  <2>2. b \o c = << >>
    BY <1>2, <1>12, <2>1 DEF NoTitleIn
  <2>3. b = << >> /\ c = << >>
    BY <2>1, <2>2
  <2>4. ASSUME NEW i \in 1 .. n + 1 PROVE Only(ps[i], OfTitles) = << >>
    <3>1. CASE i = n + 1
      BY <1>7, <2>1, <2>3, <3>1
    <3>2. CASE i # n + 1
      <4>1. i \in 1 .. n
        BY <3>2
      <4> QED
        BY <1>5, <1>7, <1>12, <4>1 DEF NoTitleIn
    <3> QED
      BY <3>1, <3>2
  <2> QED
    BY <1>7, <2>1, <2>3, <2>4 DEF NoTitleIn
<1> QED
  BY <1>2, <1>6, <1>11, <1>12

LEMMA NextPageInv == ASSUME NInv, NextPage PROVE NInv'
<1>1. /\ step \in {"titled", "marked", "plain"} /\ rest # << >> /\ TypeInv /\ Laid
      /\ UNCHANGED <<value, title, head, tail, text, step, lines, out>>
      /\ rest \in Seq(Int) /\ pages \in Seq(Seq(Int))
  BY DEF NextPage, item, Paging, NInv, TypeInv, Laid
<1>2. PICK measured \in Measured :
        LET len == AtLeastOne(measured) IN
        /\ pages' = Append(pages, SubSeq(rest, 1, Take(len)))
        /\ rest' = AfterBreak(Take(len), len)
  BY DEF NextPage
<1>3. PICK len \in 1 .. Len(rest) : len = AtLeastOne(measured)
  BY <1>1, MeasuredLen
<1>4. PICK page, r : page = SubSeq(rest, 1, Take(len)) /\ r = AfterBreak(Take(len), len)
  OBVIOUS
<1>5. pages' = Append(pages, page) /\ rest' = r
  BY <1>2, <1>3, <1>4
<1>6. PICK src \in Seq(Int) : src = IF step = "plain" THEN Single ELSE text
  BY <1>1, SingleKeeps, TextKeeps
<1>7. PagesOf(src, pages, rest) /\ (step # "plain" => NoTitleIn(pages, rest))
  BY <1>1, <1>6 DEF NInv, Paged
<1>8. /\ page \in Seq(Int) /\ r \in Seq(Int)
      /\ PagesOf(src, pages', rest')
      /\ NoTitleIn(pages, rest) => NoTitleIn(pages', rest')
  <2>1. EndsWell(rest)
    BY <1>7 DEF PagesOf
  <2>2. /\ page \in Seq(Int) /\ r \in Seq(Int) /\ EndsWell(r)
        /\ \A S \in {OfValue, OfTitles} : Only(rest, S) = Only(page, S) \o Only(r, S)
        /\ Count(rest, SPACE) <=
             Count(page, SPACE) + Count(r, SPACE) + (IF r = << >> THEN 0 ELSE 1)
    BY <1>1, <1>4, <2>1, PageKeeps, ZenonT(60)
  <2>3. /\ PagesOf(src, Append(pages, page), r)
        /\ NoTitleIn(pages, rest) => NoTitleIn(Append(pages, page), r)
    BY <1>1, <1>6, <1>7, <2>2, PageAdded
  <2> QED
    BY <1>5, <2>2, <2>3
<1>9. TypeInv'
  <2>1. Append(pages, page) \in Seq(Seq(Int))
    BY <1>1, <1>8, AppendProperties
  <2> QED
    BY <1>1, <1>5, <1>8, <2>1 DEF TypeInv
<1>10. Single' = Single
  BY <1>1 DEF Single, has_tail
<1>11. Paged'
  <2>1. /\ (step = "plain")' => PagesOf(Single', pages', rest')
        /\ (step # "plain")' => PagesOf(text', pages', rest') /\ NoTitleIn(pages', rest')
    BY <1>1, <1>6, <1>7, <1>8, <1>10
  <2>2. /\ (step = "plain")' => PagesOf(Single, pages, rest)'
        /\ (step \in {"titled", "marked"})' => (PagesOf(text, pages, rest) /\ NoTitleIn(pages, rest))'
    BY <2>1 DEF PagesOf, NoTitleIn, EndsWell
  <2>3. (step = "titled" => tail = << >>)'
    BY <1>1 DEF NInv, Paged
  <2> QED
    BY <2>2, <2>3 DEF Paged
<1>12. TextIsValue' /\ TitleIsSplit'
  BY <1>1 DEF TextIsValue, TitleIsSplit, Laid, NInv, EndsWell
<1> QED
  BY <1>1, <1>9, <1>11, <1>12 DEF NInv, Wrapping

LEMMA FinishInv ==
  ASSUME NInv, Laid, UNCHANGED <<value, title, head, tail, text, lines, rest, pages>>,
         step' = "done"
  PROVE  NInv'
<1>1. TypeInv'
  BY DEF NInv, TypeInv
<1>2. TextIsValue' /\ TitleIsSplit'
  BY DEF TextIsValue, TitleIsSplit, Laid, NInv, EndsWell
<1> QED
  BY <1>1, <1>2 DEF NInv, Wrapping, Paged

LEMMA StutterInv == ASSUME NInv, UNCHANGED vars PROVE NInv'
<1>1. UNCHANGED <<value, title, head, tail, text, step, lines, rest, pages, out>>
  BY DEF vars
<1>2. Single' = Single
  BY <1>1 DEF Single, has_tail
<1>3. TypeInv' /\ Wrapping' /\ TextIsValue' /\ TitleIsSplit'
  BY <1>1 DEF NInv, TypeInv, Wrapping, TextIsValue, TitleIsSplit, EndsWell
<1>4. Paged'
  BY <1>1, <1>2 DEF NInv, Paged, PagesOf, NoTitleIn, EndsWell
<1> QED
  BY <1>3, <1>4 DEF NInv

LEMMA NextInv == ASSUME NInv, [Next]_vars PROVE NInv'
<1>1. CASE Begin
  BY <1>1, BeginInv
<1>2. CASE WrapLine
  BY <1>2, WrapLineInv
<1>3. CASE Wrapped
  BY <1>3, WrappedInv
<1>4. CASE SplitTitle
  BY <1>4, SplitTitleInv
<1>5. CASE OnePage
  BY <1>5, FinishInv DEF OnePage, item, Laid
<1>6. CASE SeveralPages
  BY <1>6, SeveralPagesInv
<1>7. CASE NextPage
  BY <1>7, NextPageInv
<1>8. CASE LayoutFits
  BY <1>8, FinishInv DEF LayoutFits, item, Laid, Paging
<1>9. CASE LayoutTooLarge
  BY <1>9, LayoutTooLargeInv
<1>10. CASE UNCHANGED vars
  BY <1>10, StutterInv
<1> QED
  BY <1>1, <1>2, <1>3, <1>4, <1>5, <1>6, <1>7, <1>8, <1>9, <1>10 DEF Next

-----------------------------------------------------------------------------
(* The fields of an item.                                                  *)

\* When everything is cut, the pages are the text they were cut from.
LEMMA AllCut ==
  ASSUME NInv, Paging, rest = << >>
  PROVE  /\ FlattenSeq(pages) \in Seq(Int) /\ Len(pages) \in Nat \ {0}
         /\ Only(FlattenSeq(pages), OfValue) = Only(value, OfValue)
         /\ Only(FlattenSeq(pages), OfTitles)
              = IF step = "plain" THEN Only(tail, OfTitles) ELSE << >>
         /\ Count(value, SPACE) + (IF step = "plain" THEN Count(tail, SPACE) ELSE 0)
              <= Count(FlattenSeq(pages), SPACE) + (Len(pages) - 1)
<1>1. Laid /\ pages \in Seq(Seq(Int)) /\ tail \in Seq(Int) /\ value \in Seq(Int)
      /\ step \in {"titled", "marked", "plain"}
  BY ValueTyped DEF NInv, TypeInv, Laid, Paging
<1>2. PICK src \in Seq(Int) : src = IF step = "plain" THEN Single ELSE text
  BY <1>1, SingleKeeps, TextKeeps
<1>3. PagesOf(src, pages, << >>)
  BY <1>1, <1>2 DEF NInv, Paged
<1>4. PICK f \in Seq(Int) : f = FlattenSeq(pages)
  BY <1>1, FlatTyped
<1>5. ASSUME NEW S \in {OfValue, OfTitles} PROVE Only(f, S) = Only(src, S)
  <2>1. Only(f, S) \o Only(<< >>, S) = Only(src, S)
    BY <1>3, <1>4 DEF PagesOf
  <2>2. Only(f, S) \o << >> = Only(f, S)
    BY OnlyTyped, ConcatEmptySeq
  <2> QED
    BY <2>1, <2>2, OnlyEmpty
<1>6. pages # << >> /\ Count(src, SPACE) + 1 <= Count(f, SPACE) + Count(<< >>, SPACE) + Len(pages)
  BY <1>3, <1>4 DEF PagesOf
<1>7. Count(<< >>, SPACE) = 0
  BY OnlyEmpty DEF Count
<1>8. PICK n \in Nat : n = Len(pages) /\ n # 0
  BY <1>1, <1>6, LenProperties, EmptySeq
<1>9. PICK a \in Nat, b \in Nat, c \in Nat, d \in Nat :
        a = Count(src, SPACE) /\ b = Count(f, SPACE) /\ c = Count(value, SPACE) /\ d = Count(tail, SPACE)
  BY <1>1, <1>2, <1>4, CountTyped
<1>10. a <= b + (n - 1)
  BY <1>6, <1>7, <1>8, <1>9, SMTT(30)
<1>11. CASE step = "plain"
  <2>1. /\ Only(src, OfTitles) = Only(tail, OfTitles) /\ Only(src, OfValue) = Only(value, OfValue)
        /\ a = d + c
    BY <1>1, <1>2, <1>9, <1>11, SingleKeeps
  <2>2. c + d <= b + (n - 1)
    BY <1>10, <2>1
  <2> QED
    BY <1>4, <1>5, <1>8, <1>9, <1>11, <2>1, <2>2
<1>12. CASE step # "plain"
  <2>1. /\ Only(src, OfTitles) = << >> /\ Only(src, OfValue) = Only(value, OfValue)
        /\ a = c
    BY <1>1, <1>2, <1>9, <1>12, TextKeeps
  <2>2. c + 0 <= b + (n - 1)
    BY <1>10, <2>1
  <2> QED
    BY <1>4, <1>5, <1>8, <1>9, <1>12, <2>1, <2>2
<1> QED
  BY <1>11, <1>12

\* The rest of the title and the line break behind it.
LEMMA PrefixIsTail ==
  ASSUME tail \in Seq(Int)
  PROVE  /\ tail \o <<BREAK>> \in Seq(Int)
         /\ \A S \in Kinds : Only(tail \o <<BREAK>>, S) = Only(tail, S)
<1>1. PICK br \in Seq(Int) : br = <<BREAK>>
  BY OneChar, KindsHaveNoBreak
<1>2. ASSUME NEW S \in Kinds PROVE Only(tail \o br, S) = Only(tail, S)
  <2>1. Only(br, S) = << >>
    BY <1>1, OnlyOne, KindsHaveNoBreak
  <2>2. Only(tail \o br, S) = Only(tail, S) \o Only(br, S)
    BY OnlyConcat
  <2>3. Only(tail, S) \o << >> = Only(tail, S)
    BY OnlyTyped, ConcatEmptySeq
  <2> QED
    BY <2>1, <2>2, <2>3
<1> QED
  BY <1>1, <1>2, ConcatProperties

\* The fields of pages that fit.
LEMMA FitsOut ==
  ASSUME NInv, LayoutFits
  PROVE  /\ Texts' = IF step = "marked" /\ has_tail
                       THEN Prefixed(tail \o <<BREAK>>, pages) ELSE pages
         /\ DOMAIN out' = 1 .. Len(pages) /\ Len(out') = Len(pages)
         /\ \A i \in 1 .. Len(pages) : out'[i].marked = (step # "plain")
<1>1. PICK n \in Nat : n = Len(pages) /\ DOMAIN pages = 1 .. n /\ pages \in Seq(Seq(Int))
  BY LenProperties DEF NInv, TypeInv
<1>2. PICK o : o = out'
  OBVIOUS
<1>3. o = [i \in 1 .. n |->
             [text |-> IF step = "marked" /\ has_tail
                         THEN tail \o <<BREAK>> \o pages[i] ELSE pages[i],
              marked |-> step # "plain"]]
  BY <1>1, <1>2 DEF LayoutFits
<1>4. /\ DOMAIN o = 1 .. n /\ Len(o) = n
      /\ \A i \in 1 .. n : o[i].marked = (step # "plain")
      /\ \A i \in 1 .. n : o[i].text = IF step = "marked" /\ has_tail
                                         THEN tail \o <<BREAK>> \o pages[i] ELSE pages[i]
  <2> DEFINE Field(i) == IF step = "marked" /\ has_tail
                           THEN tail \o <<BREAK>> \o pages[i] ELSE pages[i]
  <2>1. PICK m : m = (step # "plain")
    OBVIOUS
  <2>2. o = [i \in 1 .. n |-> [text |-> Field(i), marked |-> m]]
    BY <1>3, <2>1, Zenon
  <2> HIDE DEF Field
  <2>3. DOMAIN o = 1 .. n /\ Len(o) = n
    BY <2>2
  <2>4. \A i \in 1 .. n : o[i].marked = m /\ o[i].text = Field(i)
    BY <2>2
  <2> QED
    BY <2>1, <2>3, <2>4, Zenon DEF Field
<1>5. Texts' = [i \in 1 .. n |-> o[i].text]
  BY <1>2, <1>4 DEF Texts
<1>6. CASE step = "marked" /\ has_tail
  <2>1. Prefixed(tail \o <<BREAK>>, pages) = [i \in 1 .. n |-> tail \o <<BREAK>> \o pages[i]]
    BY <1>1 DEF Prefixed
  <2>2. Texts' = [i \in 1 .. n |-> tail \o <<BREAK>> \o pages[i]]
    BY <1>4, <1>5, <1>6
  <2> QED
    BY <1>1, <1>2, <1>4, <1>6, <2>1, <2>2
<1>7. CASE ~(step = "marked" /\ has_tail)
  <2>1. pages = [i \in 1 .. n |-> pages[i]]
    BY <1>1
  <2>2. Texts' = [i \in 1 .. n |-> pages[i]]
    BY <1>4, <1>5, <1>7
  <2> QED
    BY <1>1, <1>2, <1>4, <1>7, <2>1, <2>2
<1> QED
  BY <1>6, <1>7

-----------------------------------------------------------------------------
(* NothingHidden and TitleIsWhole of a finished item.                      *)

\* What there is on one page.
LEMMA OnePageOut ==
  ASSUME NInv, OnePage
  PROVE  /\ AllText' = Single /\ Len(out') = 1 /\ Tails' = 1
         /\ Single \in Seq(Int) /\ tail \in Seq(Int) /\ value \in Seq(Int) /\ head \in Seq(Int)
         /\ Laid /\ UNCHANGED <<value, title, head, tail>>
<1>1. Laid /\ UNCHANGED <<value, title, head, tail>>
  BY DEF OnePage, item, Laid
<1>2. Single \in Seq(Int) /\ tail \in Seq(Int) /\ value \in Seq(Int) /\ head \in Seq(Int)
  BY <1>1, SingleKeeps, ValueTyped DEF NInv, TypeInv
<1>3. PICK x \in Seq(Int) : x = Single
  BY <1>2
<1>4. PICK o : o = out'
  OBVIOUS
<1>5. o = <<[text |-> x, marked |-> FALSE]>>
  BY <1>3, <1>4 DEF OnePage
<1>6. Len(o) = 1 /\ DOMAIN o = 1 .. 1 /\ o[1].text = x /\ ~o[1].marked
  BY <1>5
<1>7. Texts' = Append(<< >>, x)
  <2>1. Texts' = [i \in 1 .. 1 |-> o[i].text]
    BY <1>4, <1>6 DEF Texts
  <2>2. [i \in 1 .. 1 |-> o[i].text] = [i \in 1 .. 1 |-> x]
    BY <1>6
  <2>3. [i \in 1 .. 1 |-> x] = Append(<< >>, x)
    OBVIOUS
  <2> QED
    BY <2>1, <2>2, <2>3
<1>8. AllText' = x
  <2>1. << >> \in Seq(Seq(Int))
    OBVIOUS
  <2>2. FlattenSeq(Append(<< >>, x)) = FlattenSeq(<< >>) \o x
    BY <2>1, FlatAppend
  <2>3. << >> \o x = x
    BY ConcatEmptySeq
  <2> QED
    BY <1>7, <2>2, <2>3, FlatEmpty DEF AllText
<1>9. Tails' = 1
  <2>1. ~ \E i \in DOMAIN o : o[i].marked
    <3>1. \A i \in 1 .. 1 : i = 1
      BY SMTT(30)
    <3> QED
      BY <1>6, <3>1
  <2> QED
    BY <1>4, <2>1 DEF Tails
<1> QED
  BY <1>1, <1>2, <1>3, <1>4, <1>6, <1>8, <1>9

LEMMA OnePageHides ==
  ASSUME NInv, OnePage
  PROVE  NothingHidden' /\ TitleIsWhole'
<1>1. /\ AllText' = Single /\ Len(out') = 1 /\ Tails' = 1
      /\ Single \in Seq(Int) /\ tail \in Seq(Int) /\ value \in Seq(Int) /\ head \in Seq(Int)
      /\ Laid /\ UNCHANGED <<value, title, head, tail>>
  BY OnePageOut
<1>2. /\ Only(Single, OfTitles) = Only(tail, OfTitles)
      /\ Only(Single, OfValue) = Only(value, OfValue)
      /\ Count(Single, SPACE) = Count(tail, SPACE) + Count(value, SPACE)
  BY <1>1, SingleKeeps
<1>3. Shown(AllText)' = Shown(value)'
  BY <1>1, <1>2 DEF Shown, OfValue
<1>4. Count(AllText', SPACE)
        >= Count(value', SPACE) + Tails' * Count(tail', SPACE) - (Len(out') - 1)
  <2>1. PICK a \in Nat, b \in Nat : a = Count(tail, SPACE) /\ b = Count(value, SPACE)
    BY <1>1, CountTyped
  <2>2. a + b >= b + 1 * a - (1 - 1)
    OBVIOUS
  <2> QED
    BY <1>1, <1>2, <2>1, <2>2
<1>5. OfTitle(head' \o AllText') = OfTitle(title')
  <2>1. Only(head \o Single, OfTitles) = Only(head, OfTitles) \o Only(Single, OfTitles)
    BY <1>1, OnlyConcat
  <2>2. Only(head, OfTitles) \o Only(tail, OfTitles) = Only(title, OfTitles)
    BY <1>1 DEF NInv, TitleIsSplit, Laid
  <2>3. Only(head' \o AllText', OfTitles) = Only(title', OfTitles)
    BY <1>1, <1>2, <2>1, <2>2
  <2> QED
    BY <2>3 DEF OfTitle, OfTitles
<1> QED
  BY <1>3, <1>4, <1>5 DEF NothingHidden, TitleIsWhole, Count, OfTitle, Only

LEMMA LayoutFitsHides ==
  ASSUME NInv, LayoutFits
  PROVE  NothingHidden' /\ TitleIsWhole'
<1>1. /\ Paging /\ rest = << >> /\ Laid /\ UNCHANGED <<value, title, head, tail>>
      /\ tail \in Seq(Int) /\ value \in Seq(Int) /\ head \in Seq(Int) /\ pages \in Seq(Seq(Int))
      /\ step \in {"titled", "marked", "plain"}
  BY ValueTyped DEF LayoutFits, item, Laid, Paging, NInv, TypeInv
<1>2. PICK f \in Seq(Int), n \in Nat :
        /\ f = FlattenSeq(pages) /\ n = Len(pages) /\ n # 0
        /\ Only(f, OfValue) = Only(value, OfValue)
        /\ Only(f, OfTitles) = IF step = "plain" THEN Only(tail, OfTitles) ELSE << >>
        /\ Count(value, SPACE) + (IF step = "plain" THEN Count(tail, SPACE) ELSE 0)
             <= Count(f, SPACE) + (n - 1)
  BY <1>1, AllCut
<1>3. /\ DOMAIN out' = 1 .. n /\ Len(out') = n
      /\ \A i \in 1 .. n : out'[i].marked = (step # "plain")
      /\ Texts' = IF step = "marked" /\ has_tail
                    THEN Prefixed(tail \o <<BREAK>>, pages) ELSE pages
  BY <1>2, FitsOut
<1>4. Tails' = IF step = "plain" THEN 1 ELSE n
  <2>1. 1 \in 1 .. n
    BY <1>2
  <2> QED
    BY <1>3, <2>1 DEF Tails
<1>5. Only(head, OfTitles) \o Only(tail, OfTitles) = Only(title, OfTitles)
      /\ Only(tail, OfValue) = << >>
  BY <1>1 DEF NInv, TitleIsSplit, Laid
<1>6. PICK a \in Nat, b \in Nat, c \in Nat :
        a = Count(tail, SPACE) /\ b = Count(value, SPACE) /\ c = Count(f, SPACE)
  BY <1>1, <1>2, CountTyped
<1>7. CASE step = "marked" /\ has_tail
  <2>1. PICK p \in Seq(Int) : p = tail \o <<BREAK>> /\ \A S \in Kinds : Only(p, S) = Only(tail, S)
    BY <1>1, PrefixIsTail
  <2>2. OfTitles \in Kinds /\ OfValue \in Kinds /\ {SPACE} \in Kinds
    BY DEF Kinds
  <2>3. PICK ps : ps = Prefixed(p, pages)
    OBVIOUS
  <2>4. AllText' = FlattenSeq(ps)
    BY <1>3, <1>7, <2>1, <2>3 DEF AllText
  <2>5. Only(FlattenSeq(ps), OfValue) = Only(value, OfValue)
    BY <1>1, <1>2, <1>5, <2>1, <2>2, <2>3, PrefixedKeeps, ZenonT(60)
  <2>6. Count(FlattenSeq(ps), SPACE) = n * a + c
    <3>1. Count(FlattenSeq(ps), SPACE) = Len(pages) * Count(p, SPACE) + Count(FlattenSeq(pages), SPACE)
      BY <1>1, <2>3, PrefixedCount
    <3>2. Count(p, SPACE) = a
      BY <1>6, <2>1, <2>2 DEF Count
    <3> QED
      BY <1>2, <1>6, <3>1, <3>2
  <2>7. NothingHidden'
    <3>1. b <= c + (n - 1)
      BY <1>2, <1>6, <1>7
    <3>2. PICK e \in Int : e = n * a
      OBVIOUS
    <3>3. e + c >= b + e - (n - 1)
      BY <3>1
    <3>4. Count(AllText', SPACE)
            >= Count(value', SPACE) + Tails' * Count(tail', SPACE) - (Len(out') - 1)
      BY <1>1, <1>3, <1>4, <1>6, <1>7, <2>4, <2>6, <3>2, <3>3
    <3>5. Shown(AllText') = Shown(value')
      BY <1>1, <2>4, <2>5 DEF Shown, OfValue
    <3> QED
      BY <3>4, <3>5 DEF NothingHidden, Shown, Count, Only
  <2>8. ASSUME NEW i \in 1 .. n
        PROVE  out'[i].marked /\ Only(head' \o out'[i].text, OfTitles) = Only(title', OfTitles)
    <3>1. out'[i].text = p \o pages[i]
      <4>1. Texts'[i] = out'[i].text
        BY <1>3 DEF Texts
      <4>2. ps[i] = p \o pages[i]
        BY <1>2, <2>3 DEF Prefixed
      <4> QED
        BY <1>3, <1>7, <2>1, <2>3, <4>1, <4>2
    <3>2. PICK page \in Seq(Int) : page = pages[i]
      BY <1>1, <1>2, ElementOfSeq
    <3>3. Only(page, OfTitles) = << >>
      BY <1>2, <1>7, <3>2 DEF NInv, Paged, NoTitleIn
    <3>4. PICK x \in Seq(Int) : x = p \o page
      BY Joined
    <3>5. Only(x, OfTitles) = Only(tail, OfTitles)
      <4>1. Only(p \o page, OfTitles) = Only(p, OfTitles) \o Only(page, OfTitles)
        BY OnlyConcat
      <4>2. Only(p, OfTitles) \o << >> = Only(p, OfTitles)
        BY OnlyTyped, ConcatEmptySeq
      <4> QED
        BY <2>1, <2>2, <3>3, <3>4, <4>1, <4>2
    <3>6. Only(head \o x, OfTitles) = Only(head, OfTitles) \o Only(x, OfTitles)
      BY <1>1, OnlyConcat
    <3> QED
      BY <1>1, <1>3, <1>5, <1>7, <3>1, <3>2, <3>4, <3>5, <3>6
  <2>9. TitleIsWhole'
    BY <1>3, <2>8 DEF TitleIsWhole, OfTitle, OfTitles, Only
  <2> QED
    BY <2>7, <2>9
<1>8. CASE ~(step = "marked" /\ has_tail)
  <2>1. AllText' = f
    BY <1>2, <1>3, <1>8 DEF AllText
  <2>2. step # "plain" => tail = << >>
    BY <1>1, <1>8 DEF NInv, Paged, has_tail
  <2>3. Only(<< >>, OfTitles) = << >> /\ Only(<< >>, {SPACE}) = << >>
    BY OnlyEmpty
  <2>4. step # "plain" => a = 0
    BY <1>6, <2>2, <2>3 DEF Count
  <2>5. Only(f, OfTitles) = Only(tail, OfTitles)
    BY <1>2, <2>2, <2>3, SMTT(30)
  <2>6. NothingHidden'
    <3>1. b + (IF step = "plain" THEN a ELSE 0) <= c + (n - 1)
      BY <1>2, <1>6
    <3>2. c >= b + (IF step = "plain" THEN 1 ELSE n) * a - (n - 1)
      <4>1. CASE step = "plain"
        BY <3>1, <4>1
      <4>2. CASE step # "plain"
        <5>1. n * 0 = 0
          OBVIOUS
        <5> QED
          BY <2>4, <3>1, <4>2, <5>1
      <4> QED
        BY <4>1, <4>2
    <3>3. Count(AllText', SPACE)
            >= Count(value', SPACE) + Tails' * Count(tail', SPACE) - (Len(out') - 1)
      BY <1>1, <1>3, <1>4, <1>6, <2>1, <3>2
    <3>4. Shown(AllText') = Shown(value')
      BY <1>1, <1>2, <2>1 DEF Shown, OfValue
    <3> QED
      BY <3>3, <3>4 DEF NothingHidden, Shown, Count, Only
  <2>7. TitleIsWhole'
    <3>1. Only(head \o f, OfTitles) = Only(head, OfTitles) \o Only(f, OfTitles)
      BY <1>1, OnlyConcat
    <3>2. Only(head' \o AllText', OfTitles) = Only(title', OfTitles)
      BY <1>1, <1>5, <2>1, <2>5, <3>1
    <3> QED
      BY <3>2 DEF TitleIsWhole, OfTitle, OfTitles, Only
  <2> QED
    BY <2>6, <2>7
<1> QED
  BY <1>7, <1>8

LEMMA DoneStays ==
  ASSUME NInv, NothingHidden, TitleIsWhole, [Next]_vars
  PROVE  NothingHidden' /\ TitleIsWhole'
<1>1. CASE step' # "done"
  BY <1>1 DEF NothingHidden, TitleIsWhole
<1>2. CASE OnePage
  BY <1>2, OnePageHides
<1>3. CASE LayoutFits
  BY <1>3, LayoutFitsHides
<1>4. CASE UNCHANGED vars
  <2>1. UNCHANGED <<value, title, head, tail, step, out>>
    BY <1>4 DEF vars
  <2>2. Texts' = Texts /\ Tails' = Tails
    BY <2>1 DEF Texts, Tails
  <2>3. AllText' = AllText
    BY <2>2 DEF AllText
  <2> QED
    BY <2>1, <2>2, <2>3, Zenon DEF NothingHidden, TitleIsWhole
<1>5. Begin \/ WrapLine \/ Wrapped \/ SplitTitle \/ SeveralPages \/ NextPage \/ LayoutTooLarge
        => step' # "done"
  BY DEF Begin, WrapLine, Wrapped, SplitTitle, SeveralPages, NextPage, Paging, LayoutTooLarge,
         TryMarked, Cut
<1> QED
  BY <1>1, <1>2, <1>3, <1>4, <1>5 DEF Next

\* No page but the last ends in spaces: what remains behind it has been trimmed.
LEMMA TrimmedPage ==
  ASSUME rest \in Seq(Int), NEW len \in 1 .. Len(rest),
         NEW page, page = SubSeq(rest, 1, Take(len)),
         AfterBreak(Take(len), len) # << >>, Len(page) > 1
  PROVE  Last(page) # SPACE
<1>1. PICK n \in Nat : n = Len(rest)
  BY LenProperties
<1>2. PICK take \in 1 .. len : take = Take(len)
  BY TakeIs
<1>3. len # Len(rest)
  <2> SUFFICES ASSUME len = Len(rest) PROVE FALSE
    OBVIOUS
  <2>1. take = len
    BY <1>2, TakeIs
  <2>2. ~(take < len) /\ n < take + 1 /\ take + 1 \in Int /\ n \in Int
    BY <1>1, <2>1
  <2>3. SubSeq(rest, take + 1, n) = << >>
    BY <2>2, SubSeqEmpty
  <2>4. AfterBreak(take, len) = << >>
    BY <1>1, <2>2, <2>3 DEF AfterBreak
  <2> QED
    BY <1>2, <2>4
<1>4. take > 1 => rest[take] # SPACE
  BY <1>2, <1>3, TakeIs
<1>5. Len(page) = take /\ page[take] = rest[take]
  <2>1. 1 \in Int /\ take \in Int /\ \A i \in 1 .. take : rest[i] \in Int
    BY <1>1, ElementOfSeq
  <2>2. /\ Len(page) = (IF 1 <= take THEN take - 1 + 1 ELSE 0)
        /\ \A i \in 1 .. take - 1 + 1 : page[i] = rest[1 + i - 1]
    BY <1>2, <2>1, SubSeqProperties
  <2>3. take \in 1 .. take - 1 + 1 /\ 1 + take - 1 = take /\ 1 <= take /\ take - 1 + 1 = take
    OBVIOUS
  <2> QED
    BY <2>2, <2>3
<1> QED
  BY <1>4, <1>5 DEF Last

LEMMA TrailingStays ==
  ASSUME NInv, NoTrailingSpace, [Next]_vars
  PROVE  NoTrailingSpace'
<1>1. pages \in Seq(Seq(Int)) /\ rest \in Seq(Int)
  BY DEF NInv, TypeInv
<1>2. CASE pages' = << >> \/ step' \notin {"titled", "marked", "plain"}
  BY <1>2 DEF NoTrailingSpace, Paging
<1>3. CASE UNCHANGED vars
  BY <1>3 DEF vars, NoTrailingSpace, Paging
<1>4. CASE NextPage
  <2>1. Paging /\ rest # << >> /\ step' = step
    BY <1>4 DEF NextPage
  <2>2. PICK measured \in Measured :
          LET len == AtLeastOne(measured) IN
          /\ pages' = Append(pages, SubSeq(rest, 1, Take(len)))
          /\ rest' = AfterBreak(Take(len), len)
    BY <1>4 DEF NextPage
  <2>3. PICK len \in 1 .. Len(rest) : len = AtLeastOne(measured)
    BY <1>1, <2>1, MeasuredLen
  <2>4. PICK page : page = SubSeq(rest, 1, Take(len))
    OBVIOUS
  <2>5. pages' = Append(pages, page) /\ rest' = AfterBreak(Take(len), len)
    BY <2>2, <2>3, <2>4
  <2>6. page \in Seq(Int)
    <3>1. PICK k \in 1 .. Len(rest) : k = Take(len)
      BY <1>1, TakeIs, LenProperties
    <3>2. 1 \in Int /\ k \in Int /\ \A i \in 1 .. k : rest[i] \in Int
      BY <1>1, LenProperties, ElementOfSeq
    <3> QED
      BY <2>4, <3>1, <3>2, SubSeqProperties
  <2>7. PICK n \in Nat : n = Len(pages) /\ DOMAIN pages = 1 .. n
    BY <1>1, LenProperties
  <2>8. PICK ps : ps = Append(pages, page)
    OBVIOUS
  <2>9. /\ Len(ps) = n + 1 /\ DOMAIN ps = 1 .. n + 1 /\ ps[n + 1] = page
        /\ \A k \in 1 .. n : ps[k] = pages[k]
    <3>1. ps \in Seq(Seq(Int)) /\ Len(ps) = n + 1 /\ ps[n + 1] = page
          /\ \A k \in 1 .. n : ps[k] = pages[k]
      BY <1>1, <2>6, <2>7, <2>8, AppendProperties
    <3> QED
      BY <3>1, LenProperties
  <2>10. ASSUME NEW i \in 1 .. n + 1, i < n + 1 \/ rest' # << >>, Len(ps[i]) > 1
         PROVE  Last(ps[i]) # SPACE
    <3>1. CASE i = n + 1
      <4>1. rest' # << >> /\ ps[i] = page
        BY <2>9, <2>10, <3>1
      <4> QED
        BY <1>1, <2>4, <2>5, <2>10, <4>1, TrimmedPage
    <3>2. CASE i # n + 1
      <4>1. i \in 1 .. n
        BY <3>2
      <4> QED
        BY <2>1, <2>7, <2>9, <2>10, <4>1 DEF NoTrailingSpace
    <3> QED
      BY <3>1, <3>2
  <2> QED
    BY <2>5, <2>8, <2>9, <2>10 DEF NoTrailingSpace
<1>5. Begin \/ WrapLine \/ Wrapped \/ SplitTitle \/ OnePage \/ LayoutFits
        => step' \notin {"titled", "marked", "plain"}
  BY DEF Begin, WrapLine, Wrapped, SplitTitle, OnePage, LayoutFits
<1>6. SeveralPages \/ LayoutTooLarge => pages' = << >>
  BY DEF SeveralPages, LayoutTooLarge, TryMarked, Cut
<1> QED
  BY <1>2, <1>3, <1>4, <1>5, <1>6 DEF Next

-----------------------------------------------------------------------------

\* The fields an item is left with are of its value and title.
LEMMA FieldsFound == Spec => [](NInv /\ NothingHidden /\ TitleIsWhole)
<1>1. Init => NothingHidden /\ TitleIsWhole
  BY DEF Init, NothingHidden, TitleIsWhole
<1>2. NInv /\ NothingHidden /\ TitleIsWhole /\ [Next]_vars
        => (NInv /\ NothingHidden /\ TitleIsWhole)'
  BY NextInv, DoneStays
<1> QED
  BY <1>1, <1>2, InitInv, PTL DEF Spec

\* However NBGL measures, and for every value and title: when an item's fields are
\* found, the characters of the value are all on them, once and in order, and a page
\* break hides one space at most (src/ui.rs screen_fields, hard_wrap, pages).
THEOREM NothingHiddenSafe == Spec => []NothingHidden
BY FieldsFound, PTL

\* The title is shown whole, wherever split_title ends its line: the rest of it is
\* in front of the value, or on every page that has a marker (src/ui.rs split_title).
THEOREM TitleSafe == Spec => []TitleIsWhole
BY FieldsFound, PTL

\* No page but the last ends in a space unless it is one character, so that NBGL
\* never pages a field again (src/ui.rs pages).
THEOREM TrailingSafe == Spec => []NoTrailingSpace
<1>1. Init => NoTrailingSpace
  BY DEF Init, NoTrailingSpace, Paging
<1>2. NInv /\ NoTrailingSpace /\ [Next]_vars => (NInv /\ NoTrailingSpace)'
  BY NextInv, TrailingStays
<1> QED
  BY <1>1, <1>2, InitInv, PTL DEF Spec
=============================================================================
