--------------------------- MODULE ReviewUI_proofs --------------------------
(***************************************************************************)
(* The review on the screen.  Render for every set of items and every      *)
(* buffer with room for the arguments; ReviewUI for every list of items,   *)
(* every cost and every budget.                                            *)
(*                                                                         *)
(* ValuesAreWhole and ArgumentsFit need to know, while an item is being    *)
(* rendered, that the writer is where the sum of the arguments' lengths    *)
(* and labels puts it; they then follow from the bound on that sum.        *)
(* ApprovedSawEverything is not inductive: it needs to know what was shown *)
(* while the review is still going on, and StepFitsHeap needs the number   *)
(* of items of a step bounded by its number of fields.                     *)
(***************************************************************************)
EXTENDS ReviewUI, Render, Induction

-----------------------------------------------------------------------------
(* The steps of the review.                                                *)

\* What was shown so far is the items of the earlier steps.
ShownInOrder ==
  /\ step # "done" => shown = Numbered(next)
  /\ step = "start" => next = 0
  /\ step = "finish" => next = Len(items)
  /\ approved => step = "done"

\* Every item of a step takes a field of it.
StepCounts ==
  /\ used <= fields
  /\ used = 0 => fields = 0 /\ bytes = 0

Inv == TypeOK /\ ShownInOrder /\ StepCounts /\ StepFitsHeap /\ ApprovedSawEverything

\* The items are a sequence.
LEMMA ItemsType ==
  ASSUME items \in Reviews
  PROVE  items \in Seq(Item) /\ Len(items) \in Nat
<1>1. items \in Seq(Item)
  BY ReviewsAssumption
<1> QED
  BY <1>1, LenProperties

\* What an item is.
LEMMA CandidateType ==
  ASSUME TypeOK, Wanted
  PROVE  Candidate.cost \in Nat /\ Candidate.fields \in Nat \ {0}
<1>1. items \in Seq(Item) /\ Len(items) \in Nat
  BY ItemsType DEF TypeOK
<1>2. next + used + 1 \in 1 .. Len(items)
  BY <1>1 DEF TypeOK, Wanted
<1>3. Candidate \in Item
  BY <1>1, <1>2, ElementOfSeq DEF Candidate
<1> QED
  BY <1>3 DEF Item

\* A step's items continue the ones shown before it.
LEMMA NumberedAppend ==
  ASSUME NEW m \in Nat, NEW k \in Nat
  PROVE  Numbered(m) \o [j \in 1 .. k |-> m + j] = Numbered(m + k)
<1> DEFINE s == Numbered(m)
           t == [j \in 1 .. k |-> m + j]
<1>1. s \in Seq(Nat) /\ Len(s) = m
  BY IsASeq DEF Numbered
<1>2. t \in Seq(Nat) /\ Len(t) = k
  BY IsASeq
<1>3. Numbered(m + k) \in Seq(Nat) /\ Len(Numbered(m + k)) = m + k
  BY IsASeq DEF Numbered
<1>4. ASSUME NEW j \in 1 .. m + k
      PROVE  (IF j <= m THEN s[j] ELSE t[j - m]) = Numbered(m + k)[j]
  BY DEF Numbered
<1> HIDE DEF s, t
<1>5. /\ s \o t \in Seq(Nat)
      /\ Len(s \o t) = Len(s) + Len(t)
      /\ \A j \in 1 .. Len(s) + Len(t) :
           (s \o t)[j] = IF j <= Len(s) THEN s[j] ELSE t[j - Len(s)]
  BY <1>1, <1>2, ConcatProperties
<1>6. \A j \in 1 .. Len(s \o t) : (s \o t)[j] = Numbered(m + k)[j]
  BY <1>1, <1>2, <1>4, <1>5
<1>7. s \o t = Numbered(m + k)
  BY <1>1, <1>2, <1>3, <1>5, <1>6, SeqEqual
<1> QED
  BY <1>7 DEF s, t

LEMMA InitInv == Init => Inv
<1> SUFFICES ASSUME Init PROVE Inv
  OBVIOUS
<1> USE DEF Init
<1>0. items \in Reviews /\ Len(items) \in Nat
  BY ItemsType
<1>1. TypeOK
  <2>1. approved \in BOOLEAN
    OBVIOUS
  <2> QED
    BY <1>0, <2>1 DEF TypeOK
<1>2. ShownInOrder
  BY DEF ShownInOrder, Numbered
<1>3. StepCounts /\ StepFitsHeap
  BY BatchAssumption DEF StepCounts, StepFitsHeap
<1>4. ApprovedSawEverything
  BY DEF ApprovedSawEverything
<1> QED
  BY <1>1, <1>2, <1>3, <1>4 DEF Inv

\* review_tx returns: approval only from the final page.
LEMMA ReturnInv ==
  ASSUME Inv, NEW answer \in BOOLEAN, Return(answer),
         answer => step = "finish"
  PROVE  Inv'
<1> USE DEF Return
<1>1. TypeOK'
  BY DEF Inv, TypeOK
<1>2. ShownInOrder' /\ StepCounts' /\ StepFitsHeap'
  BY DEF Inv, ShownInOrder, StepCounts, StepFitsHeap
<1>3. ApprovedSawEverything'
  BY DEF Inv, ShownInOrder, ApprovedSawEverything
<1> QED
  BY <1>1, <1>2, <1>3 DEF Inv

\* A step begins behind the items shown.
LEMMA NextStepInv ==
  ASSUME Inv, approved = FALSE, NEW from \in Nat, from <= Len(items),
         NextStep(from), shown' = Numbered(from)
  PROVE  Inv'
<1> USE DEF NextStep, frame
<1>0. Len(items) \in Nat
  BY ItemsType DEF Inv, TypeOK
<1>1. TypeOK'
  BY <1>0 DEF Inv, TypeOK
<1>2. ShownInOrder'
  BY <1>0 DEF ShownInOrder
<1>3. StepCounts' /\ StepFitsHeap'
  BY BatchAssumption DEF StepCounts, StepFitsHeap
<1>4. ApprovedSawEverything'
  BY DEF ApprovedSawEverything
<1> QED
  BY <1>1, <1>2, <1>3, <1>4 DEF Inv

LEMMA NextInv == Inv /\ [Next]_vars => Inv'
<1> SUFFICES ASSUME Inv, [Next]_vars PROVE Inv'
  OBVIOUS
<1>0. /\ Len(items) \in Nat
      /\ step # "done" => approved = FALSE
  BY ItemsType DEF Inv, TypeOK, ShownInOrder
<1>1. ASSUME NEW accepts \in BOOLEAN, Start(accepts) PROVE Inv'
  <2>1. CASE accepts
    <3>1. NextStep(0) /\ shown' = shown /\ step = "start"
      BY <1>1, <2>1 DEF Start
    <3>2. approved = FALSE /\ shown' = Numbered(0) /\ 0 <= Len(items)
      BY <1>0, <3>1 DEF Inv, ShownInOrder
    <3> QED
      BY <3>1, <3>2, NextStepInv
  <2>2. CASE ~accepts
    BY <1>1, <2>2, ReturnInv DEF Start
  <2> QED
    BY <2>1, <2>2
<1>2. CASE RenderFails
  BY <1>2, ReturnInv DEF RenderFails
<1>3. CASE TakeItem
  <2>1. Candidate.cost \in Nat /\ Candidate.fields \in Nat \ {0}
    BY <1>3, CandidateType DEF TakeItem, Inv
  <2> HIDE DEF Candidate
  <2>2. TypeOK'
    BY <1>0, <1>3, <2>1 DEF TakeItem, Inv, TypeOK, Wanted, frame
  <2>3. ShownInOrder'
    BY <1>3 DEF TakeItem, Inv, ShownInOrder, frame
  <2>4. StepCounts' /\ StepFitsHeap'
    BY <1>3, <2>1, BatchAssumption
    DEF TakeItem, Inv, TypeOK, Wanted, Room, StepCounts, StepFitsHeap
  <2>5. ApprovedSawEverything'
    BY <1>3 DEF TakeItem, Inv, ApprovedSawEverything, frame
  <2> QED
    BY <2>2, <2>3, <2>4, <2>5 DEF Inv
<1>4. CASE CloseBatch
  BY <1>4 DEF CloseBatch, frame, Inv, TypeOK, ShownInOrder, StepCounts, StepFitsHeap,
              ApprovedSawEverything
<1>5. ASSUME NEW accepts \in BOOLEAN, ContinueReview(accepts) PROVE Inv'
  <2>1. CASE accepts
    <3>1. /\ NextStep(next + used)
          /\ step = "show"
          /\ shown' = Numbered(next) \o [j \in 1 .. used |-> next + j]
      BY <1>5, <2>1 DEF ContinueReview, Inv, ShownInOrder
    <3>2. next \in Nat /\ used \in Nat /\ next + used <= Len(items)
      BY DEF Inv, TypeOK
    <3>3. shown' = Numbered(next + used)
      BY <3>1, <3>2, NumberedAppend
    <3>4. approved = FALSE /\ next + used \in Nat
      BY <1>0, <3>1, <3>2
    <3> QED
      BY <3>1, <3>2, <3>3, <3>4, NextStepInv
  <2>2. CASE ~accepts
    BY <1>5, <2>2, ReturnInv DEF ContinueReview
  <2> QED
    BY <2>1, <2>2
<1>6. ASSUME NEW accepts \in BOOLEAN, Finish(accepts) PROVE Inv'
  BY <1>6, ReturnInv DEF Finish
<1>7. CASE UNCHANGED vars
  BY <1>7 DEF vars, Inv, TypeOK, ShownInOrder, StepCounts, StepFitsHeap,
              ApprovedSawEverything
<1> QED
  BY <1>1, <1>2, <1>3, <1>4, <1>5, <1>6, <1>7 DEF Next, Fill, Decision

LEMMA ReviewInvariant == Spec => []Inv
BY InitInv, NextInv, PTL DEF Spec

\* For every list of items, costs and budgets: review_tx returns an approval only
\* after every item was shown, once and in order.
THEOREM ReviewSafe == Spec => []ApprovedSawEverything
<1>1. Inv => ApprovedSawEverything
  BY DEF Inv
<1> QED
  BY <1>1, ReviewInvariant, PTL

\* For every list of items, costs and budgets: a step that review_tx fills is
\* within the heap budget or one item, and never more than BATCH_ITEMS.
THEOREM HeapSafe == Spec => []StepFitsHeap
<1>1. Inv => StepFitsHeap
  BY DEF Inv
<1> QED
  BY <1>1, ReviewInvariant, PTL

\* review_tx never takes an item beyond the end of the list.
THEOREM ReviewTyped == Spec => []TypeOK
<1>1. Inv => TypeOK
  BY DEF Inv
<1> QED
  BY <1>1, ReviewInvariant, PTL

-----------------------------------------------------------------------------
(* The text of a value.                                                    *)

\* SumTo, as it recurs.
LEMMA SumToDef ==
  ASSUME NEW s \in Seq(Nat)
  PROVE  /\ SumTo(s) \in [0 .. Len(s) -> Nat]
         /\ SumTo(s)[0] = 0
         /\ \A k \in 1 .. Len(s) : SumTo(s)[k] = SumTo(s)[k - 1] + s[k]
<1>1. PICK m \in Nat : m = Len(s)
  BY LenProperties
<1> DEFINE F == [p \in Nat \X Nat |-> IF p[2] \in 1 .. m THEN p[1] + s[p[2]] ELSE 0]
           Is(g) == g = [k \in 0 .. Len(s) |-> IF k = 0 THEN 0 ELSE g[k - 1] + s[k]]
<1>2. \A k \in 1 .. m : s[k] \in Nat
  BY <1>1, ElementOfSeq
<1>3. F \in Steps(Nat)
  BY <1>2 DEF Steps
<1>4. \A a \in Nat, k \in 1 .. m : F[<<a, k>>] = a + s[k]
  OBVIOUS
<1> HIDE DEF F
<1>5. PICK g \in [0 .. m -> Nat] : g[0] = 0 /\ \A k \in 1 .. m : g[k] = F[<<g[k - 1], k>>]
  <2>1. \E g \in Tables(m, Nat) : Recurs(g, m, 0, F)
    BY <1>3, Recursive, 0 \in Nat, Zenon
  <2> QED
    BY <2>1 DEF Tables, Recurs
<1>6. Is(g)
  <2>1. ASSUME NEW k \in 0 .. m PROVE g[k] = IF k = 0 THEN 0 ELSE g[k - 1] + s[k]
    <3>1. CASE k = 0
      BY <1>5, <3>1
    <3>2. CASE k # 0
      <4>1. k \in 1 .. m /\ k - 1 \in 0 .. m
        BY <3>2
      <4>2. g[k - 1] \in Nat
        BY <4>1
      <4> QED
        BY <1>4, <1>5, <3>2, <4>1, <4>2
    <3> QED
      BY <3>1, <3>2
  <2> QED
    BY <1>1, <2>1
<1> DEFINE c == CHOOSE f : Is(f)
<1>7. SumTo(s) = c
  BY DEF SumTo
<1>8. Is(c)
  <2> HIDE DEF Is
  <2> QED
    BY <1>6
<1> HIDE DEF c
<1>9. c[0] = 0 /\ \A k \in 1 .. m : c[k] = c[k - 1] + s[k]
  <2>1. c = [k \in 0 .. m |-> IF k = 0 THEN 0 ELSE c[k - 1] + s[k]]
    BY <1>1, <1>8
  <2> QED
    BY <2>1
<1>10. c \in [0 .. m -> Nat]
  <2> DEFINE P == {k \in Nat : k \in 0 .. m => c[k] \in Nat}
  <2>1. 0 \in P /\ P \in SUBSET Nat
    BY <1>9
  <2>2. ASSUME NEW k \in 0 .. m - 1, k \in P PROVE k + 1 \in P
    <3>1. k \in 0 .. m /\ k + 1 \in 1 .. m /\ (k + 1) - 1 = k /\ k + 1 \in Nat
      OBVIOUS
    <3>2. c[k + 1] = c[k] + s[k + 1]
      BY <1>9, <3>1
    <3> QED
      BY <1>2, <2>2, <3>1, <3>2
  <2> HIDE DEF P
  <2>3. \A k \in 0 .. m : k \in P
    BY <2>1, <2>2, Inductive
  <2>4. \A k \in 0 .. m : c[k] \in Nat
    BY <2>3 DEF P
  <2> QED
    BY <1>1, <1>8, <2>4
<1> QED
  BY <1>1, <1>7, <1>9, <1>10

\* WrittenTo, as it recurs.
LEMMA WrittenToDef ==
  ASSUME NEW s \in Seq(Nat), NEW at \in 0 .. VALUE_BUF
  PROVE  /\ WrittenTo(at, s)[0] = at
         /\ \A k \in 1 .. Len(s) : WrittenTo(at, s)[k] = put(WrittenTo(at, s)[k - 1], s[k])
<1>1. PICK m \in Nat : m = Len(s)
  BY LenProperties
<1> DEFINE F == [p \in Nat \X Nat |-> IF p[2] \in 1 .. m THEN put(p[1], s[p[2]]) ELSE 0]
           Is(g) == g = [k \in 0 .. Len(s) |-> IF k = 0 THEN at ELSE put(g[k - 1], s[k])]
<1>2. \A k \in 1 .. m : s[k] \in Nat
  BY <1>1, ElementOfSeq
<1>3. F \in Steps(Nat)
  BY <1>2, BufAssumption DEF put, Steps
<1>4. \A a \in Nat, k \in 1 .. m : F[<<a, k>>] = put(a, s[k])
  OBVIOUS
<1> HIDE DEF F
<1>5. PICK g \in [0 .. m -> Nat] : g[0] = at /\ \A k \in 1 .. m : g[k] = F[<<g[k - 1], k>>]
  <2>1. at \in Nat
    BY BufAssumption
  <2>2. \E g \in Tables(m, Nat) : Recurs(g, m, at, F)
    BY <1>3, <2>1, Recursive, Zenon
  <2> QED
    BY <2>2 DEF Tables, Recurs
<1>6. Is(g)
  <2>1. ASSUME NEW k \in 0 .. m PROVE g[k] = IF k = 0 THEN at ELSE put(g[k - 1], s[k])
    <3>1. CASE k = 0
      BY <1>5, <3>1
    <3>2. CASE k # 0
      <4>1. k \in 1 .. m /\ k - 1 \in 0 .. m
        BY <3>2
      <4>2. g[k - 1] \in Nat
        BY <4>1
      <4> QED
        BY <1>4, <1>5, <3>2, <4>1, <4>2
    <3> QED
      BY <3>1, <3>2
  <2> QED
    BY <1>1, <2>1
<1> DEFINE c == CHOOSE f : Is(f)
<1>7. WrittenTo(at, s) = c
  BY DEF WrittenTo
<1>8. Is(c)
  <2> HIDE DEF Is
  <2> QED
    BY <1>6
<1> HIDE DEF c
<1>9. c = [k \in 0 .. m |-> IF k = 0 THEN at ELSE put(c[k - 1], s[k])]
  BY <1>1, <1>8
<1>10. c[0] = at /\ \A k \in 1 .. m : c[k] = put(c[k - 1], s[k])
  BY <1>9
<1> QED
  BY <1>1, <1>7, <1>10

\* The writer stops at the end of the buffer, and is otherwise where the lengths of
\* its pieces add up to.
LEMMA WrittenIsTotal ==
  ASSUME NEW s \in Seq(Nat), NEW at \in 0 .. VALUE_BUF
  PROVE  Written(at, s) = put(at, Total(s)) /\ Total(s) \in Nat
<1>1. PICK m \in Nat : m = Len(s)
  BY LenProperties
<1> DEFINE w == WrittenTo(at, s)
           t == SumTo(s)
           P == {k \in Nat : k \in 0 .. m => w[k] = put(at, t[k])}
<1>2. w[0] = at /\ \A k \in 1 .. m : w[k] = put(w[k - 1], s[k])
  BY <1>1, WrittenToDef
<1>3. t \in [0 .. m -> Nat] /\ t[0] = 0 /\ \A k \in 1 .. m : t[k] = t[k - 1] + s[k]
  BY <1>1, SumToDef
<1>4. \A k \in 1 .. m : s[k] \in Nat
  BY <1>1, ElementOfSeq
<1>5. Written(at, s) = w[m] /\ Total(s) = t[m]
  BY <1>1 DEF Written, Total
<1> HIDE DEF w, t
<1>6. 0 \in P /\ P \in SUBSET Nat
  BY <1>2, <1>3, BufAssumption DEF put
<1>7. ASSUME NEW k \in 0 .. m - 1, k \in P PROVE k + 1 \in P
  <2>1. k \in 0 .. m /\ k + 1 \in 1 .. m /\ (k + 1) - 1 = k /\ k + 1 \in Nat
    OBVIOUS
  <2>2. w[k + 1] = put(w[k], s[k + 1]) /\ t[k + 1] = t[k] + s[k + 1] /\ w[k] = put(at, t[k])
    BY <1>2, <1>3, <1>7, <2>1
  <2>3. t[k] \in Nat /\ s[k + 1] \in Nat
    BY <1>3, <1>4, <2>1
  <2>4. put(put(at, t[k]), s[k + 1]) = put(at, t[k] + s[k + 1])
    BY <2>3, BufAssumption DEF put
  <2> QED
    BY <2>1, <2>2, <2>4
<1> HIDE DEF P
<1>8. m \in P /\ m \in 0 .. m
  <2>1. \A k \in 0 .. m : k \in P
    BY <1>6, <1>7, Inductive
  <2> QED
    BY <2>1
<1> QED
  BY <1>3, <1>5, <1>8 DEF P

\* The length of a text is its last piece's and the rest's.
LEMMA TotalAppend ==
  ASSUME NEW s \in Seq(Nat), NEW x \in Nat
  PROVE  Total(Append(s, x)) = Total(s) + x /\ Total(s) \in Nat
<1> DEFINE u == Append(s, x)
<1>1. PICK m \in Nat : m = Len(s)
  BY LenProperties
<1>2. u \in Seq(Nat) /\ Len(u) = m + 1 /\ u[m + 1] = x /\ \A k \in 1 .. m : u[k] = s[k]
  BY <1>1, AppendProperties
<1> DEFINE t == SumTo(s)
           w == SumTo(u)
           P == {k \in Nat : k \in 0 .. m => w[k] = t[k]}
<1>3. t \in [0 .. m -> Nat] /\ t[0] = 0 /\ \A k \in 1 .. m : t[k] = t[k - 1] + s[k]
  BY <1>1, SumToDef
<1> HIDE DEF u
<1>4. w[0] = 0 /\ \A k \in 1 .. m + 1 : w[k] = w[k - 1] + u[k]
  BY <1>2, SumToDef
<1>5. Total(u) = w[m + 1] /\ Total(s) = t[m]
  BY <1>1, <1>2 DEF Total
<1> HIDE DEF w, t
<1>6. 0 \in P /\ P \in SUBSET Nat
  BY <1>3, <1>4
<1>7. ASSUME NEW k \in 0 .. m - 1, k \in P PROVE k + 1 \in P
  <2>1. k \in 0 .. m /\ k + 1 \in 1 .. m /\ k + 1 \in 1 .. m + 1 /\ (k + 1) - 1 = k /\ k + 1 \in Nat
    OBVIOUS
  <2>2. w[k + 1] = w[k] + u[k + 1] /\ t[k + 1] = t[k] + s[k + 1] /\ u[k + 1] = s[k + 1]
    BY <1>2, <1>3, <1>4, <2>1
  <2>3. w[k] = t[k]
    BY <1>7, <2>1
  <2> QED
    BY <2>1, <2>2, <2>3
<1> HIDE DEF P
<1>8. \A k \in 0 .. m : k \in P
  BY <1>6, <1>7, Inductive
<1>9. w[m] = t[m] /\ t[m] \in Nat /\ w[m + 1] = w[m] + x
  <2>1. m \in 0 .. m /\ m + 1 \in 1 .. m + 1 /\ (m + 1) - 1 = m
    OBVIOUS
  <2> QED
    BY <1>2, <1>3, <1>4, <1>8, <2>1 DEF P
<1> QED
  BY <1>5, <1>9 DEF u

LEMMA TotalEmpty == Total(<< >>) = 0
<1>1. << >> \in Seq(Nat) /\ Len(<< >>) = 0
  OBVIOUS
<1> QED
  BY <1>1, SumToDef DEF Total

\* The lengths of texts of up to five pieces.
LEMMA Total1 ==
  ASSUME NEW a \in Nat
  PROVE  <<a>> \in Seq(Nat) /\ Total(<<a>>) = a
<1>1. << >> \in Seq(Nat) /\ <<a>> = Append(<< >>, a) /\ <<a>> \in Seq(Nat)
  OBVIOUS
<1>2. Total(<<a>>) = Total(<< >>) + a
  BY <1>1, TotalAppend
<1> QED
  BY <1>1, <1>2, TotalEmpty

LEMMA Total2 ==
  ASSUME NEW a \in Nat, NEW b \in Nat
  PROVE  <<a, b>> \in Seq(Nat) /\ Total(<<a, b>>) = a + b
<1>1. <<a>> \in Seq(Nat) /\ <<a, b>> = Append(<<a>>, b) /\ <<a, b>> \in Seq(Nat)
  OBVIOUS
<1>2. Total(<<a, b>>) = Total(<<a>>) + b
  BY <1>1, TotalAppend
<1> QED
  BY <1>1, <1>2, Total1

LEMMA Total3 ==
  ASSUME NEW a \in Nat, NEW b \in Nat, NEW c \in Nat
  PROVE  <<a, b, c>> \in Seq(Nat) /\ Total(<<a, b, c>>) = a + b + c
<1>1. <<a, b>> \in Seq(Nat) /\ <<a, b, c>> = Append(<<a, b>>, c) /\ <<a, b, c>> \in Seq(Nat)
  OBVIOUS
<1>2. Total(<<a, b, c>>) = Total(<<a, b>>) + c
  BY <1>1, TotalAppend
<1> QED
  BY <1>1, <1>2, Total2

LEMMA Total4 ==
  ASSUME NEW a \in Nat, NEW b \in Nat, NEW c \in Nat, NEW d \in Nat
  PROVE  <<a, b, c, d>> \in Seq(Nat) /\ Total(<<a, b, c, d>>) = a + b + c + d
<1>1. <<a, b, c>> \in Seq(Nat) /\ <<a, b, c, d>> = Append(<<a, b, c>>, d) /\ <<a, b, c, d>> \in Seq(Nat)
  OBVIOUS
<1>2. Total(<<a, b, c, d>>) = Total(<<a, b, c>>) + d
  BY <1>1, TotalAppend
<1> QED
  BY <1>1, <1>2, Total3

LEMMA Total5 ==
  ASSUME NEW a \in Nat, NEW b \in Nat, NEW c \in Nat, NEW d \in Nat, NEW e \in Nat
  PROVE  <<a, b, c, d, e>> \in Seq(Nat) /\ Total(<<a, b, c, d, e>>) = a + b + c + d + e
<1>1. <<a, b, c, d>> \in Seq(Nat) /\ <<a, b, c, d, e>> = Append(<<a, b, c, d>>, e) /\ <<a, b, c, d, e>> \in Seq(Nat)
  OBVIOUS
<1>2. Total(<<a, b, c, d, e>>) = Total(<<a, b, c, d>>) + e
  BY <1>1, TotalAppend
<1> QED
  BY <1>1, <1>2, Total4

\* The sums of the beginnings are at most the whole.
LEMMA SumToGrows ==
  ASSUME NEW s \in Seq(Nat)
  PROVE  \A k \in 0 .. Len(s) : SumTo(s)[k] <= Total(s)
<1>1. PICK m \in Nat : m = Len(s)
  BY LenProperties
<1> DEFINE t == SumTo(s)
           P == {k \in Nat : k \in 0 .. m => t[m - k] <= t[m]}
<1>2. t \in [0 .. m -> Nat] /\ \A k \in 1 .. m : t[k] = t[k - 1] + s[k]
  BY <1>1, SumToDef
<1>3. Total(s) = t[m] /\ \A k \in 1 .. m : s[k] \in Nat
  BY <1>1, ElementOfSeq DEF Total
<1> HIDE DEF t
<1>4. 0 \in P /\ P \in SUBSET Nat
  BY <1>2
<1>5. ASSUME NEW k \in 0 .. m - 1, k \in P PROVE k + 1 \in P
  <2>1. k \in 0 .. m /\ m - k \in 1 .. m /\ m - (k + 1) = (m - k) - 1 /\ k + 1 \in Nat
        /\ m - (k + 1) \in 0 .. m /\ m - k \in 0 .. m /\ m \in 0 .. m
    OBVIOUS
  <2>2. t[m - k] = t[m - (k + 1)] + s[m - k] /\ t[m - k] <= t[m] /\ s[m - k] \in Nat
    BY <1>2, <1>3, <1>5, <2>1
  <2>3. t[m - k] \in Nat /\ t[m - (k + 1)] \in Nat /\ t[m] \in Nat
    BY <1>2, <2>1
  <2>4. t[m - (k + 1)] <= t[m]
    BY <2>2, <2>3
  <2> QED
    BY <2>1, <2>4
<1> HIDE DEF P
<1>6. \A k \in 0 .. m : k \in P
  BY <1>4, <1>5, Inductive
<1>7. ASSUME NEW k \in 0 .. m PROVE t[k] <= t[m]
  <2>1. m - k \in 0 .. m /\ m - (m - k) = k
    OBVIOUS
  <2>2. m - k \in P
    BY <1>6, <2>1
  <2> QED
    BY <2>1, <2>2 DEF P
<1> QED
  BY <1>1, <1>3, <1>7 DEF t

-----------------------------------------------------------------------------

\* What an item of Values has.
LEMMA ItemType ==
  ASSUME item \in Values
  PROVE  /\ item.render \in DOMAIN TextLen \cup OneValue \cup {"Gas", "Unknown"}
         /\ item.render \in OneValue => Raw(1) \in Nat
         /\ item.render = "Gas" => Raw(1) \in Nat /\ Raw(2) \in Nat
         /\ Args \in Seq(Argument) /\ Len(Args) \in Nat /\ item.blanks \in Nat
         /\ ArgLens \in Seq(Nat) /\ Len(ArgLens) = Len(Args)
         /\ \A k \in 1 .. Len(Args) :
              /\ Args[k].raw \in Nat /\ Quotes(Args[k]) \in Nat
              /\ ArgLens[k] = Args[k].raw + Quotes(Args[k])
<1> DEFINE R == DOMAIN TextLen \cup OneValue \cup {"Gas", "Unknown"}
<1>1. /\ item \in [render : R, raw : Seq(Nat), args : Seq(Argument), blanks : Nat,
                  found : BOOLEAN]
      /\ item.render \in OneValue => Len(item.raw) = 1
      /\ item.render = "Gas" => Len(item.raw) = 2
  BY ValuesAssumption, Zenon
<1> HIDE DEF R
<1>2. item.render \in R /\ item.raw \in Seq(Nat) /\ item.args \in Seq(Argument) /\ item.blanks \in Nat
  BY <1>1
<1>3. item.render \in OneValue => Raw(1) \in Nat
  BY <1>1, <1>2, ElementOfSeq DEF Raw
<1>4. item.render = "Gas" => Raw(1) \in Nat /\ Raw(2) \in Nat
  BY <1>1, <1>2, ElementOfSeq DEF Raw
<1>5. Args \in Seq(Argument) /\ Len(Args) \in Nat /\ DOMAIN Args = 1 .. Len(Args)
  BY <1>2, LenProperties DEF Args
<1>6. \A k \in 1 .. Len(Args) : Args[k] \in Argument
  BY <1>5, ElementOfSeq
<1>7. \A k \in 1 .. Len(Args) : Args[k].raw \in Nat /\ Quotes(Args[k]) \in Nat
  BY <1>6 DEF Argument, Quotes
<1> HIDE DEF Args, Quotes
<1>8. ArgLens = [k \in 1 .. Len(Args) |-> Args[k].raw + Quotes(Args[k])]
  BY <1>5 DEF ArgLens
<1>9. ArgLens \in Seq(Nat) /\ Len(ArgLens) = Len(Args)
  <2> DEFINE f(k) == Args[k].raw + Quotes(Args[k])
  <2>1. \A k \in 1 .. Len(Args) : f(k) \in Nat
    BY <1>7
  <2> HIDE DEF f
  <2>2. [k \in 1 .. Len(Args) |-> f(k)] \in Seq(Nat) /\ Len([k \in 1 .. Len(Args) |-> f(k)]) = Len(Args)
    BY <1>5, <2>1, IsASeq
  <2> QED
    BY <1>8, <2>2 DEF f
<1>10. \A k \in 1 .. Len(Args) : ArgLens[k] = Args[k].raw + Quotes(Args[k])
  BY <1>8
<1> QED
  BY <1>2, <1>3, <1>4, <1>5, <1>7, <1>9, <1>10 DEF R

\* The arguments of the item are written one by one.
Paged == item.render = "Unknown" /\ Displayable /\ Args # <<>>

\* Where the loop is: the bytes of the arguments before it, with their labels.
AtArg(k) == SumTo(ArgLens)[k] + 9 * k

LEMMA ArgsBound ==
  ASSUME item \in Values, Paged
  PROVE  /\ Len(Args) \in 1 .. 5 /\ last = Len(Args) - 1
         /\ AtArg(0) = 0
         /\ \A k \in 0 .. Len(Args) : AtArg(k) \in Nat
         /\ \A k \in 0 .. Len(Args) - 1 :
              AtArg(k + 1) = AtArg(k) + Args[k + 1].raw + Quotes(Args[k + 1]) + 9
         /\ \A k \in 1 .. Len(Args) : AtArg(k) <= 255 + 8 * Len(Args)
<1> DEFINE t == SumTo(ArgLens)
<1>1. /\ ArgLens \in Seq(Nat) /\ Len(ArgLens) = Len(Args) /\ Args \in Seq(Argument)
      /\ Len(Args) \in Nat /\ item.blanks \in Nat
      /\ \A k \in 1 .. Len(Args) :
           ArgLens[k] = Args[k].raw + Quotes(Args[k]) /\ Args[k].raw \in Nat /\ Quotes(Args[k]) \in Nat
  BY ItemType
<1>2. PICK m \in Nat : m = Len(Args)
  BY <1>1
<1>3. m # 0
  BY <1>1, <1>2, EmptySeq DEF Paged
<1>4. m <= 5 /\ Total(ArgLens) + item.blanks + 2 + (m - 1) <= 256
  BY <1>2 DEF Paged, Displayable, Span
<1>5. t \in [0 .. m -> Nat] /\ t[0] = 0 /\ \A k \in 1 .. m : t[k] = t[k - 1] + ArgLens[k]
  BY <1>1, <1>2, SumToDef
<1>6. Total(ArgLens) = t[m] /\ \A k \in 0 .. m : t[k] <= t[m]
  BY <1>1, <1>2, SumToGrows DEF Total
<1> HIDE DEF t
<1>7. last = m - 1
  BY <1>2, <1>3, <1>4 DEF last
<1>8. \A k \in 0 .. m : t[k] \in Nat
  BY <1>5
<1>9. \A k \in 0 .. m : AtArg(k) = t[k] + 9 * k
  BY DEF AtArg, t
<1>10. ASSUME NEW k \in 0 .. m - 1
       PROVE  AtArg(k + 1) = AtArg(k) + Args[k + 1].raw + Quotes(Args[k + 1]) + 9
  <2>1. k + 1 \in 1 .. m /\ (k + 1) - 1 = k /\ k \in 0 .. m /\ k + 1 \in 0 .. m
    OBVIOUS
  <2>2. PICK a \in Nat, q \in Nat : a = Args[k + 1].raw /\ q = Quotes(Args[k + 1])
    BY <1>1, <1>2, <2>1
  <2>3. t[k + 1] = t[k] + (a + q) /\ t[k] \in Nat
    BY <1>1, <1>2, <1>5, <1>8, <2>1, <2>2
  <2>4. AtArg(k + 1) = t[k + 1] + 9 * (k + 1) /\ AtArg(k) = t[k] + 9 * k
    BY <1>9, <2>1
  <2> QED
    BY <2>2, <2>3, <2>4
<1>11. ASSUME NEW k \in 1 .. m PROVE AtArg(k) <= 255 + 8 * m
  <2>1. k \in 0 .. m /\ m \in 0 .. m
    OBVIOUS
  <2>2. t[k] <= t[m] /\ t[k] \in Nat /\ t[m] \in Nat /\ AtArg(k) = t[k] + 9 * k
    BY <1>6, <1>8, <1>9, <2>1
  <2>3. t[m] <= 255 - m
    BY <1>1, <1>4, <1>6, <2>2
  <2> QED
    BY <2>2, <2>3
<1>12. AtArg(0) = 0 /\ \A k \in 0 .. m : AtArg(k) \in Nat
  <2>1. \A k \in 0 .. m : t[k] + 9 * k \in Nat
    BY <1>8
  <2>2. 0 \in 0 .. m
    OBVIOUS
  <2>3. AtArg(0) = t[0] + 9 * 0
    BY <1>9, <2>2
  <2>4. AtArg(0) = 0
    BY <1>5, <2>3
  <2>5. \A k \in 0 .. m : AtArg(k) \in Nat
    BY <1>9, <2>1
  <2> QED
    BY <2>4, <2>5
<1>13. Len(Args) \in 1 .. 5 /\ last = Len(Args) - 1
  BY <1>2, <1>3, <1>4, <1>7
<1> QED
  BY <1>2, <1>10, <1>11, <1>12, <1>13

\* What is written of an argument, with and without the separator.
LEMMA ArgText ==
  ASSUME item \in Values, Paged, NEW k \in 1 .. Len(Args), NEW at \in 0 .. VALUE_BUF
  PROVE  /\ Total(ArgPieces(k)) = Args[k].raw + Quotes(Args[k]) + 7
         /\ Written(at, ArgPieces(k)) = put(at, Args[k].raw + Quotes(Args[k]) + 7)
         /\ Written(at, Append(ArgPieces(k), 2)) = put(at, Args[k].raw + Quotes(Args[k]) + 9)
<1>1. PICK a \in Nat, q \in Nat : a = Args[k].raw /\ q = Quotes(Args[k])
  BY ItemType
<1>2. k \in 1 .. 5
  <2>1. PICK m \in 1 .. 5 : m = Len(Args)
    BY ArgsBound
  <2>2. k \in 1 .. m
    BY <2>1
  <2> QED
    BY <2>2
<1>3. Digits(k) = 1
  BY <1>2 DEF Digits
<1> DEFINE p == <<4, 1, 2, q, a>>
<1>4. ArgPieces(k) = p
  BY <1>1, <1>3 DEF ArgPieces
<1>5. p \in Seq(Nat) /\ Total(p) = 4 + 1 + 2 + q + a
  <2>1. p \in Seq(Nat) /\ 4 \in Nat /\ 1 \in Nat /\ 2 \in Nat
    OBVIOUS
  <2> QED
    BY <2>1, Total5
<1> HIDE DEF p
<1>6. Append(p, 2) \in Seq(Nat) /\ Total(Append(p, 2)) = Total(p) + 2
  BY <1>5, TotalAppend, AppendProperties
<1>7. Total(p) = a + q + 7 /\ Total(Append(p, 2)) = a + q + 9
  BY <1>5, <1>6
<1>8. Written(at, p) = put(at, Total(p)) /\ Written(at, Append(p, 2)) = put(at, Total(Append(p, 2)))
  BY <1>5, <1>6, WrittenIsTotal
<1> QED
  BY <1>1, <1>4, <1>7, <1>8

\* The whole text of a list of arguments.
LEMMA WholeOfArgs ==
  ASSUME item \in Values, Paged
  PROVE  Whole = AtArg(Len(Args)) - 2
<1> DEFINE g == [k \in DOMAIN Args |-> Total(ArgPieces(k)) + 2]
           t == SumTo(ArgLens)
           w == SumTo(g)
<1>1. /\ ArgLens \in Seq(Nat) /\ Len(ArgLens) = Len(Args) /\ Args \in Seq(Argument)
      /\ \A k \in 1 .. Len(Args) :
           ArgLens[k] = Args[k].raw + Quotes(Args[k]) /\ Args[k].raw \in Nat /\ Quotes(Args[k]) \in Nat
  BY ItemType
<1>2. PICK m \in Nat : m = Len(Args)
  BY <1>1, LenProperties
<1>3. DOMAIN Args = 1 .. m
  BY <1>1, <1>2, LenProperties
<1>4. ASSUME NEW k \in 1 .. m PROVE g[k] = ArgLens[k] + 9 /\ ArgLens[k] \in Nat
  <2>1. 0 \in 0 .. VALUE_BUF
    BY BufAssumption
  <2>2. Total(ArgPieces(k)) = Args[k].raw + Quotes(Args[k]) + 7
    BY <1>2, <2>1, ArgText
  <2>3. g[k] = Total(ArgPieces(k)) + 2
    BY <1>3
  <2> QED
    BY <1>1, <1>2, <2>2, <2>3
<1>5. g \in Seq(Nat) /\ Len(g) = m
  <2>1. g = [k \in 1 .. m |-> g[k]]
    BY <1>3
  <2> HIDE DEF g
  <2>2. \A k \in 1 .. m : g[k] \in Nat
    BY <1>4
  <2>3. [k \in 1 .. m |-> g[k]] \in Seq(Nat) /\ Len([k \in 1 .. m |-> g[k]]) = m
    BY <2>2, IsASeq
  <2> QED
    BY <2>1, <2>3
<1>6. Whole = Total(g) - 2
  <2>1. item.render = "Unknown" /\ Displayable /\ Args # <<>>
    BY DEF Paged
  <2>2. ~IsText
    BY <2>1 DEF IsText, TextLen
  <2> QED
    BY <2>1, <2>2 DEF Whole
<1> HIDE DEF g
<1>7. t \in [0 .. m -> Nat] /\ t[0] = 0 /\ \A k \in 1 .. m : t[k] = t[k - 1] + ArgLens[k]
  BY <1>1, <1>2, SumToDef
<1>8. w[0] = 0 /\ \A k \in 1 .. m : w[k] = w[k - 1] + g[k]
  BY <1>5, SumToDef
<1>9. Total(g) = w[m] /\ AtArg(m) = t[m] + 9 * m
  BY <1>5 DEF Total, AtArg
<1> HIDE DEF t, w
<1> DEFINE P == {k \in Nat : k \in 0 .. m => w[k] = t[k] + 9 * k}
<1>10. 0 \in P /\ P \in SUBSET Nat
  BY <1>7, <1>8
<1>11. ASSUME NEW k \in 0 .. m - 1, k \in P PROVE k + 1 \in P
  <2>1. k \in 0 .. m /\ k + 1 \in 1 .. m /\ (k + 1) - 1 = k /\ k + 1 \in Nat
    OBVIOUS
  <2>2. w[k + 1] = w[k] + g[k + 1] /\ t[k + 1] = t[k] + ArgLens[k + 1]
    BY <1>7, <1>8, <2>1
  <2>3. w[k] = t[k] + 9 * k /\ g[k + 1] = ArgLens[k + 1] + 9 /\ ArgLens[k + 1] \in Nat /\ t[k] \in Nat
    BY <1>4, <1>7, <1>11, <2>1
  <2>4. w[k + 1] = t[k + 1] + 9 * (k + 1)
    BY <2>2, <2>3
  <2> QED
    BY <2>1, <2>4
<1> HIDE DEF P
<1>12. \A k \in 0 .. m : k \in P
  BY <1>10, <1>11, Inductive
<1>13. w[m] = t[m] + 9 * m
  BY <1>12 DEF P
<1> QED
  BY <1>2, <1>6, <1>9, <1>13

-----------------------------------------------------------------------------

\* While an item is rendered, the writer is where the loop says it is.
Counted ==
  result = "running" =>
    /\ n = idx
    /\ IF Paged THEN i \in 0 .. Len(Args) - 1 /\ idx = AtArg(i) ELSE i = 0 /\ idx = 0

RenderInv == item \in Values /\ Counted /\ ValuesAreWhole /\ ArgumentsFit

LEMMA RenderInitInv == RenderInit => RenderInv
<1> SUFFICES ASSUME RenderInit PROVE RenderInv
  OBVIOUS
<1>1. item \in Values /\ i = 0 /\ idx = 0 /\ n = 0 /\ result = "running"
  BY DEF RenderInit
<1>2. Paged => Len(Args) \in 1 .. 5 /\ AtArg(0) = 0
  BY <1>1, ArgsBound
<1>3. Counted
  BY <1>1, <1>2 DEF Counted
<1> QED
  BY <1>1, <1>3 DEF RenderInv, ValuesAreWhole, ArgumentsFit

\* A renderer returns its text.
LEMMA OkInv ==
  ASSUME RenderInv, NEW len \in Nat, Ok(put(0, len)), len < VALUE_BUF, len = Whole
  PROVE  RenderInv'
<1>1. n' = len /\ result' = "Ok" /\ item' = item
  BY BufAssumption DEF Ok, put
<1>2. Whole' = Whole
  BY <1>1 DEF Whole, IsText, PiecesOf, Raw, Displayable, Args, Span, ArgLens, ArgPieces, Quotes, Digits
<1> QED
  BY <1>1, <1>2 DEF RenderInv, Counted, ValuesAreWhole, ArgumentsFit

\* RenderText: the longest text has 205 bytes.
LEMMA TextInv == ASSUME RenderInv, RenderText PROVE RenderInv'
<1> DEFINE len == TextLen[item.render]
<1>1. IsText /\ Ok(put(0, len))
  BY DEF RenderText
<1>2. len \in 0 .. 205
  BY <1>1 DEF IsText, TextLen
<1>3. len = Whole
  BY <1>1 DEF Whole
<1> HIDE DEF len
<1>4. len \in Nat /\ len < VALUE_BUF
  BY <1>2, BufAssumption
<1> QED
  BY <1>1, <1>3, <1>4, OkInv

\* RenderValue: the check before the writing counts every piece.
LEMMA ValueInv == ASSUME RenderInv, RenderValue PROVE RenderInv'
<1>0. item \in Values /\ item.render # "Unknown" /\ ~IsText
  BY DEF RenderInv, RenderValue
<1>1. ASSUME NEW error \in {"LengthZero", "DataTooLarge"}, Fail(error) PROVE RenderInv'
  <2>1. item' = item /\ result' = error /\ error # "Ok" /\ error # "running"
    BY <1>1 DEF Fail
  <2> QED
    BY <1>0, <2>1 DEF RenderInv, Counted, ValuesAreWhole, ArgumentsFit
<1>2. ASSUME ~TooLarge, Ok(Written(0, PiecesOf)) PROVE RenderInv'
  <2>1. item.render \in OneValue \cup {"Gas"}
    BY <1>0, ItemType DEF IsText
  <2>2. Whole = Total(PiecesOf)
    BY <1>0 DEF Whole
  <2>3. PiecesOf \in Seq(Nat) /\ Total(PiecesOf) \in Nat /\ Total(PiecesOf) < VALUE_BUF
    <3>1. CASE item.render \in {"Std", "CapName", "CapNamespace"}
      <4>1. PiecesOf = <<Raw(1)>> /\ Raw(1) \in Nat /\ Raw(1) < VALUE_BUF
        <5>1. PiecesOf = <<Raw(1)>>
          BY <3>1 DEF PiecesOf
        <5>2. Raw(1) \in Nat
          BY <1>0, <3>1, ItemType DEF OneValue
        <5>3. ~(Raw(1) >= VALUE_BUF)
          BY <1>2, <3>1 DEF TooLarge
        <5> QED
          BY <5>1, <5>2, <5>3, BufAssumption
      <4>2. Total(<<Raw(1)>>) = Raw(1) /\ <<Raw(1)>> \in Seq(Nat)
        BY <4>1, Total1
      <4> QED
        BY <4>1, <4>2
    <3>2. CASE item.render \in {"Amount", "MaxFee"}
      <4>1. PiecesOf = <<4, Raw(1)>> /\ Raw(1) \in Nat /\ 4 + Raw(1) < VALUE_BUF
        <5>1. PiecesOf = <<4, Raw(1)>>
          BY <3>2 DEF PiecesOf
        <5>2. Raw(1) \in Nat
          BY <1>0, <3>2, ItemType DEF OneValue
        <5>3. ~(Raw(1) + 5 > VALUE_BUF /\ Raw(1) > VALUE_BUF - 1 - 4)
          BY <1>2, <3>2 DEF TooLarge
        <5> QED
          BY <5>1, <5>2, <5>3, BufAssumption
      <4>2. Total(<<4, Raw(1)>>) = 4 + Raw(1) /\ <<4, Raw(1)>> \in Seq(Nat)
        BY <4>1, Total2
      <4> QED
        BY <4>1, <4>2
    <3>3. CASE item.render = "Rotate"
      <4>1. PiecesOf = <<1, Raw(1), 1>> /\ Raw(1) \in Nat /\ 1 + Raw(1) + 1 < VALUE_BUF
        <5>1. PiecesOf = <<1, Raw(1), 1>>
          BY <3>3 DEF PiecesOf
        <5>2. Raw(1) \in Nat
          BY <1>0, <3>3, ItemType DEF OneValue
        <5>3. ~(Raw(1) + 3 > VALUE_BUF)
          BY <1>2, <3>3 DEF TooLarge
        <5> QED
          BY <5>1, <5>2, <5>3, BufAssumption
      <4>2. Total(<<1, Raw(1), 1>>) = 1 + Raw(1) + 1 /\ <<1, Raw(1), 1>> \in Seq(Nat)
        BY <4>1, Total3
      <4> QED
        BY <4>1, <4>2
    <3>4. CASE item.render = "Gas"
      <4>1. /\ PiecesOf = <<8, Raw(1), 10, Raw(2)>> /\ Raw(1) \in Nat /\ Raw(2) \in Nat
            /\ 8 + Raw(1) + 10 + Raw(2) < VALUE_BUF
        <5>1. PiecesOf = <<8, Raw(1), 10, Raw(2)>>
          BY <3>4 DEF PiecesOf
        <5>2. Raw(1) \in Nat /\ Raw(2) \in Nat
          BY <1>0, <3>4, ItemType DEF OneValue
        <5>3. ~(Raw(1) + Raw(2) + 8 + 10 + 1 > VALUE_BUF)
          BY <1>2, <3>4 DEF TooLarge
        <5> QED
          BY <5>1, <5>2, <5>3, BufAssumption
      <4>2. /\ Total(<<8, Raw(1), 10, Raw(2)>>) = 8 + Raw(1) + 10 + Raw(2)
            /\ <<8, Raw(1), 10, Raw(2)>> \in Seq(Nat)
        BY <4>1, Total4
      <4> QED
        BY <4>1, <4>2
    <3> QED
      BY <2>1, <3>1, <3>2, <3>3, <3>4 DEF OneValue
  <2>4. Written(0, PiecesOf) = put(0, Total(PiecesOf))
    BY <2>3, WrittenIsTotal, BufAssumption
  <2> QED
    BY <1>2, <2>2, <2>3, <2>4, OkInv
<1> QED
  BY <1>1, <1>2 DEF RenderValue

\* WriteArg: the next argument fits, and is counted as it is written.
LEMMA WriteArgInv == ASSUME RenderInv, WriteArg PROVE RenderInv'
<1>1. item \in Values /\ Paged /\ result = "running" /\ i < last
  BY DEF RenderInv, WriteArg, AtArgs, Paged
<1>2. /\ Len(Args) \in 1 .. 5 /\ last = Len(Args) - 1
      /\ \A k \in 0 .. Len(Args) : AtArg(k) \in Nat
      /\ \A k \in 0 .. Len(Args) - 1 :
           AtArg(k + 1) = AtArg(k) + Args[k + 1].raw + Quotes(Args[k + 1]) + 9
      /\ \A k \in 1 .. Len(Args) : AtArg(k) <= 255 + 8 * Len(Args)
  BY <1>1, ArgsBound
<1>3. n = idx /\ i \in 0 .. Len(Args) - 1 /\ idx = AtArg(i)
  BY <1>1 DEF RenderInv, Counted
<1>4. PICK m \in 1 .. 5 : m = Len(Args)
  BY <1>2
<1>5. i + 1 \in 1 .. m /\ i \in 0 .. m /\ i + 1 \in 0 .. m - 1 /\ i \in 0 .. m - 1
  BY <1>1, <1>2, <1>3, <1>4
<1>6. PICK a \in Nat, q \in Nat : a = Args[i + 1].raw /\ q = Quotes(Args[i + 1])
  BY <1>1, <1>4, <1>5, ItemType
<1>7. AtArg(i) \in Nat /\ AtArg(i + 1) = AtArg(i) + (a + q + 9) /\ AtArg(i + 1) <= 295
  <2>1. AtArg(i) \in Nat /\ AtArg(i + 1) = AtArg(i) + a + q + 9 /\ AtArg(i + 1) <= 255 + 8 * m
    BY <1>2, <1>4, <1>5, <1>6
  <2> QED
    BY <2>1
<1>8. ~(idx + (a + q + 9) > VALUE_BUF)
  BY <1>3, <1>7, BufAssumption
<1>9. /\ n' = Written(n, Append(ArgPieces(i + 1), 2))
      /\ idx' = idx + (a + q + 9) /\ i' = i + 1 /\ item' = item /\ result' = result
  BY <1>6, <1>8 DEF WriteArg
<1>10. n' = put(n, a + q + 9)
  <2>1. n \in 0 .. VALUE_BUF
    BY <1>3, <1>7, BufAssumption
  <2>2. i + 1 \in 1 .. Len(Args)
    BY <1>4, <1>5
  <2> QED
    BY <1>1, <1>6, <1>9, <2>1, <2>2, ArgText
<1>11. n' = idx' /\ idx' = AtArg(i + 1)
  BY <1>3, <1>7, <1>8, <1>9, <1>10 DEF put
<1>12. Paged' /\ Args' = Args /\ AtArg(i + 1) = AtArg(i)'
  BY <1>1, <1>9 DEF Paged, Displayable, Args, Span, ArgLens, Quotes, AtArg
<1>13. Counted'
  BY <1>4, <1>5, <1>9, <1>11, <1>12 DEF Counted
<1> QED
  BY <1>1, <1>9, <1>11, <1>13 DEF RenderInv, ValuesAreWhole, ArgumentsFit

\* WriteLastArg: the last one fits too, and with it the text is whole.
LEMMA WriteLastArgInv == ASSUME RenderInv, WriteLastArg PROVE RenderInv'
<1>1. item \in Values /\ Paged /\ result = "running" /\ i >= last
  BY DEF RenderInv, WriteLastArg, AtArgs, Paged
<1>2. /\ Len(Args) \in 1 .. 5 /\ last = Len(Args) - 1
      /\ \A k \in 0 .. Len(Args) : AtArg(k) \in Nat
      /\ \A k \in 0 .. Len(Args) - 1 :
           AtArg(k + 1) = AtArg(k) + Args[k + 1].raw + Quotes(Args[k + 1]) + 9
      /\ \A k \in 1 .. Len(Args) : AtArg(k) <= 255 + 8 * Len(Args)
  BY <1>1, ArgsBound
<1>3. n = idx /\ i \in 0 .. Len(Args) - 1 /\ idx = AtArg(i)
  BY <1>1 DEF RenderInv, Counted
<1>4. PICK m \in 1 .. 5 : m = Len(Args)
  BY <1>2
<1>5. i = m - 1 /\ i + 1 = m /\ m \in 1 .. m /\ i \in 0 .. m /\ i \in 0 .. m - 1
  BY <1>1, <1>2, <1>3, <1>4
<1>6. PICK a \in Nat, q \in Nat : a = Args[m].raw /\ q = Quotes(Args[m])
  BY <1>1, <1>4, <1>5, ItemType
<1>7. AtArg(i) \in Nat /\ AtArg(m) = AtArg(i) + (a + q + 9) /\ AtArg(m) <= 295
  <2>1. AtArg(i) \in Nat /\ AtArg(m) = AtArg(i) + a + q + 9 /\ AtArg(m) <= 255 + 8 * m
    BY <1>2, <1>4, <1>5, <1>6
  <2> QED
    BY <2>1
<1>8. ~(idx + a + q + 8 > VALUE_BUF)
  BY <1>3, <1>7, BufAssumption
<1>9. Ok(Written(n, ArgPieces(m)))
  BY <1>4, <1>6, <1>8 DEF WriteLastArg
<1>10. n' = put(n, a + q + 7) /\ result' = "Ok" /\ item' = item
  <2>1. n \in 0 .. VALUE_BUF
    BY <1>3, <1>7, BufAssumption
  <2>2. m \in 1 .. Len(Args)
    BY <1>4, <1>5
  <2>3. Written(n, ArgPieces(m)) = put(n, a + q + 7)
    BY <1>1, <1>6, <2>1, <2>2, ArgText
  <2> QED
    BY <1>9, <2>3 DEF Ok
<1>11. n' = AtArg(m) - 2 /\ n' < VALUE_BUF
  BY <1>3, <1>7, <1>10, BufAssumption DEF put
<1>12. Whole = AtArg(m) - 2
  BY <1>1, <1>4, WholeOfArgs
<1>13. Whole' = Whole
  BY <1>10 DEF Whole, IsText, PiecesOf, Raw, Displayable, Args, Span, ArgLens, ArgPieces, Quotes, Digits
<1> QED
  BY <1>1, <1>10, <1>11, <1>12, <1>13 DEF RenderInv, Counted, ValuesAreWhole, ArgumentsFit

LEMMA RenderNextInv == RenderInv /\ [RenderNext]_renderVars => RenderInv'
<1> SUFFICES ASSUME RenderInv, [RenderNext]_renderVars PROVE RenderInv'
  OBVIOUS
<1>1. CASE RenderText
  BY <1>1, TextInv
<1>2. CASE NoAddress
  <2>1. item' = item /\ result' = "Error" /\ item.render = "SignForAddr"
    BY <1>2 DEF NoAddress, Fail
  <2> QED
    BY <2>1 DEF RenderInv, Counted, ValuesAreWhole, ArgumentsFit
<1>3. CASE RenderValue
  BY <1>3, ValueInv
<1>4. CASE NotDisplayable
  <2>1. item.render = "Unknown" /\ ~Displayable /\ Ok(put(0, 34))
    BY <1>4 DEF NotDisplayable
  <2>2. ~IsText
    BY <2>1 DEF IsText, TextLen
  <2>3. Whole = 34
    BY <2>1, <2>2 DEF Whole
  <2> QED
    BY <2>1, <2>3, OkInv, BufAssumption
<1>5. CASE NoArgs
  <2>1. item.render = "Unknown" /\ Displayable /\ Args = <<>> /\ Ok(put(0, 7))
    BY <1>5 DEF NoArgs, AtArgs
  <2>2. ~IsText
    BY <2>1 DEF IsText, TextLen
  <2>3. Whole = 7
    BY <2>1, <2>2 DEF Whole
  <2> QED
    BY <2>1, <2>3, OkInv, BufAssumption
<1>6. CASE WriteArg
  BY <1>6, WriteArgInv
<1>7. CASE WriteLastArg
  BY <1>7, WriteLastArgInv
<1>8. CASE LookupFails
  <2>1. item' = item /\ result' = "Error" /\ item.render \in Lookups
    BY <1>8 DEF LookupFails, Missing, Fail
  <2> QED
    BY <2>1 DEF RenderInv, Counted, ValuesAreWhole, ArgumentsFit, Lookups
<1>9. CASE UNCHANGED renderVars
  <2>1. item' = item /\ i' = i /\ idx' = idx /\ n' = n /\ result' = result
    BY <1>9 DEF renderVars
  <2>2. Whole' = Whole /\ Paged' = Paged /\ Args' = Args /\ AtArg(i)' = AtArg(i)
    BY <2>1 DEF Whole, IsText, PiecesOf, Raw, Displayable, Args, Span, ArgLens, ArgPieces, Quotes,
                Digits, Paged, AtArg
  <2> QED
    BY <2>1, <2>2 DEF RenderInv, Counted, ValuesAreWhole, ArgumentsFit
<1> QED
  BY <1>1, <1>2, <1>3, <1>4, <1>5, <1>6, <1>7, <1>8, <1>9 DEF RenderNext

LEMMA RenderInvariant == RenderSpec => []RenderInv
BY RenderInitInv, RenderNextInv, PTL DEF RenderSpec

\* For every set of items and every size of the value buffer that holds the
\* arguments: what render returns is the whole text, with a byte to spare.
THEOREM ValuesSafe == RenderSpec => []ValuesAreWhole
<1>1. RenderInv => ValuesAreWhole
  BY DEF RenderInv
<1> QED
  BY <1>1, RenderInvariant, PTL

\* For the same constants: render_unknown refuses no arguments that were found
\* displayable, and the bytes it accounts for are the bytes it wrote.
THEOREM ArgumentsSafe == RenderSpec => []ArgumentsFit
<1>1. RenderInv => ArgumentsFit
  BY DEF RenderInv
<1> QED
  BY <1>1, RenderInvariant, PTL
=============================================================================
