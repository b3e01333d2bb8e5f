--------------------------------- MODULE Fee --------------------------------
(***************************************************************************)
(* kadena_core::fee: the maximum fee gasLimit x gasPrice, computed exactly *)
(* on decimal digits from the numbers as the transaction writes them.      *)
(*                                                                         *)
(* A text is a sequence of characters: 0 to BASE - 1 are the digits (the   *)
(* code's base is 10; the algorithm is the same for any), the others are   *)
(* codes above them.  The result is a text, or << >> for a refusal.        *)
(***************************************************************************)
EXTENDS Integers, Sequences, FiniteSetsExt, SequencesExt

CONSTANTS
  BASE,            \* 10
  MAX_DIGITS,      \* 300: digits of one number
  MAX_EXP,         \* 400: largest exponent
  OUT,             \* bytes left for the fee in the value buffer
  Numerals,        \* reference: numbers, as their parts
  SCALE            \* reference: fraction digits, positive exponents apart

Dot == BASE
Exp == BASE + 1
Minus == BASE + 2
Plus == BASE + 3

-----------------------------------------------------------------------------
(* parse.                                                                  *)

IsDigit(s, i) == i <= Len(s) /\ s[i] < BASE
Is(s, i, c) == i <= Len(s) /\ s[i] = c

\* The first position from i on that is no digit.
DigitsEnd(s, i) == Min({j \in i .. Len(s) + 1 : ~IsDigit(s, j)})

\* The number that digits are, the first one the most significant.
Number(digits) == FoldLeft(LAMBDA n, d : n * BASE + d, 0, digits)

NotANumber == [digits |-> << >>, scale |-> 0]

\* digits x BASE^(-scale), or NotANumber.
Parse(s) ==
  LET int_end  == DigitsEnd(s, 1)
      has_frac == Is(s, int_end, Dot)
      frac_end == IF has_frac THEN DigitsEnd(s, int_end + 1) ELSE int_end
      has_exp  == Is(s, frac_end, Exp)
      neg      == has_exp /\ Is(s, frac_end + 1, Minus)
      e0       == frac_end + (IF neg \/ Is(s, frac_end + 1, Plus) THEN 2 ELSE 1)
      end      == IF has_exp THEN DigitsEnd(s, e0) ELSE frac_end
      frac     == IF has_frac THEN SubSeq(s, int_end + 1, frac_end - 1) ELSE << >>
      digits   == SubSeq(s, 1, int_end - 1) \o frac
      e        == IF has_exp THEN Number(SubSeq(s, e0, end - 1)) ELSE 0
  IN
  IF /\ int_end > 1
     /\ has_frac => frac # << >>
     /\ has_exp => end > e0 /\ e <= MAX_EXP
     /\ Len(digits) <= MAX_DIGITS
     /\ end = Len(s) + 1
  THEN [digits |-> digits, scale |-> Len(frac) - (IF neg THEN -e ELSE e)]
  ELSE NotANumber

-----------------------------------------------------------------------------
(* max_fee.                                                                *)

\* acc before the carries: acc[k] sums the products of the digits whose
\* positions (from 0) add up to k - 1.
Partial(a, b) ==
  [k \in 0 .. Len(a) + Len(b) - 1 |->
     MapThenSumSet(LAMBDA i : a[i] * b[k - i + 1],
                   {i \in 1 .. Len(a) : k - i + 1 \in 1 .. Len(b)})]

\* The product's digits: each position keeps the remainder and carries on.
Product_DropsCarry(a, b) ==
  LET acc == Partial(a, b) IN [i \in 1 .. Len(a) + Len(b) |-> acc[i - 1] % BASE]
Product(a, b) ==
  LET n == Len(a) + Len(b)
      acc == Partial(a, b)
      carry[k \in 1 .. n] == IF k = n THEN 0 ELSE (acc[k] + carry[k + 1]) \div BASE
  IN [i \in 1 .. n |->
        IF i = 1 THEN acc[0] + carry[1] ELSE (acc[i - 1] + carry[i]) % BASE]

Zeros(n) == [i \in 1 .. n |-> 0]

\* The digits without leading zeros, and how many are left without trailing ones.
Stripped(s) ==
  LET first == SelectInSeq(s, LAMBDA d : d # 0)
  IN IF first = 0 THEN << >> ELSE SubSeq(s, first, Len(s))
Significant(p) == SelectLastInSeq(p, LAMBDA d : d # 0)

\* Plain notation of p x BASE^(-scale), p without leading zeros.
Plain(p, scale) ==
  LET int_len == Len(p) - scale
      frac_start == Max({int_len, 0})
      frac_end == Significant(p)
      int == IF int_len > 0 THEN SubSeq(p, 1, int_len) ELSE <<0>>
      frac == IF frac_end > frac_start \/ (int_len < 0 /\ frac_end > 0)
                THEN <<Dot>> \o Zeros(Max({-int_len, 0}))
                       \o SubSeq(p, frac_start + 1, frac_end)
                ELSE << >>
  IN CASE p = << >> -> <<0>>
       [] p # << >> /\ scale <= 0 -> p \o Zeros(-scale)
       [] p # << >> /\ scale > 0 -> int \o frac

MaxFee(l, p) ==
  LET a == Parse(l)
      b == Parse(p)
      text == Plain(Stripped(Product(a.digits, b.digits)), a.scale + b.scale)
  IN IF NotANumber \in {a, b} \/ Len(text) > OUT THEN << >> ELSE text

-----------------------------------------------------------------------------
(* Reference: a number by its parts, [int, frac, sign, exp], its text, and *)
(* its value and that of a product as integers, times BASE^SCALE and       *)
(* BASE^(2 SCALE).                                                         *)

TextOf(r) ==
  r.int \o (IF r.frac = << >> THEN << >> ELSE <<Dot>> \o r.frac)
        \o (IF r.exp = << >> THEN << >> ELSE <<Exp>> \o r.sign \o r.exp)

Accepted ==
  {r \in Numerals : Len(r.int \o r.frac) <= MAX_DIGITS /\ Number(r.exp) <= MAX_EXP}
TextsAndParts == {<<TextOf(r), r>> : r \in Accepted}
Texts == {w[1] : w \in TextsAndParts}
ReadingOf == [text \in Texts |-> (CHOOSE w \in TextsAndParts : w[1] = text)[2]]

ValueOf(r) ==
  LET e == IF r.sign = <<Minus>> THEN -Number(r.exp) ELSE Number(r.exp)
  IN Number(r.int \o r.frac) * BASE^(SCALE - Len(r.frac) + e)

\* The shortest plain notation of v / BASE^(2 SCALE) has so many digits.
FracDigits(v) == Min({f \in 0 .. 2 * SCALE : v % BASE^(2 * SCALE - f) = 0})
IntDigits(v) == Min({n \in 1 .. 4 * SCALE : v < BASE^(2 * SCALE + n)})
PlainLen(v) ==
  IntDigits(v) + (IF FracDigits(v) = 0 THEN 0 ELSE 1 + FracDigits(v))

PlainValue(text) ==
  LET dot == SelectInSeq(text, LAMBDA c : c = Dot)
      frac == IF dot = 0 THEN 0 ELSE Len(text) - dot
  IN Number(SelectSeq(text, LAMBDA c : c # Dot)) * BASE^(2 * SCALE - frac)

\* The text of the fee is the exact product, in the shortest plain notation; it is
\* refused only if a text is no number within the limits or the fee does not fit.
IsExact(fee, limit, price) ==
  LET v == ValueOf(ReadingOf[limit]) * ValueOf(ReadingOf[price])
  IN IF {limit, price} \subseteq Texts /\ PlainLen(v) <= OUT
     THEN Len(fee) = PlainLen(v) /\ PlainValue(fee) = v
     ELSE fee = << >>
=============================================================================
