-------------------------- MODULE TransferPayloads --------------------------
(***************************************************************************)
(* Transfers a host may send: a plain one, and those that differ from it in*)
(* one field, in the namespace and the module, or in every length.         *)
(***************************************************************************)
EXTENDS Transfer

Rep(n, b) == [i \in 1 .. n |-> b]

Key == Rep(64, 97)        \* the device key
Other == Rep(64, 98)      \* another key

\* 1.0, 1, main, and so on.
Plain ==
  [ field \in 0 .. FIELDS - 1 |->
    CASE field = RECIPIENT -> Other
      [] field = NETWORK -> <<109, 97, 105, 110>>
      [] field = AMOUNT -> <<49, 46, 48>>
      [] field \in {NAMESPACE, MODULE_} -> <<>>
      [] OTHER -> <<49>> ]

\* A byte that the field allows.
Filler(field) == IF field \in {NAMESPACE, MODULE_, NETWORK, NONCE, RECIPIENT} THEN 99 ELSE 49

\* As long as the field may be, or n bytes longer.
Longest(field, n) ==
  IF field = AMOUNT THEN <<49, 46>> \o Rep(max_len[field] + n - 2, 49)
  ELSE Rep(max_len[field] + n, Filler(field))

\* Texts over a digit, a dot, an exponent and a sign.
NumberTexts == UNION {[1 .. n -> {49, 46, 101, 45}] : n \in 0 .. 5}

Texts ==
  {<<>>, <<Quote>>, <<99, Quote>>, <<Escape_>>, <<Escape_, 110>>, <<31>>, <<127>>, <<200>>, <<32>>,
   <<46>>, <<40>>, <<41>>, <<103>>, <<71>>, <<110, 117, 108, 108>>}

\* 0, 10 and 01, a dot, and about twelve digits.
Amounts ==
  {int \o <<46>> \o Rep(n, 48) : int \in {<<48>>, <<49, 48>>, <<48, 49>>}, n \in {1} \cup 11 .. 14}

Alternatives(field) ==
  CASE field = RECIPIENT ->
         {<<>>, Key, Rep(63, 97), Rep(65, 97), Rep(64, 65), [Other EXCEPT ![64] = 103]}
    [] field \in {AMOUNT, GAS_PRICE, GAS_LIMIT} ->
         NumberTexts \cup Texts \cup Amounts \cup {Longest(field, 0), Longest(field, 1)}
    [] OTHER -> Texts \cup {Longest(field, 0), Longest(field, 1), Rep(255, Filler(field))}

Differences == UNION {{field} \X Alternatives(field) : field \in 0 .. FIELDS - 1}

OneDiffers == {[Plain EXCEPT ![d[1]] = d[2]] : d \in Differences}

Names == {<<>>, <<99>>, <<99, 45, 49>>, <<99, 46>>, <<99, 32>>, Longest(MODULE_, 0)}

Tokens == {[Plain EXCEPT ![NAMESPACE] = n, ![MODULE_] = m] : n \in Names, m \in Names}

TokenAmounts ==
  {[Plain EXCEPT ![NAMESPACE] = <<99>>, ![MODULE_] = <<99>>, ![AMOUNT] = a] : a \in Amounts}

AllLongest == [field \in 0 .. FIELDS - 1 |-> Longest(field, 0)]

Longests == {AllLongest} \cup {[AllLongest EXCEPT ![field] = Longest(field, 1)] : field \in 0 .. FIELDS - 1}

Sent == {[type |-> t, f |-> f] : t \in 0 .. 2, f \in OneDiffers \cup Tokens \cup TokenAmounts \cup Longests}
          \cup {[type |-> 3, f |-> Plain], [type |-> 255, f |-> Plain]}
=============================================================================
