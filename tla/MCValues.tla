------------------------------ MODULE MCValues ------------------------------
(***************************************************************************)
(* The texts of the review's values and the questions asked of them: the   *)
(* renderers of items.rs, the accounts of principal.rs, the fee of fee.rs. *)
(* A behaviour is about one of the three; the others stay idle.            *)
(***************************************************************************)
EXTENDS Render, Principal, Fee

CONSTANT MaxLen   \* bound: bytes of an account

VARIABLES
  subject,  \* "value", "account" or "fee"
  account,  \* an account, grown byte by byte
  fee       \* the gas limit and the gas price, as texts

MCvars == <<renderVars, subject, account, fee>>

-----------------------------------------------------------------------------
(* Values: every length up to past the buffer; lists of up to five         *)
(* arguments whose last fills up to past the limit on their span; longer   *)
(* lists of short arguments.                                               *)

Value(render, raw) ==
  [render |-> render, raw |-> raw, args |-> <<>>, blanks |-> 0, found |-> TRUE]

\* The members of the render's values are not there.
Absent(render) ==
  [Value(render, IF render = "Gas" THEN <<1, 1>> ELSE <<1>>) EXCEPT !.found = FALSE]

Unknown(args, blanks) ==
  [Value("Unknown", <<>>) EXCEPT !.args = args, !.blanks = blanks]

Arg(raw, string) == [raw |-> raw, string |-> string]

\* Arguments but the last: empty, short, and long enough to fill the span.
Firsts == {Arg(raw, string) : raw \in {0, 60}, string \in BOOLEAN}

FirstLists == UNION {[1 .. k -> Firsts] : k \in 0 .. 4}

Used(list) == FoldLeft(LAMBDA s, a : s + a.raw + 3, 2, list)

\* The last argument brings the span to about 256.
LastRaw(list, span) == IF span > Used(list) THEN span - Used(list) ELSE 0

Lists ==
  {Append(list, Arg(LastRaw(list, span), string)) :
     list \in FirstLists, span \in 250 .. 270, string \in BOOLEAN}

ManyArgs == {[k \in 1 .. c |-> Arg(1, FALSE)] : c \in {6, 9, 10, 11, 50, 255, 256, 257}}

RenderedValues ==
  {Unknown(list, 0) : list \in Lists}
  \cup {Value(render, <<len>>) : render \in OneValue, len \in 0 .. VALUE_BUF + 5}
  \cup {Value("Gas", <<a, b>>) : a \in {0, 1, 10, 140, 280}, b \in 0 .. VALUE_BUF + 5}
  \cup {Unknown(<<>>, 0), Unknown(<<>>, 254), Unknown(<<>>, 255), Unknown(<<Arg(1, TRUE)>>, 250),
        Unknown(<<Arg(1, TRUE)>>, 251)}
  \cup {Unknown(list, 0) : list \in ManyArgs}
  \cup {Value(render, <<>>) : render \in DOMAIN TextLen}
  \cup {Absent(render) : render \in Lookups}

-----------------------------------------------------------------------------
(* Accounts of up to MaxLen bytes, with a hash of one byte, a key of two   *)
(* and one reserved word; and the forms of a principal, as texts put       *)
(* together from their parts.                                              *)

MCReserved == {<<"t", "t">>}

Classes == {"a", "t", "9", "%", ".", ":"}

AddByte(b) ==
  /\ subject = "account"
  /\ Len(account) < MaxLen
  /\ CASE account = <<>> -> b \in Kinds \cup Classes
       [] Len(account) = 1 -> account[1] \in Kinds /\ b \in {":", "a"}
       [] OTHER -> account[2] = ":" /\ b \in Classes
  /\ account' = Append(account, b)
  /\ UNCHANGED <<renderVars, subject, fee>>

\* The longest name an account has room for: a kind, two colons, one byte.
NAME == MaxLen - 4

Words(first, rest) ==
  UNION {{<<b>> \o s : b \in first, s \in [1 .. k -> rest]} : k \in 0 .. NAME - 1}

Identifiers == Words({"a", "t", "%"}, {"a", "t", "9", "%"}) \ Reserved

Joined(S, b, T) == {s \o <<b>> \o t : s \in S, t \in T}

\* Texts with room for a dot and an identifier.
Short(S) == {s \in S : Len(s) <= NAME - 2}

Pairs == {s \in Joined(Short(Identifiers), ".", Short(Identifiers)) : Len(s) <= NAME}
Triples == {s \in Joined(Short(Pairs), ".", Short(Identifiers)) : Len(s) <= NAME}

ModuleNames == Identifiers \cup Pairs
Names == ModuleNames \cup Triples

Hashes == [1 .. HASH_LEN -> {"a", "t", "9"}]

\* A text of S, a colon and a text of T.
IsJoined(body, S, T) ==
  \E at \in DOMAIN body :
    body[at] = ":" /\ SubSeq(body, 1, at - 1) \in S /\ Rest(body, at) \in T

IsForm(kind, body) ==
  \/ kind = "k" /\ body \in [1 .. KEY_LEN -> {"a", "9"}]
  \/ kind = "r" /\ body # <<>>
  \/ kind = "c" /\ body \in Hashes
  \/ kind \in {"w", "p"} /\ IsJoined(body, Hashes, Names)
  \/ kind = "u" /\ IsJoined(body, Names, Hashes)
  \/ kind = "m" /\ IsJoined(body, ModuleNames, Names)

\* docs/apdu.md (16) and the comments of principal.rs: exactly the texts of the
\* seven forms are principals.  Reading from the left as far as each part goes
\* neither loses a form nor lets one end early, so no receiver of another form
\* is shown without its warning.
PrincipalsAreTheForms ==
  subject = "account" =>
  (is_principal(account) <=>
    Len(account) >= 2 /\ account[2] = ":" /\ IsForm(account[1], Rest(account, 2)))

-----------------------------------------------------------------------------
(* Fees: numbers of up to 4 digits in base 3 with an exponent of -2 to 2,  *)
(* and every text of up to 3 characters, for the price; a few texts for    *)
(* the limit.  Exponents above 1 and more than 3 digits are refused.       *)

DigitStrings(low, high) == UNION {[1 .. k -> 0 .. BASE - 1] : k \in low .. high}
Signs == {<< >>, <<Minus>>, <<Plus>>}

MCNumerals ==
  {r \in [int : DigitStrings(1, 3), frac : DigitStrings(0, 2), sign : Signs, exp : DigitStrings(0, 1)] :
     (r.exp = << >> => r.sign = << >>) /\ Len(r.int \o r.frac) <= 4}

MCPrices ==
  {TextOf(r) : r \in MCNumerals} \cup UNION {[1 .. k -> 0 .. Plus + 1] : k \in 0 .. 3}

MCLimits ==
  {<<0>>, <<2>>, <<1, 2>>, <<0, 2, 1>>, <<2, Dot, 1>>, <<1, Exp, 1>>, << >>, <<Minus, 1>>}

\* V15: the fee on the screen is the exact product of the gas limit and the gas
\* price as the transaction writes them; no fee is rounded, and none is refused
\* that fits.
FeeIsExact == subject = "fee" => IsExact(MaxFee(fee[1], fee[2]), fee[1], fee[2])

-----------------------------------------------------------------------------

Idle == item = [render |-> "none"] /\ i = 0 /\ idx = 0 /\ n = 0 /\ result = "idle"

MCInit ==
  \/ subject = "value" /\ RenderInit /\ account = <<>> /\ fee = <<>>
  \/ subject = "account" /\ Idle /\ account = <<>> /\ fee = <<>>
  \/ subject = "fee" /\ Idle /\ account = <<>> /\ fee \in MCLimits \X MCPrices

MCNext ==
  \/ RenderNext /\ UNCHANGED <<subject, account, fee>>
  \/ \E b \in Kinds \cup Classes : AddByte(b)

MCSpec == MCInit /\ [][MCNext]_MCvars
=============================================================================
