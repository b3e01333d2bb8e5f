------------------------------- MODULE Render -------------------------------
(***************************************************************************)
(* The text of a review value (kadena-core/src/items.rs, ItemArray::render *)
(* and render_unknown).  The writer W cuts what does not fit its buffer    *)
(* without a word, so every renderer checks the length of its text first.  *)
(* A text is its length: the pieces written, and the raw lengths of the    *)
(* JSON values among them.                                                 *)
(***************************************************************************)
EXTENDS Integers, Sequences

CONSTANTS
  Values,      \* the items to render
  VALUE_BUF    \* 300

\* Room for the constant texts and for the arguments that are displayable.
ASSUME BufAssumption == VALUE_BUF \in Nat /\ VALUE_BUF > 294

VARIABLES
  item,    \* its render, the raw lengths of its values, its arguments, what its lookups find
  i,       \* render_unknown: arguments written
  idx,     \* render_unknown: bytes accounted for
  n,       \* W::n
  result   \* "running", "Ok" or the ItemsError

renderVars == <<item, i, idx, n, result>>

\* W::put
put(at, len) == IF at + len > VALUE_BUF THEN VALUE_BUF ELSE at + len

\* Where the writer is after each piece.
WrittenTo(at, pieces) ==
  LET upTo[k \in 0 .. Len(pieces)] == IF k = 0 THEN at ELSE put(upTo[k - 1], pieces[k])
  IN  upTo

Written(at, pieces) == WrittenTo(at, pieces)[Len(pieces)]

\* The sums of the beginnings of a sequence of lengths.
SumTo(s) ==
  LET upTo[k \in 0 .. Len(s)] == IF k = 0 THEN 0 ELSE upTo[k - 1] + s[k]
  IN  upTo

Total(s) == SumTo(s)[Len(s)]

Ok(at) == result' = "Ok" /\ n' = at /\ UNCHANGED <<item, i, idx>>

Fail(error) == result' = error /\ UNCHANGED <<item, i, idx, n>>

-----------------------------------------------------------------------------
(* Texts that do not depend on the command's length.                       *)

TextLen ==
  [Warning |-> 205, HashWarning |-> 112, Caution |-> 42, TxTooLarge |-> 99,
   RotateWarning |-> 37, NotPrincipal |-> 36, CapNotVerified |-> 23,
   Signing |-> 11, Requiring |-> 12, Transfer |-> 15, CrossTransfer |-> 20,
   Exec |-> 11, Cont |-> 19, Hash |-> 43, SignForAddr |-> 64,
   Signers |-> 5]  \* the digits of a u16, at most

\* Renders that look members up in the item's object as they run.
Lookups == {"Rotate", "Gas", "MaxFee", "CapName", "CapNamespace"}

\* Renders of one value of the command; Gas has two.
OneValue == {"Std", "CapName", "CapNamespace", "Amount", "MaxFee", "Rotate"}

Argument == [raw : Nat, string : BOOLEAN]

\* An item has the values its render reads.
ASSUME ValuesAssumption ==
  \A v \in Values :
    /\ v \in [render : DOMAIN TextLen \cup OneValue \cup {"Gas", "Unknown"},
              raw : Seq(Nat), args : Seq(Argument), blanks : Nat, found : BOOLEAN]
    /\ v.render \in OneValue => Len(v.raw) = 1
    /\ v.render = "Gas" => Len(v.raw) = 2

IsText == item.render \in DOMAIN TextLen

RenderText == result = "running" /\ IsText /\ Ok(put(0, TextLen[item.render]))

\* The OS has no key for the path.
NoAddress == result = "running" /\ item.render = "SignForAddr" /\ Fail("Error")

-----------------------------------------------------------------------------
(* The renderers of values of the command.                                 *)

Raw(k) == item.raw[k]

\* A member is not in the object, or a name has no namespace to show.
Missing == item.render \in Lookups /\ ~item.found

LookupFails == result = "running" /\ Missing /\ Fail("Error")

\* What each renderer writes.
PiecesOf ==
  CASE item.render \in {"Std", "CapName", "CapNamespace"} -> <<Raw(1)>>
    [] item.render \in {"Amount", "MaxFee"} -> <<4, Raw(1)>>       \* KDA
    [] item.render = "Rotate" -> <<1, Raw(1), 1>>                  \* quotes
    [] item.render = "Gas" -> <<8, Raw(1), 10, Raw(2)>>            \* at most, at price

TooLarge_WithoutPrefix ==
  CASE item.render \in {"Std", "CapName", "CapNamespace", "Amount"} -> Raw(1) >= VALUE_BUF
    [] item.render = "MaxFee" -> Raw(1) > VALUE_BUF - 1 - 4
    [] item.render = "Rotate" -> Raw(1) + 3 > VALUE_BUF
    [] item.render = "Gas" -> Raw(1) + Raw(2) + 8 + 10 + 1 > VALUE_BUF

TooLarge ==
  CASE item.render \in {"Std", "CapName", "CapNamespace"} -> Raw(1) >= VALUE_BUF
    [] item.render = "Amount" -> Raw(1) + 5 > VALUE_BUF
    [] item.render = "MaxFee" -> Raw(1) > VALUE_BUF - 1 - 4
    [] item.render = "Rotate" -> Raw(1) + 3 > VALUE_BUF
    [] item.render = "Gas" -> Raw(1) + Raw(2) + 8 + 10 + 1 > VALUE_BUF

RenderValue ==
  /\ result = "running" /\ item.render # "Unknown" /\ ~IsText /\ ~Missing
  /\ IF item.render \in {"Std", "Amount", "CapName", "CapNamespace"} /\ Raw(1) = 0
     THEN Fail("LengthZero")
     ELSE IF TooLarge THEN Fail("DataTooLarge")
     ELSE Ok(Written(0, PiecesOf))

-----------------------------------------------------------------------------
(* render_unknown.                                                         *)

Args == item.args

Quotes(arg) == IF arg.string THEN 2 ELSE 0

ArgLens == [k \in DOMAIN Args |-> Args[k].raw + Quotes(Args[k])]

\* The array's own bytes: brackets, commas, the blanks the host put in.
Span == Total(ArgLens) + item.blanks + 2 + IF Args = <<>> THEN 0 ELSE Len(Args) - 1

Displayable_SpanOfBuf == Len(Args) <= 5 /\ Span <= VALUE_BUF

\* can_display, as store_unknown_item left it.
Displayable == Len(Args) <= 5 /\ Span <= 256

\* The decimal digits put_u32 writes.
Digits(v) == IF v < 10 THEN 1 ELSE IF v < 100 THEN 2 ELSE 3

\* arg N: value
ArgPieces(k) == <<4, Digits(k), 2, Quotes(Args[k]), Args[k].raw>>

AtArgs == result = "running" /\ item.render = "Unknown" /\ Displayable

NotDisplayable ==
  /\ result = "running" /\ item.render = "Unknown" /\ ~Displayable
  /\ Ok(put(0, 34))

NoArgs == AtArgs /\ Args = <<>> /\ Ok(put(0, 7))

\* The loop counts the arguments in 8 bits.
last == (Len(Args) % 256) - 1

WriteArg ==
  /\ AtArgs /\ Args # <<>> /\ i < last
  /\ LET len == Args[i + 1].raw + Quotes(Args[i + 1]) + 9
     IN  IF idx + len > VALUE_BUF THEN Fail("DataTooLarge")
         ELSE /\ n' = Written(n, Append(ArgPieces(i + 1), 2))
              /\ idx' = idx + len
              /\ i' = i + 1
              /\ UNCHANGED <<item, result>>

WriteLastArg ==
  /\ AtArgs /\ Args # <<>> /\ i >= last
  /\ LET k == Len(Args)
     IN  IF idx + Args[k].raw + Quotes(Args[k]) + 8 > VALUE_BUF THEN Fail("DataTooLarge")
         ELSE Ok(Written(n, ArgPieces(k)))

-----------------------------------------------------------------------------

RenderInit == item \in Values /\ i = 0 /\ idx = 0 /\ n = 0 /\ result = "running"

RenderNext ==
  \/ RenderText \/ NoAddress \/ LookupFails \/ RenderValue
  \/ NotDisplayable \/ NoArgs \/ WriteArg \/ WriteLastArg

RenderSpec == RenderInit /\ [][RenderNext]_renderVars

-----------------------------------------------------------------------------
(* Properties.                                                             *)

\* The length of the whole text.
Whole ==
  IF IsText THEN TextLen[item.render]
  ELSE IF item.render # "Unknown" THEN Total(PiecesOf)
  ELSE IF ~Displayable THEN 34
  ELSE IF Args = <<>> THEN 7
  ELSE Total([k \in DOMAIN Args |-> Total(ArgPieces(k)) + 2]) - 2

\* A value is shown whole or refused, never cut (items.rs on CapName), and is "at
\* most 299 bytes": every check counts all the pieces its renderer then writes,
\* and every argument of an unverified capability is written.
ValuesAreWhole == result = "Ok" => n = Whole /\ n < VALUE_BUF

\* The arguments that store_unknown_item finds displayable fit the value, however
\* they are split, so a capability whose review says nothing of a size is never
\* refused for it; and, as render_unknown asserts in debug builds, the bytes it has
\* accounted for are the bytes written, which holds while arguments have one digit.
ArgumentsFit ==
  item.render = "Unknown" =>
    /\ result \in {"running", "Ok"}
    /\ result = "running" => idx = n
=============================================================================
