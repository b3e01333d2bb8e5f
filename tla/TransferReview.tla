--------------------------- MODULE TransferReview ---------------------------
(***************************************************************************)
(* A structured transfer (0x24, 0x10) from its payload to its review: the  *)
(* template transfer.rs builds is tokenized and reviewed by items.rs like  *)
(* any command.  The command is the template as the item builders see it,  *)
(* so that Items' Init and its Commands are not used.                      *)
(***************************************************************************)
EXTENDS Items, Transfer

VARIABLES
  payload,  \* the transaction buffer
  device,   \* the device key, << >> if the OS derives none
  outcome   \* what build returns

transferVars == <<payload, device, outcome>>

AMOUNT_PRECISION == 12

\* No leading zero.
PlainInt(v) == Digits(v) /\ (v[1] = 48 => Len(v) = 1)

is_amount_OffByOne(v) ==
  LET n == DigitRun(v)
  IN  /\ PlainInt(SubSeq(v, 1, n))
      /\ n < Len(v) => v[n + 1] = Dot /\ Digits(From(v, n + 2)) /\ Len(v) - n <= AMOUNT_PRECISION

\* (0|[1-9][0-9]*)(.[0-9]{1,12})?
is_amount(v) ==
  LET n == DigitRun(v)
  IN  /\ PlainInt(SubSeq(v, 1, n))
      /\ n < Len(v) =>
           v[n + 1] = Dot /\ Digits(From(v, n + 2)) /\ Len(v) - n - 1 <= AMOUNT_PRECISION

\* plain_integer
IntegerClass(v) == IF Digits(v) THEN "number" ELSE "other"

AmountClass(v) == IF is_amount(v) THEN "number" ELSE "other"

\* "" and null: n, u, l, l.
TextClass(v) == CASE v = <<>> -> "empty" [] v = <<110, 117, 108, 108>> -> "null" [] OTHER -> "name"

\* fee::max_fee: any text of a number is read; one with an exponent may be out of
\* range or make a fee too long to show.
PriceClasses(v) ==
  IF \E i \in DOMAIN v : v[i] \in Exponents THEN {"number", "longNumber"} ELSE {"number"}

Capability(name, args) ==
  [object |-> TRUE, name |-> name, hasArgs |-> TRUE, args |-> args, large |-> FALSE]

\* The name of the scope's capability: three parts for a token.
ScopeName(scope) ==
  IF scope.module # coin THEN "ns.mod.CAP"
  ELSE [TRANSFER |-> "coin.TRANSFER", TRANSFER_XCHAIN |-> "coin.TRANSFER_XCHAIN"][scope.name]

\* An account of the template is k: and a key.
AccountClass(key, addr) == IF key = addr THEN "device" ELSE "principal"

ScopeArgs(scope, addr) ==
  <<AccountClass(scope.sender, addr), AccountClass(scope.receiver, addr), AmountClass(scope.amount)>>
    \o (IF scope.chain = <<>> THEN <<>> ELSE <<"name">>)

\* The commands a template may be: one per class of its gas price.
CommandsOf(t) ==
  { [ type |-> "Transfer", verifiers |-> FALSE, networkId |-> TextClass(t.networkId),
      signersKind |-> "array",
      signers |-> <<[ object |-> TRUE, pubKey |-> "key", addr |-> "missing",
                      clist |-> [ kind |-> "array",
                                  caps |-> << Capability(ScopeName(t.scope), ScopeArgs(t.scope, t.pubKey)),
                                              Capability("coin.GAS", <<>>) >> ] ]>>,
      meta |-> [ kind |-> "object",
                 fields |-> [ creationTime |-> IntegerClass(t.meta.creationTime),
                              ttl |-> IntegerClass(t.meta.ttl),
                              gasLimit |-> IntegerClass(t.meta.gasLimit),
                              chainId |-> TextClass(t.meta.chainId),
                              gasPrice |-> price,
                              sender |-> AccountClass(t.meta.sender, t.pubKey) ] ],
      payload |-> [kind |-> "exec", pactId |-> "missing", step |-> "missing"],
      template |-> t ] : price \in PriceClasses(t.meta.gasPrice) }

-----------------------------------------------------------------------------
(* tx_parse of a transfer.                                                 *)

NotBuilt == [error |-> "running"]

\* A payload and a key, nothing parsed.
TransferInit ==
  /\ outcome = NotBuilt
  /\ cmd = <<>>
  /\ expert \in BOOLEAN
  /\ step = "build" /\ cap = 1 /\ signer = 0
  /\ slots = [n \in 0 .. MAX_ITEMS - 1 |-> EmptySlot] /\ num = 0
  /\ result = "running"

\* transfer::build; its error is the answer, its template is read and reviewed.
\* (read_json refuses none: the constant text has at most 55 tokens, and no field
\* adds structure, which is NoFieldAddsStructure.)
BuildTemplate ==
  /\ step = "build" /\ result = "running"
  /\ outcome' = build(payload, device)
  /\ \/ outcome'.error = "none" /\ cmd' \in CommandsOf(outcome'.template) /\ step' = "start"
        /\ UNCHANGED result
     \/ outcome'.error # "none" /\ result' = outcome'.error /\ UNCHANGED <<cmd, step>>
  /\ UNCHANGED <<payload, device, expert, cap, signer, slots, num>>

StoreItems == step # "build" /\ Next /\ UNCHANGED transferVars

TransferNext == BuildTemplate \/ StoreItems

\* Of any payload.
TransferSpec ==
  payload \in Seq(0 .. 255) /\ TransferInit /\ [][TransferNext]_<<vars, transferVars>>

-----------------------------------------------------------------------------
(* Properties.                                                             *)

Built == outcome.error = "none"

Of == outcome.template

-----------------------------------------------------------------------------
(* What is built.                                                          *)

\* The payload of a transfer, as the host frames it.
Payload(tx_type, f) ==
  LET upTo[n \in 0 .. FIELDS] ==
        IF n = 0 THEN <<tx_type>> ELSE upTo[n - 1] \o <<Len(f[n - 1])>> \o f[n - 1]
  IN  upTo[FIELDS]

\* The fields of a template are the ones the host put into the payload, and the
\* payload is all of it: a length byte never takes bytes of another field, and
\* nothing that was sent is left out of what is signed (build, Reader).
FieldsAreThePayload == Built => payload = Payload(payload[1], outcome.fields)

\* The test of transfer.rs: "field caps keep templates at 1191 bytes or less", so
\* a whole payload is never refused for the size of the template buffer.
TemplateFits ==
  /\ Built => outcome.len <= 1191
  /\ outcome.error = "UnexpectedBufferEnd" => payload = <<>> \/ Offsets(payload)[FIELDS] = Short

\* The numbers of docs/apdu.md (2, 26): digits, with one dot between them, with an
\* exponent.
Fraction(v) == \E n \in 2 .. Len(v) - 1 : v[n] = Dot /\ \A i \in DOMAIN v \ {n} : Digit(v[i])
Decimal(v) == Digits(v) \/ Fraction(v)
Number(v) ==
  \/ Decimal(v)
  \/ \E e \in 2 .. Len(v) - 1, sign \in {0, 1} :
       /\ v[e] \in Exponents
       /\ Decimal(SubSeq(v, 1, e - 1))
       /\ sign = 1 => v[e + 1] \in Signs
       /\ Digits(From(v, e + 1 + sign))

Grammatical(field, v, tx_type) ==
  CASE field = AMOUNT -> Fraction(v)
    [] field \in {GAS_LIMIT, CREATION_TIME, TTL} -> Decimal(v)
    [] field = GAS_PRICE -> Number(v)
    [] OTHER -> field_allowed(field, v, tx_type)

\* A number field is pasted exactly when it is a number: is_decimal and
\* is_json_number take no lone or trailing dot, no sign, no empty exponent, and
\* refuse no number.
NumbersAreTheGrammar ==
  LET allowed(f) == \A field \in 0 .. FIELDS - 1 : Grammatical(field, f[field], payload[1])
  IN  /\ Built => allowed(outcome.fields)
      /\ outcome.error = "UnexpectedCharacters" => ~allowed(FieldsAt(payload, Offsets(payload)))

Strings ==
  {Of.networkId, Of.code.receiver, Of.scope.receiver, Of.meta.chainId, Of.nonce}
  \cup {Of.data[i] : i \in DOMAIN Of.data}
  \cup {Of.code.chain[i] : i \in DOMAIN Of.code.chain}

Name == Of.code.module

Numerals == {Of.scope.amount, Of.meta.creationTime, Of.meta.ttl, Of.meta.gasLimit, Of.meta.gasPrice}

\* None of these ends or escapes a JSON string, or a Pact string inside one.
InString(v) == \A i \in DOMAIN v : v[i] >= 32 /\ v[i] \notin {Quote, Escape_}

\* None of these ends a name of the Pact code: blanks, brackets, quotes, dots.
InName(v) ==
  /\ v # <<>>
  /\ \A i \in DOMAIN v :
       v[i] \in 33 .. 126 /\ v[i] \notin {34, 39, 40, 41, 44, 46, 58, 59, 91, 92, 93, 123, 125}

\* A JSON value that ends where its text ends.
InNumber(v) ==
  /\ v # <<>> /\ Digit(v[1]) /\ Digit(v[Len(v)])
  /\ \A i \in DOMAIN v : Digit(v[i]) \/ v[i] \in {Dot} \cup Exponents \cup Signs

\* No field changes the structure of the JSON or of the Pact code it is pasted
\* into (V2): strings stay strings, a token's name has both its parts, numbers are
\* numbers, and every number is let through.
NoFieldAddsStructure ==
  /\ NumbersAreTheGrammar
  /\ Built =>
    /\ \A v \in Strings : InString(v)
    /\ \A i \in DOMAIN Name : InName(Name[i])
    /\ \A v \in Numerals : InNumber(v)
    /\ InNumber(Of.code.amount) /\ \E i \in DOMAIN Of.code.amount : Of.code.amount[i] = Dot

\* The code does what the signature is scoped to, and so what the review shows:
\* the same module, accounts, amount and target chain, from the device's account;
\* a receiver that may be created is guarded by the key its account names.
CodeIsTheScope ==
  Built =>
    /\ \A part \in {"module", "sender", "receiver", "amount", "chain"} :
         Of.code[part] = Of.scope[part]
    /\ Of.code.sender = device /\ Of.pubKey = device /\ Of.meta.sender = device
    /\ (Of.code.function = "transfer-crosschain") = (Of.scope.name = "TRANSFER_XCHAIN")
    /\ Of.code.keyset => Of.data = <<Of.scope.receiver>>

-----------------------------------------------------------------------------
(* What is shown.                                                          *)

IsToken == Of.code.module # coin

Titles == {slots[n].key : n \in 0 .. num - 1}

\* docs/apdu.md (11, 23): "Coin transfers (no namespace or module) stay
\* clear-signed, without a warning": of any type, amount and receiver, and the
\* transfer is on the screen whole.
CoinIsClear ==
  /\ ~NeedsBlind
  /\ Titles \cap {"Warning", "Caution", "UnscopedSigner", "KeyNotInTransfer"} = {}
  /\ \E n \in 0 .. num - 1 : TransferAt(n, 1)

\* docs/apdu.md (23): a transfer of a token is a blind-signing one and shows its
\* capability by name, namespace and arguments.
TokenIsBlind ==
  /\ NeedsBlind
  /\ {"Warning", "Capability", "Namespace", "Arguments"} \subseteq Titles
  /\ Titles \cap {"Transfer", "From", "To", "Amount", "ToChain"} = {}

\* What kind of review a structured transfer gets depends on its namespace and
\* module alone: none makes a token transfer look like a coin transfer, and no
\* other field makes a coin transfer a blind one.
TransfersAreReviewedByKind == Accepted => IF IsToken THEN TokenIsBlind ELSE CoinIsClear

\* A whole number, or one with one to twelve digits after the dot.
WrittenPlainly(v) ==
  \E n \in 1 .. Len(v) :
    /\ \A i \in DOMAIN v : IF i = n + 1 THEN v[i] = Dot ELSE Digit(v[i])
    /\ n > 1 => v[1] # 48
    /\ Len(v) - n \in {0} \cup 2 .. 13

\* The templates docs/apdu.md lets the host have built.
WellFormed ==
  /\ Of.networkId # <<>>
  /\ IsToken \/ WrittenPlainly(Of.scope.amount)
  /\ \A k \in {"creationTime", "ttl", "gasLimit"} : \A i \in DOMAIN Of.meta[k] : Digit(Of.meta[k][i])
  /\ cmd.meta.fields["gasPrice"] = "number"

\* The device never refuses a well-formed transfer it built itself, unless the OS
\* fails: the template has one entry for the device key, a recognised meta and
\* values its own review accepts.
OnlyTheOSRefuses ==
  [][Built /\ WellFormed /\ result' \notin {"running", "accepted"}
       => NoAddress \/ HashFails \/ AddressFails]_vars
=============================================================================
