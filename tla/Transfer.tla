------------------------------ MODULE Transfer ------------------------------
(***************************************************************************)
(* The structured transfer (kadena-core/src/transfer.rs): from a payload of*)
(* a type and twelve length-prefixed fields the device builds the command  *)
(* itself.  Bytes are numbers.  The template is the record of what it says *)
(* and where each field is pasted; its constant text counts as bytes only. *)
(***************************************************************************)
EXTENDS Integers, Sequences

RECIPIENT == 0
RECIPIENT_CHAIN == 1
NETWORK == 2
AMOUNT == 3
NAMESPACE == 4
MODULE_ == 5
GAS_PRICE == 6
GAS_LIMIT == 7
CREATION_TIME == 8
CHAIN_ID == 9
NONCE == 10
TTL == 11
FIELDS == 12

TX_TYPE_TRANSFER == 0
TX_TYPE_TRANSFER_CREATE == 1
TX_TYPE_TRANSFER_CROSSCHAIN == 2

TEMPLATE_BUF == 1280

max_len_Byte == [field \in 0 .. FIELDS - 1 |-> 255]

max_len ==
  [field \in 0 .. FIELDS - 1 |->
     <<64, 2, 20, 32, 63, 32, 20, 10, 12, 2, 32, 20>>[field + 1]]

-----------------------------------------------------------------------------
(* The payload.                                                            *)

\* Reader::bytes runs past the input.
Overrun(input, off, len) == off + len > Len(input)

Short == -1

\* Where the reader, at at, is after a field: its length byte, and its bytes.
ReadField(input, at) ==
  IF at = Short \/ at >= Len(input) THEN Short
  ELSE IF Overrun(input, at + 1, input[at + 1]) THEN Short
  ELSE at + 1 + input[at + 1]

\* Where it is after each field, Short from the read on that fails.
Offsets(input) ==
  LET off[i \in 0 .. FIELDS] == IF i = 0 THEN 1 ELSE ReadField(input, off[i - 1])
  IN  off

Unparsed_Ignored(input, off) == FALSE

Unparsed(input, off) == off # Len(input)

FieldsAt(input, off) ==
  [field \in 0 .. FIELDS - 1 |-> SubSeq(input, off[field] + 2, off[field + 1])]

-----------------------------------------------------------------------------
(* V2: the allowed content of each field.                                  *)

Digit(b) == b \in 48 .. 57
Lower(b) == b \in 97 .. 122
Upper(b) == b \in 65 .. 90
Dot == 46
Exponents == {101, 69}
Signs == {43, 45}
Quote == 34
Escape_ == 92

All(v, P(_)) == \A i \in DOMAIN v : P(v[i])

\* How many digits v starts with.
DigitRun(v) ==
  CHOOSE n \in 0 .. Len(v) :
    /\ \A i \in 1 .. n : Digit(v[i])
    /\ n < Len(v) => ~Digit(v[n + 1])

\* digits(v) == Some(&[])
Digits(v) == v # <<>> /\ All(v, Digit)

From(v, i) == SubSeq(v, i, Len(v))

is_decimal(v) ==
  LET n == DigitRun(v)
  IN  /\ n > 0
      /\ n < Len(v) => v[n + 1] = Dot /\ Digits(From(v, n + 2))

is_json_number(v) ==
  LET exps == {i \in DOMAIN v : v[i] \in Exponents}
      e == CHOOSE i \in exps : \A j \in exps : i <= j
      sign == IF e < Len(v) /\ v[e + 1] \in Signs THEN 1 ELSE 0
  IN  IF exps = {} THEN is_decimal(v)
      ELSE is_decimal(SubSeq(v, 1, e - 1)) /\ Digits(From(v, e + 1 + sign))

\* %#+-_&$@<>=?*!|/
is_pact_ident(b) ==
  \/ Digit(b) \/ Lower(b) \/ Upper(b)
  \/ b \in {37, 35, 43, 45, 95, 38, 36, 64, 60, 62, 61, 63, 42, 33, 124, 47}

FreeText_Escapes(b) == b \in 32 .. 126 /\ b # Quote

FreeText(b) == b \in 32 .. 126 /\ b # Quote /\ b # Escape_

field_allowed(field, v, tx_type) ==
  CASE field = RECIPIENT -> All(v, LAMBDA b : Digit(b) \/ b \in 97 .. 102)
    [] field = RECIPIENT_CHAIN /\ tx_type # TX_TYPE_TRANSFER_CROSSCHAIN -> All(v, Digit)
    [] field \in {RECIPIENT_CHAIN, CHAIN_ID} -> Digits(v)
    [] field = NETWORK -> All(v, LAMBDA b : Digit(b) \/ Lower(b) \/ Upper(b) \/ b \in {45, 95, 46})
    [] field = AMOUNT -> is_decimal(v) /\ \E i \in DOMAIN v : v[i] = Dot
    [] field \in {GAS_LIMIT, CREATION_TIME, TTL} -> is_decimal(v)
    [] field = GAS_PRICE -> is_json_number(v)
    [] field \in {NAMESPACE, MODULE_} -> All(v, is_pact_ident)
    [] OTHER -> All(v, FreeText)

-----------------------------------------------------------------------------
(* format.                                                                 *)

use_ns(f) == f[NAMESPACE] # <<>> /\ f[MODULE_] # <<>>

coin == <<>>

\* nsmod: the namespace and the module, or coin.
nsmod(f) == IF use_ns(f) THEN <<f[NAMESPACE], f[MODULE_]>> ELSE coin

Function == <<"transfer", "transfer-create", "transfer-crosschain">>

OnCrosschain(tx_type, v) == IF tx_type = TX_TYPE_TRANSFER_CROSSCHAIN THEN <<v>> ELSE <<>>

Scope_Coin(f, tx_type, addr) ==
  [ module |-> coin,
    name |-> IF tx_type = TX_TYPE_TRANSFER_CROSSCHAIN THEN "TRANSFER_XCHAIN" ELSE "TRANSFER",
    sender |-> addr, receiver |-> f[RECIPIENT], amount |-> f[AMOUNT],
    chain |-> OnCrosschain(tx_type, f[RECIPIENT_CHAIN]) ]

\* The capability the signature is scoped to, next to coin.GAS.
Scope(f, tx_type, addr) ==
  [ module |-> nsmod(f),
    name |-> IF tx_type = TX_TYPE_TRANSFER_CROSSCHAIN THEN "TRANSFER_XCHAIN" ELSE "TRANSFER",
    sender |-> addr, receiver |-> f[RECIPIENT], amount |-> f[AMOUNT],
    chain |-> OnCrosschain(tx_type, f[RECIPIENT_CHAIN]) ]

\* The Pact code.
Code(f, tx_type, addr) ==
  [ module |-> nsmod(f), function |-> Function[tx_type + 1],
    sender |-> addr, receiver |-> f[RECIPIENT], amount |-> f[AMOUNT],
    chain |-> OnCrosschain(tx_type, f[RECIPIENT_CHAIN]),
    keyset |-> tx_type # TX_TYPE_TRANSFER ]

Template(f, tx_type, addr) ==
  [ networkId |-> f[NETWORK],
    data |-> IF tx_type = TX_TYPE_TRANSFER THEN <<>> ELSE <<f[RECIPIENT]>>,
    code |-> Code(f, tx_type, addr),
    pubKey |-> addr,
    scope |-> Scope(f, tx_type, addr),
    meta |-> [creationTime |-> f[CREATION_TIME], ttl |-> f[TTL], gasLimit |-> f[GAS_LIMIT],
              chainId |-> f[CHAIN_ID], gasPrice |-> f[GAS_PRICE], sender |-> addr],
    nonce |-> f[NONCE] ]

\* Bytes of constant text, by type, without the module's name.
ConstantBytes == [tx_type \in 0 .. 2 |-> <<284, 348, 367>>[tx_type + 1]]

\* The device key, in hex.
ADDRESS_LEN == 64

ModuleLen(f) == IF use_ns(f) THEN Len(f[NAMESPACE]) + 1 + Len(f[MODULE_]) ELSE 4

\* Out::pos at the end, or where the first append that does not fit would end.
TemplateLen(f, tx_type) ==
  ConstantBytes[tx_type] + 2 * ModuleLen(f) + 4 * ADDRESS_LEN
  + (IF tx_type = TX_TYPE_TRANSFER THEN 2 ELSE 3) * Len(f[RECIPIENT])
  + 2 * Len(f[AMOUNT])
  + (IF tx_type = TX_TYPE_TRANSFER_CROSSCHAIN THEN 2 * Len(f[RECIPIENT_CHAIN]) ELSE 0)
  + Len(f[NETWORK]) + Len(f[CREATION_TIME]) + Len(f[TTL]) + Len(f[GAS_LIMIT])
  + Len(f[CHAIN_ID]) + Len(f[GAS_PRICE]) + Len(f[NONCE])

-----------------------------------------------------------------------------

Refused(error) == [error |-> error]

\* parser_validate_chunks
LengthsInRange(f) ==
  /\ Len(f[RECIPIENT]) = 64
  /\ \A field \in 1 .. FIELDS - 1 : Len(f[field]) <= max_len[field]

\* A template or the error; addr is << >> when the OS derives no key.
build(input, addr) ==
  LET tx_type == input[1]
      off == Offsets(input)
      f == FieldsAt(input, off)
  IN  IF input = <<>> THEN Refused("UnexpectedBufferEnd")
      ELSE IF tx_type \notin 0 .. 2 THEN Refused("UnexpectedValue")
      ELSE IF off[FIELDS] = Short THEN Refused("UnexpectedBufferEnd")
      ELSE IF Unparsed(input, off[FIELDS]) THEN Refused("UnexpectedUnparsedBytes")
      ELSE IF ~LengthsInRange(f) THEN Refused("ValueOutOfRange")
      ELSE IF \E field \in 0 .. FIELDS - 1 : ~field_allowed(field, f[field], tx_type)
      THEN Refused("UnexpectedCharacters")
      ELSE IF addr = <<>> THEN Refused("UnexpectedError")
      ELSE IF TemplateLen(f, tx_type) > TEMPLATE_BUF THEN Refused("UnexpectedBufferEnd")
      ELSE [error |-> "none", template |-> Template(f, tx_type, addr),
            fields |-> f, len |-> TemplateLen(f, tx_type)]
=============================================================================
