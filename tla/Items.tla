------------------------------- MODULE Items --------------------------------
(***************************************************************************)
(* The review items of a transaction (kadena-core/src/items.rs), built by  *)
(* Parsed::store_items and checked by Parsed::validate (parser.rs).        *)
(*                                                                         *)
(* The items are slots of a fixed array.  A lookup writes the token of the *)
(* slot at num even when no item is then stored there, and the next item   *)
(* stored in that slot inherits the token unless it writes its own.        *)
(*                                                                         *)
(* The command is the JSON document as the lookups see it: a record of its *)
(* fields.  A value is what the review tells apart (a class, see below); a *)
(* token is the place of a value: <<"cap", c>> is the c-th capability of   *)
(* the device's signer entry, <<"arg", c, j>> its j-th argument.           *)
(***************************************************************************)
EXTENDS Integers, Sequences, FiniteSets

CONSTANTS
  Commands,   \* the commands to review
  MAX_ITEMS   \* 100

ASSUME MaxAssumption == MAX_ITEMS \in Nat \ {0}

\* The lists of a command are sequences; one that is missing or null is empty.
Listed(c) ==
  /\ Len(c.signers) \in Nat /\ DOMAIN c.signers = 1 .. Len(c.signers)
  /\ \A i \in DOMAIN c.signers :
       LET clist == c.signers[i].clist
       IN  /\ Len(clist.caps) \in Nat /\ DOMAIN clist.caps = 1 .. Len(clist.caps)
           /\ clist.kind \in {"missing", "null"} => Len(clist.caps) = 0

ASSUME CommandsAssumption == \A c \in Commands : Listed(c)

VARIABLES
  cmd,      \* the tokenized command and its type
  expert,   \* the expert-mode setting
  step,     \* what is stored next
  cap,      \* store_all_transfers: the capability at hand
  signer,   \* ItemArray::signer, 0 before it is found
  slots,    \* ItemArray::items
  num,      \* ItemArray::num
  result    \* "running", "accepted" or the error returned

vars == <<cmd, expert, step, cap, signer, slots, num, result>>

-----------------------------------------------------------------------------
(* Values.  "device": k: and the device key; "bare": the device key alone; *)
(* "principal": another principal account; "name": any other string that   *)
(* fits the screen; "escaped": a string with a backslash; "number":        *)
(* an amount in plain decimal notation that fits; "decimal": Pact's decimal*)
(* object with such a number; "longNumber": plain digits too long to show; *)
(* "null": null or the string "null"; "empty": ""; "long": a string too    *)
(* long to show; "other": anything else.                                   *)

\* shown_unescaped: a JSON string without escapes.
ShownUnescaped(v) == v \in {"device", "bare", "principal", "name", "empty", "long"}

NamesKey_Bare(v) == v = "bare"

\* find_pubkey_in_clist: exactly the key, or k: and exactly the key.
NamesKey(v) == v \in {"device", "bare"}

\* check_amount: a bare number, or a decimal object with that single key.
AmountOk(v) == v \in {"number", "decimal", "longNumber"}

\* plain_integer
PlainInteger(v) == v \in {"number", "longNumber"}

\* principal::is_principal, from which class a receiver is of.
IsPrincipal(v) == v \in {"device", "principal"}

-----------------------------------------------------------------------------
(* The signer entry.                                                       *)

Entry == cmd.signers[signer]

Caps == Entry.clist.caps

HasClist_NullOnly(e) == e.clist.kind \notin {"missing", "null"}

\* get_valid_clist: missing, null and empty are all no list.
HasClist(e) == e.clist.kind \notin {"missing", "null"} /\ Len(e.clist.caps) > 0

\* The value of a pubKey or addr field is compared in any letter case.
NamesDevice_PubKeyOnly(e) == e.object /\ e.pubKey \in {"key", "KEY", "unquoted"}

NamesDevice(e) == e.object /\ {e.pubKey, e.addr} \cap {"key", "KEY", "unquoted"} # {}

EscapedEntry(e) == e.object /\ "escaped" \in {e.pubKey, e.addr}

EscapedName(e) ==
  /\ e.clist.kind = "array"
  /\ \E c \in DOMAIN e.clist.caps : e.clist.caps[c].name = "escaped"

Matches == {i \in DOMAIN cmd.signers : NamesDevice(cmd.signers[i])}

\* The error find_device_signer returns for this command, or "none".
SignerError ==
  IF cmd.signersKind # "array" THEN "SignerNotFound"
  ELSE IF \E i \in DOMAIN cmd.signers : EscapedEntry(cmd.signers[i]) THEN "UnexpectedCharacters"
  ELSE IF Matches = {} THEN "SignerNotFound"
  ELSE IF Cardinality(Matches) > 1 THEN "SignerRepeated"
  ELSE LET e == cmd.signers[CHOOSE i \in Matches : TRUE]
       IN  IF e.pubKey # "key" THEN "SignerNotFound"
           ELSE IF EscapedName(e) THEN "UnexpectedCharacters"
           ELSE "none"

-----------------------------------------------------------------------------
(* The slots.                                                              *)

NoToken == <<"root">>   \* token 0

EmptySlot == [key |-> "Signing", token |-> NoToken, display |-> TRUE, render |-> "None"]

\* What a push writes: the token only where the code writes it first.
Item(key, render, token) ==
  [key |-> key, render |-> render, tokens |-> {token}, display |-> TRUE]
ItemOnly(key, render) ==
  [key |-> key, render |-> render, tokens |-> {}, display |-> TRUE]

TooMany_OffByOne(n) == n > MAX_ITEMS

\* ItemArray::incr
TooMany(n) == n >= MAX_ITEMS

Filled(slot, item) ==
  [key |-> item.key,
   render |-> item.render,
   token |-> IF item.tokens = {} THEN slot.token ELSE CHOOSE t \in item.tokens : TRUE,
   display |-> slot.display /\ item.display]

SlotAt(n) == IF n \in DOMAIN slots THEN slots[n] ELSE EmptySlot

\* The array after the items of a list are pushed.
After(list) ==
  [n \in DOMAIN slots \cup (num .. num + Len(list) - 1) |->
     IF n \in num .. num + Len(list) - 1
     THEN Filled(SlotAt(n), list[n - num + 1])
     ELSE slots[n]]

\* The items of a refused command are never shown: init clears the array.
Refuse(error) ==
  /\ result' = error
  /\ step' = "done"
  /\ UNCHANGED <<cmd, expert, signer, slots, num>>

\* Push the items of a list and go on, or refuse at the push that fills the array.
Push(list, then) ==
  IF \E k \in 1 .. Len(list) : TooMany(num + k)
  THEN Refuse("UnexpectedError")
  ELSE /\ slots' = After(list)
       /\ num' = num + Len(list)
       /\ step' = then
       /\ UNCHANGED <<cmd, expert, signer, result>>

\* No item: only the token of the slot at num is written.
Leave(token, then) ==
  /\ slots' = [slots EXCEPT ![num].token = token]
  /\ step' = then
  /\ UNCHANGED <<cmd, expert, signer, num, result>>

Skip(then) ==
  /\ step' = then
  /\ UNCHANGED <<cmd, expert, signer, slots, num, result>>

\* A step outside the loop over the capabilities.
At(s) == step = s /\ UNCHANGED cap

-----------------------------------------------------------------------------
(* Parsed::store_items up to store_tx_items.                               *)

StoreHashItems ==
  /\ At("start") /\ cmd.type = "Hash"
  /\ Push(<<ItemOnly("Warning", "HashWarning"), ItemOnly("TransactionHash", "Hash")>>, "hash")

Verifiers ==
  /\ At("start") /\ cmd.type # "Hash" /\ cmd.verifiers
  /\ Refuse("UnexpectedValue")

Reviewable == At("start") /\ cmd.type # "Hash" /\ ~cmd.verifiers

\* The OS does not derive the key.
NoAddress == Reviewable /\ Refuse("UnexpectedError")

FindDeviceSigner ==
  /\ Reviewable
  /\ IF SignerError # "none"
     THEN Refuse(SignerError)
     ELSE /\ signer' = CHOOSE i \in Matches : TRUE
          /\ step' = "signing"
          /\ UNCHANGED <<cmd, expert, slots, num, result>>

-----------------------------------------------------------------------------
(* store_tx_items.                                                         *)

KeyToken == <<"pubKey", signer>>

StoreSigning ==
  /\ At("signing")
  /\ Push(<<ItemOnly("Signing", "Signing")>>, "network")

\* The object it looks into is the token of the slot at num.
NetworkId == IF slots[num].token = NoToken THEN cmd.networkId ELSE "missing"

StoreNetwork ==
  /\ At("network")
  /\ \/ NetworkId = "missing" /\ Refuse("UnexpectedError")
     \/ NetworkId = "null" /\ Leave(<<"networkId">>, "key")
     \/ /\ NetworkId \notin {"missing", "null"}
        /\ IF ShownUnescaped(NetworkId)
           THEN Push(<<Item("OnNetwork", "Std", <<"networkId">>)>>, "key")
           ELSE Refuse("UnexpectedCharacters")

\* "Signers" when there are several, "Requiring", and store_key.
StoreKey ==
  /\ At("key")
  /\ Push((IF Len(cmd.signers) > 1 THEN <<ItemOnly("Signers", "Signers")>> ELSE <<>>)
            \o <<ItemOnly("Requiring", "Requiring"), Item("OfKey", "Std", KeyToken)>>,
          "signers")

\* find_pubkey_in_clist: a capability without args ends the search.
PubKeyInClist ==
  \E c \in DOMAIN Caps :
    /\ \E j \in DOMAIN Caps[c].args : NamesKey(Caps[c].args[j])
    /\ \A b \in 1 .. c : Caps[b].hasArgs

\* get_tx_name looks only into objects.
TxName(c) == IF Caps[c].object THEN Caps[c].name ELSE "none"

KeyItem_Inherits(key) == Item(key, "Std", <<"clist", signer>>)

\* unscoped_signer: get_valid_clist has left its token in the slot.
KeyItem(key) == Item(key, "Std", KeyToken)

\* validate_signers: the loop counts capabilities in 8 bits.
ValidateSigners ==
  /\ At("signers")
  /\ IF ~HasClist(Entry)
     THEN Push(<<KeyItem("UnscopedSigner")>>, "caps")
     ELSE IF ~PubKeyInClist /\ \E c \in 1 .. (Len(Caps) % 256) : TxName(c) = "coin.TRANSFER"
     THEN Push(<<KeyItem("KeyNotInTransfer")>>, "caps")
     ELSE Leave(NoToken, "caps")

-----------------------------------------------------------------------------
(* store_all_transfers: one action per kind of capability.                 *)

Cap == Caps[cap]
CapToken == <<"cap", cap>>
Arg(j) == <<"arg", cap, j>>

\* The loop's body for a capability of this name.
AtCap(name) ==
  /\ step = "caps" /\ HasClist(Entry) /\ cap <= Len(Caps)
  /\ TxName(cap) = name
  /\ cap' = cap + 1

HasNamespace == Cap.name = "ns.mod.CAP"

Unverified_WithoutArguments(warn) ==
  (IF warn THEN <<Item("Warning", "CapNotVerified", CapToken)>> ELSE <<>>)
    \o <<Item("Capability", "CapName", CapToken)>>
    \o (IF HasNamespace THEN <<Item("Namespace", "CapNamespace", CapToken)>> ELSE <<>>)

Unverified_NamespaceLast(warn) ==
  (IF warn THEN <<Item("Warning", "CapNotVerified", CapToken)>> ELSE <<>>)
    \o <<Item("Capability", "CapName", CapToken)>>
    \o <<[Item("Arguments", "Unknown", CapToken) EXCEPT
            !.display = Len(Cap.args) <= 5 /\ ~Cap.large]>>
    \o (IF HasNamespace THEN <<Item("Namespace", "CapNamespace", CapToken)>> ELSE <<>>)

\* store_unverified: the warning, the name, the namespace if any, the arguments.
Unverified(warn) ==
  (IF warn THEN <<Item("Warning", "CapNotVerified", CapToken)>> ELSE <<>>)
    \o <<Item("Capability", "CapName", CapToken)>>
    \o (IF HasNamespace THEN <<Item("Namespace", "CapNamespace", CapToken)>> ELSE <<>>)
    \o <<[Item("Arguments", "Unknown", CapToken) EXCEPT
            !.display = Len(Cap.args) <= 5 /\ ~Cap.large]>>

\* check_receiver
ReceiverWarning ==
  IF IsPrincipal(Cap.args[2]) THEN <<>> ELSE <<ItemOnly("Warning", "NotPrincipal")>>

\* store_tx_item and store_tx_cross_item, with the arguments each expects.
StoreTransferOf(items, nargs) ==
  IF ~Cap.hasArgs THEN Refuse("UnexpectedError")
  ELSE IF Len(Cap.args) # nargs THEN Push(Unverified(TRUE), "caps")
  ELSE IF ~AmountOk(Cap.args[3]) \/ \E j \in 1 .. nargs \ {3} : ~ShownUnescaped(Cap.args[j])
  THEN Refuse("UnexpectedCharacters")
  ELSE Push(items \o ReceiverWarning, "caps")

TransferItems(render) ==
  << Item("Transfer", render, CapToken), Item("From", "Std", Arg(1)),
     Item("To", "Std", Arg(2)), Item("Amount", "Amount", <<"number", cap>>) >>

StoreTransfer ==
  AtCap("coin.TRANSFER") /\ StoreTransferOf(TransferItems("Transfer"), 3)

StoreTransferXchain ==
  /\ AtCap("coin.TRANSFER_XCHAIN")
  /\ StoreTransferOf(Append(TransferItems("CrossTransfer"), Item("ToChain", "Std", Arg(4))), 4)

StoreRotate ==
  /\ AtCap("coin.ROTATE")
  /\ IF ~Cap.hasArgs THEN Refuse("UnexpectedError")
     ELSE Push((IF Len(Cap.args) = 1 THEN <<Item("Rotate", "Rotate", CapToken)>>
                                     ELSE Unverified(FALSE))
                 \o <<ItemOnly("Warning", "RotateWarning")>>, "caps")

StoreGasCapability == AtCap("coin.GAS") /\ Skip("caps")

StoreOther ==
  /\ \E name \in {"mod.CAP", "ns.mod.CAP", "empty", "long", "missing"} : AtCap(name)
  /\ IF Cap.hasArgs THEN Push(Unverified(TRUE), "caps") ELSE Refuse("UnexpectedError")

NotACapability == AtCap("none") /\ Refuse("UnexpectedCharacters")

NoClist ==
  /\ At("caps") /\ ~HasClist(Entry)
  /\ Push(<<Item("Warning", "Warning", NoToken)>>, "meta")

CapsDone == At("caps") /\ HasClist(Entry) /\ cap > Len(Caps) /\ Skip("meta")

-----------------------------------------------------------------------------
(* meta.                                                                   *)

META_KEYWORDS == <<"creationTime", "ttl", "gasLimit", "chainId", "gasPrice", "sender">>

Meta == cmd.meta.fields

\* validate_meta_field: a canonical prefix of the keywords, in any order.
MetaRecognised ==
  /\ cmd.meta.kind = "object"
  /\ \E n \in 0 .. 6 : DOMAIN Meta = {META_KEYWORDS[k] : k \in 1 .. n}

\* F-4, then check_integer_meta.
CheckMeta ==
  /\ At("meta")
  /\ IF \/ cmd.meta.kind = "other"
        \/ cmd.meta.kind = "object" /\ "sender" \notin DOMAIN Meta
     THEN Refuse("InvalidMetaField")
     ELSE IF ~MetaRecognised
     THEN Push(<<ItemOnly("Caution", "Caution")>>, "lengths")
     ELSE IF \A k \in {"creationTime", "ttl", "gasLimit"} : PlainInteger(Meta[k])
     THEN Skip("chain")
     ELSE Refuse("UnexpectedCharacters")

StoreChainId ==
  /\ At("chain")
  /\ IF Meta["chainId"] = "null" THEN Leave(<<"meta", "chainId">>, "gas")
     ELSE IF ShownUnescaped(Meta["chainId"])
     THEN Push(<<Item("OnChain", "Std", <<"meta", "chainId">>)>>, "gas")
     ELSE Refuse("UnexpectedCharacters")

StoreUsingGas ==
  At("gas") /\ Push(<<Item("UsingGas", "Gas", <<"meta">>)>>, "fee")

\* store_fee_and_payer
StoreMaxFee ==
  At("fee") /\ Push(<<Item("MaxFee", "MaxFee", <<"meta">>)>>, "payer")

StorePayer ==
  /\ At("payer")
  /\ IF ShownUnescaped(Meta["sender"])
     THEN Push(<<Item("PayingAccount", "Std", <<"meta", "sender">>)>>, "lengths")
     ELSE Refuse("UnexpectedCharacters")

CheckTxLengths ==
  /\ At("lengths")
  /\ IF \E n \in 0 .. num - 1 : ~slots[n].display
     THEN Push(<<ItemOnly("Warning", "TxTooLarge")>>, "hash")
     ELSE Skip("hash")

-----------------------------------------------------------------------------
(* The rest of store_items: the hash and the items of expert mode.         *)

HashFails == At("hash") /\ cmd.type # "Hash" /\ Refuse("UnexpectedError")

ComputeHash ==
  /\ At("hash")
  /\ Skip(IF ~expert THEN "validate" ELSE IF cmd.type = "Hash" THEN "expert" ELSE "payload")

StorePayload ==
  /\ At("payload")
  /\ \/ cmd.payload.kind = "exec" /\ Push(<<ItemOnly("Payload", "Exec")>>, "window")
     \/ cmd.payload.kind = "cont" /\ Push(<<ItemOnly("Payload", "Cont")>>, "pactId")
     \/ cmd.payload.kind \notin {"exec", "cont"} /\ Skip("window")

\* One of the two fields of a continuation, if it is there.
StoreContField(field, key, shown, then) ==
  IF cmd.payload[field] = "missing" THEN Skip(then)
  ELSE IF shown THEN Push(<<Item(key, "Std", <<"cont", field>>)>>, then)
  ELSE Refuse("UnexpectedCharacters")

StorePactId ==
  /\ At("pactId")
  /\ StoreContField("pactId", "PactId", ShownUnescaped(cmd.payload.pactId), "step")

StoreStep ==
  /\ At("step")
  /\ StoreContField("step", "Step", PlainInteger(cmd.payload.step), "window")

\* The validity window.
StoreWindow ==
  /\ At("window")
  /\ IF MetaRecognised
     THEN Push(<<Item("Created", "Std", <<"meta", "creationTime">>),
                 Item("Ttl", "Std", <<"meta", "ttl">>)>>, "expert")
     ELSE Skip("expert")

StoreExpertItems ==
  /\ At("expert")
  /\ Push(<<ItemOnly("TransactionHash", "Hash"), ItemOnly("SignForAddress", "SignForAddr")>>,
          "validate")

-----------------------------------------------------------------------------
(* Parsed::validate: every item must render.                               *)

ValueOf(token) ==
  CASE token = <<"networkId">> -> cmd.networkId
    [] token[1] = "pubKey" -> "name"
    [] token[1] = "arg" -> Caps[token[2]].args[token[3]]
    [] token[1] = "number" -> Caps[token[2]].args[3]
    [] token[1] = "meta" /\ Len(token) = 2 -> Meta[token[2]]
    [] token[1] = "cont" -> cmd.payload[token[2]]
    [] OTHER -> "other"

\* What ItemArray::render makes of an item, apart from the OS.  A lookup in a
\* token that is no capability fails.
Renders(item) ==
  CASE item.render = "None" -> FALSE
    [] item.render = "Std" -> ValueOf(item.token) \notin {"empty", "long", "longNumber"}
    [] item.render = "Amount" -> ValueOf(item.token) # "longNumber"
    [] item.render = "Rotate" ->
         item.token[1] = "cap" /\ Caps[item.token[2]].args[1] # "long"
    [] item.render \in {"Gas", "MaxFee"} ->
         item.token = <<"meta">> /\ Meta["gasLimit"] = "number" /\ Meta["gasPrice"] = "number"
    [] item.render = "CapName" ->
         item.token[1] = "cap" /\ Caps[item.token[2]].name \notin {"missing", "empty", "long"}
    [] item.render = "CapNamespace" ->
         item.token[1] = "cap" /\ Caps[item.token[2]].name = "ns.mod.CAP"
    [] item.render = "Unknown" -> item.display => item.token[1] = "cap"
    [] OTHER -> TRUE

AddressFails ==
  /\ At("validate")
  /\ \E n \in 0 .. num - 1 : slots[n].render = "SignForAddr"
  /\ Refuse("UnexpectedError")

Validate ==
  /\ At("validate")
  /\ IF \A n \in 0 .. num - 1 : Renders(slots[n])
     THEN /\ result' = "accepted"
          /\ step' = "done"
          /\ UNCHANGED <<cmd, expert, signer, slots, num>>
     ELSE Refuse("UnexpectedError")

\* ItemArray::needs_blind, which tx_parse asks for after validate.
NeedsBlind ==
  \E n \in 0 .. num - 1 :
    slots[n].render \in {"Warning", "TxTooLarge", "Caution", "RotateWarning", "CapNotVerified"}

-----------------------------------------------------------------------------

Init ==
  /\ cmd \in Commands
  /\ expert \in BOOLEAN
  /\ step = "start"
  /\ cap = 1
  /\ signer = 0
  /\ slots = [n \in 0 .. MAX_ITEMS - 1 |-> EmptySlot]
  /\ num = 0
  /\ result = "running"

Next ==
  \/ StoreHashItems \/ Verifiers \/ NoAddress \/ FindDeviceSigner
  \/ StoreSigning \/ StoreNetwork \/ StoreKey \/ ValidateSigners
  \/ StoreTransfer \/ StoreTransferXchain \/ StoreRotate
  \/ StoreGasCapability \/ StoreOther \/ NotACapability
  \/ NoClist \/ CapsDone
  \/ CheckMeta \/ StoreChainId \/ StoreUsingGas \/ StoreMaxFee \/ StorePayer
  \/ CheckTxLengths \/ HashFails \/ ComputeHash
  \/ StorePayload \/ StorePactId \/ StoreStep \/ StoreWindow \/ StoreExpertItems
  \/ AddressFails \/ Validate

Spec == Init /\ [][Next]_vars

-----------------------------------------------------------------------------
(* Properties.                                                             *)

\* Type invariant: items are only ever written inside the array, and num stays
\* below its size (INCREMENT_NUM_ITEMS refuses before an index is out of range).
TypeOK ==
  /\ expert \in BOOLEAN
  /\ cap \in Nat \ {0}
  /\ signer \in Nat
  /\ DOMAIN slots = 0 .. MAX_ITEMS - 1
  /\ num \in 0 .. MAX_ITEMS - 1
  /\ (step = "done") = (result # "running")

Accepted == result = "accepted" /\ cmd.type # "Hash"

\* Pact scopes a signature by the entry whose addr, else pubKey, is the key.
PactKey(e) == IF e.addr = "missing" THEN e.pubKey ELSE e.addr

PactEntries ==
  {i \in DOMAIN cmd.signers :
     cmd.signers[i].object /\ PactKey(cmd.signers[i]) \in {"key", "KEY", "unquoted"}}

\* Whatever other entries name the key, as pubKey or addr and in any letter case,
\* an accepted review is of the one entry whose scope Pact gives the signature
\* (find_device_signer, V9).
ReviewedEntryIsPacts == Accepted => PactEntries \subseteq {signer}

Has(n, key, render, token) ==
  n < num /\ slots[n].key = key /\ slots[n].render = render /\ slots[n].token = token

\* The items from n on show all there is of the transfer capability c.
TransferAt(n, c) ==
  /\ Has(n + 1, "From", "Std", <<"arg", c, 1>>)
  /\ Has(n + 2, "To", "Std", <<"arg", c, 2>>)
  /\ Has(n + 3, "Amount", "Amount", <<"number", c>>)
  /\ \/ /\ Caps[c].name = "coin.TRANSFER" /\ Len(Caps[c].args) = 3
        /\ Has(n, "Transfer", "Transfer", <<"cap", c>>)
     \/ /\ Caps[c].name = "coin.TRANSFER_XCHAIN" /\ Len(Caps[c].args) = 4
        /\ Has(n, "Transfer", "CrossTransfer", <<"cap", c>>)
        /\ Has(n + 4, "ToChain", "Std", <<"arg", c, 4>>)
  /\ \/ IsPrincipal(Caps[c].args[2])
     \/ LET k == n + Len(Caps[c].args) + 1
        IN  k < num /\ slots[k].render = "NotPrincipal"

\* A review that is not a blind-signing one bounds the signature: the entry Pact
\* scopes it by has capabilities, each is coin.GAS or a transfer shown whole with
\* its warning, and the maximum fee and the payer are on the screen (needs_blind, V11,
\* V14, V16, V20), on every path through the item builders.
ClearReviewIsBounded ==
  Accepted /\ ~NeedsBlind =>
    /\ Len(Caps) > 0
    /\ \A c \in DOMAIN Caps :
         \/ Caps[c].name = "coin.GAS"
         \/ \E n \in 0 .. num - 1 : TransferAt(n, c)
    /\ \E n \in 0 .. num - 1 :
         /\ Has(n, "MaxFee", "MaxFee", <<"meta">>)
         /\ Has(n + 1, "PayingAccount", "Std", <<"meta", "sender">>)

\* Every capability but coin.GAS of an accepted command is on the screen: as a
\* transfer, as a rotation with its warning, or by name and arguments
\* (store_all_transfers), also in a blind-signing review.
EveryCapabilityIsShown ==
  Accepted =>
    \A c \in DOMAIN Caps :
      \/ Caps[c].name = "coin.GAS"
      \/ \E n \in 0 .. num - 1 :
           \/ TransferAt(n, c)
           \/ /\ Caps[c].name = "coin.ROTATE"
              /\ Has(n, "Rotate", "Rotate", <<"cap", c>>)
              /\ n + 1 < num /\ slots[n + 1].render = "RotateWarning"
           \/ /\ Has(n, "Capability", "CapName", <<"cap", c>>)
              /\ \E k \in {n + 1, n + 2} : Has(k, "Arguments", "Unknown", <<"cap", c>>)

\* Titles of the items that show a text of the app, and no member of the command.
TextTitles ==
  {"Signing", "Signers", "Requiring", "Warning", "Caution", "TransactionHash", "Payload",
   "SignForAddress"}

\* A row of the review: a title, how its value is shown, and of what.
RowAt(n) == <<slots[n].key, slots[n].render, slots[n].token>>

\* The rows of the command outside its capabilities.
CommandRows ==
  { <<"OnNetwork", "Std", <<"networkId">> >>,
    <<"UsingGas", "Gas", <<"meta">> >>, <<"MaxFee", "MaxFee", <<"meta">> >>,
    <<"OnChain", "Std", <<"meta", "chainId">> >>,
    <<"PayingAccount", "Std", <<"meta", "sender">> >>,
    <<"Created", "Std", <<"meta", "creationTime">> >>, <<"Ttl", "Std", <<"meta", "ttl">> >>,
    <<"PactId", "Std", <<"cont", "pactId">> >>, <<"Step", "Std", <<"cont", "step">> >> }
  \cup {<<key, "Std", <<"pubKey", signer>> >> :
          key \in {"OfKey", "UnscopedSigner", "KeyNotInTransfer"}}

\* The rows of a capability, in their order.
TransferRows(c, render) ==
  << <<"Transfer", render, <<"cap", c>> >>, <<"From", "Std", <<"arg", c, 1>> >>,
     <<"To", "Std", <<"arg", c, 2>> >>, <<"Amount", "Amount", <<"number", c>> >> >>

CrossTransferRows(c) ==
  Append(TransferRows(c, "CrossTransfer"), <<"ToChain", "Std", <<"arg", c, 4>> >>)

RowsOf(c) ==
  LET kind == <<Caps[c].name, Len(Caps[c].args)>>
      named == <<"Capability", "CapName", <<"cap", c>> >>
      arguments == <<"Arguments", "Unknown", <<"cap", c>> >>
  IN  CASE kind = <<"coin.TRANSFER", 3>> -> TransferRows(c, "Transfer")
        [] kind = <<"coin.TRANSFER_XCHAIN", 4>> -> CrossTransferRows(c)
        [] kind = <<"coin.ROTATE", 1>> -> << <<"Rotate", "Rotate", <<"cap", c>> >> >>
        [] Caps[c].name = "coin.GAS" -> << >>
        [] Caps[c].name = "ns.mod.CAP" ->
             <<named, <<"Namespace", "CapNamespace", <<"cap", c>> >>, arguments>>
        [] OTHER -> <<named, arguments>>

\* The item n is a row of the capability c, and the rows before it in the
\* capability are the items right before it.
IsRowOf(n, c) ==
  \E k \in DOMAIN RowsOf(c) :
    k <= n + 1 /\ \A j \in 1 .. k : RowAt(n - k + j) = RowsOf(c)[j]

\* Every item of an accepted review shows a text of the app, or the very field its
\* title names, never a token its slot inherited from a lookup whose item was not
\* stored (the module comment of items.rs).  A row of a capability stands behind
\* the rows of the same capability that come before it: no From, To, Amount,
\* Namespace or Arguments is without its transfer or its name, or of another one.
ItemsShowTheirFields ==
  Accepted =>
    \A n \in 0 .. num - 1 :
      \/ slots[n].key \in TextTitles
      \/ RowAt(n) \in CommandRows
      \/ \E c \in DOMAIN Caps : IsRowOf(n, c)

\* docs/apdu.md on divergence 3: when no transfer names the key, the review has
\* an item "Key not in transfer".  find_pubkey_in_clist searches the arguments of
\* every capability, so another capability that names the key suppresses it.
KeyNotInTransferIsShown ==
  /\ Accepted
  /\ \E c \in DOMAIN Caps : Caps[c].name = "coin.TRANSFER"
  /\ \A c \in DOMAIN Caps : \A j \in DOMAIN Caps[c].args :
       Caps[c].name = "coin.TRANSFER" => ~NamesKey(Caps[c].args[j])
  => \E n \in 0 .. num - 1 : slots[n].key = "KeyNotInTransfer"
=============================================================================
