---------------------------- MODULE Review_proofs ---------------------------
(***************************************************************************)
(* The review items (Items), for every set of commands and every size of   *)
(* the item array: no item is written outside the array, the entry that is *)
(* reviewed is the one Pact scopes the signature by, every item shows the  *)
(* field its title names, every capability is on the screen, and a review  *)
(* that is not a blind-signing one bounds the signature.  And structured   *)
(* transfers (TransferReview), for every payload and every device key: the *)
(* fields are the payload, the template fits its buffer, no field adds     *)
(* structure to the JSON or to the Pact code, the code is what the         *)
(* signature is scoped to, and the module alone decides the kind of review.*)
(*                                                                         *)
(* ReviewedEntryIsPacts is about the end of the review; what makes it true *)
(* is decided in its first step, so the invariant IInv carries that        *)
(* decision (SignerDecided) through every later one.  For what the review  *)
(* shows, the invariant RInv is about the items stored so far: an item     *)
(* once stored is never written again (Kept), so what each step adds is    *)
(* still there at the end.                                                 *)
(*                                                                         *)
(* What is built is build(payload, device); the rest of the builder's      *)
(* theorems is about build's operators, the reader's offsets and the       *)
(* number grammars, by induction over the naturals (module Induction).     *)
(* The review of what was built keeps IInv and RInv, which ask of a        *)
(* command only that it is Listed; KindInv adds what the command of a      *)
(* template can never store.                                               *)
(***************************************************************************)
EXTENDS TransferReview, Induction, FiniteSetTheorems

\* Once an entry is chosen it is the only one that names the key.
SignerDecided ==
  /\ signer # 0 => signer \in Matches /\ SignerError = "none"
  /\ step # "start" /\ result = "running" /\ cmd.type # "Hash" => signer # 0
  /\ Accepted => signer # 0

IInv == TypeOK /\ Listed(cmd) /\ SignerDecided

\* The command decides the signer, whatever else changes.
LEMMA SignerOfCommand ==
  ASSUME cmd' = cmd
  PROVE  Matches' = Matches /\ SignerError' = SignerError
BY DEF Matches, SignerError, NamesDevice, EscapedEntry, EscapedName

\* A refusal ends the review and accepts nothing.
LEMMA RefuseSafe ==
  ASSUME IInv, NEW e, e \notin {"accepted", "running"}, Refuse(e), cap' \in Nat \ {0}
  PROVE  IInv'
<1>1. Matches' = Matches /\ SignerError' = SignerError
  BY SignerOfCommand DEF Refuse
<1>2. TypeOK' /\ Listed(cmd')
  BY DEF IInv, TypeOK, Refuse
<1>3. SignerDecided'
  BY <1>1 DEF IInv, TypeOK, SignerDecided, Refuse, Accepted
<1> QED
  BY <1>2, <1>3 DEF IInv

\* A step that is under way has its signer, or is of a hash.
UnderWay == result = "running" /\ (step = "start" => cmd.type = "Hash")

\* A push fills slots of the array or is refused.
LEMMA PushSafe ==
  ASSUME IInv, UnderWay, cap' \in Nat \ {0},
         NEW list, Len(list) \in Nat,
         NEW then, then \notin {"start", "done"},
         Push(list, then)
  PROVE  IInv'
<1>1. CASE \E k \in 1 .. Len(list) : TooMany(num + k)
  <2>1. Refuse("UnexpectedError")
    BY <1>1 DEF Push
  <2> QED
    BY <2>1, RefuseSafe
<1>2. CASE ~ \E k \in 1 .. Len(list) : TooMany(num + k)
  <2>1. /\ slots' = After(list)
        /\ num' = num + Len(list)
        /\ step' = then
        /\ cmd' = cmd /\ expert' = expert /\ signer' = signer /\ result' = result
    BY <1>2 DEF Push
  <2>2. num + Len(list) \in 0 .. MAX_ITEMS - 1
    <3>1. num \in 0 .. MAX_ITEMS - 1 /\ MAX_ITEMS \in Nat
      BY MaxAssumption DEF IInv, TypeOK
    <3>2. CASE Len(list) = 0
      BY <3>1, <3>2
    <3>3. CASE Len(list) # 0
      <4>1. Len(list) \in 1 .. Len(list)
        BY <3>3
      <4>2. ~TooMany(num + Len(list))
        BY <1>2, <4>1
      <4> QED
        BY <3>1, <4>2 DEF TooMany
    <3> QED
      BY <3>2, <3>3
  <2>3. DOMAIN slots' = 0 .. MAX_ITEMS - 1
    <3>1. DOMAIN slots' = DOMAIN slots \cup (num .. num + Len(list) - 1)
      BY <2>1 DEF After
    <3>2. num .. num + Len(list) - 1 \subseteq 0 .. MAX_ITEMS - 1
      BY <2>2, MaxAssumption DEF IInv, TypeOK
    <3> QED
      BY <3>1, <3>2 DEF IInv, TypeOK
  <2>4. TypeOK' /\ Listed(cmd')
    BY <2>1, <2>2, <2>3 DEF IInv, TypeOK, UnderWay
  <2>5. SignerDecided'
    BY <2>1, SignerOfCommand DEF IInv, TypeOK, SignerDecided, UnderWay, Accepted
  <2> QED
    BY <2>4, <2>5 DEF IInv
<1> QED
  BY <1>1, <1>2

\* The push of a single item.
LEMMA PushOneSafe ==
  ASSUME IInv, UnderWay, cap' \in Nat \ {0},
         NEW item, NEW then, then \notin {"start", "done"},
         Push(<<item>>, then)
  PROVE  IInv'
<1> DEFINE list == <<item>>
<1>1. Len(list) \in Nat /\ Push(list, then)
  OBVIOUS
<1> HIDE DEF list
<1> QED
  BY <1>1, PushSafe

\* Nor does a step that stores nothing leave the array.
LEMMA LeaveSafe ==
  ASSUME IInv, UnderWay, cap' \in Nat \ {0},
         NEW token, NEW then, then \notin {"start", "done"},
         Leave(token, then) \/ Skip(then)
  PROVE  IInv'
<1>1. /\ num' = num /\ step' = then
      /\ cmd' = cmd /\ expert' = expert /\ signer' = signer /\ result' = result
  BY DEF Leave, Skip
<1>2. DOMAIN slots' = DOMAIN slots
  BY DEF Leave, Skip
<1>3. TypeOK' /\ Listed(cmd')
  BY <1>1, <1>2 DEF IInv, TypeOK, UnderWay
<1>4. SignerDecided'
  BY <1>1, SignerOfCommand DEF IInv, TypeOK, SignerDecided, UnderWay, Accepted
<1> QED
  BY <1>3, <1>4 DEF IInv

-----------------------------------------------------------------------------
(* The lists that are pushed are finite sequences.                         *)

LEMMA ConcatIsFinite ==
  ASSUME NEW S, NEW s \in Seq(S), NEW t \in Seq(S)
  PROVE  s \o t \in Seq(S) /\ Len(s \o t) \in Nat
BY ConcatProperties, LenProperties

ArgumentsItem ==
  [Item("Arguments", "Unknown", CapToken) EXCEPT !.display = Len(Cap.args) <= 5 /\ ~Cap.large]

UnverifiedItems ==
  {Item("Warning", "CapNotVerified", CapToken), Item("Capability", "CapName", CapToken),
   Item("Namespace", "CapNamespace", CapToken), ArgumentsItem}

LEMMA UnverifiedIsFinite ==
  ASSUME NEW S, UnverifiedItems \subseteq S, NEW warn
  PROVE  Unverified(warn) \in Seq(S) /\ Len(Unverified(warn)) \in Nat
<1> DEFINE w == IF warn THEN <<Item("Warning", "CapNotVerified", CapToken)>> ELSE <<>>
           c == <<Item("Capability", "CapName", CapToken)>>
           n == IF HasNamespace THEN <<Item("Namespace", "CapNamespace", CapToken)>> ELSE <<>>
           a == <<ArgumentsItem>>
<1>1. w \in Seq(S) /\ c \in Seq(S) /\ n \in Seq(S) /\ a \in Seq(S)
  BY DEF UnverifiedItems
<1>2. Unverified(warn) = ((w \o c) \o n) \o a
  BY DEF Unverified, ArgumentsItem
<1> HIDE DEF w, c, n, a
<1>3. w \o c \in Seq(S)
  BY <1>1, ConcatIsFinite
<1>4. (w \o c) \o n \in Seq(S)
  BY <1>1, <1>3, ConcatIsFinite
<1> QED
  BY <1>1, <1>2, <1>4, ConcatIsFinite

\* The warning about a receiver ends the items of a transfer.
LEMMA TransferIsFinite ==
  ASSUME NEW S, NEW items \in Seq(S), ItemOnly("Warning", "NotPrincipal") \in S
  PROVE  Len(items \o ReceiverWarning) \in Nat
<1>1. ReceiverWarning \in Seq(S)
  BY DEF ReceiverWarning
<1> QED
  BY <1>1, ConcatIsFinite

-----------------------------------------------------------------------------
(* One lemma per group of steps.                                           *)

\* Before the capabilities.
LEMMA HeadSafe ==
  ASSUME IInv,
         StoreHashItems \/ StoreSigning \/ StoreNetwork \/ StoreKey \/ ValidateSigners
  PROVE  IInv'
<1>1. cap' \in Nat \ {0} /\ UnderWay
  BY DEF IInv, TypeOK, UnderWay, At, StoreHashItems, StoreSigning, StoreNetwork, StoreKey,
         ValidateSigners
<1>2. CASE StoreHashItems
  <2> DEFINE list == <<ItemOnly("Warning", "HashWarning"), ItemOnly("TransactionHash", "Hash")>>
  <2>1. Len(list) \in Nat /\ Push(list, "hash")
    BY <1>2 DEF StoreHashItems
  <2> HIDE DEF list
  <2> QED
    BY <1>1, <2>1, PushSafe
<1>3. CASE StoreSigning
  <2> DEFINE list == <<ItemOnly("Signing", "Signing")>>
  <2>1. Len(list) \in Nat /\ Push(list, "network")
    BY <1>3 DEF StoreSigning
  <2> HIDE DEF list
  <2> QED
    BY <1>1, <2>1, PushSafe
<1>4. CASE StoreNetwork
  <2> DEFINE list == <<Item("OnNetwork", "Std", <<"networkId">>)>>
  <2>1. Len(list) \in Nat
    OBVIOUS
  <2>2. \/ Push(list, "key") \/ Leave(<<"networkId">>, "key")
        \/ Refuse("UnexpectedError") \/ Refuse("UnexpectedCharacters")
    BY <1>4 DEF StoreNetwork
  <2> HIDE DEF list
  <2> QED
    BY <1>1, <2>1, <2>2, PushSafe, LeaveSafe, RefuseSafe
<1>5. CASE StoreKey
  <2> DEFINE many == IF Len(cmd.signers) > 1 THEN <<ItemOnly("Signers", "Signers")>> ELSE <<>>
             rest == <<ItemOnly("Requiring", "Requiring"), Item("OfKey", "Std", KeyToken)>>
             S == {ItemOnly("Signers", "Signers"), ItemOnly("Requiring", "Requiring"),
                   Item("OfKey", "Std", KeyToken)}
  <2>1. many \in Seq(S) /\ rest \in Seq(S) /\ Push(many \o rest, "signers")
    BY <1>5 DEF StoreKey
  <2> HIDE DEF many, rest, S
  <2>2. Len(many \o rest) \in Nat
    BY <2>1, ConcatIsFinite
  <2> QED
    BY <1>1, <2>1, <2>2, PushSafe
<1>6. CASE ValidateSigners
  <2> DEFINE unscoped == <<KeyItem("UnscopedSigner")>>
             unnamed == <<KeyItem("KeyNotInTransfer")>>
  <2>1. Len(unscoped) \in Nat /\ Len(unnamed) \in Nat
    OBVIOUS
  <2>2. Push(unscoped, "caps") \/ Push(unnamed, "caps") \/ Leave(NoToken, "caps")
    BY <1>6 DEF ValidateSigners
  <2> HIDE DEF unscoped, unnamed
  <2> QED
    BY <1>1, <2>1, <2>2, PushSafe, LeaveSafe
<1> QED
  BY <1>2, <1>3, <1>4, <1>5, <1>6

\* Of the entries that name the key there is exactly one: choose it.
LEMMA FindSafe ==
  ASSUME IInv, FindDeviceSigner
  PROVE  IInv'
<1>1. cap' \in Nat \ {0}
  BY DEF IInv, TypeOK, FindDeviceSigner, Reviewable, At
<1>2. CASE SignerError # "none"
  <2>1. Refuse(SignerError)
    BY <1>2 DEF FindDeviceSigner
  <2>2. SignerError \notin {"accepted", "running"}
    BY DEF SignerError
  <2> QED
    BY <1>1, <2>1, <2>2, RefuseSafe
<1>3. CASE SignerError = "none"
  <2>1. /\ signer' = CHOOSE i \in Matches : TRUE
        /\ step' = "signing"
        /\ cmd' = cmd /\ expert' = expert /\ slots' = slots /\ num' = num /\ result' = result
        /\ step = "start"
    BY <1>3 DEF FindDeviceSigner, Reviewable, At
  <2>2. Matches # {}
    BY <1>3 DEF SignerError
  <2>3. signer' \in Matches
    BY <2>1, <2>2
  <2>4. signer' \in Nat \ {0}
    BY <2>3 DEF Matches, IInv, Listed
  <2>5. TypeOK' /\ Listed(cmd')
    BY <1>1, <2>1, <2>4 DEF IInv, TypeOK
  <2>6. SignerDecided'
    BY <1>3, <2>1, <2>3, <2>4, SignerOfCommand DEF SignerDecided, IInv, TypeOK, Accepted
  <2> QED
    BY <2>5, <2>6 DEF IInv
<1> QED
  BY <1>2, <1>3

\* The body of the loop over the capabilities.
LEMMA CapSafe ==
  ASSUME IInv,
         \/ StoreTransfer \/ StoreTransferXchain \/ StoreRotate
         \/ StoreGasCapability \/ StoreOther \/ NotACapability
  PROVE  IInv'
<1>1. cap' \in Nat \ {0} /\ UnderWay
  <2>1. \E name : AtCap(name)
    BY DEF StoreTransfer, StoreTransferXchain, StoreRotate, StoreGasCapability, StoreOther,
           NotACapability
  <2>2. step = "caps" /\ cap' = cap + 1
    BY <2>1 DEF AtCap
  <2> QED
    BY <2>2 DEF IInv, TypeOK, UnderWay
<1>2. Len(Unverified(TRUE)) \in Nat
  BY UnverifiedIsFinite
<1>3. ASSUME NEW S, NEW items \in Seq(S), ItemOnly("Warning", "NotPrincipal") \in S,
             NEW nargs, StoreTransferOf(items, nargs)
      PROVE  IInv'
  <2>1. Len(items \o ReceiverWarning) \in Nat
    BY <1>3, TransferIsFinite
  <2>2. \/ Push(items \o ReceiverWarning, "caps") \/ Push(Unverified(TRUE), "caps")
        \/ Refuse("UnexpectedError") \/ Refuse("UnexpectedCharacters")
    BY <1>3 DEF StoreTransferOf
  <2> QED
    BY <1>1, <1>2, <2>1, <2>2, PushSafe, RefuseSafe
<1>4. CASE StoreTransfer
  <2> DEFINE S == {Item("Transfer", "Transfer", CapToken), Item("From", "Std", Arg(1)),
                   Item("To", "Std", Arg(2)), Item("Amount", "Amount", <<"number", cap>>),
                   ItemOnly("Warning", "NotPrincipal")}
  <2>1. TransferItems("Transfer") \in Seq(S) /\ ItemOnly("Warning", "NotPrincipal") \in S
    BY DEF TransferItems
  <2> HIDE DEF S
  <2> QED
    BY <1>3, <1>4, <2>1 DEF StoreTransfer
<1>5. CASE StoreTransferXchain
  <2> DEFINE S == {Item("Transfer", "CrossTransfer", CapToken), Item("From", "Std", Arg(1)),
                   Item("To", "Std", Arg(2)), Item("Amount", "Amount", <<"number", cap>>),
                   Item("ToChain", "Std", Arg(4)), ItemOnly("Warning", "NotPrincipal")}
             list == Append(TransferItems("CrossTransfer"), Item("ToChain", "Std", Arg(4)))
  <2>1. TransferItems("CrossTransfer") \in Seq(S)
    BY DEF TransferItems
  <2>2. Item("ToChain", "Std", Arg(4)) \in S /\ ItemOnly("Warning", "NotPrincipal") \in S
    OBVIOUS
  <2>3. StoreTransferOf(list, 4)
    BY <1>5 DEF StoreTransferXchain
  <2> HIDE DEF S
  <2>4. list \in Seq(S)
    BY <2>1, <2>2, AppendProperties
  <2> HIDE DEF list
  <2> QED
    BY <1>3, <2>2, <2>3, <2>4
<1>6. CASE StoreRotate
  <2> DEFINE S == UnverifiedItems \cup {Item("Rotate", "Rotate", CapToken),
                                        ItemOnly("Warning", "RotateWarning")}
             head == IF Len(Cap.args) = 1 THEN <<Item("Rotate", "Rotate", CapToken)>>
                                          ELSE Unverified(FALSE)
             warning == <<ItemOnly("Warning", "RotateWarning")>>
  <2>1. Unverified(FALSE) \in Seq(S)
    BY UnverifiedIsFinite
  <2>2. <<Item("Rotate", "Rotate", CapToken)>> \in Seq(S) /\ warning \in Seq(S)
    OBVIOUS
  <2>3. head \in Seq(S)
    BY <2>1, <2>2
  <2>4. Push(head \o warning, "caps") \/ Refuse("UnexpectedError")
    BY <1>6 DEF StoreRotate
  <2> HIDE DEF S, head, warning
  <2>5. Len(head \o warning) \in Nat
    BY <2>2, <2>3, ConcatIsFinite
  <2> QED
    BY <1>1, <2>4, <2>5, PushSafe, RefuseSafe
<1>7. CASE StoreGasCapability
  BY <1>1, <1>7, LeaveSafe DEF StoreGasCapability
<1>8. CASE StoreOther
  <2>1. Push(Unverified(TRUE), "caps") \/ Refuse("UnexpectedError")
    BY <1>8 DEF StoreOther
  <2> QED
    BY <1>1, <1>2, <2>1, PushSafe, RefuseSafe
<1>9. CASE NotACapability
  BY <1>1, <1>9, RefuseSafe DEF NotACapability
<1> QED
  BY <1>4, <1>5, <1>6, <1>7, <1>8, <1>9

\* The end of the loop, meta, and the lengths.
LEMMA MetaSafe ==
  ASSUME IInv,
         \/ NoClist \/ CapsDone \/ CheckMeta \/ StoreChainId \/ StoreUsingGas
         \/ StoreMaxFee \/ StorePayer \/ CheckTxLengths
  PROVE  IInv'
<1>1. cap' \in Nat \ {0} /\ UnderWay
  BY DEF IInv, TypeOK, UnderWay, At, NoClist, CapsDone, CheckMeta, StoreChainId,
         StoreUsingGas, StoreMaxFee, StorePayer, CheckTxLengths
<1>2. CASE NoClist
  BY <1>1, <1>2, PushOneSafe DEF NoClist
<1>3. CASE CapsDone
  BY <1>1, <1>3, LeaveSafe DEF CapsDone
<1>4. CASE CheckMeta
  <2>1. \/ Push(<<ItemOnly("Caution", "Caution")>>, "lengths") \/ Skip("chain")
        \/ Refuse("InvalidMetaField") \/ Refuse("UnexpectedCharacters")
    BY <1>4 DEF CheckMeta
  <2> QED
    BY <1>1, <2>1, PushOneSafe, LeaveSafe, RefuseSafe
<1>5. CASE StoreChainId
  BY <1>1, <1>5, PushOneSafe, LeaveSafe, RefuseSafe DEF StoreChainId
<1>6. CASE StoreUsingGas
  BY <1>1, <1>6, PushOneSafe DEF StoreUsingGas
<1>7. CASE StoreMaxFee
  BY <1>1, <1>7, PushOneSafe DEF StoreMaxFee
<1>8. CASE StorePayer
  BY <1>1, <1>8, PushOneSafe, RefuseSafe DEF StorePayer
<1>9. CASE CheckTxLengths
  BY <1>1, <1>9, PushOneSafe, LeaveSafe DEF CheckTxLengths
<1> QED
  BY <1>2, <1>3, <1>4, <1>5, <1>6, <1>7, <1>8, <1>9

\* The hash, the items of expert mode, and the verdict.
LEMMA TailSafe ==
  ASSUME IInv,
         \/ HashFails \/ ComputeHash \/ StorePayload \/ StorePactId \/ StoreStep
         \/ StoreWindow \/ StoreExpertItems \/ AddressFails
  PROVE  IInv'
<1>1. cap' \in Nat \ {0} /\ UnderWay
  BY DEF IInv, TypeOK, UnderWay, At, HashFails, ComputeHash, StorePayload, StorePactId,
         StoreStep, StoreWindow, StoreExpertItems, AddressFails
<1>2. CASE HashFails \/ AddressFails
  BY <1>1, <1>2, RefuseSafe DEF HashFails, AddressFails
<1>3. CASE ComputeHash
  <2>1. \E then \in {"validate", "expert", "payload"} : Skip(then)
    BY <1>3 DEF ComputeHash
  <2> QED
    BY <1>1, <2>1, LeaveSafe
<1>4. CASE StorePayload \/ StorePactId \/ StoreStep
  <2>1. CASE StorePayload
    BY <1>1, <2>1, PushOneSafe, LeaveSafe DEF StorePayload
  <2>2. ASSUME NEW field, NEW key, NEW shown, NEW then, then \notin {"start", "done"},
               StoreContField(field, key, shown, then)
        PROVE  IInv'
    BY <1>1, <2>2, PushOneSafe, LeaveSafe, RefuseSafe DEF StoreContField
  <2>3. CASE StorePactId
    BY <2>2, <2>3 DEF StorePactId
  <2>4. CASE StoreStep
    BY <2>2, <2>4 DEF StoreStep
  <2> QED
    BY <1>4, <2>1, <2>3, <2>4
<1>5. CASE StoreWindow
  <2> DEFINE list == <<Item("Created", "Std", <<"meta", "creationTime">>),
                       Item("Ttl", "Std", <<"meta", "ttl">>)>>
  <2>1. Len(list) \in Nat /\ (Push(list, "expert") \/ Skip("expert"))
    BY <1>5 DEF StoreWindow
  <2> HIDE DEF list
  <2> QED
    BY <1>1, <2>1, PushSafe, LeaveSafe
<1>6. CASE StoreExpertItems
  <2> DEFINE list == <<ItemOnly("TransactionHash", "Hash"),
                       ItemOnly("SignForAddress", "SignForAddr")>>
  <2>1. Len(list) \in Nat /\ Push(list, "validate")
    BY <1>6 DEF StoreExpertItems
  <2> HIDE DEF list
  <2> QED
    BY <1>1, <2>1, PushSafe
<1> QED
  BY <1>2, <1>3, <1>4, <1>5, <1>6

\* Only validate accepts, long after the signer was decided.
LEMMA ValidateSafe ==
  ASSUME IInv, Validate
  PROVE  IInv'
<1>1. cap' \in Nat \ {0} /\ result = "running" /\ step = "validate"
  BY DEF IInv, TypeOK, Validate, At
<1>2. CASE Refuse("UnexpectedError")
  BY <1>1, <1>2, RefuseSafe
<1>3. CASE ~Refuse("UnexpectedError")
  <2>1. /\ result' = "accepted" /\ step' = "done"
        /\ cmd' = cmd /\ expert' = expert /\ signer' = signer
        /\ slots' = slots /\ num' = num
    BY <1>3 DEF Validate
  <2>2. TypeOK' /\ Listed(cmd')
    BY <1>1, <2>1 DEF IInv, TypeOK
  <2>3. SignerDecided'
    BY <1>1, <2>1, SignerOfCommand DEF IInv, SignerDecided, Accepted
  <2> QED
    BY <2>2, <2>3 DEF IInv
<1> QED
  BY <1>2, <1>3

-----------------------------------------------------------------------------

\* Pact's entries name the key, and only the chosen one does.
LEMMA DecidedIsPacts ==
  ASSUME IInv
  PROVE  ReviewedEntryIsPacts
<1> SUFFICES ASSUME Accepted
             PROVE  PactEntries \subseteq {signer}
  BY DEF ReviewedEntryIsPacts
<1>1. signer \in Matches /\ SignerError = "none"
  BY DEF IInv, SignerDecided
<1>2. PactEntries \subseteq Matches
  BY DEF PactEntries, PactKey, Matches, NamesDevice
<1>3. IsFiniteSet(Matches)
  <2>1. PICK n \in Nat : DOMAIN cmd.signers = 1 .. n
    BY DEF IInv, Listed
  <2>2. IsFiniteSet(1 .. n)
    BY <2>1, FS_Interval
  <2> QED
    BY <2>1, <2>2, FS_Subset DEF Matches
<1>4. Cardinality(Matches) \in Nat /\ ~(Cardinality(Matches) > 1)
  BY <1>1, <1>3, FS_CardinalityType DEF SignerError
<1>5. Matches = {signer}
  <2>1. /\ Cardinality({signer}) = 1
        /\ IsFiniteSet({signer})
    BY FS_Singleton
  <2>2. {signer} \subseteq Matches
    BY <1>1
  <2>3. Cardinality({signer}) <= Cardinality(Matches)
    BY <1>3, <2>2, FS_Subset
  <2> QED
    BY <1>3, <1>4, <2>1, <2>2, <2>3, FS_Subset
<1> QED
  BY <1>2, <1>5

\* The inductive invariant.
LEMMA ItemsStep ==
  ASSUME IInv, [Next]_vars
  PROVE  IInv'
<1>1. CASE Verifiers \/ NoAddress
  <2>1. cap' \in Nat \ {0}
    BY <1>1 DEF IInv, TypeOK, Verifiers, NoAddress, Reviewable, At
  <2> QED
    BY <1>1, <2>1, RefuseSafe DEF Verifiers, NoAddress
<1>2. CASE UNCHANGED vars
  BY <1>2, SignerOfCommand DEF vars, IInv, TypeOK, SignerDecided, Accepted
<1> QED
  BY <1>1, <1>2, HeadSafe, FindSafe, CapSafe, MetaSafe, TailSafe, ValidateSafe DEF Next

LEMMA ItemsInvariant == Spec => []IInv
<1>1. Init => IInv
  BY MaxAssumption, CommandsAssumption DEF Init, IInv, TypeOK, SignerDecided, Accepted
<1>2. IInv /\ [Next]_vars => IInv'
  BY ItemsStep
<1> QED
  BY <1>1, <1>2, PTL DEF Spec

\* For every set of commands and every size of the array: no item is written
\* outside the array (ItemArray::incr).
THEOREM ItemsTyped == Spec => []TypeOK
<1>1. IInv => TypeOK
  BY DEF IInv
<1> QED
  BY <1>1, ItemsInvariant, PTL

\* For every set of commands, an accepted review is of the entry whose scope Pact
\* gives the signature (find_device_signer).
THEOREM ItemsSafe == Spec => []ReviewedEntryIsPacts
<1>1. IInv => ReviewedEntryIsPacts
  BY DecidedIsPacts
<1> QED
  BY <1>1, ItemsInvariant, PTL
-----------------------------------------------------------------------------
(* What the review shows.                                                  *)

Early == {"signing", "network", "key", "signers"}
BeforeCaps == {"start"} \cup Early
BeforeFee == BeforeCaps \cup {"caps", "meta", "chain", "gas", "fee"}

\* A review of a command's entry that no step has refused.
Going == cmd.type # "Hash" /\ result \in {"running", "accepted"} /\ step # "start"

\* Every item stored is a text of the app or a row of the command in its place.
RowOk(n) ==
  \/ slots[n].key \in TextTitles
  \/ RowAt(n) \in CommandRows
  \/ \E c \in DOMAIN Caps : IsRowOf(n, c)

TitlesOk == \A n \in 0 .. num - 1 : RowOk(n)

\* The items of the capability c that make the review a blind-signing one.
BlindAt(n, c) ==
  \/ /\ Caps[c].name = "coin.ROTATE"
     /\ Has(n, "Rotate", "Rotate", <<"cap", c>>)
     /\ n + 1 < num /\ slots[n + 1].render = "RotateWarning"
  \/ /\ Has(n, "Capability", "CapName", <<"cap", c>>)
     /\ \E k \in {n + 1, n + 2} : Has(k, "Arguments", "Unknown", <<"cap", c>>)

CapShown(c) ==
  \/ Caps[c].name = "coin.GAS"
  \/ \E n \in 0 .. num - 1 : TransferAt(n, c)
  \/ NeedsBlind /\ \E n \in 0 .. num - 1 : BlindAt(n, c)

CapsShown ==
  Going /\ step \notin Early =>
    /\ \A c \in DOMAIN Caps : (step = "caps" => c < cap) => CapShown(c)
    /\ step # "caps" => Len(Caps) > 0 \/ NeedsBlind

FeeShown ==
  /\ Going /\ step = "payer" => num > 0 /\ Has(num - 1, "MaxFee", "MaxFee", <<"meta">>)
  /\ Going /\ step \notin BeforeFee \cup {"payer"} =>
       \/ NeedsBlind
       \/ \E n \in 0 .. num - 1 :
            /\ Has(n, "MaxFee", "MaxFee", <<"meta">>)
            /\ Has(n + 1, "PayingAccount", "Std", <<"meta", "sender">>)

\* Nothing is stored before the first step, the loop has not begun, and the
\* review of a hash takes none of the steps of a command.
HashSteps == {"start", "hash", "expert", "validate", "done"}

Beginning ==
  /\ step = "start" => num = 0
  /\ step \in BeforeCaps => cap = 1
  /\ cmd.type = "Hash" => step \in HashSteps

RInv == Beginning /\ TitlesOk /\ CapsShown /\ FeeShown

-----------------------------------------------------------------------------
(* What a step keeps and what it adds.                                     *)

\* The stored items stay, for the same command and signer.
Kept ==
  /\ cmd' = cmd /\ signer' = signer
  /\ num \in Nat /\ num' \in Nat /\ num <= num'
  /\ \A n \in 0 .. num - 1 : slots'[n] = slots[n]

LEMMA RangeGrows ==
  ASSUME NEW a \in Nat, NEW b \in Nat, a <= b, NEW n \in 0 .. a - 1
  PROVE  n \in 0 .. b - 1 /\ n \in Nat
OBVIOUS

LEMMA KeptRange ==
  ASSUME Kept
  PROVE  0 .. num - 1 \subseteq 0 .. num' - 1 /\ 0 .. num - 1 \subseteq Nat
<1>1. num \in Nat /\ num' \in Nat /\ num <= num'
  BY DEF Kept
<1> QED
  BY <1>1, RangeGrows

\* A push that is not refused adds its items and changes none.
Pushed(list, then) ==
  /\ Kept /\ step' = then /\ result' = result
  /\ num' = num + Len(list)
  /\ \A k \in 1 .. Len(list) :
       /\ slots'[num + k - 1].key = list[k].key
       /\ slots'[num + k - 1].render = list[k].render
       /\ \A t : list[k].tokens = {t} => slots'[num + k - 1].token = t

LEMMA PushEffect ==
  ASSUME IInv, NEW list, Len(list) \in Nat, NEW then, Push(list, then)
  PROVE  Refuse("UnexpectedError") \/ Pushed(list, then)
<1> SUFFICES ASSUME ~Refuse("UnexpectedError")
             PROVE  Pushed(list, then)
  OBVIOUS
<1>1. /\ slots' = After(list) /\ num' = num + Len(list) /\ step' = then
      /\ cmd' = cmd /\ signer' = signer /\ result' = result
  BY DEF Push
<1>2. num \in Nat /\ DOMAIN slots = 0 .. MAX_ITEMS - 1 /\ num < MAX_ITEMS /\ MAX_ITEMS \in Nat
  BY MaxAssumption DEF IInv, TypeOK
<1>3. ASSUME NEW n \in 0 .. num - 1
      PROVE  slots'[n] = slots[n]
  BY <1>1, <1>2 DEF After
<1>4. ASSUME NEW k \in 1 .. Len(list)
      PROVE  slots'[num + k - 1] = Filled(SlotAt(num + k - 1), list[k])
  <2>1. num + k - 1 \in num .. num + Len(list) - 1 /\ (num + k - 1) - num + 1 = k
    BY <1>2
  <2> HIDE DEF Filled, SlotAt
  <2> QED
    BY <1>1, <2>1 DEF After
<1>5. ASSUME NEW k \in 1 .. Len(list)
      PROVE  /\ slots'[num + k - 1].key = list[k].key
             /\ slots'[num + k - 1].render = list[k].render
             /\ \A t : list[k].tokens = {t} => slots'[num + k - 1].token = t
  <2> DEFINE slot == SlotAt(num + k - 1)
             item == list[k]
  <2>1. slots'[num + k - 1] = Filled(slot, item)
    BY <1>4
  <2> HIDE DEF slot, item
  <2>2. Filled(slot, item).key = item.key /\ Filled(slot, item).render = item.render
    BY DEF Filled
  <2>3. ASSUME NEW t, item.tokens = {t}
        PROVE  Filled(slot, item).token = t
    BY <2>3 DEF Filled
  <2> QED
    BY <2>1, <2>2, <2>3 DEF item
<1>6. Kept
  BY <1>1, <1>2, <1>3 DEF Kept
<1> QED
  BY <1>1, <1>5, <1>6 DEF Pushed

\* A step without an item.
LEMMA LeaveEffect ==
  ASSUME IInv, NEW token, NEW then, Leave(token, then) \/ Skip(then)
  PROVE  Kept /\ step' = then /\ result' = result /\ num' = num
<1>1. num \in Nat /\ num' = num /\ step' = then
      /\ cmd' = cmd /\ signer' = signer /\ result' = result
  BY DEF Leave, Skip, IInv, TypeOK
<1>2. ASSUME NEW n \in 0 .. num - 1
      PROVE  slots'[n] = slots[n]
  BY <1>1, MaxAssumption DEF Leave, Skip, IInv, TypeOK
<1> QED
  BY <1>1, <1>2 DEF Kept

\* What is on the screen stays on it.
LEMMA HasStable ==
  ASSUME Kept, NEW n \in Nat, NEW key, NEW render, NEW token, Has(n, key, render, token)
  PROVE  Has(n, key, render, token)'
BY DEF Kept, Has

LEMMA BlindStable ==
  ASSUME Kept, NeedsBlind
  PROVE  NeedsBlind'
<1>1. PICK n \in 0 .. num - 1 :
        slots[n].render \in {"Warning", "TxTooLarge", "Caution", "RotateWarning", "CapNotVerified"}
  BY DEF NeedsBlind
<1>2. num \in Nat /\ num' \in Nat /\ num <= num' /\ slots'[n] = slots[n]
  BY DEF Kept
<1>3. n \in 0 .. num' - 1
  BY <1>2, RangeGrows
<1> QED
  BY <1>1, <1>2, <1>3 DEF NeedsBlind

LEMMA CapsStable ==
  ASSUME Kept
  PROVE  Caps' = Caps /\ Entry' = Entry
BY DEF Kept, Caps, Entry

LEMMA TransferStable ==
  ASSUME Kept, NEW c, NEW n \in Nat, TransferAt(n, c), Len(Caps[c].args) \in Nat
  PROVE  TransferAt(n, c)'
<1>1. Caps' = Caps
  BY CapsStable
<1>2. /\ n + 1 \in Nat /\ n + 2 \in Nat /\ n + 3 \in Nat /\ n + 4 \in Nat
  OBVIOUS
<1>3. ASSUME NEW k \in Nat, k < num /\ slots[k].render = "NotPrincipal"
      PROVE  (k < num /\ slots[k].render = "NotPrincipal")'
  BY <1>3 DEF Kept
<1>4. n + Len(Caps[c].args) + 1 \in Nat
  OBVIOUS
<1> QED
  BY <1>1, <1>2, <1>3, <1>4, HasStable DEF TransferAt

LEMMA CapShownStable ==
  ASSUME Kept, NEW c, CapShown(c)
  PROVE  CapShown(c)'
<1>1. Caps' = Caps /\ 0 .. num - 1 \subseteq 0 .. num' - 1 /\ 0 .. num - 1 \subseteq Nat
  BY CapsStable, KeptRange
<1>2. CASE Caps[c].name = "coin.GAS"
  BY <1>1, <1>2 DEF CapShown
<1>3. ASSUME NEW n \in 0 .. num - 1, TransferAt(n, c)
      PROVE  CapShown(c)'
  <2>1. Len(Caps[c].args) \in Nat
    BY <1>3 DEF TransferAt
  <2>2. TransferAt(n, c)'
    BY <1>1, <1>3, <2>1, TransferStable
  <2> QED
    BY <1>1, <2>2 DEF CapShown
<1>4. ASSUME NeedsBlind, NEW n \in 0 .. num - 1, BlindAt(n, c)
      PROVE  CapShown(c)'
  <2>1. NeedsBlind'
    BY <1>4, BlindStable
  <2>2. n \in Nat /\ n + 1 \in Nat /\ n + 2 \in Nat
    OBVIOUS
  <2>3. n + 1 < num /\ slots[n + 1].render = "RotateWarning"
        => (n + 1 < num /\ slots[n + 1].render = "RotateWarning")'
    BY <2>2 DEF Kept
  <2>4. BlindAt(n, c)'
    BY <1>1, <1>4, <2>2, <2>3, HasStable DEF BlindAt
  <2> QED
    BY <1>1, <2>1, <2>4 DEF CapShown
<1> QED
  BY <1>2, <1>3, <1>4 DEF CapShown

-----------------------------------------------------------------------------
(* Titles.                                                                 *)

\* An item writes the title, the render and the token of a row.
Writes(item, row) == \E t : item.tokens = {t} /\ row = <<item.key, item.render, t>>

\* An item that needs no other one before it.
ItemOk(item) == item.key \in TextTitles \/ \E row \in CommandRows : Writes(item, row)

\* The i-th item of a list is a row of the capability c, behind the rows before it.
InPlace(list, i, c) ==
  \E k \in DOMAIN RowsOf(c) : k <= i /\ \A j \in 1 .. k : Writes(list[i - k + j], RowsOf(c)[j])

ListOk(list) ==
  \A i \in 1 .. Len(list) : ItemOk(list[i]) \/ \E c \in DOMAIN Caps : InPlace(list, i, c)

LEMMA AppendedAt ==
  ASSUME NEW S, NEW s \in Seq(S), NEW x \in S, NEW i \in 1 .. Len(s)
  PROVE  Append(s, x)[i] = s[i]
BY AppendProperties

\* The rows of a transfer, by their numbers.
LEMMA TransferRowsAre ==
  ASSUME NEW c, NEW render
  PROVE  /\ DOMAIN TransferRows(c, render) = 1 .. 4
         /\ TransferRows(c, render)[1] = <<"Transfer", render, <<"cap", c>> >>
         /\ TransferRows(c, render)[2] = <<"From", "Std", <<"arg", c, 1>> >>
         /\ TransferRows(c, render)[3] = <<"To", "Std", <<"arg", c, 2>> >>
         /\ TransferRows(c, render)[4] = <<"Amount", "Amount", <<"number", c>> >>
BY DEF TransferRows

LEMMA CrossTransferRowsAre ==
  ASSUME NEW c
  PROVE  /\ DOMAIN CrossTransferRows(c) = 1 .. 5
         /\ CrossTransferRows(c)[5] = <<"ToChain", "Std", <<"arg", c, 4>> >>
         /\ \A i \in 1 .. 4 : CrossTransferRows(c)[i] = TransferRows(c, "CrossTransfer")[i]
<1> DEFINE four == TransferRows(c, "CrossTransfer")
           chain == <<"ToChain", "Std", <<"arg", c, 4>> >>
           S == {four[1], four[2], four[3], four[4], chain}
<1>1. four \in Seq(S) /\ chain \in S /\ Len(four) = 4
  BY DEF TransferRows
<1> HIDE DEF four, chain, S
<1>2. Append(four, chain) \in Seq(S)
  BY <1>1, AppendProperties
<1>3. Len(Append(four, chain)) = Len(four) + 1
  BY <1>1, AppendProperties, ZenonT(60)
<1>4. ASSUME NEW i \in 1 .. Len(four) PROVE Append(four, chain)[i] = four[i]
  BY <1>1, AppendedAt
<1>5. Append(four, chain)[Len(four) + 1] = chain
  BY <1>1, AppendProperties, ZenonT(60)
<1>6. Len(Append(four, chain)) = 5 /\ Len(four) + 1 = 5
  BY <1>1, <1>3
<1>7. DOMAIN Append(four, chain) = 1 .. 5
  BY <1>2, <1>6
<1> QED
  BY <1>1, <1>4, <1>5, <1>6, <1>7 DEF four, chain, CrossTransferRows

\* The rows of a capability are numbered from one.
LEMMA RowsAreNumbered ==
  ASSUME NEW c
  PROVE  DOMAIN RowsOf(c) \subseteq Nat \ {0}
<1>1. /\ DOMAIN TransferRows(c, "Transfer") \subseteq Nat \ {0}
      /\ DOMAIN CrossTransferRows(c) \subseteq Nat \ {0}
  BY TransferRowsAre, CrossTransferRowsAre
<1> QED
  BY <1>1 DEF RowsOf

LEMMA RowsStable ==
  ASSUME Kept
  PROVE  CommandRows' = CommandRows /\ \A c : RowsOf(c)' = RowsOf(c)
BY CapsStable DEF Kept, CommandRows, RowsOf

LEMMA KeptRows ==
  ASSUME TitlesOk, Kept, NEW n \in 0 .. num - 1
  PROVE  RowOk(n)'
<1>1. /\ \A k \in 0 .. num - 1 : slots'[k] = slots[k]
      /\ num \in Nat /\ Caps' = Caps /\ CommandRows' = CommandRows
      /\ \A c : RowsOf(c)' = RowsOf(c)
  BY CapsStable, RowsStable DEF Kept
<1>2. RowOk(n)
  BY DEF TitlesOk
<1>3. RowAt(n)' = RowAt(n)
  BY <1>1 DEF RowAt
<1>4. ASSUME NEW c \in DOMAIN Caps, IsRowOf(n, c)
      PROVE  IsRowOf(n, c)'
  <2>1. PICK k \in DOMAIN RowsOf(c) :
          k <= n + 1 /\ \A j \in 1 .. k : RowAt(n - k + j) = RowsOf(c)[j]
    BY <1>4 DEF IsRowOf
  <2>2. k \in Nat \ {0}
    BY <2>1, RowsAreNumbered
  <2>3. ASSUME NEW j \in 1 .. k
        PROVE  RowAt(n - k + j)' = RowsOf(c)[j]
    <3>1. n - k + j \in 0 .. num - 1
      BY <1>1, <2>1, <2>2
    <3>2. slots'[n - k + j] = slots[n - k + j]
      BY <1>1, <3>1
    <3> QED
      BY <2>1, <3>2 DEF RowAt
  <2> QED
    BY <1>1, <2>1, <2>3 DEF IsRowOf
<1> QED
  BY <1>1, <1>2, <1>3, <1>4 DEF RowOk

\* The i-th item of a list that is pushed.
LEMMA PushedRow ==
  ASSUME NEW list, Len(list) \in Nat, NEW then, Pushed(list, then),
         NEW i \in 1 .. Len(list), NEW n, n = num + i - 1, NEW row, Writes(list[i], row)
  PROVE  RowAt(n)' = row
<1>1. PICK t : list[i].tokens = {t} /\ row = <<list[i].key, list[i].render, t>>
  BY DEF Writes
<1>2. /\ slots'[n].key = list[i].key /\ slots'[n].render = list[i].render
      /\ slots'[n].token = t
  BY <1>1 DEF Pushed
<1> QED
  BY <1>1, <1>2 DEF RowAt

LEMMA PushedTitles ==
  ASSUME TitlesOk, NEW list, Len(list) \in Nat, NEW then, Pushed(list, then), ListOk(list)
  PROVE  TitlesOk'
<1>0. Kept /\ num \in Nat /\ num' = num + Len(list)
  BY DEF Pushed, Kept
<1>1. /\ Caps' = Caps /\ CommandRows' = CommandRows /\ \A c : RowsOf(c)' = RowsOf(c)
  BY <1>0, CapsStable, RowsStable
<1>2. ASSUME NEW n \in 0 .. num - 1
      PROVE  RowOk(n)'
  BY <1>0, KeptRows
<1>3. ASSUME NEW n \in Nat, num <= n, n < num'
      PROVE  RowOk(n)'
  <2>1. PICK i \in 1 .. Len(list) : n = num + i - 1
    <3>1. n - num + 1 \in 1 .. Len(list) /\ n = num + (n - num + 1) - 1
      BY <1>0, <1>3
    <3> QED
      BY <3>1
  <2>2. slots'[n].key = list[i].key
    BY <2>1 DEF Pushed
  <2>3. CASE list[i].key \in TextTitles
    BY <2>2, <2>3 DEF RowOk
  <2>4. ASSUME NEW row \in CommandRows, Writes(list[i], row)
        PROVE  RowOk(n)'
    <3>1. RowAt(n)' = row
      BY <2>1, <2>4, PushedRow
    <3> QED
      BY <1>1, <3>1 DEF RowOk
  <2>5. ASSUME NEW c \in DOMAIN Caps, InPlace(list, i, c)
        PROVE  RowOk(n)'
    <3>1. PICK k \in DOMAIN RowsOf(c) :
            k <= i /\ \A j \in 1 .. k : Writes(list[i - k + j], RowsOf(c)[j])
      BY <2>5 DEF InPlace
    <3>2. k \in Nat \ {0} /\ k <= n + 1
      BY <1>0, <2>1, <3>1, RowsAreNumbered
    <3>3. ASSUME NEW j \in 1 .. k
          PROVE  RowAt(n - k + j)' = RowsOf(c)[j]
      <4>1. i - k + j \in 1 .. Len(list) /\ n - k + j = num + (i - k + j) - 1
        BY <1>0, <2>1, <3>1, <3>2
      <4> QED
        BY <3>1, <4>1, PushedRow
    <3>4. IsRowOf(n, c)'
      BY <1>1, <3>1, <3>2, <3>3 DEF IsRowOf
    <3> QED
      BY <1>1, <3>4 DEF RowOk
  <2> QED
    BY <2>3, <2>4, <2>5 DEF ListOk, ItemOk
<1>4. \A n \in 0 .. num' - 1 : n \in 0 .. num - 1 \/ (n \in Nat /\ num <= n /\ n < num')
  BY <1>0
<1> QED
  BY <1>2, <1>3, <1>4 DEF TitlesOk

LEMMA KeptTitles ==
  ASSUME TitlesOk, Kept, num' = num
  PROVE  TitlesOk'
BY KeptRows DEF TitlesOk

\* A list whose rows are those of one capability, between texts.
LEMMA PlacedList ==
  ASSUME NEW list, Len(list) \in Nat, NEW c \in DOMAIN Caps, NEW w \in Nat, NEW m \in Nat,
         DOMAIN RowsOf(c) = 1 .. m, w + m <= Len(list),
         \A j \in 1 .. m : Writes(list[w + j], RowsOf(c)[j]),
         \A i \in 1 .. Len(list) : i <= w \/ i > w + m => list[i].key \in TextTitles
  PROVE  ListOk(list)
<1> SUFFICES ASSUME NEW i \in 1 .. Len(list), w < i, i <= w + m
             PROVE  InPlace(list, i, c)
  BY DEF ListOk, ItemOk
<1> DEFINE k == i - w
<1>1. k \in 1 .. m /\ k <= i
  OBVIOUS
<1>2. ASSUME NEW j \in 1 .. k
      PROVE  Writes(list[i - k + j], RowsOf(c)[j])
  <2>1. i - k + j = w + j /\ j \in 1 .. m
    OBVIOUS
  <2> QED
    BY <2>1
<1> HIDE DEF k
<1> QED
  BY <1>1, <1>2 DEF InPlace

\* The same, for a list given by the set of its items.
LEMMA PushedTitlesOf ==
  ASSUME TitlesOk, NEW S, NEW list \in Seq(S), NEW then, Pushed(list, then),
         \A item \in S : ItemOk(item)
  PROVE  TitlesOk'
<1>1. Len(list) \in Nat /\ \A k \in 1 .. Len(list) : list[k] \in S
  BY LenProperties, ElementOfSeq
<1>2. ListOk(list)
  BY <1>1 DEF ListOk
<1> QED
  BY <1>1, <1>2, PushedTitles

-----------------------------------------------------------------------------
(* The four kinds of step.                                                 *)

LEMMA CapsAreListed ==
  ASSUME IInv, signer # 0
  PROVE  /\ Len(Caps) \in Nat /\ DOMAIN Caps = 1 .. Len(Caps)
         /\ HasClist(Entry) => Len(Caps) > 0
         /\ ~HasClist(Entry) => DOMAIN Caps = {}
<1>1. signer \in DOMAIN cmd.signers /\ Listed(cmd)
  BY DEF IInv, SignerDecided, Matches
<1>2. /\ Len(Caps) \in Nat /\ DOMAIN Caps = 1 .. Len(Caps)
      /\ Entry.clist.kind \in {"missing", "null"} => Len(Caps) = 0
  BY <1>1 DEF Caps, Entry, Listed
<1>3. HasClist(Entry) <=> Entry.clist.kind \notin {"missing", "null"} /\ Len(Caps) > 0
  BY DEF HasClist, Caps
<1> QED
  BY <1>2, <1>3

LEMMA RefuseReview ==
  ASSUME IInv, RInv, NEW e, e \notin {"accepted", "running"}, Refuse(e)
  PROVE  RInv'
<1>1. /\ result' = e /\ step' = "done"
      /\ cmd' = cmd /\ signer' = signer /\ slots' = slots /\ num' = num
  BY DEF Refuse
<1>2. Beginning' /\ CapsShown' /\ FeeShown'
  BY <1>1 DEF Beginning, HashSteps, BeforeCaps, Early, CapsShown, FeeShown, Going
<1>3. Kept
  BY <1>1 DEF Kept, IInv, TypeOK
<1>4. TitlesOk'
  BY <1>1, <1>3, KeptTitles DEF RInv
<1> QED
  BY <1>2, <1>4 DEF RInv

\* Before the loop over the capabilities.
LEMMA HeadMove ==
  ASSUME IInv, RInv, Kept, TitlesOk', cap' = cap, step \in Early, result = "running",
         step' \in Early \cup {"caps"}
  PROVE  RInv'
<1>1. cap = 1 /\ cmd'.type # "Hash"
  BY DEF RInv, Beginning, BeforeCaps, HashSteps, Early, Kept
<1>2. Beginning' /\ FeeShown'
  BY <1>1 DEF Beginning, FeeShown, BeforeFee, BeforeCaps, Early
<1>3. CapsShown'
  <2> SUFFICES ASSUME Going', step' = "caps", NEW c \in DOMAIN Caps', c < cap'
               PROVE  FALSE
    BY DEF CapsShown
  <2>1. signer # 0
    BY DEF IInv, SignerDecided, Going, Kept, Early
  <2>2. c \in Nat \ {0}
    BY <2>1, CapsAreListed, CapsStable
  <2> QED
    BY <1>1, <2>2
<1> QED
  BY <1>2, <1>3 DEF RInv

\* The review of a bare hash has no capabilities and no fee.
LEMMA HashMove ==
  ASSUME RInv, Kept, TitlesOk', cmd.type = "Hash", step' \in HashSteps \ {"start"}
  PROVE  RInv'
<1>1. ~Going'
  BY DEF Going, Kept
<1>2. Beginning'
  BY DEF Beginning, BeforeCaps, Early, HashSteps
<1>3. CapsShown' /\ FeeShown'
  BY <1>1 DEF CapsShown, FeeShown
<1> QED
  BY <1>2, <1>3 DEF RInv

\* In the loop: the capability at hand is now shown.
LEMMA LoopMove ==
  ASSUME IInv, RInv, Kept, TitlesOk', step = "caps", step' = "caps", cap' = cap + 1,
         result = "running", result' = "running", NEW d, d = cap, CapShown(d)'
  PROVE  RInv'
<1>1. Beginning' /\ FeeShown'
  BY DEF RInv, Beginning, HashSteps, Kept, FeeShown, BeforeFee, BeforeCaps, Early
<1>2. ASSUME Going', NEW c \in DOMAIN Caps', c < cap'
      PROVE  CapShown(c)'
  <2>1. Going /\ signer # 0
    BY <1>2 DEF Going, Kept, IInv, SignerDecided
  <2>2. c \in Nat /\ cap \in Nat /\ c \in DOMAIN Caps
    BY <2>1, CapsAreListed, CapsStable DEF IInv, TypeOK
  <2>3. c = d \/ c < cap
    BY <1>2, <2>2
  <2>4. CASE c < cap
    <3>1. CapShown(c)
      BY <2>1, <2>2, <2>4 DEF RInv, CapsShown, Early
    <3> QED
      BY <3>1, CapShownStable
  <2> QED
    BY <2>3, <2>4
<1>3. CapsShown'
  BY <1>2 DEF CapsShown
<1> QED
  BY <1>1, <1>3 DEF RInv

\* After the loop.
LEMMA TailMove ==
  ASSUME IInv, RInv, Kept, TitlesOk', FeeShown', step \notin BeforeCaps \cup {"caps"},
         step' \notin BeforeCaps \cup {"caps"}, result = "running",
         cmd.type = "Hash" => step' \in HashSteps
  PROVE  RInv'
<1>1. Beginning'
  BY DEF Beginning, BeforeCaps, Kept
<1>2. CapsShown'
  <2> SUFFICES ASSUME Going'
               PROVE  /\ \A c \in DOMAIN Caps' : CapShown(c)'
                      /\ Len(Caps)' > 0 \/ NeedsBlind'
    BY DEF CapsShown, BeforeCaps
  <2>1. Going
    BY DEF Going, Kept, BeforeCaps
  <2>2. Caps' = Caps
    BY CapsStable
  <2>3. /\ \A c \in DOMAIN Caps : CapShown(c)
        /\ Len(Caps) > 0 \/ NeedsBlind
    BY <2>1 DEF RInv, CapsShown, BeforeCaps
  <2>4. Len(Caps)' > 0 \/ NeedsBlind'
    BY <2>2, <2>3, BlindStable
  <2> QED
    BY <2>2, <2>3, <2>4, CapShownStable
<1> QED
  BY <1>1, <1>2 DEF RInv

\* Once the fee and the payer are shown they stay.
LEMMA FeeStable ==
  ASSUME RInv, Kept, step \notin BeforeFee \cup {"payer"}, step' \notin BeforeFee \cup {"payer"},
         result = "running"
  PROVE  FeeShown'
<1> SUFFICES ASSUME Going'
             PROVE  \/ NeedsBlind'
                    \/ \E n \in 0 .. num' - 1 :
                         /\ Has(n, "MaxFee", "MaxFee", <<"meta">>)'
                         /\ Has(n + 1, "PayingAccount", "Std", <<"meta", "sender">>)'
  BY DEF FeeShown
<1>1. Going
  BY DEF Going, Kept, BeforeFee, BeforeCaps
<1>2. CASE NeedsBlind
  BY <1>2, BlindStable
<1>3. ASSUME NEW n \in 0 .. num - 1, Has(n, "MaxFee", "MaxFee", <<"meta">>),
             Has(n + 1, "PayingAccount", "Std", <<"meta", "sender">>)
      PROVE  /\ n \in 0 .. num' - 1
             /\ Has(n, "MaxFee", "MaxFee", <<"meta">>)'
             /\ Has(n + 1, "PayingAccount", "Std", <<"meta", "sender">>)'
  <2>2. n \in Nat /\ n + 1 \in Nat
    BY KeptRange
  <2>3. n \in 0 .. num' - 1
    BY KeptRange
  <2> QED
    BY <1>3, <2>2, <2>3, HasStable
<1> QED
  BY <1>1, <1>2, <1>3 DEF RInv, FeeShown

\* Before the fee nothing is claimed of it.
LEMMA FeeLater ==
  ASSUME step' \in BeforeFee
  PROVE  FeeShown'
BY DEF FeeShown, BeforeFee, BeforeCaps, Early

-----------------------------------------------------------------------------
(* Steps before the loop.                                                  *)

\* A step that pushes a list, stores nothing, or is refused.
Outcome(list, then) ==
  \/ Push(list, then)
  \/ \E token : Leave(token, then)
  \/ Skip(then)
  \/ \E e : e \notin {"accepted", "running"} /\ Refuse(e)

LEMMA OutcomeEffect ==
  ASSUME IInv, RInv, NEW S, NEW list \in Seq(S), \A item \in S : ItemOk(item),
         NEW then, Outcome(list, then), ~RInv'
  PROVE  Kept /\ TitlesOk' /\ step' = then /\ result' = result
<1>1. ASSUME NEW e, e \notin {"accepted", "running"}, Refuse(e)
      PROVE  FALSE
  BY <1>1, RefuseReview
<1>2. CASE Push(list, then)
  <2>1. Len(list) \in Nat
    BY LenProperties
  <2>2. Pushed(list, then)
    BY <1>1, <1>2, <2>1, PushEffect
  <2>3. TitlesOk'
    BY <2>2, PushedTitlesOf DEF RInv
  <2> QED
    BY <2>2, <2>3 DEF Pushed
<1>3. ASSUME NEW token, Leave(token, then) \/ Skip(then)
      PROVE  Kept /\ TitlesOk' /\ step' = then /\ result' = result
  BY <1>3, LeaveEffect, KeptTitles DEF RInv
<1> QED
  BY <1>1, <1>2, <1>3 DEF Outcome

LEMMA HeadOutcome ==
  ASSUME IInv, RInv, NEW S, NEW list \in Seq(S), \A item \in S : ItemOk(item),
         NEW then \in Early \cup {"caps"}, Outcome(list, then),
         step \in Early, cap' = cap
  PROVE  RInv'
<1>1. result = "running"
  BY DEF Early, IInv, TypeOK
<1> SUFFICES ASSUME ~RInv'
             PROVE  FALSE
  OBVIOUS
<1>2. Kept /\ TitlesOk' /\ step' = then /\ result' = result
  BY OutcomeEffect
<1> QED
  BY <1>1, <1>2, HeadMove

\* Items without a field, and the items of the signer's key.
LEMMA PlainItems ==
  /\ \A render : \A key \in TextTitles : ItemOk(ItemOnly(key, render))
  /\ \A render, token : \A key \in TextTitles : ItemOk(Item(key, render, token))
  /\ \A render, key, token :
       <<key, render, token>> \in CommandRows => ItemOk(Item(key, render, token))
BY DEF ItemOk, ItemOnly, Item, Writes

LEMMA KeyItems ==
  \A key \in {"OfKey", "UnscopedSigner", "KeyNotInTransfer"} : ItemOk(Item(key, "Std", KeyToken))
<1>1. \A key \in {"OfKey", "UnscopedSigner", "KeyNotInTransfer"} :
        <<key, "Std", KeyToken>> \in CommandRows
  BY DEF CommandRows, KeyToken
<1> QED
  BY <1>1, PlainItems

LEMMA HeadReview ==
  ASSUME IInv, RInv, StoreSigning \/ StoreNetwork \/ StoreKey \/ ValidateSigners
  PROVE  RInv'
<1>1. step \in Early /\ cap' = cap
  BY DEF At, StoreSigning, StoreNetwork, StoreKey, ValidateSigners, Early
<1>2. CASE StoreSigning
  <2> DEFINE S == {ItemOnly("Signing", "Signing")}
             list == <<ItemOnly("Signing", "Signing")>>
  <2>1. list \in Seq(S) /\ Outcome(list, "network")
    BY <1>2 DEF StoreSigning, Outcome
  <2>2. \A item \in S : ItemOk(item)
    BY PlainItems DEF TextTitles
  <2> HIDE DEF S, list
  <2> QED
    BY <1>1, <2>1, <2>2, HeadOutcome DEF Early
<1>3. CASE StoreNetwork
  <2> DEFINE item == Item("OnNetwork", "Std", <<"networkId">>)
             S == {item}
             list == <<item>>
  <2>1. list \in Seq(S)
    OBVIOUS
  <2>2. Outcome(list, "key")
    BY <1>3 DEF StoreNetwork, Outcome
  <2>3. ItemOk(item)
    BY PlainItems DEF CommandRows
  <2>4. \A i \in S : ItemOk(i)
    BY <2>3
  <2> HIDE DEF S, list
  <2> QED
    BY <1>1, <2>1, <2>2, <2>4, HeadOutcome DEF Early
<1>4. CASE StoreKey
  <2> DEFINE many == IF Len(cmd.signers) > 1 THEN <<ItemOnly("Signers", "Signers")>> ELSE <<>>
             rest == <<ItemOnly("Requiring", "Requiring"), Item("OfKey", "Std", KeyToken)>>
             S == {ItemOnly("Signers", "Signers"), ItemOnly("Requiring", "Requiring"),
                   Item("OfKey", "Std", KeyToken)}
  <2>1. many \in Seq(S) /\ rest \in Seq(S) /\ Outcome(many \o rest, "signers")
    BY <1>4 DEF StoreKey, Outcome
  <2>2. \A item \in S : ItemOk(item)
    BY PlainItems, KeyItems DEF TextTitles
  <2> HIDE DEF many, rest, S
  <2>3. many \o rest \in Seq(S)
    BY <2>1, ConcatIsFinite
  <2> QED
    BY <1>1, <2>1, <2>2, <2>3, HeadOutcome DEF Early
<1>5. CASE ValidateSigners
  <2>1. ASSUME NEW key \in {"UnscopedSigner", "KeyNotInTransfer"}, Outcome(<<KeyItem(key)>>, "caps")
        PROVE  RInv'
    <3> DEFINE S == {KeyItem(key)}
               list == <<KeyItem(key)>>
    <3>1. list \in Seq(S) /\ Outcome(list, "caps")
      BY <2>1
    <3>2. \A item \in S : ItemOk(item)
      BY KeyItems DEF KeyItem
    <3> HIDE DEF S, list
    <3> QED
      BY <1>1, <3>1, <3>2, HeadOutcome
  <2>2. \E key \in {"UnscopedSigner", "KeyNotInTransfer"} : Outcome(<<KeyItem(key)>>, "caps")
    BY <1>5 DEF ValidateSigners, Outcome
  <2> QED
    BY <2>1, <2>2
<1> QED
  BY <1>2, <1>3, <1>4, <1>5

\* A hash is reviewed by two fixed items.
LEMMA HashReview ==
  ASSUME IInv, RInv, StoreHashItems
  PROVE  RInv'
<1> DEFINE S == {ItemOnly("Warning", "HashWarning"), ItemOnly("TransactionHash", "Hash")}
           list == <<ItemOnly("Warning", "HashWarning"), ItemOnly("TransactionHash", "Hash")>>
<1>1. list \in Seq(S) /\ Outcome(list, "hash") /\ cmd.type = "Hash"
  BY DEF StoreHashItems, Outcome
<1>2. \A item \in S : ItemOk(item)
  BY PlainItems DEF TextTitles
<1> HIDE DEF S, list
<1> SUFFICES ASSUME ~RInv'
             PROVE  FALSE
  OBVIOUS
<1>3. Kept /\ TitlesOk' /\ step' = "hash"
  BY <1>1, <1>2, OutcomeEffect
<1> QED
  BY <1>1, <1>3, HashMove DEF HashSteps

\* The signer is chosen while the array is empty.
LEMMA FindReview ==
  ASSUME IInv, RInv, FindDeviceSigner
  PROVE  RInv'
<1>1. CASE SignerError # "none"
  <2>1. Refuse(SignerError) /\ SignerError \notin {"accepted", "running"}
    BY <1>1 DEF FindDeviceSigner, SignerError
  <2> QED
    BY <2>1, RefuseReview
<1>2. CASE SignerError = "none"
  <2>1. /\ step = "start" /\ step' = "signing" /\ cap' = cap /\ num' = num
        /\ cmd'.type # "Hash"
    BY <1>2 DEF FindDeviceSigner, Reviewable, At
  <2>2. num' = 0 /\ cap' = 1
    BY <2>1 DEF RInv, Beginning, BeforeCaps
  <2>3. TitlesOk'
    BY <2>2 DEF TitlesOk
  <2>4. Beginning' /\ CapsShown' /\ FeeShown'
    BY <2>1, <2>2 DEF Beginning, CapsShown, FeeShown, BeforeFee, BeforeCaps, Early
  <2> QED
    BY <2>3, <2>4 DEF RInv
<1> QED
  BY <1>1, <1>2

-----------------------------------------------------------------------------
(* The loop over the capabilities.                                         *)

\* The k-th item of a list that is pushed is on the screen.
LEMMA PushedHas ==
  ASSUME NEW list, Len(list) \in Nat, NEW then, Pushed(list, then),
         NEW k \in 1 .. Len(list), NEW n, n = num + k - 1,
         NEW key, list[k].key = key, NEW render, list[k].render = render,
         NEW token, list[k].tokens = {token}
  PROVE  Has(n, key, render, token)'
<1>1. num \in Nat /\ num' = num + Len(list)
  BY DEF Pushed, Kept
<1>2. n < num'
  BY <1>1
<1>3. slots'[n].key = key /\ slots'[n].render = render /\ slots'[n].token = token
  BY DEF Pushed
<1> QED
  BY <1>2, <1>3 DEF Has

LEMMA PushedRender ==
  ASSUME NEW list, Len(list) \in Nat, NEW then, Pushed(list, then),
         NEW m, m = num, NEW k \in 1 .. Len(list)
  PROVE  /\ m + k - 1 \in 0 .. num' - 1 /\ m + k - 1 < num'
         /\ slots'[m + k - 1].render = list[k].render
<1>1. m \in Nat /\ num' = m + Len(list)
  BY DEF Pushed, Kept
<1>2. slots'[m + k - 1].render = list[k].render
  BY DEF Pushed
<1> QED
  BY <1>1, <1>2

LEMMA PushedBlind ==
  ASSUME NEW list, Len(list) \in Nat, NEW then, Pushed(list, then), NEW k \in 1 .. Len(list),
         list[k].render \in {"Warning", "TxTooLarge", "Caution", "RotateWarning", "CapNotVerified"}
  PROVE  NeedsBlind'
<1> DEFINE m == num
<1>1. m + k - 1 \in 0 .. num' - 1 /\ slots'[m + k - 1].render = list[k].render
  BY PushedRender
<1> QED
  BY <1>1 DEF NeedsBlind

\* Where the items of store_unverified are in their list.
LEMMA UnverifiedIs ==
  ASSUME NEW warn \in BOOLEAN
  PROVE  \E p \in 1 .. 2 : \E q \in p + 1 .. p + 2 :
           /\ Len(Unverified(warn)) = q
           /\ Unverified(warn)[p] = Item("Capability", "CapName", CapToken)
           /\ Unverified(warn)[q] = ArgumentsItem
           /\ warn => Unverified(warn)[1] = Item("Warning", "CapNotVerified", CapToken)
<1> DEFINE w == IF warn THEN <<Item("Warning", "CapNotVerified", CapToken)>> ELSE <<>>
           c == <<Item("Capability", "CapName", CapToken)>>
           n == IF HasNamespace THEN <<Item("Namespace", "CapNamespace", CapToken)>> ELSE <<>>
           a == <<ArgumentsItem>>
<1>0. PICK S : UnverifiedItems \subseteq S
  OBVIOUS
<1>1. w \in Seq(S) /\ c \in Seq(S) /\ n \in Seq(S) /\ a \in Seq(S)
  BY <1>0 DEF UnverifiedItems
<1>2. Unverified(warn) = ((w \o c) \o n) \o a
  BY DEF Unverified, ArgumentsItem
<1>3. /\ Len(w) = IF warn THEN 1 ELSE 0
      /\ Len(c) = 1 /\ Len(a) = 1 /\ Len(n) \in {0, 1}
      /\ c[1] = Item("Capability", "CapName", CapToken) /\ a[1] = ArgumentsItem
      /\ warn => w[1] = Item("Warning", "CapNotVerified", CapToken)
  OBVIOUS
<1> HIDE DEF w, c, n, a
<1>4. /\ w \o c \in Seq(S) /\ Len(w \o c) = Len(w) + 1
      /\ (w \o c)[Len(w) + 1] = c[1]
      /\ warn => (w \o c)[1] = w[1]
  BY <1>1, <1>3, ConcatProperties
<1>5. /\ (w \o c) \o n \in Seq(S) /\ Len((w \o c) \o n) = Len(w) + 1 + Len(n)
      /\ ((w \o c) \o n)[Len(w) + 1] = c[1]
      /\ warn => ((w \o c) \o n)[1] = w[1]
  BY <1>1, <1>3, <1>4, ConcatProperties
<1>6. /\ Len(((w \o c) \o n) \o a) = Len(w) + 1 + Len(n) + 1
      /\ (((w \o c) \o n) \o a)[Len(w) + 1] = c[1]
      /\ (((w \o c) \o n) \o a)[Len(w) + 1 + Len(n) + 1] = a[1]
      /\ warn => (((w \o c) \o n) \o a)[1] = w[1]
  BY <1>1, <1>3, <1>5, ConcatProperties
<1> DEFINE p == Len(w) + 1
           q == Len(w) + 1 + Len(n) + 1
<1>7. Len(w) \in 0 .. 1 /\ Len(n) \in 0 .. 1
  BY <1>3
<1>8. p \in 1 .. 2 /\ q \in p + 1 .. p + 2
  <2>1. \A x, y \in 0 .. 1 : x + 1 \in 1 .. 2 /\ x + 1 + y + 1 \in x + 1 + 1 .. x + 1 + 2
    OBVIOUS
  <2> QED
    BY <1>7, <2>1
<1> QED
  BY <1>2, <1>3, <1>6, <1>8

\* A capability shown by name and arguments, in a review that is blind.
LEMMA NamedShown ==
  ASSUME NEW list, Len(list) \in Nat, NEW then, Pushed(list, then), NEW d,
         NEW p \in Nat \ {0}, NEW q \in p + 1 .. p + 2, q <= Len(list),
         list[p] = Item("Capability", "CapName", <<"cap", d>>),
         list[q].key = "Arguments", list[q].render = "Unknown", list[q].tokens = {<<"cap", d>>},
         NeedsBlind'
  PROVE  CapShown(d)'
<1>0. num \in Nat /\ num' = num + Len(list)
  BY DEF Pushed, Kept
<1>1. p \in 1 .. Len(list) /\ q \in 1 .. Len(list)
  OBVIOUS
<1>2. /\ list[p].key = "Capability" /\ list[p].render = "CapName"
      /\ list[p].tokens = {<<"cap", d>>}
  BY DEF Item
<1>3. PICK n : n = num + p - 1
  OBVIOUS
<1>4. PICK k : k = num + q - 1
  OBVIOUS
<1>5. Has(n, "Capability", "CapName", <<"cap", d>>)'
  BY <1>1, <1>2, <1>3, PushedHas
<1>6. Has(k, "Arguments", "Unknown", <<"cap", d>>)'
  BY <1>1, <1>4, PushedHas
<1>7. n \in 0 .. num' - 1 /\ k \in {n + 1, n + 2}
  BY <1>0, <1>1, <1>3, <1>4
<1>8. BlindAt(n, d)'
  BY <1>5, <1>6, <1>7 DEF BlindAt
<1> QED
  BY <1>7, <1>8 DEF CapShown

LEMMA ArgumentsItemIs ==
  /\ ArgumentsItem.key = "Arguments" /\ ArgumentsItem.render = "Unknown"
  /\ ArgumentsItem.tokens = {CapToken}
BY DEF ArgumentsItem, Item

\* The capability at hand has no other rows than its name and arguments.
ShownByName ==
  /\ Cap.name = "coin.TRANSFER" => Len(Cap.args) # 3
  /\ Cap.name = "coin.TRANSFER_XCHAIN" => Len(Cap.args) # 4
  /\ Cap.name = "coin.ROTATE" => Len(Cap.args) # 1
  /\ Cap.name # "coin.GAS"

\* The items of store_unverified are the rows of the capability, after the warning.
LEMMA UnverifiedRows ==
  ASSUME NEW warn \in BOOLEAN, ShownByName
  PROVE  \E w \in 0 .. 1 : \E m \in 2 .. 3 :
           /\ DOMAIN RowsOf(cap) = 1 .. m
           /\ Len(Unverified(warn)) = w + m
           /\ \A j \in 1 .. m : Writes(Unverified(warn)[w + j], RowsOf(cap)[j])
           /\ w = 1 => Unverified(warn)[1].key \in TextTitles
<1> DEFINE warning == Item("Warning", "CapNotVerified", CapToken)
           named == Item("Capability", "CapName", CapToken)
           space == Item("Namespace", "CapNamespace", CapToken)
           x == IF warn THEN <<warning>> ELSE <<>>
           c == <<named>>
           n == IF HasNamespace THEN <<space>> ELSE <<>>
           a == <<ArgumentsItem>>
           list == Unverified(warn)
           rows == RowsOf(cap)
<1>0. PICK S : UnverifiedItems \subseteq S
  OBVIOUS
<1>1. x \in Seq(S) /\ c \in Seq(S) /\ n \in Seq(S) /\ a \in Seq(S)
  BY <1>0 DEF UnverifiedItems
<1>2. list = ((x \o c) \o n) \o a
  BY DEF Unverified, ArgumentsItem
<1>3. /\ Len(x) = IF warn THEN 1 ELSE 0
      /\ Len(n) = IF HasNamespace THEN 1 ELSE 0
      /\ Len(c) = 1 /\ Len(a) = 1 /\ c[1] = named /\ a[1] = ArgumentsItem
      /\ warn => x[1] = warning
      /\ HasNamespace => n[1] = space
  OBVIOUS
<1>4. /\ Writes(named, <<"Capability", "CapName", <<"cap", cap>> >>)
      /\ Writes(space, <<"Namespace", "CapNamespace", <<"cap", cap>> >>)
      /\ Writes(ArgumentsItem, <<"Arguments", "Unknown", <<"cap", cap>> >>)
      /\ warning.key \in TextTitles
  BY ArgumentsItemIs DEF Writes, Item, CapToken, TextTitles
<1>5. rows = IF HasNamespace
             THEN << <<"Capability", "CapName", <<"cap", cap>> >>,
                     <<"Namespace", "CapNamespace", <<"cap", cap>> >>,
                     <<"Arguments", "Unknown", <<"cap", cap>> >> >>
             ELSE << <<"Capability", "CapName", <<"cap", cap>> >>,
                     <<"Arguments", "Unknown", <<"cap", cap>> >> >>
  BY DEF RowsOf, ShownByName, HasNamespace, Cap
<1> HIDE DEF x, c, n, a, list, rows, warning, named, space
<1>6. /\ x \o c \in Seq(S) /\ Len(x \o c) = Len(x) + 1
      /\ (x \o c)[Len(x) + 1] = c[1]
      /\ warn => (x \o c)[1] = x[1]
  BY <1>1, <1>3, ConcatProperties
<1>7. /\ (x \o c) \o n \in Seq(S) /\ Len((x \o c) \o n) = Len(x) + 1 + Len(n)
      /\ ((x \o c) \o n)[Len(x) + 1] = c[1]
      /\ HasNamespace => ((x \o c) \o n)[Len(x) + 2] = n[1]
      /\ warn => ((x \o c) \o n)[1] = x[1]
  BY <1>1, <1>3, <1>6, ConcatProperties
<1>8. /\ Len(list) = Len(x) + 1 + Len(n) + 1
      /\ list[Len(x) + 1] = c[1]
      /\ HasNamespace => list[Len(x) + 2] = n[1]
      /\ list[Len(x) + 1 + Len(n) + 1] = a[1]
      /\ warn => list[1] = x[1]
  BY <1>1, <1>2, <1>3, <1>7, ConcatProperties
<1>9. Len(x) \in 0 .. 1 /\ (Len(x) = 1 => list[1].key \in TextTitles)
  BY <1>3, <1>4, <1>8
<1>10. CASE HasNamespace
  <2>1. DOMAIN rows = 1 .. 3 /\ Len(list) = Len(x) + 3
    BY <1>3, <1>5, <1>8, <1>9, <1>10
  <2>2. /\ Writes(list[Len(x) + 1], rows[1]) /\ Writes(list[Len(x) + 2], rows[2])
        /\ Writes(list[Len(x) + 3], rows[3])
    <3>1. Len(x) + 1 + Len(n) + 1 = Len(x) + 3
      BY <1>3, <1>9, <1>10
    <3> QED
      BY <1>3, <1>4, <1>5, <1>8, <1>10, <3>1
  <2>3. ASSUME NEW j \in 1 .. 3 PROVE Writes(list[Len(x) + j], rows[j])
    <3>1. j = 1 \/ j = 2 \/ j = 3
      OBVIOUS
    <3> QED
      BY <2>2, <3>1
  <2>4. 3 \in 2 .. 3
    OBVIOUS
  <2> QED
    BY <1>9, <2>1, <2>3, <2>4 DEF list, rows
<1>11. CASE ~HasNamespace
  <2>1. DOMAIN rows = 1 .. 2 /\ Len(list) = Len(x) + 2
    BY <1>3, <1>5, <1>8, <1>9, <1>11
  <2>2. Writes(list[Len(x) + 1], rows[1]) /\ Writes(list[Len(x) + 2], rows[2])
    <3>1. Len(x) + 1 + Len(n) + 1 = Len(x) + 2
      BY <1>3, <1>9, <1>11
    <3> QED
      BY <1>3, <1>4, <1>5, <1>8, <1>11, <3>1
  <2>3. ASSUME NEW j \in 1 .. 2 PROVE Writes(list[Len(x) + j], rows[j])
    <3>1. j = 1 \/ j = 2
      OBVIOUS
    <3> QED
      BY <2>2, <3>1
  <2>4. 2 \in 2 .. 3
    OBVIOUS
  <2> QED
    BY <1>9, <2>1, <2>3, <2>4 DEF list, rows
<1> QED
  BY <1>10, <1>11

\* They stay in their place before a warning that ends the list.
LEMMA UnverifiedInPlace ==
  ASSUME NEW warn \in BOOLEAN, ShownByName, cap \in DOMAIN Caps, cap \in Nat,
         NEW list, NEW e \in 0 .. 1, Len(list) = Len(Unverified(warn)) + e,
         \A i \in 1 .. Len(Unverified(warn)) : list[i] = Unverified(warn)[i],
         e = 1 => list[Len(list)].key \in TextTitles
  PROVE  ListOk(list)
<1> DEFINE head == Unverified(warn)
           rows == RowsOf(cap)
<1>1. PICK w \in 0 .. 1 : \E m \in 2 .. 3 :
           /\ DOMAIN rows = 1 .. m
           /\ Len(head) = w + m
           /\ \A j \in 1 .. m : Writes(head[w + j], rows[j])
           /\ w = 1 => head[1].key \in TextTitles
  BY UnverifiedRows
<1>2. PICK m \in 2 .. 3 :
           /\ DOMAIN rows = 1 .. m
           /\ Len(head) = w + m
           /\ \A j \in 1 .. m : Writes(head[w + j], rows[j])
           /\ w = 1 => head[1].key \in TextTitles
  BY <1>1
<1>3. Len(list) = Len(head) + e /\ \A i \in 1 .. Len(head) : list[i] = head[i]
  OBVIOUS
<1> HIDE DEF head, rows
<1>4. Len(list) \in Nat /\ w + m <= Len(list)
  BY <1>2, <1>3
<1>5. ASSUME NEW j \in 1 .. m PROVE Writes(list[w + j], rows[j])
  <2>1. w + j \in 1 .. Len(head)
    BY <1>2
  <2> QED
    BY <1>2, <1>3, <2>1
<1>6. ASSUME NEW i \in 1 .. Len(list), i <= w \/ i > w + m
      PROVE  list[i].key \in TextTitles
  <2>1. (i = 1 /\ w = 1 /\ 1 \in 1 .. Len(head)) \/ (i = Len(list) /\ e = 1)
    BY <1>2, <1>3, <1>6
  <2> QED
    BY <1>2, <1>3, <2>1
<1>7. w \in Nat /\ m \in Nat /\ DOMAIN rows = 1 .. m
  BY <1>2
<1> QED
  BY <1>4, <1>5, <1>6, <1>7, PlacedList DEF rows

\* The capability at hand is one of the list and has the name it was found by.
LEMMA AtCapIs ==
  ASSUME IInv, RInv, NEW name, name # "none", AtCap(name)
  PROVE  /\ cap \in DOMAIN Caps /\ Caps[cap].name = name
         /\ step = "caps" /\ cap' = cap + 1 /\ result = "running"
<1>1. step = "caps" /\ cap' = cap + 1 /\ cap <= Len(Caps) /\ TxName(cap) = name
  BY DEF AtCap
<1>2. result = "running" /\ signer # 0 /\ cap \in Nat \ {0}
  BY <1>1 DEF IInv, TypeOK, SignerDecided, RInv, Beginning, HashSteps
<1>3. cap \in DOMAIN Caps
  BY <1>1, <1>2, CapsAreListed
<1> QED
  BY <1>1, <1>2, <1>3 DEF TxName

LEMMA GasReview ==
  ASSUME IInv, RInv, StoreGasCapability
  PROVE  RInv'
<1>1. AtCap("coin.GAS") /\ Skip("caps")
  BY DEF StoreGasCapability
<1>2. Kept /\ TitlesOk' /\ step' = "caps" /\ result' = result
  BY <1>1, LeaveEffect, KeptTitles DEF RInv
<1>3. Caps[cap].name = "coin.GAS" /\ step = "caps" /\ cap' = cap + 1 /\ result = "running"
  BY <1>1, AtCapIs
<1>4. PICK e : e = cap
  OBVIOUS
<1>5. CapShown(e)'
  BY <1>2, <1>3, <1>4, CapsStable DEF CapShown
<1> QED
  BY <1>2, <1>3, <1>4, <1>5, LoopMove

\* A list that is pushed in the loop, for the capability at hand.
LEMMA LoopPush ==
  ASSUME IInv, RInv, NEW list, Len(list) \in Nat, ListOk(list),
         NEW name, name # "none", AtCap(name), Push(list, "caps"),
         ASSUME Pushed(list, "caps"), NEW e, e = cap PROVE CapShown(e)'
  PROVE  RInv'
<1> SUFFICES ASSUME ~RInv'
             PROVE  FALSE
  OBVIOUS
<1>1. ~Refuse("UnexpectedError")
  BY RefuseReview
<1>2. Pushed(list, "caps")
  BY <1>1, PushEffect
<1>3. Kept /\ TitlesOk' /\ step' = "caps" /\ result' = result
  BY <1>2, PushedTitles DEF RInv, Pushed
<1>4. PICK e : e = cap
  OBVIOUS
<1>5. CapShown(e)'
  BY <1>2, <1>4
<1>6. step = "caps" /\ cap' = cap + 1 /\ result = "running"
  BY AtCapIs
<1> QED
  BY <1>3, <1>4, <1>5, <1>6, LoopMove

\* A capability that is not verified.
LEMMA UnverifiedReview ==
  ASSUME IInv, RInv, NEW name, name # "none", AtCap(name), ShownByName,
         Push(Unverified(TRUE), "caps")
  PROVE  RInv'
<1> DEFINE list == Unverified(TRUE)
<1>1. Len(list) \in Nat
  BY UnverifiedIsFinite
<1>2. PICK p \in 1 .. 2 : \E q \in p + 1 .. p + 2 :
           /\ Len(list) = q
           /\ list[p] = Item("Capability", "CapName", CapToken)
           /\ list[q] = ArgumentsItem
           /\ list[1] = Item("Warning", "CapNotVerified", CapToken)
  BY UnverifiedIs
<1>3. PICK q \in p + 1 .. p + 2 :
           /\ Len(list) = q
           /\ list[p] = Item("Capability", "CapName", CapToken)
           /\ list[q] = ArgumentsItem
           /\ list[1] = Item("Warning", "CapNotVerified", CapToken)
  BY <1>2
<1>4. Push(list, "caps") /\ ListOk(list)
  <2>1. cap \in DOMAIN Caps /\ cap \in Nat
    BY AtCapIs DEF IInv, TypeOK
  <2>2. Len(list) = Len(list) + 0 /\ 0 \in 0 .. 1 /\ 0 # 1
    BY <1>1
  <2>3. ListOk(list)
    BY <2>1, <2>2, UnverifiedInPlace
  <2> QED
    BY <2>3
<1> HIDE DEF list
<1>5. list[1].render = "CapNotVerified" /\ 1 \in 1 .. Len(list)
  BY <1>3 DEF Item
<1>6. ASSUME Pushed(list, "caps"), NEW e, e = cap
      PROVE  CapShown(e)'
  <2>1. NeedsBlind'
    BY <1>1, <1>5, <1>6, PushedBlind
  <2>2. /\ list[p] = Item("Capability", "CapName", <<"cap", e>>)
        /\ list[q].key = "Arguments" /\ list[q].render = "Unknown"
        /\ list[q].tokens = {<<"cap", e>>}
    BY <1>3, <1>6, ArgumentsItemIs DEF CapToken
  <2>3. p \in Nat \ {0} /\ q \in p + 1 .. p + 2 /\ q <= Len(list)
    BY <1>1, <1>3
  <2> QED
    BY <1>1, <1>6, <2>1, <2>2, <2>3, NamedShown
<1> QED
  BY <1>1, <1>4, <1>6, LoopPush

\* A rotation, with its warning after it.
LEMMA RotateReview ==
  ASSUME IInv, RInv, StoreRotate
  PROVE  RInv'
<1> DEFINE rotate == Item("Rotate", "Rotate", CapToken)
           warn == ItemOnly("Warning", "RotateWarning")
           S == UnverifiedItems \cup {rotate, warn}
<1>1. AtCap("coin.ROTATE")
  BY DEF StoreRotate
<1>2. cap \in DOMAIN Caps /\ Caps[cap].name = "coin.ROTATE"
  BY <1>1, AtCapIs
<1>3. /\ rotate.key = "Rotate" /\ rotate.render = "Rotate" /\ rotate.tokens = {CapToken}
      /\ warn.render = "RotateWarning" /\ warn.key = "Warning"
  BY DEF Item, ItemOnly
<1>4. warn.key \in TextTitles /\ cap \in Nat
  BY <1>3 DEF TextTitles, IInv, TypeOK
<1>5. <<rotate>> \in Seq(S) /\ <<warn>> \in Seq(S)
  OBVIOUS
<1>6. Unverified(FALSE) \in Seq(S)
  BY UnverifiedIsFinite
<1>7. CASE Refuse("UnexpectedError")
  BY <1>7, RefuseReview
<1>8. CASE Len(Cap.args) = 1 /\ Push(<<rotate>> \o <<warn>>, "caps")
  <2> DEFINE head == <<rotate>>
             tail == <<warn>>
             list == head \o tail
  <2>1. Len(head) = 1 /\ Len(tail) = 1 /\ head[1] = rotate /\ tail[1] = warn
    OBVIOUS
  <2>2. head \in Seq(S) /\ tail \in Seq(S)
    BY <1>5
  <2> HIDE DEF head, tail, S, rotate, warn
  <2>3. list \in Seq(S) /\ Len(list) = 2 /\ list[1] = rotate /\ list[2] = warn
    <3>1. /\ list \in Seq(S) /\ Len(list) = 2
          /\ \A i \in 1 .. 2 : list[i] = IF i <= 1 THEN head[i] ELSE tail[i - 1]
      BY <2>1, <2>2, ConcatProperties
    <3>2. list[1] = head[1] /\ list[2] = tail[1]
      BY <3>1
    <3> QED
      BY <2>1, <3>1, <3>2
  <2>4. Push(list, "caps")
    BY <1>8 DEF head, tail
  <2> HIDE DEF list
  <2>0. ListOk(list)
    <3>1. RowsOf(cap) = << <<"Rotate", "Rotate", <<"cap", cap>> >> >>
      BY <1>2, <1>8 DEF RowsOf, Cap
    <3>2. DOMAIN RowsOf(cap) = 1 .. 1
      BY <3>1
    <3>3. Writes(list[1], RowsOf(cap)[1])
      <4>1. RowsOf(cap)[1] = <<list[1].key, list[1].render, CapToken>>
        BY <1>3, <2>3, <3>1 DEF CapToken
      <4>2. list[1].tokens = {CapToken}
        BY <1>3, <2>3
      <4> QED
        BY <4>1, <4>2 DEF Writes
    <3>4. \A j \in 1 .. 1 : Writes(list[0 + j], RowsOf(cap)[j])
      <4>1. \A j \in 1 .. 1 : 0 + j = 1 /\ j = 1
        OBVIOUS
      <4> QED
        BY <3>3, <4>1
    <3>6. 0 \in Nat /\ 1 \in Nat /\ 0 + 1 <= Len(list) /\ Len(list) \in Nat
      BY <2>3
    <3>5. \A i \in 1 .. Len(list) : i <= 0 \/ i > 0 + 1 => list[i].key \in TextTitles
      BY <1>4, <2>3
    <3> QED
      BY <1>2, <3>2, <3>4, <3>5, <3>6, PlacedList
  <2>5. ASSUME Pushed(list, "caps"), NEW e, e = cap
        PROVE  CapShown(e)'
    <3>1. 1 \in 1 .. Len(list) /\ 2 \in 1 .. Len(list) /\ Len(list) \in Nat
      BY <2>3
    <3>2. NeedsBlind'
      BY <1>3, <2>3, <2>5, <3>1, PushedBlind
    <3>3. num \in Nat /\ num' = num + 2
      BY <2>3, <2>5 DEF Pushed, Kept
    <3>4. PICK n : n = num
      OBVIOUS
    <3>5. Has(n, "Rotate", "Rotate", <<"cap", e>>)'
      <4>1. n = num + 1 - 1
        BY <3>3, <3>4
      <4>2. list[1].tokens = {<<"cap", e>>}
        BY <1>3, <2>3, <2>5 DEF CapToken
      <4> QED
        BY <1>3, <2>3, <2>5, <3>1, <4>1, <4>2, PushedHas
    <3>6. slots'[n + 1].render = "RotateWarning"
      <4>1. slots'[num + 2 - 1].render = list[2].render
        BY <2>5, <3>1 DEF Pushed
      <4>2. num + 2 - 1 = n + 1
        BY <3>3, <3>4
      <4> QED
        BY <1>3, <2>3, <4>1, <4>2
    <3>7. n \in 0 .. num' - 1 /\ n + 1 < num'
      BY <3>3, <3>4
    <3>8. Caps'[e].name = "coin.ROTATE"
      BY <1>2, <2>5, CapsStable DEF Pushed
    <3>9. BlindAt(n, e)'
      BY <3>5, <3>6, <3>7, <3>8 DEF BlindAt
    <3> QED
      BY <3>2, <3>7, <3>9 DEF CapShown
  <2> QED
    <3>1. Len(list) \in Nat
      BY <2>3
    <3> QED
      BY <1>1, <2>0, <2>4, <2>5, <3>1, LoopPush
<1>9. CASE Len(Cap.args) # 1 /\ Push(Unverified(FALSE) \o <<warn>>, "caps")
  <2> DEFINE head == Unverified(FALSE)
             tail == <<warn>>
             list == head \o tail
  <2>1. Len(tail) = 1 /\ tail[1] = warn
    OBVIOUS
  <2>2. head \in Seq(S) /\ tail \in Seq(S)
    BY <1>5, <1>6
  <2>3. PICK p \in 1 .. 2 : \E q \in p + 1 .. p + 2 :
           /\ Len(head) = q
           /\ head[p] = Item("Capability", "CapName", CapToken)
           /\ head[q] = ArgumentsItem
    BY UnverifiedIs
  <2>4. PICK q \in p + 1 .. p + 2 :
           /\ Len(head) = q
           /\ head[p] = Item("Capability", "CapName", CapToken)
           /\ head[q] = ArgumentsItem
    BY <2>3
  <2>5. Push(list, "caps")
    BY <1>9
  <2> HIDE DEF head, tail, S
  <2>6. /\ list \in Seq(S) /\ Len(list) = q + 1 /\ list[q + 1] = warn
        /\ list[p] = head[p] /\ list[q] = head[q]
    BY <2>1, <2>2, <2>4, ConcatProperties
  <2>0. ListOk(list)
    <3>1. ShownByName
      BY <1>2, <1>9 DEF ShownByName, Cap
    <3>2. /\ Len(list) = Len(head) + 1 /\ list[Len(list)].key \in TextTitles /\ 1 \in 0 .. 1
          /\ \A i \in 1 .. Len(head) : list[i] = head[i]
      BY <1>4, <2>1, <2>2, <2>4, <2>6, ConcatProperties
    <3> QED
      BY <1>2, <1>4, <3>1, <3>2, UnverifiedInPlace DEF head
  <2> HIDE DEF list, rotate, warn
  <2>7. ASSUME Pushed(list, "caps"), NEW e, e = cap
        PROVE  CapShown(e)'
    <3>1. q + 1 \in 1 .. Len(list) /\ Len(list) \in Nat /\ p \in Nat \ {0} /\ q <= Len(list)
      BY <2>6
    <3>2. NeedsBlind'
      BY <1>3, <2>6, <2>7, <3>1, PushedBlind
    <3>3. /\ list[p] = Item("Capability", "CapName", <<"cap", e>>)
          /\ list[q].key = "Arguments" /\ list[q].render = "Unknown"
          /\ list[q].tokens = {<<"cap", e>>}
      BY <2>4, <2>6, <2>7, ArgumentsItemIs DEF CapToken
    <3> QED
      BY <2>7, <3>1, <3>2, <3>3, NamedShown
  <2> QED
    <3>1. Len(list) \in Nat
      BY <2>6
    <3> QED
      BY <1>1, <2>0, <2>5, <2>7, <3>1, LoopPush
<1> QED
  <2>1. \/ Refuse("UnexpectedError")
        \/ Len(Cap.args) = 1 /\ Push(<<rotate>> \o <<warn>>, "caps")
        \/ Len(Cap.args) # 1 /\ Push(Unverified(FALSE) \o <<warn>>, "caps")
    BY DEF StoreRotate
  <2> QED
    BY <1>7, <1>8, <1>9, <2>1

\* A transfer: its four or five items, then the warning about its receiver.
LEMMA TransferShown ==
  ASSUME IInv, RInv, NEW name, NEW nargs \in Nat, NEW render,
         \/ name = "coin.TRANSFER" /\ nargs = 3 /\ render = "Transfer"
         \/ name = "coin.TRANSFER_XCHAIN" /\ nargs = 4 /\ render = "CrossTransfer",
         AtCap(name), Len(Cap.args) = nargs,
         NEW S, NEW list \in Seq(S), NEW e, e = cap,
         list[1] = Item("Transfer", render, <<"cap", e>>),
         list[2] = Item("From", "Std", <<"arg", e, 1>>),
         list[3] = Item("To", "Std", <<"arg", e, 2>>),
         list[4] = Item("Amount", "Amount", <<"number", e>>),
         nargs = 4 => list[5] = Item("ToChain", "Std", <<"arg", e, 4>>),
         \/ IsPrincipal(Cap.args[2]) /\ Len(list) = nargs + 1
         \/ Len(list) = nargs + 2 /\ list[nargs + 2].render = "NotPrincipal",
         Pushed(list, "caps")
  PROVE  CapShown(e)'
<1>1. num \in Nat /\ Len(list) \in Nat /\ num' = num + Len(list) /\ nargs \in {3, 4}
      /\ Len(list) >= nargs + 1
  BY DEF Pushed, Kept
<1>2. PICK n : n = num
  OBVIOUS
<1>3. ASSUME NEW k \in 1 .. Len(list), NEW i, i = n + k - 1, NEW key, NEW r, NEW token,
             list[k] = Item(key, r, token)
      PROVE  Has(i, key, r, token)'
  <2>1. list[k].key = key /\ list[k].render = r /\ list[k].tokens = {token}
    BY <1>3 DEF Item
  <2>2. i = num + k - 1
    BY <1>2, <1>3
  <2> QED
    BY <1>1, <2>1, <2>2, PushedHas
<1>4. /\ n = n + 1 - 1 /\ n + 1 = n + 2 - 1 /\ n + 2 = n + 3 - 1 /\ n + 3 = n + 4 - 1
      /\ n + 4 = n + 5 - 1
  BY <1>1, <1>2
<1>5. /\ 1 \in 1 .. Len(list) /\ 2 \in 1 .. Len(list) /\ 3 \in 1 .. Len(list)
      /\ 4 \in 1 .. Len(list) /\ nargs = 4 => 5 \in 1 .. Len(list)
  BY <1>1
<1>6. /\ Has(n, "Transfer", render, <<"cap", e>>)'
      /\ Has(n + 1, "From", "Std", <<"arg", e, 1>>)'
      /\ Has(n + 2, "To", "Std", <<"arg", e, 2>>)'
      /\ Has(n + 3, "Amount", "Amount", <<"number", e>>)'
  BY <1>3, <1>4, <1>5
<1>7. nargs = 4 => Has(n + 4, "ToChain", "Std", <<"arg", e, 4>>)'
  BY <1>3, <1>4, <1>5
<1>8. Caps'[e] = Cap /\ Cap.name = name
  <2>1. Caps' = Caps
    BY CapsStable DEF Pushed
  <2>2. Caps[cap].name = name
    BY AtCapIs
  <2> QED
    BY <2>1, <2>2 DEF Cap
<1>9. \/ IsPrincipal(Caps'[e].args[2])
      \/ LET k == n + Len(Caps'[e].args) + 1
         IN  k < num' /\ slots'[k].render = "NotPrincipal"
  <2>1. CASE IsPrincipal(Cap.args[2])
    BY <1>8, <2>1
  <2>2. CASE Len(list) = nargs + 2 /\ list[nargs + 2].render = "NotPrincipal"
    <3>1. nargs + 2 \in 1 .. Len(list) /\ num + (nargs + 2) - 1 = n + nargs + 1
          /\ n + nargs + 1 < num'
      BY <1>1, <1>2, <2>2
    <3>2. slots'[num + (nargs + 2) - 1].render = list[nargs + 2].render
      BY <3>1 DEF Pushed
    <3> QED
      BY <1>8, <2>2, <3>1, <3>2
  <2> QED
    BY <2>1, <2>2
<1>10. \/ Caps'[e].name = "coin.TRANSFER" /\ Len(Caps'[e].args) = 3 /\ render = "Transfer"
       \/ Caps'[e].name = "coin.TRANSFER_XCHAIN" /\ Len(Caps'[e].args) = 4
          /\ render = "CrossTransfer" /\ nargs = 4
  BY <1>8
<1>11. TransferAt(n, e)'
  BY <1>6, <1>7, <1>9, <1>10 DEF TransferAt
<1>12. n \in 0 .. num' - 1
  BY <1>1, <1>2
<1> QED
  BY <1>11, <1>12 DEF CapShown

\* The items of a transfer are its rows.
LEMMA TransferInPlace ==
  ASSUME NEW name, NEW nargs \in Nat, NEW render,
         \/ name = "coin.TRANSFER" /\ nargs = 3 /\ render = "Transfer"
         \/ name = "coin.TRANSFER_XCHAIN" /\ nargs = 4 /\ render = "CrossTransfer",
         cap \in DOMAIN Caps, Cap.name = name, Len(Cap.args) = nargs,
         NEW list, Len(list) \in Nat,
         list[1] = Item("Transfer", render, CapToken),
         list[2] = Item("From", "Std", Arg(1)),
         list[3] = Item("To", "Std", Arg(2)),
         list[4] = Item("Amount", "Amount", <<"number", cap>>),
         nargs = 4 => list[5] = Item("ToChain", "Std", Arg(4)),
         \/ Len(list) = nargs + 1
         \/ Len(list) = nargs + 2 /\ list[nargs + 2].key \in TextTitles
  PROVE  ListOk(list)
<1> DEFINE rows == RowsOf(cap)
           m == nargs + 1
<1>1. \A key, r, token : Writes(Item(key, r, token), <<key, r, token>>)
  BY DEF Writes, Item
<1>2. /\ DOMAIN rows = 1 .. m
      /\ rows[1] = <<"Transfer", render, CapToken>>
      /\ rows[2] = <<"From", "Std", Arg(1)>>
      /\ rows[3] = <<"To", "Std", Arg(2)>>
      /\ rows[4] = <<"Amount", "Amount", <<"number", cap>> >>
      /\ nargs = 4 => rows[5] = <<"ToChain", "Std", Arg(4)>>
  <2>1. CASE nargs = 3
    <3>1. rows = TransferRows(cap, "Transfer")
      BY <2>1 DEF RowsOf, Cap
    <3> HIDE DEF rows
    <3>2. 1 .. m = 1 .. 4 /\ render = "Transfer" /\ nargs # 4
      BY <2>1
    <3> QED
      BY <3>1, <3>2, TransferRowsAre DEF CapToken, Arg
  <2>2. CASE nargs = 4
    <3>1. rows = CrossTransferRows(cap)
      BY <2>2 DEF RowsOf, Cap
    <3> HIDE DEF rows
    <3>2. 1 .. m = 1 .. 5 /\ render = "CrossTransfer"
      BY <2>2
    <3>3. 1 \in 1 .. 4 /\ 2 \in 1 .. 4 /\ 3 \in 1 .. 4 /\ 4 \in 1 .. 4
      OBVIOUS
    <3> HIDE DEF m
    <3> QED
      <4>1. DOMAIN rows = 1 .. 5 /\ rows[5] = <<"ToChain", "Std", <<"arg", cap, 4>> >>
        BY <3>1, CrossTransferRowsAre
      <4>2. \A k \in 1 .. 4 : rows[k] = TransferRows(cap, "CrossTransfer")[k]
        BY <3>1, CrossTransferRowsAre
      <4>3. /\ rows[1] = <<"Transfer", "CrossTransfer", <<"cap", cap>> >>
            /\ rows[2] = <<"From", "Std", <<"arg", cap, 1>> >>
            /\ rows[3] = <<"To", "Std", <<"arg", cap, 2>> >>
            /\ rows[4] = <<"Amount", "Amount", <<"number", cap>> >>
        BY <3>3, <4>2, TransferRowsAre
      <4> QED
        BY <3>2, <4>1, <4>3 DEF CapToken, Arg
  <2> QED
    BY <2>1, <2>2
<1> HIDE DEF rows
<1>3. ASSUME NEW j \in 1 .. m PROVE Writes(list[0 + j], rows[j])
  <2>1. 0 + j = j /\ (j = 1 \/ j = 2 \/ j = 3 \/ j = 4 \/ (j = 5 /\ nargs = 4))
    OBVIOUS
  <2>2. \A k : k = 1 \/ k = 2 \/ k = 3 \/ k = 4 \/ (k = 5 /\ nargs = 4) => Writes(list[k], rows[k])
    BY <1>1, <1>2
  <2> QED
    BY <2>1, <2>2
<1>4. ASSUME NEW i \in 1 .. Len(list), i <= 0 \/ i > 0 + m
      PROVE  list[i].key \in TextTitles
  BY <1>4
<1>5. m \in Nat /\ 0 + m <= Len(list)
  OBVIOUS
<1> HIDE DEF m
<1> QED
  BY <1>2, <1>3, <1>4, <1>5, PlacedList DEF rows

LEMMA TransferCapReview ==
  ASSUME IInv, RInv, NEW name, NEW nargs \in Nat, NEW render,
         \/ name = "coin.TRANSFER" /\ nargs = 3 /\ render = "Transfer"
         \/ name = "coin.TRANSFER_XCHAIN" /\ nargs = 4 /\ render = "CrossTransfer",
         AtCap(name), NEW S, ItemOnly("Warning", "NotPrincipal") \in S,
         NEW items \in Seq(S), Len(items) = nargs + 1,
         items[1] = Item("Transfer", render, CapToken),
         items[2] = Item("From", "Std", Arg(1)),
         items[3] = Item("To", "Std", Arg(2)),
         items[4] = Item("Amount", "Amount", <<"number", cap>>),
         nargs = 4 => items[5] = Item("ToChain", "Std", Arg(4)),
         StoreTransferOf(items, nargs)
  PROVE  RInv'
<1>0. name # "none" /\ nargs \in {3, 4}
  OBVIOUS
<1>1. CASE Refuse("UnexpectedError") \/ Refuse("UnexpectedCharacters")
  BY <1>1, RefuseReview
<1>a. cap \in DOMAIN Caps /\ Cap.name = name
  BY <1>0, AtCapIs DEF Cap
<1>2. CASE Len(Cap.args) # nargs /\ Push(Unverified(TRUE), "caps")
  <2>1. ShownByName
    BY <1>2, <1>a DEF ShownByName
  <2> QED
    BY <1>0, <1>2, <2>1, UnverifiedReview
<1>3. CASE Len(Cap.args) = nargs /\ Push(items \o ReceiverWarning, "caps")
  <2> DEFINE warn == ItemOnly("Warning", "NotPrincipal")
             list == items \o ReceiverWarning
  <2>1. /\ ReceiverWarning \in Seq(S)
        /\ \/ IsPrincipal(Cap.args[2]) /\ Len(ReceiverWarning) = 0
           \/ Len(ReceiverWarning) = 1 /\ ReceiverWarning[1] = warn
    BY DEF ReceiverWarning
  <2>2. warn.render = "NotPrincipal" /\ warn.key \in TextTitles
    BY DEF ItemOnly, TextTitles
  <2> HIDE DEF warn
  <2>3. /\ list \in Seq(S) /\ Len(list) = nargs + 1 + Len(ReceiverWarning)
        /\ \A i \in 1 .. nargs + 1 + Len(ReceiverWarning) :
             list[i] = IF i <= nargs + 1 THEN items[i] ELSE ReceiverWarning[i - (nargs + 1)]
    BY <2>1, ConcatProperties
  <2>4. Push(list, "caps")
    BY <1>3
  <2>5. /\ list[1] = items[1] /\ list[2] = items[2] /\ list[3] = items[3] /\ list[4] = items[4]
        /\ nargs = 4 => list[5] = items[5]
    BY <1>0, <2>1, <2>3
  <2>6. \/ IsPrincipal(Cap.args[2]) /\ Len(list) = nargs + 1
        \/ /\ Len(list) = nargs + 2 /\ list[nargs + 2].render = "NotPrincipal"
           /\ list[nargs + 2].key \in TextTitles
    <3>1. CASE IsPrincipal(Cap.args[2]) /\ Len(ReceiverWarning) = 0
      BY <2>3, <3>1
    <3>2. CASE Len(ReceiverWarning) = 1 /\ ReceiverWarning[1] = warn
      <4>1. nargs + 2 \in 1 .. nargs + 1 + 1 /\ (nargs + 2) - (nargs + 1) = 1
            /\ ~(nargs + 2 <= nargs + 1)
        OBVIOUS
      <4>2. list[nargs + 2] = ReceiverWarning[1]
        BY <2>3, <3>2, <4>1
      <4> QED
        BY <2>2, <2>3, <3>2, <4>2
    <3> QED
      BY <2>1, <3>1, <3>2
  <2> HIDE DEF list
  <2>8. Len(list) \in Nat
    BY <2>3, LenProperties
  <2>9. ListOk(list)
    BY <1>3, <1>a, <2>5, <2>6, <2>8, TransferInPlace
  <2>7. ASSUME Pushed(list, "caps"), NEW e, e = cap
        PROVE  CapShown(e)'
    <3>1. CapToken = <<"cap", e>> /\ \A j : Arg(j) = <<"arg", e, j>>
      BY <2>7 DEF CapToken, Arg
    <3>2. /\ list[1] = Item("Transfer", render, <<"cap", e>>)
          /\ list[2] = Item("From", "Std", <<"arg", e, 1>>)
          /\ list[3] = Item("To", "Std", <<"arg", e, 2>>)
          /\ list[4] = Item("Amount", "Amount", <<"number", e>>)
          /\ nargs = 4 => list[5] = Item("ToChain", "Std", <<"arg", e, 4>>)
      BY <2>5, <2>7, <3>1
    <3> QED
      BY <1>3, <2>3, <2>6, <2>7, <3>2, TransferShown, ZenonT(60)
  <2> QED
    BY <1>0, <2>4, <2>7, <2>8, <2>9, LoopPush
<1> QED
  BY <1>1, <1>2, <1>3 DEF StoreTransferOf

TransferItemSet(render) ==
  {Item("Transfer", render, CapToken), Item("From", "Std", Arg(1)), Item("To", "Std", Arg(2)),
   Item("Amount", "Amount", <<"number", cap>>), Item("ToChain", "Std", Arg(4)),
   ItemOnly("Warning", "NotPrincipal")}

LEMMA TransferItemsAre ==
  ASSUME NEW render
  PROVE  /\ TransferItems(render) \in Seq(TransferItemSet(render))
         /\ Len(TransferItems(render)) = 4
BY DEF TransferItems, TransferItemSet

LEMMA LoopReview ==
  ASSUME IInv, RInv,
         \/ StoreTransfer \/ StoreTransferXchain \/ StoreRotate
         \/ StoreGasCapability \/ StoreOther \/ NotACapability
  PROVE  RInv'
<1>1. CASE StoreTransfer
  <2> DEFINE items == TransferItems("Transfer")
  <2>1. /\ AtCap("coin.TRANSFER") /\ StoreTransferOf(items, 3)
    BY <1>1 DEF StoreTransfer
  <2>2. /\ items[1] = Item("Transfer", "Transfer", CapToken)
        /\ items[2] = Item("From", "Std", Arg(1))
        /\ items[3] = Item("To", "Std", Arg(2))
        /\ items[4] = Item("Amount", "Amount", <<"number", cap>>)
    BY DEF TransferItems
  <2>3. ItemOnly("Warning", "NotPrincipal") \in TransferItemSet("Transfer")
    BY DEF TransferItemSet
  <2> HIDE DEF items
  <2>4. items \in Seq(TransferItemSet("Transfer")) /\ Len(items) = 3 + 1
    BY TransferItemsAre DEF items
  <2>5. 3 \in Nat /\ 3 # 4
    OBVIOUS
  <2> QED
    BY <2>1, <2>2, <2>3, <2>4, <2>5, TransferCapReview
<1>2. CASE StoreTransferXchain
  <2> DEFINE four == TransferItems("CrossTransfer")
             S == TransferItemSet("CrossTransfer")
             chain == Item("ToChain", "Std", Arg(4))
             items == Append(four, chain)
  <2>1. /\ AtCap("coin.TRANSFER_XCHAIN") /\ StoreTransferOf(items, 4)
    BY <1>2 DEF StoreTransferXchain
  <2>2. /\ four[1] = Item("Transfer", "CrossTransfer", CapToken)
        /\ four[2] = Item("From", "Std", Arg(1))
        /\ four[3] = Item("To", "Std", Arg(2))
        /\ four[4] = Item("Amount", "Amount", <<"number", cap>>)
    BY DEF TransferItems
  <2>3. ItemOnly("Warning", "NotPrincipal") \in S /\ chain \in S
    BY DEF TransferItemSet
  <2>4. four \in Seq(S) /\ Len(four) = 4
    BY TransferItemsAre
  <2> HIDE DEF four, S, chain
  <2>5. /\ items \in Seq(S) /\ Len(items) = 5 /\ items[5] = chain
        /\ items[1] = four[1] /\ items[2] = four[2] /\ items[3] = four[3] /\ items[4] = four[4]
    <3>1. /\ items \in Seq(S) /\ Len(items) = Len(four) + 1
          /\ \A i \in 1 .. Len(four) : items[i] = four[i]
          /\ items[Len(four) + 1] = chain
      <4>1. items \in Seq(S)
        BY <2>3, <2>4, AppendProperties
      <4>2. Len(items) = Len(four) + 1
        BY <2>3, <2>4, AppendProperties, ZenonT(60)
      <4>3. ASSUME NEW i \in 1 .. Len(four) PROVE items[i] = four[i]
        BY <2>3, <2>4, AppendedAt
      <4>4. items[Len(four) + 1] = chain
        BY <2>3, <2>4, AppendProperties
      <4> QED
        BY <4>1, <4>2, <4>3, <4>4
    <3>2. 1 \in 1 .. 4 /\ 2 \in 1 .. 4 /\ 3 \in 1 .. 4 /\ 4 \in 1 .. 4
      OBVIOUS
    <3> QED
      BY <2>4, <3>1, <3>2
  <2> HIDE DEF items
  <2>7. 4 \in Nat /\ Len(items) = 4 + 1
    BY <2>5
  <2> QED
    BY <2>1, <2>2, <2>3, <2>5, <2>7, TransferCapReview DEF chain
<1>3. CASE StoreOther
  <2>1. PICK name \in {"mod.CAP", "ns.mod.CAP", "empty", "long", "missing"} : AtCap(name)
    BY <1>3 DEF StoreOther
  <2>2. Push(Unverified(TRUE), "caps") \/ Refuse("UnexpectedError")
    BY <1>3 DEF StoreOther
  <2>3. ShownByName
    <3>1. Cap.name = name
      BY <2>1, AtCapIs DEF Cap
    <3> QED
      BY <3>1 DEF ShownByName
  <2> QED
    BY <2>1, <2>2, <2>3, UnverifiedReview, RefuseReview
<1>4. CASE NotACapability
  BY <1>4, RefuseReview DEF NotACapability
<1> QED
  BY <1>1, <1>2, <1>3, <1>4, GasReview, RotateReview

-----------------------------------------------------------------------------
(* After the loop.                                                         *)

LEMMA LeaveLoop ==
  ASSUME IInv, RInv, Kept, TitlesOk', step = "caps", step' = "meta",
         \A c \in DOMAIN Caps : CapShown(c), Len(Caps) > 0 \/ NeedsBlind'
  PROVE  RInv'
<1>1. Caps' = Caps
  BY CapsStable
<1>2. Beginning'
  BY DEF RInv, Beginning, HashSteps, BeforeCaps, Early, Kept
<1>3. CapsShown'
  BY <1>1, CapShownStable DEF CapsShown
<1>4. FeeShown'
  BY FeeLater DEF BeforeFee
<1> QED
  BY <1>2, <1>3, <1>4 DEF RInv

LEMMA EndLoopReview ==
  ASSUME IInv, RInv, NoClist \/ CapsDone
  PROVE  RInv'
<1>1. step = "caps" /\ result = "running" /\ cmd.type # "Hash"
  BY DEF NoClist, CapsDone, At, RInv, Beginning, HashSteps, IInv, TypeOK
<1>2. signer # 0 /\ Going /\ cap \in Nat
  BY <1>1 DEF IInv, TypeOK, SignerDecided, Going
<1>3. CASE NoClist
  <2> DEFINE item == Item("Warning", "Warning", NoToken)
             list == <<item>>
             S == {item}
  <2>1. Push(list, "meta") /\ ~HasClist(Entry)
    BY <1>3 DEF NoClist
  <2>2. list \in Seq(S) /\ Len(list) = 1 /\ list[1] = item
    OBVIOUS
  <2>3. item.render = "Warning" /\ ItemOk(item)
    BY PlainItems DEF Item, TextTitles
  <2>4. \A i \in S : ItemOk(i)
    BY <2>3
  <2> HIDE DEF item, list, S
  <2> SUFFICES ASSUME ~RInv'
               PROVE  FALSE
    OBVIOUS
  <2>5. Pushed(list, "meta")
    BY <2>1, <2>2, RefuseReview, PushEffect
  <2>6. Kept /\ TitlesOk' /\ step' = "meta"
    BY <2>2, <2>4, <2>5, PushedTitlesOf DEF Pushed, RInv
  <2>7. NeedsBlind'
    <3>1. 1 \in 1 .. Len(list) /\ list[1].render = "Warning" /\ Len(list) \in Nat
      BY <2>2, <2>3
    <3> QED
      BY <2>5, <3>1, PushedBlind
  <2>8. DOMAIN Caps = {}
    BY <1>2, <2>1, CapsAreListed
  <2> QED
    BY <1>1, <2>6, <2>7, <2>8, LeaveLoop
<1>4. CASE CapsDone
  <2>1. Skip("meta") /\ HasClist(Entry) /\ cap > Len(Caps)
    BY <1>4 DEF CapsDone
  <2>2. Kept /\ TitlesOk' /\ step' = "meta"
    BY <2>1, LeaveEffect, KeptTitles DEF RInv
  <2>3. /\ Len(Caps) > 0
        /\ \A c \in DOMAIN Caps : c < cap
    BY <1>2, <2>1, CapsAreListed
  <2>4. \A c \in DOMAIN Caps : CapShown(c)
    BY <1>1, <1>2, <2>3 DEF RInv, CapsShown, Early
  <2> QED
    BY <1>1, <2>2, <2>3, <2>4, LeaveLoop
<1> QED
  BY <1>3, <1>4

LEMMA TailOutcome ==
  ASSUME IInv, RInv, NEW S, NEW list \in Seq(S), \A item \in S : ItemOk(item),
         NEW then, Outcome(list, then),
         step \notin BeforeCaps \cup {"caps", "done"}, then \notin BeforeCaps \cup {"caps"},
         cmd.type = "Hash" => then \in HashSteps,
         \/ then \in BeforeFee
         \/ step \notin BeforeFee \cup {"payer"} /\ then \notin BeforeFee \cup {"payer"}
  PROVE  RInv'
<1> SUFFICES ASSUME ~RInv'
             PROVE  FALSE
  OBVIOUS
<1>1. Kept /\ TitlesOk' /\ step' = then /\ result' = result
  BY OutcomeEffect
<1>2. result = "running"
  BY DEF IInv, TypeOK
<1>3. FeeShown'
  BY <1>1, <1>2, FeeStable, FeeLater
<1> QED
  BY <1>1, <1>2, <1>3, TailMove

\* The same, for a single item.
LEMMA TailOne ==
  ASSUME IInv, RInv, NEW item, ItemOk(item), NEW then, Outcome(<<item>>, then),
         step \notin BeforeCaps \cup {"caps", "done"}, then \notin BeforeCaps \cup {"caps"},
         cmd.type = "Hash" => then \in HashSteps,
         \/ then \in BeforeFee
         \/ step \notin BeforeFee \cup {"payer"} /\ then \notin BeforeFee \cup {"payer"}
  PROVE  RInv'
<1> DEFINE S == {item}
           list == <<item>>
<1>1. list \in Seq(S) /\ (\A i \in S : ItemOk(i)) /\ Outcome(list, then)
  OBVIOUS
<1> HIDE DEF S, list
<1> QED
  BY <1>1, TailOutcome

\* The items of meta that name a field.
LEMMA MetaItems ==
  /\ ItemOk(Item("UsingGas", "Gas", <<"meta">>))
  /\ ItemOk(Item("MaxFee", "MaxFee", <<"meta">>))
  /\ ItemOk(Item("OnChain", "Std", <<"meta", "chainId">>))
  /\ ItemOk(Item("PayingAccount", "Std", <<"meta", "sender">>))
  /\ ItemOk(Item("Created", "Std", <<"meta", "creationTime">>))
  /\ ItemOk(Item("Ttl", "Std", <<"meta", "ttl">>))
  /\ ItemOk(Item("PactId", "Std", <<"cont", "pactId">>))
  /\ ItemOk(Item("Step", "Std", <<"cont", "step">>))
<1>1. /\ <<"UsingGas", "Gas", <<"meta">> >> \in CommandRows
      /\ <<"MaxFee", "MaxFee", <<"meta">> >> \in CommandRows
      /\ <<"OnChain", "Std", <<"meta", "chainId">> >> \in CommandRows
      /\ <<"PayingAccount", "Std", <<"meta", "sender">> >> \in CommandRows
      /\ <<"Created", "Std", <<"meta", "creationTime">> >> \in CommandRows
      /\ <<"Ttl", "Std", <<"meta", "ttl">> >> \in CommandRows
      /\ <<"PactId", "Std", <<"cont", "pactId">> >> \in CommandRows
      /\ <<"Step", "Std", <<"cont", "step">> >> \in CommandRows
  BY DEF CommandRows
<1> QED
  BY <1>1, PlainItems

\* The fee and, right after it, the payer.
LEMMA FeeReview ==
  ASSUME IInv, RInv, StoreMaxFee \/ StorePayer
  PROVE  RInv'
<1> SUFFICES ASSUME ~RInv'
             PROVE  FALSE
  OBVIOUS
<1>1. /\ step \in {"fee", "payer"} /\ result = "running" /\ cmd.type # "Hash"
      /\ step \notin BeforeCaps \cup {"caps"} /\ Going
  BY DEF StoreMaxFee, StorePayer, At, RInv, Beginning, HashSteps, IInv, TypeOK, BeforeCaps,
         Early, Going
<1>2. ASSUME NEW item, ItemOk(item), NEW token, item.tokens = {token}, NEW then,
             then \notin BeforeCaps \cup {"caps"},
             Push(<<item>>, then)
      PROVE  /\ Kept /\ TitlesOk' /\ step' = then /\ result' = "running"
             /\ num \in Nat /\ num' = num + 1
             /\ \A n : n = num => Has(n, item.key, item.render, token)'
  <2> DEFINE S == {item}
             list == <<item>>
  <2>1. list \in Seq(S) /\ (\A i \in S : ItemOk(i)) /\ Push(list, then) /\ Len(list) = 1
        /\ list[1] = item
    BY <1>2
  <2> HIDE DEF S, list
  <2>2. Pushed(list, then)
    BY <2>1, RefuseReview, PushEffect
  <2>3. Kept /\ TitlesOk' /\ step' = then /\ result' = "running" /\ num \in Nat
        /\ num' = num + 1
    BY <1>1, <2>1, <2>2, PushedTitlesOf DEF Pushed, RInv, Kept
  <2>4. ASSUME NEW n, n = num
        PROVE  Has(n, item.key, item.render, token)'
    <3>1. n = num + 1 - 1 /\ 1 \in 1 .. Len(list) /\ Len(list) \in Nat
      BY <2>1, <2>3, <2>4
    <3>2. list[1].key = item.key /\ list[1].render = item.render /\ list[1].tokens = {token}
      BY <1>2, <2>1
    <3> QED
      BY <2>2, <3>1, <3>2, PushedHas
  <2> QED
    BY <2>3, <2>4
<1>3. PICK m : m = num
  OBVIOUS
<1>4. CASE StoreMaxFee
  <2> DEFINE item == Item("MaxFee", "MaxFee", <<"meta">>)
  <2>1. Push(<<item>>, "payer")
    BY <1>4 DEF StoreMaxFee
  <2>2. item.key = "MaxFee" /\ item.render = "MaxFee" /\ item.tokens = {<<"meta">>}
    BY DEF Item
  <2>3. ItemOk(item)
    BY MetaItems
  <2> HIDE DEF item
  <2>4. /\ Kept /\ TitlesOk' /\ step' = "payer" /\ result' = "running"
        /\ num \in Nat /\ num' = num + 1 /\ Has(m, "MaxFee", "MaxFee", <<"meta">>)'
    BY <1>2, <1>3, <2>1, <2>2, <2>3 DEF BeforeCaps, Early
  <2>5. m = num' - 1 /\ num' > 0
    BY <1>3, <2>4
  <2>6. FeeShown'
    BY <2>4, <2>5 DEF FeeShown, Has
  <2> QED
    BY <1>1, <2>4, <2>6, TailMove DEF BeforeCaps, Early
<1>5. CASE StorePayer
  <2> DEFINE item == Item("PayingAccount", "Std", <<"meta", "sender">>)
  <2>1. Push(<<item>>, "lengths")
    BY <1>5, RefuseReview DEF StorePayer
  <2>2. item.key = "PayingAccount" /\ item.render = "Std" /\ item.tokens = {<<"meta", "sender">>}
    BY DEF Item
  <2>3. ItemOk(item) /\ step = "payer"
    BY <1>5, MetaItems DEF StorePayer, At
  <2> HIDE DEF item
  <2>4. /\ Kept /\ TitlesOk' /\ step' = "lengths" /\ result' = "running"
        /\ num \in Nat /\ num' = num + 1
        /\ Has(m, "PayingAccount", "Std", <<"meta", "sender">>)'
    BY <1>2, <1>3, <2>1, <2>2, <2>3 DEF BeforeCaps, Early
  <2>5. PICK n : n = num - 1
    OBVIOUS
  <2>6. num > 0 /\ Has(n, "MaxFee", "MaxFee", <<"meta">>)
    BY <1>1, <2>3, <2>5 DEF RInv, FeeShown
  <2>7. n \in Nat /\ n \in 0 .. num' - 1 /\ m = n + 1
    BY <1>3, <2>4, <2>5, <2>6
  <2>8. Has(n, "MaxFee", "MaxFee", <<"meta">>)' /\ Has(n + 1, "PayingAccount", "Std", <<"meta", "sender">>)'
    BY <2>4, <2>6, <2>7, HasStable
  <2>9. FeeShown'
    BY <2>4, <2>7, <2>8 DEF FeeShown
  <2> QED
    BY <1>1, <2>4, <2>9, TailMove DEF BeforeCaps, Early
<1> QED
  BY <1>4, <1>5

LEMMA MetaReview ==
  ASSUME IInv, RInv, CheckMeta \/ StoreChainId \/ StoreUsingGas \/ CheckTxLengths
  PROVE  RInv'
<1>1. /\ step \in {"meta", "chain", "gas", "lengths"} /\ cmd.type # "Hash" /\ result = "running"
  BY DEF CheckMeta, StoreChainId, StoreUsingGas, CheckTxLengths, At, RInv, Beginning,
         HashSteps, IInv, TypeOK
<1>2. step \notin BeforeCaps \cup {"caps", "done"}
  BY <1>1 DEF BeforeCaps, Early
<1>3. \A then \in {"chain", "gas", "fee"} : then \in BeforeFee /\ then \notin BeforeCaps \cup {"caps"}
  BY DEF BeforeFee, BeforeCaps, Early
<1>4. CASE CheckMeta
  <2> DEFINE item == ItemOnly("Caution", "Caution")
             list == <<item>>
             S == {item}
  <2>1. \/ Push(list, "lengths") \/ Skip("chain")
        \/ Refuse("InvalidMetaField") \/ Refuse("UnexpectedCharacters")
    BY <1>4 DEF CheckMeta
  <2>2. list \in Seq(S) /\ Len(list) = 1 /\ list[1] = item
    OBVIOUS
  <2>3. item.render = "Caution" /\ ItemOk(item)
    BY PlainItems DEF ItemOnly, TextTitles
  <2>4. \A i \in S : ItemOk(i)
    BY <2>3
  <2>5. CASE Skip("chain")
    <3>1. Outcome(<<item>>, "chain")
      BY <2>5 DEF Outcome
    <3> QED
      BY <1>1, <1>2, <1>3, <2>3, <3>1, TailOne
  <2> HIDE DEF item, list, S
  <2>6. CASE Push(list, "lengths")
    <3> SUFFICES ASSUME ~RInv'
                 PROVE  FALSE
      OBVIOUS
    <3>1. Pushed(list, "lengths")
      BY <2>2, <2>6, RefuseReview, PushEffect
    <3>2. Kept /\ TitlesOk' /\ step' = "lengths"
      BY <2>2, <2>4, <3>1, PushedTitlesOf DEF Pushed, RInv
    <3>3. 1 \in 1 .. Len(list) /\ list[1].render = "Caution" /\ Len(list) \in Nat
      BY <2>2, <2>3
    <3>4. NeedsBlind'
      BY <3>1, <3>3, PushedBlind
    <3>5. FeeShown'
      BY <3>2, <3>4 DEF FeeShown
    <3> QED
      BY <1>1, <1>2, <3>2, <3>5, TailMove DEF BeforeCaps, Early
  <2> QED
    BY <2>1, <2>5, <2>6, RefuseReview
<1>5. CASE StoreChainId
  <2> DEFINE item == Item("OnChain", "Std", <<"meta", "chainId">>)
  <2>1. Outcome(<<item>>, "gas")
    BY <1>5 DEF StoreChainId, Outcome
  <2>2. ItemOk(item)
    BY MetaItems
  <2> HIDE DEF item
  <2> QED
    BY <1>1, <1>2, <1>3, <2>1, <2>2, TailOne
<1>6. CASE StoreUsingGas
  <2> DEFINE item == Item("UsingGas", "Gas", <<"meta">>)
  <2>1. Outcome(<<item>>, "fee")
    BY <1>6 DEF StoreUsingGas, Outcome
  <2>2. ItemOk(item)
    BY MetaItems
  <2> HIDE DEF item
  <2> QED
    BY <1>1, <1>2, <1>3, <2>1, <2>2, TailOne
<1>7. CASE CheckTxLengths
  <2> DEFINE item == ItemOnly("Warning", "TxTooLarge")
  <2>1. Outcome(<<item>>, "hash") /\ step = "lengths"
    BY <1>7 DEF CheckTxLengths, Outcome, At
  <2>2. ItemOk(item)
    BY PlainItems DEF TextTitles
  <2> HIDE DEF item
  <2>3. /\ "hash" \notin BeforeFee \cup {"payer"} /\ "hash" \notin BeforeCaps \cup {"caps"}
        /\ "lengths" \notin BeforeFee \cup {"payer"}
    BY DEF BeforeFee, BeforeCaps, Early
  <2> QED
    BY <1>1, <1>2, <2>1, <2>2, <2>3, TailOne
<1> QED
  BY <1>4, <1>5, <1>6, <1>7

\* The hash, the items of expert mode, and the verdict.
LEMMA TailReview ==
  ASSUME IInv, RInv,
         \/ HashFails \/ ComputeHash \/ StorePayload \/ StorePactId \/ StoreStep
         \/ StoreWindow \/ StoreExpertItems \/ AddressFails
  PROVE  RInv'
<1> DEFINE Later == {"hash", "payload", "pactId", "step", "window", "expert", "validate"}
<1>1. step \in Later /\ (step \notin HashSteps => cmd.type # "Hash")
  BY DEF HashFails, ComputeHash, StorePayload, StorePactId, StoreStep, StoreWindow,
         StoreExpertItems, AddressFails, At, RInv, Beginning
<1>2. \A s \in Later : s \notin BeforeFee \cup {"payer"} /\ s \notin BeforeCaps \cup {"caps", "done"}
  BY DEF BeforeFee, BeforeCaps, Early
<1>3. ASSUME NEW item, ItemOk(item), NEW then \in Later, Outcome(<<item>>, then),
             cmd.type = "Hash" => then \in HashSteps
      PROVE  RInv'
  BY <1>1, <1>2, <1>3, TailOne
<1>4. ASSUME NEW then \in Later, Skip(then), cmd.type = "Hash" => then \in HashSteps
      PROVE  RInv'
  <2> DEFINE item == ItemOnly("Payload", "Exec")
  <2>1. ItemOk(item) /\ Outcome(<<item>>, then)
    BY <1>4, PlainItems DEF TextTitles, Outcome
  <2> QED
    BY <1>3, <1>4, <2>1
<1> HIDE DEF Later
<1>5. CASE HashFails \/ AddressFails
  BY <1>5, RefuseReview DEF HashFails, AddressFails
<1>6. CASE ComputeHash
  <2>1. \E then \in {"validate", "expert", "payload"} :
          Skip(then) /\ (cmd.type = "Hash" => then # "payload")
    BY <1>6 DEF ComputeHash
  <2> QED
    BY <1>4, <2>1 DEF Later, HashSteps
<1>7. CASE StorePayload
  <2>1. cmd.type # "Hash"
    BY <1>1, <1>7 DEF StorePayload, At, HashSteps
  <2>2. ItemOk(ItemOnly("Payload", "Exec")) /\ ItemOk(ItemOnly("Payload", "Cont"))
    BY PlainItems DEF TextTitles
  <2>3. \/ Outcome(<<ItemOnly("Payload", "Exec")>>, "window")
        \/ Outcome(<<ItemOnly("Payload", "Cont")>>, "pactId")
    BY <1>7 DEF StorePayload, Outcome
  <2> QED
    BY <1>3, <2>1, <2>2, <2>3 DEF Later
<1>8. CASE StorePactId
  <2> DEFINE item == Item("PactId", "Std", <<"cont", "pactId">>)
  <2>1. cmd.type # "Hash"
    BY <1>1, <1>8 DEF StorePactId, At, HashSteps
  <2>2. ItemOk(item) /\ Outcome(<<item>>, "step")
    BY <1>8, MetaItems DEF StorePactId, StoreContField, Outcome
  <2> HIDE DEF item
  <2> QED
    BY <1>3, <2>1, <2>2 DEF Later
<1>9. CASE StoreStep
  <2> DEFINE item == Item("Step", "Std", <<"cont", "step">>)
  <2>1. cmd.type # "Hash"
    BY <1>1, <1>9 DEF StoreStep, At, HashSteps
  <2>2. ItemOk(item) /\ Outcome(<<item>>, "window")
    BY <1>9, MetaItems DEF StoreStep, StoreContField, Outcome
  <2> HIDE DEF item
  <2> QED
    BY <1>3, <2>1, <2>2 DEF Later
<1>10. CASE StoreWindow
  <2> DEFINE created == Item("Created", "Std", <<"meta", "creationTime">>)
             ttl == Item("Ttl", "Std", <<"meta", "ttl">>)
             S == {created, ttl}
             list == <<created, ttl>>
  <2>1. list \in Seq(S) /\ Outcome(list, "expert")
    BY <1>10 DEF StoreWindow, Outcome
  <2>2. \A item \in S : ItemOk(item)
    BY MetaItems
  <2> HIDE DEF S, list
  <2> QED
    BY <1>1, <1>2, <2>1, <2>2, TailOutcome DEF Later, HashSteps
<1>11. CASE StoreExpertItems
  <2> DEFINE S == {ItemOnly("TransactionHash", "Hash"), ItemOnly("SignForAddress", "SignForAddr")}
             list == <<ItemOnly("TransactionHash", "Hash"),
                       ItemOnly("SignForAddress", "SignForAddr")>>
  <2>1. list \in Seq(S) /\ Outcome(list, "validate")
    BY <1>11 DEF StoreExpertItems, Outcome
  <2>2. \A item \in S : ItemOk(item)
    BY PlainItems DEF TextTitles
  <2> HIDE DEF S, list
  <2> QED
    BY <1>1, <1>2, <2>1, <2>2, TailOutcome DEF Later, HashSteps
<1> QED
  BY <1>5, <1>6, <1>7, <1>8, <1>9, <1>10, <1>11

\* An accepted review is of the items that were stored.
LEMMA ValidateReview ==
  ASSUME IInv, RInv, Validate
  PROVE  RInv'
<1>1. step = "validate" /\ result = "running"
  BY DEF Validate, At, IInv, TypeOK
<1>2. CASE Refuse("UnexpectedError")
  BY <1>2, RefuseReview
<1>3. CASE ~Refuse("UnexpectedError")
  <2>1. /\ step' = "done" /\ cmd' = cmd /\ signer' = signer /\ slots' = slots /\ num' = num
    BY <1>3 DEF Validate
  <2>2. Kept
    BY <2>1 DEF Kept, IInv, TypeOK
  <2>3. TitlesOk'
    BY <2>1, <2>2, KeptTitles DEF RInv
  <2>4. /\ "validate" \notin BeforeFee \cup {"payer"} /\ "done" \notin BeforeFee \cup {"payer"}
        /\ "validate" \notin BeforeCaps \cup {"caps"} /\ "done" \notin BeforeCaps \cup {"caps"}
        /\ "done" \in HashSteps
    BY DEF BeforeFee, BeforeCaps, Early, HashSteps
  <2>5. FeeShown'
    BY <1>1, <2>1, <2>2, <2>4, FeeStable
  <2> QED
    BY <1>1, <2>1, <2>2, <2>3, <2>4, <2>5, TailMove
<1> QED
  BY <1>2, <1>3

-----------------------------------------------------------------------------
(* The invariant and what it says of an accepted review.                   *)

LEMMA ReviewStep ==
  ASSUME IInv, RInv, [Next]_vars
  PROVE  RInv'
<1>1. CASE Verifiers \/ NoAddress
  BY <1>1, RefuseReview DEF Verifiers, NoAddress
<1>2. CASE UNCHANGED vars
  <2>1. /\ cmd' = cmd /\ signer' = signer /\ slots' = slots /\ num' = num
        /\ step' = step /\ cap' = cap /\ result' = result
    BY <1>2 DEF vars
  <2>2. Caps' = Caps /\ NeedsBlind' = NeedsBlind
    BY <2>1 DEF Caps, Entry, NeedsBlind
  <2>3. Kept
    BY <2>1 DEF Kept, IInv, TypeOK
  <2>4. TitlesOk'
    BY <2>1, <2>3, KeptTitles DEF RInv
  <2>5. Beginning'
    BY <2>1 DEF RInv, Beginning
  <2>6. CapsShown'
    BY <2>1, <2>2, <2>3, CapShownStable DEF RInv, CapsShown, Going
  <2>7. FeeShown'
    BY <2>1, <2>2 DEF RInv, FeeShown, Going, Has
  <2> QED
    BY <2>4, <2>5, <2>6, <2>7 DEF RInv
<1> QED
  BY <1>1, <1>2, HashReview, FindReview, HeadReview, LoopReview, EndLoopReview, MetaReview,
     FeeReview, TailReview, ValidateReview DEF Next

LEMMA ReviewInvariant == Spec => [](IInv /\ RInv)
<1>1. Init => RInv
  <2> SUFFICES ASSUME Init
               PROVE  RInv
    OBVIOUS
  <2>1. TitlesOk
    BY DEF Init, TitlesOk
  <2> QED
    BY <2>1 DEF Init, RInv, Beginning, CapsShown, FeeShown, Going, HashSteps, BeforeFee,
                BeforeCaps, Early
<1>2. IInv /\ RInv /\ [Next]_vars => RInv'
  BY ReviewStep
<1> QED
  BY <1>1, <1>2, ItemsInvariant, PTL DEF Spec

LEMMA AcceptedIsShown ==
  ASSUME IInv, RInv, Accepted
  PROVE  /\ signer # 0
         /\ \A c \in DOMAIN Caps : CapShown(c)
         /\ Len(Caps) > 0 \/ NeedsBlind
         /\ \/ NeedsBlind
            \/ \E n \in 0 .. num - 1 :
                 /\ Has(n, "MaxFee", "MaxFee", <<"meta">>)
                 /\ Has(n + 1, "PayingAccount", "Std", <<"meta", "sender">>)
<1>1. step = "done" /\ signer # 0
  BY DEF Accepted, IInv, TypeOK, SignerDecided
<1>2. Going /\ "done" \notin BeforeFee \cup {"payer"} /\ "done" \notin Early
  BY <1>1 DEF Going, Accepted, BeforeFee, BeforeCaps, Early
<1>3. \A c \in DOMAIN Caps : CapShown(c)
  BY <1>1, <1>2 DEF RInv, CapsShown
<1>4. Len(Caps) > 0 \/ NeedsBlind
  BY <1>1, <1>2 DEF RInv, CapsShown
<1> QED
  BY <1>1, <1>2, <1>3, <1>4 DEF RInv, FeeShown

\* For every set of commands and every size of the array: a review that is not a
\* blind-signing one shows every transfer it allows whole, with its warning, and
\* the maximum fee and the payer; no other capability but coin.GAS is in scope
\* (needs_blind, store_all_transfers, store_fee_and_payer).
THEOREM ClearReviewSafe == Spec => []ClearReviewIsBounded
<1>1. IInv /\ RInv => ClearReviewIsBounded
  <2> SUFFICES ASSUME IInv, RInv, Accepted, ~NeedsBlind
               PROVE  /\ Len(Caps) > 0
                      /\ \A c \in DOMAIN Caps :
                           \/ Caps[c].name = "coin.GAS"
                           \/ \E n \in 0 .. num - 1 : TransferAt(n, c)
                      /\ \E n \in 0 .. num - 1 :
                           /\ Has(n, "MaxFee", "MaxFee", <<"meta">>)
                           /\ Has(n + 1, "PayingAccount", "Std", <<"meta", "sender">>)
    BY DEF ClearReviewIsBounded
  <2> QED
    BY AcceptedIsShown DEF CapShown
<1> QED
  BY <1>1, ReviewInvariant, PTL

\* For every set of commands and every size of the array: every capability but
\* coin.GAS of an accepted command is on the screen (store_all_transfers).
THEOREM CapabilitiesShown == Spec => []EveryCapabilityIsShown
<1>1. IInv /\ RInv => EveryCapabilityIsShown
  <2> SUFFICES ASSUME IInv, RInv, Accepted, NEW c \in DOMAIN Caps, Caps[c].name # "coin.GAS"
               PROVE  \E n \in 0 .. num - 1 : TransferAt(n, c) \/ BlindAt(n, c)
    BY DEF EveryCapabilityIsShown, BlindAt
  <2> QED
    BY AcceptedIsShown DEF CapShown
<1> QED
  BY <1>1, ReviewInvariant, PTL

\* For every set of commands and every size of the array: every item of an
\* accepted review is a text of the app or shows the field its title names, and
\* the rows of a capability stand together in their order, each of the same
\* capability as the one before it (store_args_items, store_unverified, the slots
\* of ItemArray).
THEOREM FieldsShown == Spec => []ItemsShowTheirFields
<1>1. IInv /\ RInv => ItemsShowTheirFields
  BY DEF RInv, TitlesOk, RowOk, ItemsShowTheirFields
<1> QED
  BY <1>1, ReviewInvariant, PTL

-----------------------------------------------------------------------------
Byte == 0 .. 255

-----------------------------------------------------------------------------
(* The reader.                                                             *)

IsOffsets(input, n, f) ==
  f = [i \in 0 .. n |-> IF i = 0 THEN 1 ELSE ReadField(input, f[i - 1])]

LEMMA OffsetsExist ==
  ASSUME NEW input
  PROVE  \E f : IsOffsets(input, FIELDS, f)
<1> DEFINE P == {k \in Nat : \E f : IsOffsets(input, k, f)}
<1>1. 0 \in P
  <2> DEFINE f == [i \in 0 .. 0 |-> 1]
  <2>1. f = [i \in 0 .. 0 |-> IF i = 0 THEN 1 ELSE ReadField(input, f[i - 1])]
    OBVIOUS
  <2> QED
    BY <2>1 DEF IsOffsets
<1>2. ASSUME NEW k \in Nat, k \in P PROVE k + 1 \in P
  <2>1. PICK f : f = [i \in 0 .. k |-> IF i = 0 THEN 1 ELSE ReadField(input, f[i - 1])]
    BY <1>2 DEF IsOffsets
  <2> DEFINE g == [i \in 0 .. k + 1 |-> IF i <= k THEN f[i] ELSE ReadField(input, f[k])]
  <2>2. ASSUME NEW i \in 0 .. k + 1
        PROVE  g[i] = IF i = 0 THEN 1 ELSE ReadField(input, g[i - 1])
    <3>1. CASE i = 0
      BY <2>1, <3>1
    <3>2. CASE i # 0 /\ i <= k
      <4>1. i \in 0 .. k /\ i - 1 \in 0 .. k /\ i - 1 <= k /\ i - 1 \in 0 .. k + 1
        BY <3>2
      <4>2. g[i] = f[i] /\ g[i - 1] = f[i - 1]
        BY <3>2, <4>1
      <4>3. f[i] = ReadField(input, f[i - 1])
        BY <2>1, <3>2, <4>1
      <4> HIDE DEF g
      <4> QED
        BY <3>2, <4>2, <4>3
    <3>3. CASE i = k + 1
      <4>1. k \in 0 .. k + 1 /\ i - 1 = k /\ ~(i <= k) /\ i # 0 /\ k <= k
        BY <3>3
      <4>2. g[i] = ReadField(input, f[k]) /\ g[k] = f[k]
        BY <4>1
      <4> HIDE DEF g
      <4> QED
        BY <4>1, <4>2
    <3> QED
      BY <3>1, <3>2, <3>3
  <2>3. g = [i \in 0 .. k + 1 |-> IF i = 0 THEN 1 ELSE ReadField(input, g[i - 1])]
    <3>1. g = [i \in 0 .. k + 1 |-> g[i]]
      OBVIOUS
    <3> HIDE DEF g
    <3> QED
      BY <2>2, <3>1
  <2> HIDE DEF g
  <2> QED
    BY <2>3 DEF IsOffsets
<1>3. FIELDS \in Nat /\ P \in SUBSET Nat /\ FIELDS \in 0 .. FIELDS
  BY DEF FIELDS
<1> HIDE DEF P
<1>4. FIELDS \in P
  BY <1>1, <1>2, <1>3, Inductive
<1> QED
  BY <1>4 DEF P

LEMMA OffsetsDef ==
  ASSUME NEW input
  PROVE  /\ Offsets(input)[0] = 1
         /\ \A i \in 0 .. FIELDS - 1 : Offsets(input)[i + 1] = ReadField(input, Offsets(input)[i])
<1>1. Offsets(input) = CHOOSE f : IsOffsets(input, FIELDS, f)
  BY DEF Offsets, IsOffsets
<1>2. IsOffsets(input, FIELDS, Offsets(input))
  BY <1>1, OffsetsExist
<1>3. PICK off : off = Offsets(input)
  OBVIOUS
<1>4. off = [i \in 0 .. FIELDS |-> IF i = 0 THEN 1 ELSE ReadField(input, off[i - 1])]
  BY <1>2, <1>3 DEF IsOffsets
<1>5. off[0] = 1
  BY <1>4 DEF FIELDS
<1>6. ASSUME NEW i \in 0 .. FIELDS - 1
      PROVE  off[i + 1] = ReadField(input, off[i])
  <2>1. i + 1 \in 0 .. FIELDS /\ i + 1 # 0 /\ (i + 1) - 1 = i
    BY DEF FIELDS
  <2> QED
    BY <1>4, <2>1
<1> QED
  BY <1>3, <1>5, <1>6

\* What the offsets are when no read fails.
LEMMA OffsetsWhole ==
  ASSUME NEW input \in Seq(Byte), input # << >>, Offsets(input)[FIELDS] # Short
  PROVE  LET off == Offsets(input) IN
         /\ \A i \in 0 .. FIELDS : off[i] \in 1 .. Len(input)
         /\ \A i \in 0 .. FIELDS - 1 :
              off[i] + 1 \in 1 .. Len(input) /\ off[i + 1] = off[i] + 1 + input[off[i] + 1]
<1>1. PICK off : off = Offsets(input)
  OBVIOUS
<1>2. /\ off[0] = 1 /\ off[FIELDS] # Short
      /\ \A i \in 0 .. FIELDS - 1 : off[i + 1] = ReadField(input, off[i])
  BY <1>1, OffsetsDef
<1>3. PICK len \in Nat : len = Len(input) /\ len >= 1
  OBVIOUS
<1>a. FIELDS \in Nat /\ FIELDS = 12
  BY DEF FIELDS
<1>4. ASSUME NEW i \in 0 .. FIELDS PROVE off[i] # Short
  <2> DEFINE P == {k \in Nat : k <= FIELDS => off[FIELDS - k] # Short}
  <2>1. 0 \in P
    BY <1>2, <1>a
  <2>2. ASSUME NEW k \in 0 .. FIELDS - 1, k \in P PROVE k + 1 \in P
    <3>1. FIELDS - k - 1 \in 0 .. FIELDS - 1 /\ (FIELDS - k - 1) + 1 = FIELDS - k
          /\ FIELDS - (k + 1) = FIELDS - k - 1 /\ k <= FIELDS /\ k + 1 \in Nat
      BY <1>a
    <3>2. off[FIELDS - k] = ReadField(input, off[FIELDS - k - 1]) /\ off[FIELDS - k] # Short
      BY <1>2, <2>2, <3>1
    <3>3. off[FIELDS - k - 1] # Short
      BY <3>2 DEF ReadField
    <3> QED
      BY <3>1, <3>3
  <2>3. P \in SUBSET Nat
    OBVIOUS
  <2>4. FIELDS - i \in 0 .. FIELDS /\ FIELDS - (FIELDS - i) = i /\ FIELDS - i <= FIELDS
    BY <1>a
  <2> HIDE DEF P
  <2>5. FIELDS - i \in P
    BY <1>a, <2>1, <2>2, <2>3, <2>4, Inductive
  <2> QED
    BY <2>4, <2>5 DEF P
<1>5. ASSUME NEW i \in 0 .. FIELDS - 1, off[i] \in 1 .. len
      PROVE  /\ off[i] + 1 \in 1 .. len /\ off[i + 1] \in 1 .. len
             /\ off[i + 1] = off[i] + 1 + input[off[i] + 1]
  <2>1. i + 1 \in 0 .. FIELDS
    BY <1>a
  <2>2. off[i + 1] = ReadField(input, off[i]) /\ off[i + 1] # Short
    BY <1>2, <1>4, <2>1
  <2>3. ~(off[i] >= len) /\ ~Overrun(input, off[i] + 1, input[off[i] + 1])
        /\ off[i + 1] = off[i] + 1 + input[off[i] + 1]
    BY <1>3, <2>2 DEF ReadField
  <2>4. off[i] + 1 \in 1 .. len
    BY <1>5, <2>3
  <2>5. PICK b \in Nat : b = input[off[i] + 1]
    <3>1. input[off[i] + 1] \in Byte
      BY <1>3, <2>4, ElementOfSeq
    <3>2. \A x \in Byte : x \in Nat
      BY DEF Byte
    <3> QED
      BY <3>1, <3>2
  <2>6. off[i] + 1 + b <= len
    BY <1>3, <1>5, <2>3, <2>5 DEF Overrun
  <2> QED
    BY <1>5, <2>3, <2>4, <2>5, <2>6, SMTT(30)
<1>6. \A i \in 0 .. FIELDS : off[i] \in 1 .. len
  <2> DEFINE P == {k \in Nat : k <= FIELDS => off[k] \in 1 .. len}
  <2>1. 0 \in P
    BY <1>2, <1>3
  <2>2. ASSUME NEW k \in 0 .. FIELDS - 1, k \in P PROVE k + 1 \in P
    <3>1. k <= FIELDS /\ k + 1 \in Nat
      BY <1>a
    <3> QED
      BY <1>5, <2>2, <3>1
  <2>3. P \in SUBSET Nat
    OBVIOUS
  <2> HIDE DEF P
  <2>4. \A i \in 0 .. FIELDS : i \in P
    BY <1>a, <2>1, <2>2, <2>3, Inductive
  <2>5. ASSUME NEW i \in 0 .. FIELDS PROVE off[i] \in 1 .. len
    <3>1. i \in P /\ i <= FIELDS
      BY <1>a, <2>4
    <3> QED
      BY <3>1 DEF P
  <2> QED
    BY <2>5
<1>7. \A i \in 0 .. FIELDS - 1 :
        off[i] + 1 \in 1 .. len /\ off[i + 1] = off[i] + 1 + input[off[i] + 1]
  <2> SUFFICES ASSUME NEW i \in 0 .. FIELDS - 1
               PROVE  off[i] + 1 \in 1 .. len /\ off[i + 1] = off[i] + 1 + input[off[i] + 1]
    OBVIOUS
  <2>1. i \in 0 .. FIELDS
    BY <1>a
  <2> QED
    BY <1>5, <1>6, <2>1
<1> QED
  BY <1>1, <1>3, <1>6, <1>7

LEMMA BytesAreNaturals == \A x \in Byte : x \in Nat
BY DEF Byte

\* Each field is as long as its length byte says.
LEMMA FieldsTyped ==
  ASSUME NEW input \in Seq(Byte), input # << >>, Offsets(input)[FIELDS] # Short,
         NEW i \in 0 .. FIELDS - 1
  PROVE  LET v == FieldsAt(input, Offsets(input))[i] IN
         v \in Seq(Byte) /\ Len(v) = input[Offsets(input)[i] + 1]
<1>1. PICK off : off = Offsets(input)
  OBVIOUS
<1>2. /\ \A k \in 0 .. FIELDS : off[k] \in 1 .. Len(input)
      /\ off[i] + 1 \in 1 .. Len(input) /\ off[i + 1] = off[i] + 1 + input[off[i] + 1]
  BY <1>1, OffsetsWhole
<1>3. i \in 0 .. FIELDS /\ i + 1 \in 0 .. FIELDS
  BY DEF FIELDS
<1>4. PICK len \in Nat : len = Len(input)
  OBVIOUS
<1>5. PICK a \in Nat : a = off[i] /\ a >= 1
  BY <1>2, <1>3, <1>4
<1>6. PICK m \in Nat : m = input[a + 1]
  <2>1. input[a + 1] \in Byte
    BY <1>2, <1>5, ElementOfSeq
  <2> QED
    BY <2>1, BytesAreNaturals
<1>7. off[i + 1] = a + 1 + m /\ a + 1 + m <= len
  BY <1>2, <1>3, <1>4, <1>5, <1>6
<1>8. \A k \in a + 2 .. a + 1 + m : k \in 1 .. Len(input)
  BY <1>4, <1>7
<1>9. \A k \in a + 2 .. a + 1 + m : input[k] \in Byte
  BY <1>8, ElementOfSeq
<1>10. /\ SubSeq(input, a + 2, a + 1 + m) \in Seq(Byte)
       /\ Len(SubSeq(input, a + 2, a + 1 + m))
            = IF a + 2 <= a + 1 + m THEN (a + 1 + m) - (a + 2) + 1 ELSE 0
  BY <1>9, SubSeqProperties
<1>11. (IF a + 2 <= a + 1 + m THEN (a + 1 + m) - (a + 2) + 1 ELSE 0) = m
  OBVIOUS
<1>12. FieldsAt(input, off)[i] = SubSeq(input, a + 2, a + 1 + m)
  BY <1>5, <1>7 DEF FieldsAt
<1> QED
  BY <1>1, <1>5, <1>6, <1>10, <1>11, <1>12

-----------------------------------------------------------------------------
(* The payload is its fields.                                              *)

IsFraming(tx_type, f, n, g) ==
  g = [i \in 0 .. n |-> IF i = 0 THEN <<tx_type>> ELSE g[i - 1] \o <<Len(f[i - 1])>> \o f[i - 1]]

LEMMA FramingExists ==
  ASSUME NEW tx_type, NEW f
  PROVE  \E g : IsFraming(tx_type, f, FIELDS, g)
<1> DEFINE More(g, i) == g[i - 1] \o <<Len(f[i - 1])>> \o f[i - 1]
           P == {k \in Nat : \E g : IsFraming(tx_type, f, k, g)}
<1>1. 0 \in P
  <2> DEFINE g == [i \in 0 .. 0 |-> <<tx_type>>]
  <2>1. g = [i \in 0 .. 0 |-> IF i = 0 THEN <<tx_type>> ELSE More(g, i)]
    OBVIOUS
  <2> QED
    BY <2>1 DEF IsFraming
<1>2. ASSUME NEW k \in Nat, k \in P PROVE k + 1 \in P
  <2>1. PICK g : g = [i \in 0 .. k |-> IF i = 0 THEN <<tx_type>> ELSE More(g, i)]
    BY <1>2 DEF IsFraming
  <2> DEFINE last == More(g, k + 1)
             h == [i \in 0 .. k + 1 |-> IF i <= k THEN g[i] ELSE last]
  <2>2. ASSUME NEW i \in 0 .. k + 1
        PROVE  h[i] = IF i = 0 THEN <<tx_type>> ELSE More(h, i)
    <3>1. CASE i = 0
      BY <2>1, <3>1
    <3>2. CASE i # 0 /\ i <= k
      <4>1. i \in 0 .. k /\ i - 1 \in 0 .. k /\ i - 1 <= k /\ i - 1 \in 0 .. k + 1
        BY <3>2
      <4>2. h[i] = g[i] /\ h[i - 1] = g[i - 1]
        BY <3>2, <4>1
      <4>3. g[i] = More(g, i)
        BY <2>1, <3>2, <4>1
      <4> HIDE DEF h
      <4> QED
        BY <3>2, <4>2, <4>3
    <3>3. CASE i = k + 1
      <4>1. k \in 0 .. k + 1 /\ i - 1 = k /\ (k + 1) - 1 = k /\ ~(i <= k) /\ i # 0 /\ k <= k
        BY <3>3
      <4> HIDE DEF last
      <4>2. h[i] = last /\ h[k] = g[k]
        BY <4>1
      <4> HIDE DEF h
      <4> QED
        BY <3>3, <4>1, <4>2 DEF last
    <3> QED
      BY <3>1, <3>2, <3>3
  <2>3. h = [i \in 0 .. k + 1 |-> h[i]]
    OBVIOUS
  <2> HIDE DEF h
  <2>4. h = [i \in 0 .. k + 1 |-> IF i = 0 THEN <<tx_type>> ELSE More(h, i)]
    BY <2>2, <2>3
  <2> QED
    BY <2>4 DEF IsFraming
<1>3. FIELDS \in Nat /\ P \in SUBSET Nat /\ FIELDS \in 0 .. FIELDS
  BY DEF FIELDS
<1> HIDE DEF P
<1>4. FIELDS \in P
  BY <1>1, <1>2, <1>3, Inductive
<1> QED
  BY <1>4 DEF P

\* g[i] is the payload up to its i-th field.
Framed(tx_type, f, g) ==
  /\ Payload(tx_type, f) = g[FIELDS]
  /\ g[0] = <<tx_type>>
  /\ \A i \in 0 .. FIELDS - 1 : g[i + 1] = g[i] \o <<Len(f[i])>> \o f[i]

LEMMA PayloadDef ==
  ASSUME NEW tx_type, NEW f
  PROVE  \E g : Framed(tx_type, f, g)
<1> DEFINE c == CHOOSE g : IsFraming(tx_type, f, FIELDS, g)
<1>1. Payload(tx_type, f) = c[FIELDS]
  BY DEF Payload, IsFraming
<1>2. IsFraming(tx_type, f, FIELDS, c)
  BY FramingExists
<1> HIDE DEF c
<1>3. c = [i \in 0 .. FIELDS |->
             IF i = 0 THEN <<tx_type>> ELSE c[i - 1] \o <<Len(f[i - 1])>> \o f[i - 1]]
  BY <1>2 DEF IsFraming
<1>4. c[0] = <<tx_type>>
  BY <1>3 DEF FIELDS
<1>5. ASSUME NEW i \in 0 .. FIELDS - 1
      PROVE  c[i + 1] = c[i] \o <<Len(f[i])>> \o f[i]
  <2>1. i + 1 \in 0 .. FIELDS /\ i + 1 # 0 /\ (i + 1) - 1 = i
    BY DEF FIELDS
  <2> QED
    BY <1>3, <2>1
<1>6. Framed(tx_type, f, c)
  BY <1>1, <1>4, <1>5 DEF Framed
<1> QED
  BY <1>6

LEMMA PayloadIsItsFields ==
  ASSUME NEW input \in Seq(Byte), input # << >>, Offsets(input)[FIELDS] = Len(input)
  PROVE  input = Payload(input[1], FieldsAt(input, Offsets(input)))
<1> DEFINE f == FieldsAt(input, Offsets(input))
<1>1. PICK off : off = Offsets(input)
  OBVIOUS
<1>2. PICK len \in Nat : len = Len(input) /\ len >= 1
  OBVIOUS
<1>3. Offsets(input)[FIELDS] # Short
  BY <1>2 DEF Short
<1>4. /\ off[0] = 1
      /\ \A i \in 0 .. FIELDS : off[i] \in 1 .. len
      /\ \A i \in 0 .. FIELDS - 1 : off[i] + 1 \in 1 .. len
  BY <1>1, <1>2, <1>3, OffsetsWhole, OffsetsDef
<1>5. \A i \in 0 .. FIELDS - 1 :
        /\ f[i] = SubSeq(input, off[i] + 2, off[i + 1])
        /\ Len(f[i]) = input[off[i] + 1]
        /\ off[i + 1] = off[i] + 1 + input[off[i] + 1]
  BY <1>1, <1>3, FieldsTyped, OffsetsWhole DEF FieldsAt
<1> HIDE DEF f
<1>b. PICK ty, ff : ty = input[1] /\ ff = f
  OBVIOUS
<1>c. PICK g : Framed(ty, ff, g)
  BY PayloadDef
<1>6. /\ Payload(input[1], f) = g[FIELDS]
      /\ g[0] = <<input[1]>>
      /\ \A i \in 0 .. FIELDS - 1 : g[i + 1] = g[i] \o <<Len(f[i])>> \o f[i]
  BY <1>b, <1>c DEF Framed
<1>a. FIELDS \in Nat /\ FIELDS \in 0 .. FIELDS /\ 0 \in 0 .. FIELDS
  BY DEF FIELDS
<1> DEFINE P == {k \in Nat : k <= FIELDS => g[k] = SubSeq(input, 1, off[k])}
<1>7. 0 \in P
  <2>1. 1 \in 1 .. Len(input) /\ 1 \in 1 .. Len(input) /\ 1 - 1 = 0
    BY <1>2
  <2>2. SubSeq(input, 1, 1) = SubSeq(input, 1, 1 - 1) \o <<input[1]>>
    BY <2>1, SubSeqRecursiveSecond
  <2>3. SubSeq(input, 1, 0) = << >>
    BY SubSeqEmpty
  <2>4. input[1] \in Byte
    BY <2>1, ElementOfSeq
  <2>5. << >> \o <<input[1]>> = <<input[1]>>
    BY <2>4, ConcatEmptySeq
  <2> QED
    BY <1>4, <1>6, <2>1, <2>2, <2>3, <2>5
<1>8. ASSUME NEW k \in 0 .. FIELDS - 1, k \in P PROVE k + 1 \in P
  <2>1. k <= FIELDS /\ k + 1 \in Nat /\ k \in 0 .. FIELDS /\ k + 1 \in 0 .. FIELDS
    BY <1>a
  <2>2. PICK a \in Nat, b \in Nat : a = off[k] /\ b = off[k + 1] /\ 1 <= a /\ a + 1 <= b /\ b <= len
    <3>1. off[k] \in Nat /\ 1 <= off[k] /\ off[k + 1] \in Nat /\ off[k + 1] <= len
      BY <1>4, <2>1
    <3>2. PICK m \in Nat : m = input[off[k] + 1]
      <4>1. input[off[k] + 1] \in Byte
        BY <1>2, <1>4, ElementOfSeq
      <4> QED
        BY <4>1, BytesAreNaturals
    <3>3. off[k + 1] = off[k] + 1 + m
      BY <1>5, <3>2
    <3> QED
      BY <3>1, <3>3
  <2>3. g[k] = SubSeq(input, 1, a)
    BY <1>8, <2>1, <2>2
  <2>4. SubSeq(input, 1, a) \o <<input[a + 1]>> = SubSeq(input, 1, a + 1)
    <3>1. 1 \in 1 .. Len(input) /\ a + 1 \in 1 .. Len(input) /\ (a + 1) - 1 = a
      BY <1>2, <2>2
    <3> QED
      BY <3>1, SubSeqRecursiveSecond
  <2>5. SubSeq(input, 1, a + 1) \o SubSeq(input, (a + 1) + 1, b) = SubSeq(input, 1, b)
    <3>1. /\ 1 \in 1 .. Len(input) + 1 /\ a + 1 \in 1 - 1 .. Len(input)
          /\ b \in a + 1 .. Len(input)
      BY <1>2, <2>2
    <3> QED
      BY <3>1, ConcatAdjacentSubSeq
  <2>6. f[k] = SubSeq(input, a + 2, b) /\ Len(f[k]) = input[a + 1] /\ (a + 1) + 1 = a + 2
    BY <1>5, <2>2, SMTT(30)
  <2>7. g[k + 1] = (SubSeq(input, 1, a) \o <<input[a + 1]>>) \o SubSeq(input, a + 2, b)
    BY <1>6, <2>3, <2>6
  <2> QED
    BY <2>1, <2>2, <2>4, <2>5, <2>6, <2>7
<1>9. P \in SUBSET Nat
  OBVIOUS
<1> HIDE DEF P
<1>10. FIELDS \in P
  BY <1>7, <1>8, <1>9, <1>a, Inductive
<1>11. g[FIELDS] = SubSeq(input, 1, Len(input))
  BY <1>1, <1>10, <1>a DEF P
<1> QED
  BY <1>6, <1>11, SubSeqFull DEF f

-----------------------------------------------------------------------------
(* The size of a template.                                                 *)

LEMMA ConstantsBound ==
  ASSUME NEW tx_type \in 0 .. 2
  PROVE  ConstantBytes[tx_type] \in Nat /\ ConstantBytes[tx_type] <= 367
<1>1. ConstantBytes[0] = 284 /\ ConstantBytes[1] = 348 /\ ConstantBytes[2] = 367
  BY DEF ConstantBytes
<1>2. tx_type = 0 \/ tx_type = 1 \/ tx_type = 2
  OBVIOUS
<1>3. CASE tx_type = 0
  BY <1>1, <1>3
<1>4. CASE tx_type = 1
  BY <1>1, <1>4
<1>5. CASE tx_type = 2
  BY <1>1, <1>5
<1> QED
  BY <1>2, <1>3, <1>4, <1>5

LEMMA SizeBound ==
  ASSUME NEW f, NEW tx_type \in 0 .. 2, LengthsInRange(f),
         \A i \in 0 .. FIELDS - 1 : Len(f[i]) \in Nat
  PROVE  TemplateLen(f, tx_type) \in Nat /\ TemplateLen(f, tx_type) <= 1191
<1> USE DEF RECIPIENT, RECIPIENT_CHAIN, NETWORK, AMOUNT, NAMESPACE, MODULE_, GAS_PRICE,
            GAS_LIMIT, CREATION_TIME, CHAIN_ID, NONCE, TTL, FIELDS
<1>1. /\ max_len[1] = 2 /\ max_len[2] = 20 /\ max_len[3] = 32 /\ max_len[4] = 63
      /\ max_len[5] = 32 /\ max_len[6] = 20 /\ max_len[7] = 10 /\ max_len[8] = 12
      /\ max_len[9] = 2 /\ max_len[10] = 32 /\ max_len[11] = 20
  BY DEF max_len
<1>2. PICK c \in Nat : c = ConstantBytes[tx_type] /\ c <= 367
  BY ConstantsBound
<1>3. Len(f[0]) = 64 /\ \A i \in 1 .. 11 : Len(f[i]) <= max_len[i] /\ Len(f[i]) \in Nat
  BY DEF LengthsInRange
<1>4. /\ 1 \in 1 .. 11 /\ 2 \in 1 .. 11 /\ 3 \in 1 .. 11 /\ 4 \in 1 .. 11 /\ 5 \in 1 .. 11
      /\ 6 \in 1 .. 11 /\ 7 \in 1 .. 11 /\ 8 \in 1 .. 11 /\ 9 \in 1 .. 11 /\ 10 \in 1 .. 11
      /\ 11 \in 1 .. 11
  OBVIOUS
<1>5. PICK l1 \in Nat : l1 = Len(f[1]) /\ l1 <= 2
  BY <1>1, <1>3, <1>4
<1>6. PICK l2 \in Nat : l2 = Len(f[2]) /\ l2 <= 20
  BY <1>1, <1>3, <1>4
<1>7. PICK l3 \in Nat : l3 = Len(f[3]) /\ l3 <= 32
  BY <1>1, <1>3, <1>4
<1>8. PICK l4 \in Nat : l4 = Len(f[4]) /\ l4 <= 63
  BY <1>1, <1>3, <1>4
<1>9. PICK l5 \in Nat : l5 = Len(f[5]) /\ l5 <= 32
  BY <1>1, <1>3, <1>4
<1>10. PICK l6 \in Nat : l6 = Len(f[6]) /\ l6 <= 20
  BY <1>1, <1>3, <1>4
<1>11. PICK l7 \in Nat : l7 = Len(f[7]) /\ l7 <= 10
  BY <1>1, <1>3, <1>4
<1>12. PICK l8 \in Nat : l8 = Len(f[8]) /\ l8 <= 12
  BY <1>1, <1>3, <1>4
<1>13. PICK l9 \in Nat : l9 = Len(f[9]) /\ l9 <= 2
  BY <1>1, <1>3, <1>4
<1>14. PICK l10 \in Nat : l10 = Len(f[10]) /\ l10 <= 32
  BY <1>1, <1>3, <1>4
<1>15. PICK l11 \in Nat : l11 = Len(f[11]) /\ l11 <= 20
  BY <1>1, <1>3, <1>4
<1>16. PICK m \in Nat : m = ModuleLen(f) /\ m <= 96
  <2>1. ModuleLen(f) = IF use_ns(f) THEN l4 + 1 + l5 ELSE 4
    BY <1>8, <1>9, Zenon DEF ModuleLen
  <2>a. l4 <= 63 /\ l5 <= 32
    BY <1>8, <1>9, Zenon
  <2>2. l4 + 1 + l5 \in Nat /\ l4 + 1 + l5 <= 96 /\ 4 \in Nat /\ 4 <= 96
    BY <2>a
  <2>3. CASE use_ns(f)
    <3>1. ModuleLen(f) = l4 + 1 + l5
      BY <2>1, <2>3
    <3> QED
      BY <3>1, <2>2
  <2>4. CASE ~use_ns(f)
    <3>1. ModuleLen(f) = 4
      BY <2>1, <2>4
    <3> QED
      BY <3>1
  <2> QED
    BY <2>3, <2>4
<1>17. PICK z \in Nat : z = (IF tx_type = TX_TYPE_TRANSFER THEN 2 ELSE 3) * 64 /\ z <= 192
  OBVIOUS
<1>18. PICK y \in Nat : y = (IF tx_type = TX_TYPE_TRANSFER_CROSSCHAIN THEN 2 * l1 ELSE 0) /\ y <= 4
  <2>1. CASE tx_type = TX_TYPE_TRANSFER_CROSSCHAIN
    BY <1>5, <2>1
  <2>2. CASE tx_type # TX_TYPE_TRANSFER_CROSSCHAIN
    BY <2>2
  <2> QED
    BY <2>1, <2>2
<1>19. TemplateLen(f, tx_type)
         = c + 2 * m + 4 * 64 + z + 2 * l3 + y + l2 + l8 + l11 + l7 + l9 + l6 + l10
  BY <1>2, <1>3, <1>5, <1>6, <1>7, <1>10, <1>11, <1>12, <1>13, <1>14, <1>15, <1>16, <1>17, <1>18,
     ZenonT(60)
  DEF TemplateLen, ADDRESS_LEN
<1>20. 4 * 64 = 256
  OBVIOUS
<1>21. /\ c <= 367 /\ m <= 96 /\ l2 <= 20 /\ l3 <= 32 /\ l6 <= 20 /\ l7 <= 10
       /\ l8 <= 12 /\ l9 <= 2 /\ l10 <= 32 /\ l11 <= 20 /\ z <= 192 /\ y <= 4
  BY <1>2, <1>6, <1>7, <1>10, <1>11, <1>12, <1>13, <1>14, <1>15, <1>16, <1>17, <1>18, Zenon
<1>22. /\ c + 2 * m + 256 + z + 2 * l3 + y + l2 + l8 + l11 + l7 + l9 + l6 + l10 \in Nat
       /\ c + 2 * m + 256 + z + 2 * l3 + y + l2 + l8 + l11 + l7 + l9 + l6 + l10 <= 1191
  BY <1>21, SMTT(60)
<1>23. TemplateLen(f, tx_type)
         = c + 2 * m + 256 + z + 2 * l3 + y + l2 + l8 + l11 + l7 + l9 + l6 + l10
  BY <1>19, <1>20, ZenonT(60)
<1> QED
  BY <1>22, <1>23, ZenonT(60)

-----------------------------------------------------------------------------
(* What build answers.                                                     *)

\* The checks a payload of a template has passed.
Passed(input, f) ==
  /\ input # << >> /\ input[1] \in 0 .. 2
  /\ Offsets(input)[FIELDS] # Short /\ Offsets(input)[FIELDS] = Len(input)
  /\ LengthsInRange(f)

AllAllowed(f, tx_type) == \A field \in 0 .. FIELDS - 1 : field_allowed(field, f[field], tx_type)

LEMMA BuildCases ==
  ASSUME NEW input, NEW addr, NEW f, f = FieldsAt(input, Offsets(input))
  PROVE  \/ /\ input = << >> \/ Offsets(input)[FIELDS] = Short
            /\ build(input, addr) \in {Refused("UnexpectedBufferEnd"), Refused("UnexpectedValue")}
         \/ build(input, addr) \in {Refused("UnexpectedValue"), Refused("UnexpectedUnparsedBytes"),
                                    Refused("ValueOutOfRange"), Refused("UnexpectedError")}
         \/ /\ Passed(input, f) /\ ~AllAllowed(f, input[1])
            /\ build(input, addr) = Refused("UnexpectedCharacters")
         \/ /\ Passed(input, f) /\ TemplateLen(f, input[1]) > TEMPLATE_BUF
            /\ build(input, addr) = Refused("UnexpectedBufferEnd")
         \/ /\ Passed(input, f) /\ AllAllowed(f, input[1])
            /\ build(input, addr) = [error |-> "none", template |-> Template(f, input[1], addr),
                                     fields |-> f, len |-> TemplateLen(f, input[1])]
BY Zenon DEF build, Passed, AllAllowed, Unparsed

LEMMA FieldLengths ==
  ASSUME NEW input \in Seq(Byte), NEW f, f = FieldsAt(input, Offsets(input)), Passed(input, f)
  PROVE  \A i \in 0 .. FIELDS - 1 : f[i] \in Seq(Byte) /\ Len(f[i]) \in Nat
<1> SUFFICES ASSUME NEW i \in 0 .. FIELDS - 1 PROVE f[i] \in Seq(Byte) /\ Len(f[i]) \in Nat
  OBVIOUS
<1>1. f[i] \in Seq(Byte)
  BY FieldsTyped DEF Passed
<1> QED
  BY <1>1, LenProperties

\* The built template and the payload it is of.
LEMMA BuiltFacts ==
  ASSUME NEW input \in Seq(Byte), NEW addr, build(input, addr).error = "none",
         NEW f, f = FieldsAt(input, Offsets(input))
  PROVE  /\ Passed(input, f) /\ AllAllowed(f, input[1])
         /\ build(input, addr).fields = f
         /\ build(input, addr).len = TemplateLen(f, input[1])
         /\ build(input, addr).template = Template(f, input[1], addr)
<1>1. /\ Refused("UnexpectedBufferEnd").error # "none" /\ Refused("UnexpectedValue").error # "none"
      /\ Refused("UnexpectedUnparsedBytes").error # "none"
      /\ Refused("ValueOutOfRange").error # "none" /\ Refused("UnexpectedError").error # "none"
      /\ Refused("UnexpectedCharacters").error # "none"
  BY DEF Refused
<1>2. /\ Passed(input, f) /\ AllAllowed(f, input[1])
      /\ build(input, addr) = [error |-> "none", template |-> Template(f, input[1], addr),
                               fields |-> f, len |-> TemplateLen(f, input[1])]
  BY <1>1, BuildCases, Zenon
<1> QED
  BY <1>2

LEMMA CharactersFacts ==
  ASSUME NEW input \in Seq(Byte), NEW addr, build(input, addr).error = "UnexpectedCharacters",
         NEW f, f = FieldsAt(input, Offsets(input))
  PROVE  Passed(input, f) /\ ~AllAllowed(f, input[1])
<1>1. /\ Refused("UnexpectedBufferEnd").error # "UnexpectedCharacters"
      /\ Refused("UnexpectedValue").error # "UnexpectedCharacters"
      /\ Refused("UnexpectedUnparsedBytes").error # "UnexpectedCharacters"
      /\ Refused("ValueOutOfRange").error # "UnexpectedCharacters"
      /\ Refused("UnexpectedError").error # "UnexpectedCharacters"
  BY DEF Refused
<1>2. [error |-> "none", template |-> Template(f, input[1], addr), fields |-> f,
       len |-> TemplateLen(f, input[1])].error # "UnexpectedCharacters"
  OBVIOUS
<1> QED
  BY <1>1, <1>2, BuildCases, Zenon

LEMMA BufferEndFacts ==
  ASSUME NEW input \in Seq(Byte), NEW addr, build(input, addr).error = "UnexpectedBufferEnd"
  PROVE  input = << >> \/ Offsets(input)[FIELDS] = Short
<1>1. PICK f : f = FieldsAt(input, Offsets(input))
  OBVIOUS
<1>2. ASSUME Passed(input, f), TemplateLen(f, input[1]) > TEMPLATE_BUF PROVE FALSE
  <2>1. \A i \in 0 .. FIELDS - 1 : Len(f[i]) \in Nat
    BY <1>1, <1>2, FieldLengths
  <2>2. TemplateLen(f, input[1]) \in Nat /\ TemplateLen(f, input[1]) <= 1191
    BY <1>2, <2>1, SizeBound DEF Passed
  <2> QED
    BY <1>2, <2>2 DEF TEMPLATE_BUF
<1>3. /\ Refused("UnexpectedValue").error # "UnexpectedBufferEnd"
      /\ Refused("UnexpectedUnparsedBytes").error # "UnexpectedBufferEnd"
      /\ Refused("ValueOutOfRange").error # "UnexpectedBufferEnd"
      /\ Refused("UnexpectedError").error # "UnexpectedBufferEnd"
      /\ Refused("UnexpectedCharacters").error # "UnexpectedBufferEnd"
  BY DEF Refused
<1>4. [error |-> "none", template |-> Template(f, input[1], addr), fields |-> f,
       len |-> TemplateLen(f, input[1])].error # "UnexpectedBufferEnd"
  OBVIOUS
<1> QED
  BY <1>1, <1>2, <1>3, <1>4, BuildCases, Zenon

-----------------------------------------------------------------------------
(* The state machine.                                                      *)

\* The inductive invariant: the outcome is build's, of the payload the buffer
\* still holds and the key the template was built with.
OutcomeIsOfThePayload ==
  payload \in Seq(Byte) /\ outcome \in {NotBuilt, build(payload, device)}

LEMMA TransferInvariant == TransferSpec => []OutcomeIsOfThePayload
<1>1. payload \in Seq(0 .. 255) /\ TransferInit => OutcomeIsOfThePayload
  BY DEF OutcomeIsOfThePayload, TransferInit, Byte
<1>2. OutcomeIsOfThePayload /\ [TransferNext]_<<vars, transferVars>> => OutcomeIsOfThePayload'
  <2> SUFFICES ASSUME OutcomeIsOfThePayload, [TransferNext]_<<vars, transferVars>>
               PROVE  OutcomeIsOfThePayload'
    OBVIOUS
  <2>1. CASE BuildTemplate
    BY <2>1, Zenon DEF OutcomeIsOfThePayload, BuildTemplate
  <2>2. CASE UNCHANGED transferVars
    BY <2>2, Zenon DEF OutcomeIsOfThePayload, transferVars
  <2> QED
    BY <2>1, <2>2 DEF TransferNext, StoreItems
<1> QED
  BY <1>1, <1>2, PTL DEF TransferSpec

LEMMA NotBuiltFacts ==
  /\ NotBuilt.error # "none" /\ NotBuilt.error # "UnexpectedBufferEnd"
  /\ NotBuilt.error # "UnexpectedCharacters"
BY DEF NotBuilt

\* Every template has the fields of the whole payload.
THEOREM FieldsSafe == TransferSpec => []FieldsAreThePayload
<1>1. OutcomeIsOfThePayload => FieldsAreThePayload
  <2> SUFFICES ASSUME OutcomeIsOfThePayload, Built
               PROVE  payload = Payload(payload[1], outcome.fields)
    BY DEF FieldsAreThePayload
  <2>1. payload \in Seq(Byte) /\ outcome = build(payload, device) /\ outcome.error = "none"
    BY NotBuiltFacts DEF OutcomeIsOfThePayload, Built
  <2>2. PICK f : f = FieldsAt(payload, Offsets(payload))
    OBVIOUS
  <2>3. Passed(payload, f) /\ outcome.fields = f
    BY <2>1, <2>2, BuiltFacts
  <2>4. payload = Payload(payload[1], FieldsAt(payload, Offsets(payload)))
    BY <2>1, <2>3, PayloadIsItsFields DEF Passed
  <2> QED
    BY <2>2, <2>3, <2>4
<1> QED
  BY <1>1, TransferInvariant, PTL

\* No template is longer than 1191 bytes, and no payload is refused for its size.
THEOREM TemplateSafe == TransferSpec => []TemplateFits
<1>1. OutcomeIsOfThePayload => TemplateFits
  <2> SUFFICES ASSUME OutcomeIsOfThePayload PROVE TemplateFits
    OBVIOUS
  <2>1. ASSUME Built PROVE outcome.len <= 1191
    <3>1. payload \in Seq(Byte) /\ outcome = build(payload, device) /\ outcome.error = "none"
      BY <2>1, NotBuiltFacts DEF OutcomeIsOfThePayload, Built
    <3>2. PICK f : f = FieldsAt(payload, Offsets(payload))
      OBVIOUS
    <3>3. Passed(payload, f) /\ outcome.len = TemplateLen(f, payload[1])
      BY <3>1, <3>2, BuiltFacts
    <3>4. \A i \in 0 .. FIELDS - 1 : Len(f[i]) \in Nat
      BY <3>1, <3>2, <3>3, FieldLengths
    <3> QED
      BY <3>3, <3>4, SizeBound DEF Passed
  <2>2. ASSUME outcome.error = "UnexpectedBufferEnd"
        PROVE  payload = << >> \/ Offsets(payload)[FIELDS] = Short
    <3>1. payload \in Seq(Byte) /\ outcome = build(payload, device)
      BY <2>2, NotBuiltFacts DEF OutcomeIsOfThePayload
    <3> QED
      BY <2>2, <3>1, BufferEndFacts
  <2> QED
    BY <2>1, <2>2 DEF TemplateFits
<1> QED
  BY <1>1, TransferInvariant, PTL

\* The Pact code does what the signature is scoped to.
THEOREM ScopeSafe == TransferSpec => []CodeIsTheScope
<1>1. OutcomeIsOfThePayload => CodeIsTheScope
  <2> SUFFICES ASSUME OutcomeIsOfThePayload, Built PROVE CodeIsTheScope
    BY DEF CodeIsTheScope
  <2>1. payload \in Seq(Byte) /\ outcome = build(payload, device) /\ outcome.error = "none"
    BY NotBuiltFacts DEF OutcomeIsOfThePayload, Built
  <2>2. PICK f : f = FieldsAt(payload, Offsets(payload))
    OBVIOUS
  <2>3. PICK t : t = payload[1] /\ t \in 0 .. 2 /\ Of = Template(f, t, device)
    BY <2>1, <2>2, BuiltFacts DEF Passed, Of
  <2>4. Of.code = Code(f, t, device) /\ Of.scope = Scope(f, t, device) /\ Of.pubKey = device
        /\ Of.meta.sender = device
        /\ Of.data = IF t = TX_TYPE_TRANSFER THEN << >> ELSE <<f[RECIPIENT]>>
    BY <2>3 DEF Template
  <2>5. /\ Of.code.module = nsmod(f) /\ Of.scope.module = nsmod(f)
        /\ Of.code.sender = device /\ Of.scope.sender = device
        /\ Of.code.receiver = f[RECIPIENT] /\ Of.scope.receiver = f[RECIPIENT]
        /\ Of.code.amount = f[AMOUNT] /\ Of.scope.amount = f[AMOUNT]
        /\ Of.code.chain = OnCrosschain(t, f[RECIPIENT_CHAIN])
        /\ Of.scope.chain = OnCrosschain(t, f[RECIPIENT_CHAIN])
        /\ Of.code.keyset = (t # TX_TYPE_TRANSFER) /\ Of.code.function = Function[t + 1]
        /\ Of.scope.name = IF t = TX_TYPE_TRANSFER_CROSSCHAIN THEN "TRANSFER_XCHAIN" ELSE "TRANSFER"
    BY <2>4 DEF Code, Scope
  <2>6. (Of.code.function = "transfer-crosschain") = (Of.scope.name = "TRANSFER_XCHAIN")
    <3>1. t = 0 \/ t = 1 \/ t = 2
      BY <2>3
    <3>2. /\ Function[0 + 1] = "transfer" /\ Function[1 + 1] = "transfer-create"
          /\ Function[2 + 1] = "transfer-crosschain"
      BY DEF Function
    <3>3. TX_TYPE_TRANSFER_CROSSCHAIN = 2
      BY DEF TX_TYPE_TRANSFER_CROSSCHAIN
    <3> QED
      BY <2>5, <3>1, <3>2, <3>3
  <2>7. Of.code.keyset => Of.data = <<Of.scope.receiver>>
    BY <2>4, <2>5
  <2>8. \A part \in {"module", "sender", "receiver", "amount", "chain"} :
          Of.code[part] = Of.scope[part]
    BY <2>5
  <2> QED
    BY <2>4, <2>5, <2>6, <2>7, <2>8, Zenon DEF CodeIsTheScope
<1> QED
  BY <1>1, TransferInvariant, PTL

-----------------------------------------------------------------------------
(* The numbers.                                                            *)

LEMMA DigitRunIs ==
  ASSUME NEW v \in Seq(Byte)
  PROVE  /\ DigitRun(v) \in 0 .. Len(v)
         /\ \A i \in 1 .. DigitRun(v) : Digit(v[i])
         /\ DigitRun(v) < Len(v) => ~Digit(v[DigitRun(v) + 1])
<1>1. PICK len \in Nat : len = Len(v)
  BY LenProperties
<1> DEFINE T == {n \in Nat : n <= len /\ (n < len => ~Digit(v[n + 1]))}
<1>2. len \in T /\ T \in SUBSET Nat
  OBVIOUS
<1>3. PICK x \in T : \A y \in T : x <= y
  <2> HIDE DEF T
  <2> QED
    BY <1>2, Least
<1>4. ASSUME NEW i \in 1 .. x PROVE Digit(v[i])
  <2>1. i - 1 \in Nat /\ i - 1 < len /\ i - 1 <= len /\ (i - 1) + 1 = i /\ ~(x <= i - 1)
    OBVIOUS
  <2>2. i - 1 \notin T
    BY <1>3, <2>1
  <2> QED
    BY <2>1, <2>2
<1>5. x \in 0 .. Len(v) /\ (x < Len(v) => ~Digit(v[x + 1]))
  BY <1>1
<1> HIDE DEF T
<1> QED
  BY <1>4, <1>5, Zenon DEF DigitRun

\* Where the elements of a prefix and of a suffix come from.
LEMMA SuffixIs ==
  ASSUME NEW v \in Seq(Byte), NEW k \in Nat, k >= 1
  PROVE  /\ From(v, k) \in Seq(Byte)
         /\ Len(From(v, k)) = IF k <= Len(v) THEN Len(v) - k + 1 ELSE 0
         /\ \A i \in 1 .. Len(v) - k + 1 : From(v, k)[i] = v[k + i - 1]
<1>1. PICK len \in Nat : len = Len(v)
  BY LenProperties
<1>2. \A i \in k .. len : i \in 1 .. Len(v)
  BY <1>1
<1>3. \A i \in k .. len : v[i] \in Byte
  BY <1>2, ElementOfSeq
<1>4. /\ SubSeq(v, k, len) \in Seq(Byte)
      /\ Len(SubSeq(v, k, len)) = IF k <= len THEN len - k + 1 ELSE 0
      /\ \A i \in 1 .. len - k + 1 : SubSeq(v, k, len)[i] = v[k + i - 1]
  BY <1>3, SubSeqProperties
<1> QED
  BY <1>1, <1>4 DEF From

LEMMA PrefixIs ==
  ASSUME NEW v \in Seq(Byte), NEW m \in Nat, m <= Len(v)
  PROVE  /\ SubSeq(v, 1, m) \in Seq(Byte)
         /\ Len(SubSeq(v, 1, m)) = m
         /\ \A i \in 1 .. m : SubSeq(v, 1, m)[i] = v[i]
<1>1. PICK len \in Nat : len = Len(v)
  BY LenProperties
<1>2. \A i \in 1 .. m : i \in 1 .. Len(v)
  BY <1>1
<1>3. \A i \in 1 .. m : v[i] \in Byte
  BY <1>2, ElementOfSeq
<1>4. /\ SubSeq(v, 1, m) \in Seq(Byte)
      /\ Len(SubSeq(v, 1, m)) = IF 1 <= m THEN m - 1 + 1 ELSE 0
      /\ \A i \in 1 .. m - 1 + 1 : SubSeq(v, 1, m)[i] = v[1 + i - 1]
  BY <1>3, SubSeqProperties
<1>5. (IF 1 <= m THEN m - 1 + 1 ELSE 0) = m /\ m - 1 + 1 = m
  OBVIOUS
<1>6. \A i \in 1 .. m : 1 + i - 1 = i
  OBVIOUS
<1> QED
  BY <1>4, <1>5, <1>6

LEMMA DigitsAre ==
  ASSUME NEW v \in Seq(Byte)
  PROVE  Digits(v) <=> Len(v) >= 1 /\ \A i \in 1 .. Len(v) : Digit(v[i])
<1>1. DOMAIN v = 1 .. Len(v) /\ Len(v) \in Nat /\ (v = << >> <=> Len(v) = 0)
  BY LenProperties, EmptySeq
<1>2. v # << >> <=> Len(v) >= 1
  BY <1>1
<1> QED
  BY <1>1, <1>2, Zenon DEF Digits, All

LEMMA DigitsFrom ==
  ASSUME NEW v \in Seq(Byte), NEW k \in Nat, k >= 1
  PROVE  Digits(From(v, k)) <=> k <= Len(v) /\ \A i \in k .. Len(v) : Digit(v[i])
<1>1. PICK len \in Nat : len = Len(v)
  BY LenProperties
<1>2. PICK w \in Seq(Byte) : w = From(v, k)
  BY SuffixIs
<1>3. /\ Len(w) = IF k <= len THEN len - k + 1 ELSE 0
      /\ \A i \in 1 .. len - k + 1 : w[i] = v[k + i - 1]
  BY <1>1, <1>2, SuffixIs
<1>4. Digits(w) <=> Len(w) >= 1 /\ \A i \in 1 .. Len(w) : Digit(w[i])
  BY DigitsAre
<1>5. CASE k <= len
  <2>1. Len(w) = len - k + 1 /\ len - k + 1 >= 1
    BY <1>3, <1>5
  <2>2. ASSUME \A i \in 1 .. len - k + 1 : Digit(w[i]), NEW i \in k .. len PROVE Digit(v[i])
    <3>1. i - k + 1 \in 1 .. len - k + 1 /\ k + (i - k + 1) - 1 = i
      OBVIOUS
    <3> QED
      BY <1>3, <2>2, <3>1
  <2>3. ASSUME \A i \in k .. len : Digit(v[i]), NEW i \in 1 .. len - k + 1 PROVE Digit(w[i])
    <3>1. k + i - 1 \in k .. len
      OBVIOUS
    <3> QED
      BY <1>3, <2>3, <3>1
  <2> QED
    BY <1>1, <1>2, <1>4, <1>5, <2>1, <2>2, <2>3
<1>6. CASE ~(k <= len)
  <2>1. ~(Len(w) >= 1)
    BY <1>3, <1>6
  <2> QED
    BY <1>1, <1>2, <1>4, <1>6, <2>1
<1> QED
  BY <1>5, <1>6

LEMMA DecimalsAre ==
  ASSUME NEW v \in Seq(Byte)
  PROVE  is_decimal(v) <=> Decimal(v)
<1>1. PICK len \in Nat : len = Len(v) /\ DOMAIN v = 1 .. len
  BY LenProperties
<1>2. PICK n \in 0 .. len : /\ n = DigitRun(v)
                            /\ \A i \in 1 .. n : Digit(v[i])
                            /\ n < len => ~Digit(v[n + 1])
  BY <1>1, DigitRunIs
<1>3. is_decimal(v) <=> n > 0 /\ (n < len => v[n + 1] = Dot /\ Digits(From(v, n + 2)))
  BY <1>1, <1>2, Zenon DEF is_decimal
<1>4. Digits(From(v, n + 2)) <=> n + 2 <= len /\ \A i \in n + 2 .. len : Digit(v[i])
  <2>1. n + 2 \in Nat /\ n + 2 >= 1
    OBVIOUS
  <2> QED
    BY <1>1, <2>1, DigitsFrom
<1>5. Digits(v) <=> len >= 1 /\ \A i \in 1 .. len : Digit(v[i])
  BY <1>1, DigitsAre
<1>6. ASSUME is_decimal(v) PROVE Decimal(v)
  <2>1. CASE n = len
    BY <1>2, <1>3, <1>5, <1>6, <2>1 DEF Decimal
  <2>2. CASE n < len
    <3>1. n > 0 /\ v[n + 1] = Dot /\ n + 2 <= len /\ \A i \in n + 2 .. len : Digit(v[i])
      BY <1>3, <1>4, <1>6, <2>2
    <3>2. n + 1 \in 2 .. Len(v) - 1
      BY <1>1, <3>1
    <3>3. \A i \in DOMAIN v \ {n + 1} : i \in 1 .. n \/ i \in n + 2 .. len
      BY <1>1
    <3>4. \A i \in DOMAIN v \ {n + 1} : Digit(v[i])
      BY <1>2, <3>1, <3>3
    <3> QED
      BY <3>1, <3>2, <3>4 DEF Decimal, Fraction
  <2> QED
    BY <2>1, <2>2
<1>7. ASSUME Digits(v) PROVE is_decimal(v)
  <2>1. ~(n < len)
    <3> SUFFICES ASSUME n < len PROVE FALSE
      OBVIOUS
    <3>1. n + 1 \in 1 .. len
      OBVIOUS
    <3> QED
      BY <1>2, <1>5, <1>7, <3>1
  <2> QED
    BY <1>3, <1>5, <1>7, <2>1
<1>8. ASSUME Fraction(v) PROVE is_decimal(v)
  <2>1. PICK m \in 2 .. len - 1 : v[m] = Dot /\ \A i \in 1 .. len \ {m} : Digit(v[i])
    BY <1>1, <1>8 DEF Fraction
  <2>2. ~Digit(Dot)
    BY DEF Digit, Dot
  <2>3. n < m
    <3> SUFFICES ASSUME n >= m PROVE FALSE
      OBVIOUS
    <3>1. m \in 1 .. n
      OBVIOUS
    <3> QED
      BY <1>2, <2>1, <2>2, <3>1
  <2>4. n + 1 = m
    <3> SUFFICES ASSUME n + 1 < m PROVE FALSE
      BY <2>3
    <3>1. n + 1 \in 1 .. len \ {m} /\ n < len
      OBVIOUS
    <3> QED
      BY <1>2, <2>1, <3>1
  <2>5. n > 0 /\ v[n + 1] = Dot /\ n + 2 <= len
    BY <2>1, <2>4
  <2>6. \A i \in n + 2 .. len : i \in 1 .. len \ {m}
    BY <2>4
  <2> QED
    BY <1>3, <1>4, <2>1, <2>5, <2>6
<1> QED
  BY <1>6, <1>7, <1>8 DEF Decimal

\* What the bytes of a decimal are.
LEMMA DecimalBytes ==
  ASSUME NEW v \in Seq(Byte), Decimal(v)
  PROVE  /\ Len(v) >= 1 /\ Digit(v[1]) /\ Digit(v[Len(v)])
         /\ \A i \in 1 .. Len(v) : Digit(v[i]) \/ v[i] = Dot
<1>1. PICK len \in Nat : len = Len(v) /\ DOMAIN v = 1 .. len
  BY LenProperties
<1>2. CASE Digits(v)
  <2>1. len >= 1 /\ \A i \in 1 .. len : Digit(v[i])
    BY <1>1, <1>2, DigitsAre
  <2>2. 1 \in 1 .. len /\ len \in 1 .. len
    BY <2>1
  <2> QED
    BY <1>1, <2>1, <2>2
<1>3. CASE Fraction(v)
  <2>1. PICK m \in 2 .. len - 1 : v[m] = Dot /\ \A i \in 1 .. len \ {m} : Digit(v[i])
    BY <1>1, <1>3 DEF Fraction
  <2>2. 1 \in 1 .. len \ {m} /\ len \in 1 .. len \ {m} /\ len >= 1
    OBVIOUS
  <2>3. \A i \in 1 .. len : i = m \/ i \in 1 .. len \ {m}
    OBVIOUS
  <2> QED
    BY <1>1, <2>1, <2>2, <2>3
<1> QED
  BY <1>2, <1>3 DEF Decimal

LEMMA FractionsAre ==
  ASSUME NEW v \in Seq(Byte)
  PROVE  is_decimal(v) /\ (\E i \in DOMAIN v : v[i] = Dot) <=> Fraction(v)
<1>1. PICK len \in Nat : len = Len(v) /\ DOMAIN v = 1 .. len
  BY LenProperties
<1>2. ~Digit(Dot)
  BY DEF Digit, Dot
<1>3. is_decimal(v) <=> Decimal(v)
  BY DecimalsAre
<1>4. ASSUME is_decimal(v), \E i \in DOMAIN v : v[i] = Dot PROVE Fraction(v)
  <2>1. ~Digits(v)
    <3>1. Digits(v) => \A i \in 1 .. len : Digit(v[i])
      BY <1>1, DigitsAre
    <3> QED
      BY <1>1, <1>2, <1>4, <3>1
  <2> QED
    BY <1>3, <1>4, <2>1 DEF Decimal
<1>5. ASSUME Fraction(v) PROVE is_decimal(v) /\ \E i \in DOMAIN v : v[i] = Dot
  <2>1. PICK m \in 2 .. len - 1 : v[m] = Dot
    BY <1>1, <1>5 DEF Fraction
  <2>2. m \in DOMAIN v
    BY <1>1
  <2> QED
    BY <1>3, <1>5, <2>1, <2>2 DEF Decimal
<1> QED
  BY <1>4, <1>5

LEMMA ByteClasses ==
  ASSUME NEW b
  PROVE  /\ Digit(b) => b \notin Exponents /\ b \notin Signs /\ b # Dot
         /\ b = Dot => b \notin Exponents /\ b \notin Signs
BY DEF Digit, Exponents, Signs, Dot

\* The text around an exponent at e, with a sign of sign bytes.
Exponential(v, e, sign) ==
  /\ v[e] \in Exponents
  /\ Decimal(SubSeq(v, 1, e - 1))
  /\ sign = 1 => v[e + 1] \in Signs
  /\ Digits(From(v, e + 1 + sign))

LEMMA ExponentialIs ==
  ASSUME NEW v \in Seq(Byte), NEW e \in 1 .. Len(v), NEW sign \in {0, 1}
  PROVE  Exponential(v, e, sign) <=>
           /\ v[e] \in Exponents
           /\ is_decimal(SubSeq(v, 1, e - 1))
           /\ sign = 1 => v[e + 1] \in Signs
           /\ e + 1 + sign <= Len(v)
           /\ \A i \in e + 1 + sign .. Len(v) : Digit(v[i])
<1>1. PICK len \in Nat : len = Len(v)
  BY LenProperties
<1>2. e - 1 \in Nat /\ e - 1 <= Len(v) /\ e + 1 + sign \in Nat /\ e + 1 + sign >= 1
  BY <1>1
<1>3. SubSeq(v, 1, e - 1) \in Seq(Byte)
  BY <1>2, PrefixIs
<1>4. is_decimal(SubSeq(v, 1, e - 1)) <=> Decimal(SubSeq(v, 1, e - 1))
  BY <1>3, DecimalsAre
<1>5. Digits(From(v, e + 1 + sign)) <=>
        e + 1 + sign <= Len(v) /\ \A i \in e + 1 + sign .. Len(v) : Digit(v[i])
  BY <1>2, DigitsFrom
<1> QED
  BY <1>4, <1>5, Zenon DEF Exponential

\* The bytes before the exponent are digits and a dot.
LEMMA BeforeExponent ==
  ASSUME NEW v \in Seq(Byte), NEW e \in 1 .. Len(v), Decimal(SubSeq(v, 1, e - 1))
  PROVE  e >= 2 /\ Digit(v[1]) /\ \A i \in 1 .. e - 1 : Digit(v[i]) \/ v[i] = Dot
<1>1. PICK len \in Nat : len = Len(v)
  BY LenProperties
<1>2. e - 1 \in Nat /\ e - 1 <= Len(v)
  BY <1>1
<1>3. PICK w \in Seq(Byte) : w = SubSeq(v, 1, e - 1) /\ Len(w) = e - 1
                             /\ \A i \in 1 .. e - 1 : w[i] = v[i]
  BY <1>2, PrefixIs
<1>4. Len(w) >= 1 /\ Digit(w[1]) /\ \A i \in 1 .. Len(w) : Digit(w[i]) \/ w[i] = Dot
  BY <1>3, DecimalBytes
<1>5. e - 1 >= 1 /\ \A i \in 1 .. e - 1 : Digit(w[i]) \/ w[i] = Dot
  BY <1>3, <1>4
<1>6. e >= 2 /\ 1 \in 1 .. e - 1
  BY <1>1, <1>5
<1> QED
  BY <1>3, <1>4, <1>5, <1>6

LEMMA NumbersAre ==
  ASSUME NEW v \in Seq(Byte)
  PROVE  is_json_number(v) <=> Number(v)
<1>1. PICK len \in Nat : len = Len(v) /\ DOMAIN v = 1 .. len
  BY LenProperties
<1>2. Number(v) <=> Decimal(v) \/ \E e \in 2 .. len - 1, sign \in {0, 1} : Exponential(v, e, sign)
  BY <1>1, Zenon DEF Number, Exponential
<1>3. PICK exps \in SUBSET Nat : exps = {i \in DOMAIN v : v[i] \in Exponents}
  <2>1. {i \in 1 .. len : v[i] \in Exponents} \in SUBSET Nat
    OBVIOUS
  <2> QED
    BY <1>1, <2>1, Zenon
<1>4. \A i : i \in exps <=> i \in 1 .. len /\ v[i] \in Exponents
  BY <1>1, <1>3
<1>5. CASE exps = {}
  <2>1. is_json_number(v) <=> Decimal(v)
    BY <1>3, <1>5, DecimalsAre, Zenon DEF is_json_number
  <2>2. ASSUME NEW e \in 2 .. len - 1, NEW sign \in {0, 1}, Exponential(v, e, sign) PROVE FALSE
    <3>1. e \in 1 .. len /\ v[e] \in Exponents
      BY <2>2 DEF Exponential
    <3> QED
      BY <1>4, <1>5, <3>1
  <2> QED
    BY <1>2, <2>1, <2>2
<1>6. CASE exps # {}
  <2> DEFINE first == CHOOSE i \in exps : \A j \in exps : i <= j
  <2>1. first \in exps /\ \A j \in exps : first <= j
    BY <1>6, Least, Zenon
  <2>2. PICK e \in exps : e = first /\ \A j \in exps : e <= j
    BY <2>1
  <2>3. PICK sign \in {0, 1} : sign = IF e < len /\ v[e + 1] \in Signs THEN 1 ELSE 0
    OBVIOUS
  <2>4. is_json_number(v) <=> is_decimal(SubSeq(v, 1, e - 1)) /\ Digits(From(v, e + 1 + sign))
    BY <1>1, <1>3, <1>6, <2>2, <2>3, Zenon DEF is_json_number
  <2>5. e \in 1 .. len /\ v[e] \in Exponents
    BY <1>4
  <2> HIDE DEF first
  <2>6. ~Decimal(v)
    <3> SUFFICES ASSUME Decimal(v) PROVE FALSE
      OBVIOUS
    <3>1. Digit(v[e]) \/ v[e] = Dot
      BY <1>1, <2>5, DecimalBytes
    <3> QED
      BY <2>5, <3>1, ByteClasses
  <2>7. sign = 1 => v[e + 1] \in Signs
    BY <2>3
  <2>8. is_json_number(v) <=> Exponential(v, e, sign)
    <3>1. SubSeq(v, 1, e - 1) \in Seq(Byte)
      <4>1. e - 1 \in Nat /\ e - 1 <= Len(v)
        BY <1>1, <2>5
      <4> QED
        BY <4>1, PrefixIs
    <3>2. is_decimal(SubSeq(v, 1, e - 1)) <=> Decimal(SubSeq(v, 1, e - 1))
      BY <3>1, DecimalsAre
    <3> QED
      BY <2>4, <2>5, <2>7, <3>2, Zenon DEF Exponential
  <2>9. ASSUME Exponential(v, e, sign) PROVE e \in 2 .. len - 1
    <3>1. e >= 2
      BY <1>1, <2>5, <2>9, BeforeExponent DEF Exponential
    <3>2. e + 1 + sign <= len
      BY <1>1, <2>5, <2>9, ExponentialIs
    <3> QED
      BY <2>5, <3>1, <3>2
  <2>10. ASSUME NEW k \in 2 .. len - 1, NEW s \in {0, 1}, Exponential(v, k, s)
         PROVE  Exponential(v, e, sign)
    <3>1. k \in 1 .. len /\ k \in exps
      <4>1. k \in 1 .. len /\ v[k] \in Exponents
        BY <2>10 DEF Exponential
      <4> QED
        BY <1>4, <4>1
    <3>2. e <= k
      BY <2>2, <3>1
    <3>3. ~(e < k)
      <4> SUFFICES ASSUME e < k PROVE FALSE
        OBVIOUS
      <4>1. e \in 1 .. k - 1
        BY <2>5, <3>1
      <4>2. Digit(v[e]) \/ v[e] = Dot
        BY <1>1, <2>10, <3>1, <4>1, BeforeExponent DEF Exponential
      <4> QED
        BY <2>5, <4>2, ByteClasses
    <3>4. e = k
      BY <2>5, <3>1, <3>2, <3>3
    <3>5. /\ s = 1 => v[e + 1] \in Signs
          /\ e + 1 + s <= len
          /\ \A i \in e + 1 + s .. len : Digit(v[i])
      BY <1>1, <2>10, <3>1, <3>4, ExponentialIs
    <3>6. s = sign
      <4>1. CASE s = 1
        BY <2>3, <2>5, <3>5, <4>1
      <4>2. CASE s = 0
        <5>1. e + 1 \in e + 1 + s .. len
          BY <2>5, <3>5, <4>2
        <5>2. v[e + 1] \notin Signs
          BY <3>5, <5>1, ByteClasses
        <5> QED
          BY <2>3, <4>2, <5>2
      <4> QED
        BY <4>1, <4>2
    <3> QED
      BY <2>10, <3>4, <3>6
  <2> QED
    BY <1>2, <2>6, <2>8, <2>9, <2>10
<1> QED
  BY <1>5, <1>6

\* A number is a JSON number where it is pasted.
LEMMA NumberStands ==
  ASSUME NEW v \in Seq(Byte), Number(v)
  PROVE  InNumber(v)
<1>1. PICK len \in Nat : len = Len(v) /\ DOMAIN v = 1 .. len /\ (v = << >> <=> len = 0)
  BY LenProperties, EmptySeq
<1>2. CASE Decimal(v)
  <2>1. /\ len >= 1 /\ Digit(v[1]) /\ Digit(v[len])
        /\ \A i \in 1 .. len : Digit(v[i]) \/ v[i] = Dot
    BY <1>1, <1>2, DecimalBytes
  <2>2. v # << >>
    BY <1>1, <2>1
  <2> QED
    BY <1>1, <2>1, <2>2 DEF InNumber
<1>3. CASE \E e \in 2 .. len - 1, sign \in {0, 1} : Exponential(v, e, sign)
  <2>1. PICK e \in 2 .. len - 1, sign \in {0, 1} : Exponential(v, e, sign)
    BY <1>3
  <2>2. e \in 1 .. Len(v)
    BY <1>1
  <2>3. /\ v[e] \in Exponents /\ (sign = 1 => v[e + 1] \in Signs)
        /\ e + 1 + sign <= len
        /\ \A i \in e + 1 + sign .. len : Digit(v[i])
    BY <1>1, <2>1, <2>2, ExponentialIs
  <2>4. Digit(v[1]) /\ \A i \in 1 .. e - 1 : Digit(v[i]) \/ v[i] = Dot
    BY <2>1, <2>2, BeforeExponent DEF Exponential
  <2>5. Digit(v[len])
    <3>1. len \in e + 1 + sign .. len
      BY <2>3
    <3> QED
      BY <2>3, <3>1
  <2>6. ASSUME NEW i \in 1 .. len
        PROVE  Digit(v[i]) \/ v[i] \in {Dot} \cup Exponents \cup Signs
    <3>1. i \in 1 .. e - 1 \/ i = e \/ (i = e + 1 /\ sign = 1) \/ i \in e + 1 + sign .. len
      OBVIOUS
    <3> QED
      BY <2>3, <2>4, <3>1
  <2>7. v # << >>
    BY <1>1
  <2> QED
    BY <1>1, <2>4, <2>5, <2>6, <2>7 DEF InNumber
<1>4. Decimal(v) \/ \E e \in 2 .. len - 1, sign \in {0, 1} : Exponential(v, e, sign)
  BY <1>1, Zenon DEF Number, Exponential
<1> QED
  BY <1>2, <1>3, <1>4

-----------------------------------------------------------------------------
(* The fields.                                                             *)

\* The field checks accept what the grammar describes, field by field.
LEMMA AllowedIsGrammatical ==
  ASSUME NEW v \in Seq(Byte), NEW field \in 0 .. FIELDS - 1, NEW tx_type
  PROVE  field_allowed(field, v, tx_type) <=> Grammatical(field, v, tx_type)
<1> USE DEF RECIPIENT, RECIPIENT_CHAIN, NETWORK, AMOUNT, NAMESPACE, MODULE_, GAS_PRICE,
            GAS_LIMIT, CREATION_TIME, CHAIN_ID, NONCE, TTL, FIELDS
<1>1. CASE field = AMOUNT
  <2>1. field_allowed(field, v, tx_type) <=> is_decimal(v) /\ \E i \in DOMAIN v : v[i] = Dot
    BY <1>1 DEF field_allowed
  <2>2. Grammatical(field, v, tx_type) <=> Fraction(v)
    BY <1>1 DEF Grammatical
  <2> QED
    BY <2>1, <2>2, FractionsAre
<1>2. CASE field \in {GAS_LIMIT, CREATION_TIME, TTL}
  <2>1. field_allowed(field, v, tx_type) <=> is_decimal(v)
    BY <1>2 DEF field_allowed
  <2>2. Grammatical(field, v, tx_type) <=> Decimal(v)
    BY <1>2 DEF Grammatical
  <2> QED
    BY <2>1, <2>2, DecimalsAre
<1>3. CASE field = GAS_PRICE
  <2>1. field_allowed(field, v, tx_type) <=> is_json_number(v)
    BY <1>3 DEF field_allowed
  <2>2. Grammatical(field, v, tx_type) <=> Number(v)
    BY <1>3 DEF Grammatical
  <2> QED
    BY <2>1, <2>2, NumbersAre
<1>4. CASE field \notin {AMOUNT, GAS_LIMIT, CREATION_TIME, TTL, GAS_PRICE}
  <2>1. /\ field # AMOUNT /\ field \notin {GAS_LIMIT, CREATION_TIME, TTL} /\ field # GAS_PRICE
    BY <1>4
  <2> QED
    BY <2>1, Zenon DEF Grammatical
<1> QED
  BY <1>1, <1>2, <1>3, <1>4

LEMMA NumeralsStand ==
  ASSUME NEW v \in Seq(Byte), NEW tx_type,
         NEW field \in {AMOUNT, GAS_LIMIT, CREATION_TIME, TTL, GAS_PRICE},
         Grammatical(field, v, tx_type)
  PROVE  InNumber(v)
<1> USE DEF AMOUNT, GAS_PRICE, GAS_LIMIT, CREATION_TIME, TTL
<1>1. Fraction(v) \/ Decimal(v) \/ Number(v)
  BY DEF Grammatical
<1>2. Number(v)
  BY <1>1 DEF Number, Decimal
<1> QED
  BY <1>2, NumberStands

LEMMA StringBytes ==
  ASSUME NEW b \in Nat,
         Digit(b) \/ Lower(b) \/ Upper(b) \/ b \in {45, 95, 46} \/ FreeText(b)
  PROVE  b >= 32 /\ b \notin {Quote, Escape_}
<1>1. CASE Digit(b)
  BY <1>1 DEF Digit, Quote, Escape_
<1>2. CASE Lower(b)
  BY <1>2 DEF Lower, Quote, Escape_
<1>3. CASE Upper(b)
  BY <1>3 DEF Upper, Quote, Escape_
<1>4. CASE b \in {45, 95, 46}
  BY <1>4 DEF Quote, Escape_
<1>5. CASE FreeText(b)
  BY <1>5 DEF FreeText, Quote, Escape_
<1> QED
  BY <1>1, <1>2, <1>3, <1>4, <1>5

LEMMA NameBytes ==
  ASSUME NEW b \in Nat, is_pact_ident(b)
  PROVE  b \in 33 .. 126 /\ b \notin {34, 39, 40, 41, 44, 46, 58, 59, 91, 92, 93, 123, 125}
<1>1. CASE Digit(b)
  BY <1>1 DEF Digit
<1>2. CASE Lower(b)
  BY <1>2 DEF Lower
<1>3. CASE Upper(b)
  BY <1>3 DEF Upper
<1>4. CASE b \in {37, 35, 43, 45, 95, 38, 36, 64, 60, 62, 61, 63, 42, 33, 124, 47}
  BY <1>4
<1> QED
  BY <1>1, <1>2, <1>3, <1>4 DEF is_pact_ident

LEMMA StringsStand ==
  ASSUME NEW v \in Seq(Byte), NEW tx_type,
         NEW field \in {RECIPIENT, NETWORK, CHAIN_ID, NONCE, RECIPIENT_CHAIN},
         field_allowed(field, v, tx_type)
  PROVE  InString(v)
<1> USE DEF RECIPIENT, RECIPIENT_CHAIN, NETWORK, AMOUNT, NAMESPACE, MODULE_, GAS_PRICE,
            GAS_LIMIT, CREATION_TIME, CHAIN_ID, NONCE, TTL, FIELDS
<1> SUFFICES ASSUME NEW i \in DOMAIN v PROVE v[i] >= 32 /\ v[i] \notin {Quote, Escape_}
  BY DEF InString
<1>1. PICK b \in Nat : b = v[i]
  BY LenProperties, ElementOfSeq, BytesAreNaturals
<1>2. CASE field = RECIPIENT
  <2>1. Digit(b) \/ b \in 97 .. 102
    BY <1>1, <1>2 DEF field_allowed, All
  <2>2. b \in 97 .. 102 => Lower(b)
    BY DEF Lower
  <2> QED
    BY <1>1, <2>1, <2>2, StringBytes
<1>3. CASE field \in {RECIPIENT_CHAIN, CHAIN_ID}
  <2>1. Digit(b)
    BY <1>1, <1>3 DEF field_allowed, All, Digits
  <2> QED
    BY <1>1, <2>1, StringBytes
<1>4. CASE field = NETWORK
  <2>1. Digit(b) \/ Lower(b) \/ Upper(b) \/ b \in {45, 95, 46}
    BY <1>1, <1>4 DEF field_allowed, All
  <2> QED
    BY <1>1, <2>1, StringBytes
<1>5. CASE field = NONCE
  <2>1. FreeText(b)
    BY <1>1, <1>5 DEF field_allowed, All
  <2> QED
    BY <1>1, <2>1, StringBytes
<1> QED
  BY <1>2, <1>3, <1>4, <1>5

LEMMA NamesStand ==
  ASSUME NEW v \in Seq(Byte), NEW tx_type, NEW field \in {NAMESPACE, MODULE_},
         field_allowed(field, v, tx_type), v # << >>
  PROVE  InName(v)
<1> USE DEF RECIPIENT, RECIPIENT_CHAIN, NETWORK, AMOUNT, NAMESPACE, MODULE_, GAS_PRICE,
            GAS_LIMIT, CREATION_TIME, CHAIN_ID, NONCE, TTL, FIELDS
<1> SUFFICES ASSUME NEW i \in DOMAIN v
             PROVE  /\ v[i] \in 33 .. 126
                    /\ v[i] \notin {34, 39, 40, 41, 44, 46, 58, 59, 91, 92, 93, 123, 125}
  BY DEF InName
<1>1. PICK b \in Nat : b = v[i]
  BY LenProperties, ElementOfSeq, BytesAreNaturals
<1>2. is_pact_ident(b)
  BY <1>1 DEF field_allowed, All
<1> QED
  BY <1>1, <1>2, NameBytes

\* No field changes the structure of the JSON or of the Pact code it is pasted into.
THEOREM StructureSafe == TransferSpec => []NoFieldAddsStructure
<1>1. OutcomeIsOfThePayload => NumbersAreTheGrammar
  <2> SUFFICES ASSUME OutcomeIsOfThePayload PROVE NumbersAreTheGrammar
    OBVIOUS
  <2>1. PICK f : f = FieldsAt(payload, Offsets(payload))
    OBVIOUS
  <2>2. ASSUME Passed(payload, f)
        PROVE  AllAllowed(f, payload[1]) <=>
                 \A field \in 0 .. FIELDS - 1 : Grammatical(field, f[field], payload[1])
    <3>1. \A field \in 0 .. FIELDS - 1 : f[field] \in Seq(Byte)
      BY <2>1, <2>2, FieldLengths DEF OutcomeIsOfThePayload
    <3> QED
      BY <3>1, AllowedIsGrammatical DEF AllAllowed
  <2>3. ASSUME Built
        PROVE  /\ outcome.fields = f
               /\ \A field \in 0 .. FIELDS - 1 : Grammatical(field, f[field], payload[1])
    <3>1. payload \in Seq(Byte) /\ outcome = build(payload, device) /\ outcome.error = "none"
      BY <2>3, NotBuiltFacts DEF OutcomeIsOfThePayload, Built
    <3>2. Passed(payload, f) /\ AllAllowed(f, payload[1]) /\ outcome.fields = f
      BY <2>1, <3>1, BuiltFacts
    <3> QED
      BY <2>2, <3>2
  <2>4. ASSUME outcome.error = "UnexpectedCharacters"
        PROVE  ~\A field \in 0 .. FIELDS - 1 : Grammatical(field, f[field], payload[1])
    <3>1. payload \in Seq(Byte) /\ outcome = build(payload, device)
      BY <2>4, NotBuiltFacts DEF OutcomeIsOfThePayload
    <3>2. Passed(payload, f) /\ ~AllAllowed(f, payload[1])
      BY <2>1, <2>4, <3>1, CharactersFacts
    <3> QED
      BY <2>2, <3>2
  <2> QED
    BY <2>1, <2>3, <2>4, Zenon DEF NumbersAreTheGrammar
<1>2. OutcomeIsOfThePayload /\ Built =>
        /\ \A v \in Strings : InString(v)
        /\ \A i \in DOMAIN Name : InName(Name[i])
        /\ \A v \in Numerals : InNumber(v)
        /\ InNumber(Of.code.amount) /\ \E i \in DOMAIN Of.code.amount : Of.code.amount[i] = Dot
  <2> SUFFICES ASSUME OutcomeIsOfThePayload, Built
               PROVE  /\ \A v \in Strings : InString(v)
                      /\ \A i \in DOMAIN Name : InName(Name[i])
                      /\ \A v \in Numerals : InNumber(v)
                      /\ InNumber(Of.code.amount)
                      /\ \E i \in DOMAIN Of.code.amount : Of.code.amount[i] = Dot
    OBVIOUS
  <2>1. payload \in Seq(Byte) /\ outcome = build(payload, device) /\ outcome.error = "none"
    BY NotBuiltFacts DEF OutcomeIsOfThePayload, Built
  <2>2. PICK f : f = FieldsAt(payload, Offsets(payload))
    OBVIOUS
  <2>3. PICK t : /\ t = payload[1] /\ t \in 0 .. 2 /\ Of = Template(f, t, device)
                 /\ Passed(payload, f) /\ AllAllowed(f, t)
    BY <2>1, <2>2, BuiltFacts DEF Passed, Of
  <2>4. \A i \in 0 .. FIELDS - 1 : f[i] \in Seq(Byte) /\ field_allowed(i, f[i], t)
    BY <2>1, <2>2, <2>3, FieldLengths DEF AllAllowed
  <2>5. /\ RECIPIENT \in 0 .. FIELDS - 1 /\ RECIPIENT_CHAIN \in 0 .. FIELDS - 1
        /\ NETWORK \in 0 .. FIELDS - 1 /\ CHAIN_ID \in 0 .. FIELDS - 1 /\ NONCE \in 0 .. FIELDS - 1
        /\ NAMESPACE \in 0 .. FIELDS - 1 /\ MODULE_ \in 0 .. FIELDS - 1
        /\ AMOUNT \in 0 .. FIELDS - 1 /\ GAS_LIMIT \in 0 .. FIELDS - 1
        /\ CREATION_TIME \in 0 .. FIELDS - 1 /\ TTL \in 0 .. FIELDS - 1
        /\ GAS_PRICE \in 0 .. FIELDS - 1
    BY DEF RECIPIENT, RECIPIENT_CHAIN, NETWORK, AMOUNT, NAMESPACE, MODULE_, GAS_PRICE,
           GAS_LIMIT, CREATION_TIME, CHAIN_ID, NONCE, TTL, FIELDS
  <2>6. \A i \in {RECIPIENT, NETWORK, CHAIN_ID, NONCE, RECIPIENT_CHAIN} : InString(f[i])
    BY <2>4, <2>5, StringsStand
  <2>7. \A i \in {AMOUNT, GAS_LIMIT, CREATION_TIME, TTL, GAS_PRICE} : InNumber(f[i])
    <3>1. \A i \in {AMOUNT, GAS_LIMIT, CREATION_TIME, TTL, GAS_PRICE} :
            f[i] \in Seq(Byte) /\ Grammatical(i, f[i], t)
      BY <2>4, <2>5, AllowedIsGrammatical
    <3> QED
      BY <3>1, NumeralsStand
  <2>8. \A i \in {NAMESPACE, MODULE_} : f[i] # << >> => InName(f[i])
    BY <2>4, <2>5, NamesStand
  <2>9. \E i \in DOMAIN f[AMOUNT] : f[AMOUNT][i] = Dot
    <3>1. f[AMOUNT] \in Seq(Byte) /\ Grammatical(AMOUNT, f[AMOUNT], t)
      BY <2>4, <2>5, AllowedIsGrammatical
    <3>2. Fraction(f[AMOUNT])
      BY <3>1 DEF Grammatical, AMOUNT, GAS_LIMIT, CREATION_TIME, TTL, GAS_PRICE
    <3> QED
      BY <3>1, <3>2, FractionsAre
  <2>10. /\ Of.networkId = f[NETWORK] /\ Of.nonce = f[NONCE]
         /\ Of.code = Code(f, t, device) /\ Of.scope = Scope(f, t, device)
         /\ Of.data = IF t = TX_TYPE_TRANSFER THEN << >> ELSE <<f[RECIPIENT]>>
         /\ Of.meta.chainId = f[CHAIN_ID] /\ Of.meta.creationTime = f[CREATION_TIME]
         /\ Of.meta.ttl = f[TTL] /\ Of.meta.gasLimit = f[GAS_LIMIT]
         /\ Of.meta.gasPrice = f[GAS_PRICE]
    BY <2>3 DEF Template
  <2>11. /\ Of.code.module = nsmod(f) /\ Of.code.receiver = f[RECIPIENT]
         /\ Of.scope.receiver = f[RECIPIENT] /\ Of.code.amount = f[AMOUNT]
         /\ Of.scope.amount = f[AMOUNT] /\ Of.code.chain = OnCrosschain(t, f[RECIPIENT_CHAIN])
    BY <2>10 DEF Code, Scope
  <2>12. ASSUME NEW v \in Strings PROVE InString(v)
    <3>1. CASE v \in {Of.networkId, Of.code.receiver, Of.scope.receiver, Of.meta.chainId, Of.nonce}
      BY <2>6, <2>10, <2>11, <3>1
    <3>2. CASE v \in {Of.data[i] : i \in DOMAIN Of.data}
      <4>1. v = f[RECIPIENT]
        BY <2>10, <3>2
      <4> QED
        BY <2>6, <4>1
    <3>3. CASE v \in {Of.code.chain[i] : i \in DOMAIN Of.code.chain}
      <4>1. v = f[RECIPIENT_CHAIN]
        BY <2>11, <3>3 DEF OnCrosschain
      <4> QED
        BY <2>6, <4>1
    <3> QED
      BY <2>12, <3>1, <3>2, <3>3, Zenon DEF Strings
  <2>13. ASSUME NEW i \in DOMAIN Name PROVE InName(Name[i])
    <3>1. CASE use_ns(f)
      <4>1. Name = <<f[NAMESPACE], f[MODULE_]>>
        BY <2>11, <3>1 DEF Name, nsmod
      <4>2. Name[i] = f[NAMESPACE] \/ Name[i] = f[MODULE_]
        BY <4>1
      <4> QED
        BY <2>8, <3>1, <4>2 DEF use_ns
    <3>2. CASE ~use_ns(f)
      <4>1. Name = << >>
        BY <2>11, <3>2 DEF Name, nsmod, coin
      <4> QED
        BY <4>1
    <3> QED
      BY <3>1, <3>2
  <2>14. ASSUME NEW v \in Numerals PROVE InNumber(v)
    BY <2>7, <2>10, <2>11, Zenon DEF Numerals
  <2> QED
    BY <2>7, <2>9, <2>11, <2>12, <2>13, <2>14, Zenon
<1>3. OutcomeIsOfThePayload => NoFieldAddsStructure
  BY <1>1, <1>2, Zenon DEF NoFieldAddsStructure
<1> QED
  BY <1>3, TransferInvariant, PTL

-----------------------------------------------------------------------------
(* The review of what was built.  The invariants of Items hold of it, for  *)
(* they ask of a command no more than that it is Listed; KindInv is what   *)
(* sets the reviews of coin and token transfers apart.                     *)

\* The titles of each kind of review that the other does not have.
Cautioning == {"Warning", "Caution", "UnscopedSigner", "KeyNotInTransfer"}
Moving == {"Transfer", "From", "To", "Amount", "ToChain"}
Blinding == {"Warning", "TxTooLarge", "Caution", "RotateWarning", "CapNotVerified"}

\* The capability of the template that is not coin.GAS.
Scoped == cmd.signers[1].clist.caps[1]

\* What the review makes use of in the command of a template.
TemplateCommand ==
  /\ cmd.type = "Transfer" /\ Listed(cmd) /\ Len(cmd.signers) = 1
  /\ cmd.signers[1].clist.kind = "array" /\ Len(cmd.signers[1].clist.caps) = 2
  /\ cmd.signers[1].clist.caps[2].object /\ cmd.signers[1].clist.caps[2].name = "coin.GAS"
  /\ Scoped.object /\ Scoped.hasArgs
  /\ 1 \in DOMAIN Scoped.args /\ NamesKey(Scoped.args[1]) /\ IsPrincipal(Scoped.args[2])
  /\ IF IsToken THEN Scoped.name = "ns.mod.CAP"
     ELSE \/ Scoped.name = "coin.TRANSFER" /\ Len(Scoped.args) = 3
          \/ Scoped.name = "coin.TRANSFER_XCHAIN" /\ Len(Scoped.args) = 4
  /\ cmd.meta.kind = "object" /\ DOMAIN cmd.meta.fields = {META_KEYWORDS[k] : k \in 1 .. 6}

\* An item that does not make the review one of the other kind.
Suits(x) == IF IsToken THEN x.key \notin Moving ELSE x.key \notin Cautioning /\ x.render \notin Blinding

\* The loop is past the first capability.
PastScoped == step \notin BeforeCaps /\ (step = "caps" => cap > 1)

\* A slot whose value is not known to be too long.
Displayed(x) == "display" \in DOMAIN x /\ x.display = TRUE

KindInv ==
  /\ \A n \in 0 .. num - 1 : Suits(slots[n])
  /\ ~IsToken => \A n \in 0 .. MAX_ITEMS - 1 : Displayed(slots[n])
  /\ IsToken /\ PastScoped /\ result \in {"running", "accepted"} => {"Warning", "Namespace"} \subseteq Titles

LEMMA CommandIs ==
  ASSUME NEW t, NEW c \in CommandsOf(t)
  PROVE  /\ c.type = "Transfer" /\ Len(c.signers) = 1 /\ DOMAIN c.signers = 1 .. 1
         /\ c.signers[1].clist.kind = "array"
         /\ c.signers[1].clist.caps
              = << Capability(ScopeName(t.scope), ScopeArgs(t.scope, t.pubKey)), Capability("coin.GAS", <<>>) >>
         /\ c.meta.kind = "object"
         /\ DOMAIN c.meta.fields = {"creationTime", "ttl", "gasLimit", "chainId", "gasPrice", "sender"}
<1> DEFINE caps == << Capability(ScopeName(t.scope), ScopeArgs(t.scope, t.pubKey)),
                      Capability("coin.GAS", <<>>) >>
           fields(price) == [ creationTime |-> IntegerClass(t.meta.creationTime),
                              ttl |-> IntegerClass(t.meta.ttl),
                              gasLimit |-> IntegerClass(t.meta.gasLimit),
                              chainId |-> TextClass(t.meta.chainId),
                              gasPrice |-> price,
                              sender |-> AccountClass(t.meta.sender, t.pubKey) ]
           clist == [kind |-> "array", caps |-> caps]
           entry == [object |-> TRUE, pubKey |-> "key", addr |-> "missing", clist |-> clist]
           made(price) == [ type |-> "Transfer", verifiers |-> FALSE, networkId |-> TextClass(t.networkId),
                            signersKind |-> "array", signers |-> <<entry>>,
                            meta |-> [kind |-> "object", fields |-> fields(price)],
                            payload |-> [kind |-> "exec", pactId |-> "missing", step |-> "missing"],
                            template |-> t ]
<1>1. PICK price : c = made(price)
  BY Zenon DEF CommandsOf
<1>2. DOMAIN fields(price) = {"creationTime", "ttl", "gasLimit", "chainId", "gasPrice", "sender"}
  OBVIOUS
<1> HIDE DEF caps, fields
<1>3. clist.kind = "array" /\ clist.caps = caps
  OBVIOUS
<1> HIDE DEF clist
<1>4. entry.clist = clist
  OBVIOUS
<1> HIDE DEF entry
<1>5. Len(<<entry>>) = 1 /\ DOMAIN <<entry>> = 1 .. 1 /\ <<entry>>[1] = entry
  OBVIOUS
<1>6. /\ c.type = "Transfer" /\ c.signers = <<entry>>
      /\ c.meta.kind = "object" /\ c.meta.fields = fields(price)
  BY <1>1
<1> QED
  BY <1>2, <1>3, <1>4, <1>5, <1>6, Zenon DEF caps

LEMMA CapabilityIs ==
  ASSUME NEW name, NEW args
  PROVE  /\ Capability(name, args).object /\ Capability(name, args).name = name
         /\ Capability(name, args).hasArgs /\ Capability(name, args).args = args
BY DEF Capability

\* The arguments of the scope.
LEMMA ScopeArgsAre ==
  ASSUME NEW scope, NEW addr, NEW v, scope.sender = addr, scope.chain = << >> \/ scope.chain = <<v>>
  PROVE  /\ 1 \in DOMAIN ScopeArgs(scope, addr)
         /\ NamesKey(ScopeArgs(scope, addr)[1]) /\ IsPrincipal(ScopeArgs(scope, addr)[2])
         /\ scope.chain = << >> => Len(ScopeArgs(scope, addr)) = 3
         /\ scope.chain = <<v>> => Len(ScopeArgs(scope, addr)) = 4
         /\ Len(ScopeArgs(scope, addr)) \in Nat
<1> DEFINE a == AccountClass(scope.sender, addr)
           b == AccountClass(scope.receiver, addr)
           n == AmountClass(scope.amount)
           S == {"device", "principal", "number", "other", "name"}
           more == IF scope.chain = <<>> THEN <<>> ELSE <<"name">>
<1>1. a = "device" /\ b \in {"device", "principal"} /\ a \in S /\ b \in S /\ n \in S
  BY DEF AccountClass, AmountClass
<1>2. /\ more \in Seq(S) /\ (scope.chain = << >> => Len(more) = 0)
      /\ (scope.chain = <<v>> => Len(more) = 1) /\ Len(more) \in Nat
  <2>1. CASE scope.chain = << >>
    BY <2>1
  <2>2. CASE scope.chain = <<v>>
    <3>1. <<v>> # << >>
      OBVIOUS
    <3>2. more = <<"name">>
      BY <2>2, <3>1
    <3> QED
      BY <2>2, <3>1, <3>2
  <2> QED
    BY <2>1, <2>2
<1>3. ScopeArgs(scope, addr) = <<a, b, n>> \o more
  BY Zenon DEF ScopeArgs
<1> HIDE DEF a, b, n, S, more
<1>4. PICK u \in Seq(S) : u = <<a, b, n>> /\ Len(u) = 3 /\ u[1] = a /\ u[2] = b
  <2>1. <<a, b, n>> \in Seq(S)
    BY <1>1
  <2>2. Len(<<a, b, n>>) = 3 /\ <<a, b, n>>[1] = a /\ <<a, b, n>>[2] = b
    OBVIOUS
  <2> QED
    BY <2>1, <2>2, Zenon
<1>5. PICK w \in Seq(S) : w = more
  BY <1>2
<1>6. /\ Len(u \o w) = Len(u) + Len(w) /\ u \o w \in Seq(S)
      /\ \A i \in 1 .. Len(u) + Len(w) : (u \o w)[i] = IF i <= Len(u) THEN u[i] ELSE w[i - Len(u)]
  BY ConcatProperties
<1>7. PICK m \in Nat : m = Len(w) /\ Len(u \o w) = 3 + m /\ DOMAIN (u \o w) = 1 .. 3 + m
  BY <1>2, <1>4, <1>5, <1>6, LenProperties
<1>8. 1 \in 1 .. 3 + m /\ 2 \in 1 .. 3 + m
  OBVIOUS
<1>9. (u \o w)[1] = a /\ (u \o w)[2] = b
  BY <1>4, <1>6, <1>7, <1>8
<1>10. /\ scope.chain = << >> => 3 + m = 3
       /\ scope.chain = <<v>> => 3 + m = 4
  BY <1>2, <1>5, <1>7, SMTT(30)
<1>11. ScopeArgs(scope, addr) = u \o w
  BY <1>3, <1>4, <1>5
<1> QED
  BY <1>1, <1>7, <1>8, <1>9, <1>10, <1>11 DEF NamesKey, IsPrincipal

\* What the review makes use of holds of the command of a template.
LEMMA CommandOfTemplate ==
  ASSUME NEW f, NEW t \in 0 .. 2, Of = Template(f, t, device), cmd \in CommandsOf(Of)
  PROVE  TemplateCommand
<1> DEFINE scope == Of.scope
           key == Of.pubKey
           name == ScopeName(scope)
           args == ScopeArgs(scope, key)
<1>1. /\ Of.code.module = nsmod(f) /\ scope.module = nsmod(f)
      /\ scope.sender = key
      /\ scope.chain = OnCrosschain(t, f[RECIPIENT_CHAIN])
      /\ scope.name = IF t = TX_TYPE_TRANSFER_CROSSCHAIN THEN "TRANSFER_XCHAIN" ELSE "TRANSFER"
  BY DEF Template, Code, Scope
<1>2. scope.module = coin <=> ~IsToken
  BY <1>1 DEF IsToken
<1>3. PICK v : v = f[RECIPIENT_CHAIN]
  OBVIOUS
<1>4. /\ t = TX_TYPE_TRANSFER_CROSSCHAIN => scope.name = "TRANSFER_XCHAIN" /\ scope.chain = <<v>>
      /\ t # TX_TYPE_TRANSFER_CROSSCHAIN => scope.name = "TRANSFER" /\ scope.chain = << >>
  BY <1>1, <1>3 DEF OnCrosschain
<1>5. /\ cmd.type = "Transfer" /\ Len(cmd.signers) = 1 /\ DOMAIN cmd.signers = 1 .. 1
      /\ cmd.signers[1].clist.kind = "array"
      /\ cmd.signers[1].clist.caps = <<Capability(name, args), Capability("coin.GAS", <<>>)>>
      /\ cmd.meta.kind = "object"
      /\ DOMAIN cmd.meta.fields = {"creationTime", "ttl", "gasLimit", "chainId", "gasPrice", "sender"}
  BY CommandIs
<1>6. /\ 1 \in DOMAIN args /\ NamesKey(args[1]) /\ IsPrincipal(args[2])
      /\ scope.chain = << >> => Len(args) = 3
      /\ scope.chain = <<v>> => Len(args) = 4
  BY <1>1, <1>4, ScopeArgsAre, ZenonT(60)
<1>7. /\ IsToken => name = "ns.mod.CAP"
      /\ ~IsToken /\ scope.name = "TRANSFER" => name = "coin.TRANSFER"
      /\ ~IsToken /\ scope.name = "TRANSFER_XCHAIN" => name = "coin.TRANSFER_XCHAIN"
  BY <1>2 DEF ScopeName
<1> HIDE DEF scope, key, name, args
<1>8. PICK x, y : x = Capability(name, args) /\ y = Capability("coin.GAS", <<>>)
  OBVIOUS
<1>9. PICK caps : caps = <<x, y>>
  OBVIOUS
<1>10. caps[1] = x /\ caps[2] = y /\ Len(caps) = 2 /\ DOMAIN caps = 1 .. 2
  BY <1>9
<1>11. cmd.signers[1].clist.caps = caps
  BY <1>5, <1>8, <1>9, Zenon
<1>12. /\ x.object /\ x.hasArgs /\ x.name = name /\ x.args = args /\ y.object /\ y.name = "coin.GAS"
  BY <1>8, CapabilityIs
<1>13. Listed(cmd)
  <2>1. 1 \in Nat /\ 2 \in Nat /\ \A i \in 1 .. 1 : i = 1
    OBVIOUS
  <2>2. cmd.signers[1].clist.kind \notin {"missing", "null"}
    BY <1>5
  <2> QED
    BY <1>5, <1>10, <1>11, <2>1, <2>2 DEF Listed
<1>14. {META_KEYWORDS[k] : k \in 1 .. 6} = {"creationTime", "ttl", "gasLimit", "chainId", "gasPrice", "sender"}
  <2>1. /\ META_KEYWORDS[1] = "creationTime" /\ META_KEYWORDS[2] = "ttl" /\ META_KEYWORDS[3] = "gasLimit"
        /\ META_KEYWORDS[4] = "chainId" /\ META_KEYWORDS[5] = "gasPrice" /\ META_KEYWORDS[6] = "sender"
    BY DEF META_KEYWORDS
  <2>2. 1 .. 6 = {1, 2, 3, 4, 5, 6}
    OBVIOUS
  <2> HIDE DEF META_KEYWORDS
  <2> QED
    BY <2>1, <2>2, ZenonT(60)
<1>15. Scoped = x
  BY <1>10, <1>11 DEF Scoped
<1>16. IF IsToken THEN x.name = "ns.mod.CAP"
       ELSE \/ x.name = "coin.TRANSFER" /\ Len(x.args) = 3
            \/ x.name = "coin.TRANSFER_XCHAIN" /\ Len(x.args) = 4
  BY <1>4, <1>6, <1>7, <1>12
<1> QED
  BY <1>5, <1>6, <1>10, <1>11, <1>12, <1>13, <1>14, <1>15, <1>16, Zenon DEF TemplateCommand

LEMMA SameTemplateCommand ==
  ASSUME TemplateCommand, cmd' = cmd, outcome' = outcome
  PROVE  TemplateCommand' /\ IsToken' = IsToken
BY DEF TemplateCommand, Scoped, IsToken, Of

\* An item that a push stores; those of a coin transfer are never too long to show.
Fits(item) == Suits(item) /\ (~IsToken => item.display = TRUE)

LEMMA KindPush ==
  ASSUME IInv, KindInv, outcome' = outcome,
         NEW list, Len(list) \in Nat, NEW then, Push(list, then), Pushed(list, then),
         ~Refuse("UnexpectedError"),
         \A k \in 1 .. Len(list) : Fits(list[k])
  PROVE  /\ \A n \in 0 .. num' - 1 : Suits(slots[n])'
         /\ ~IsToken => \A n \in 0 .. MAX_ITEMS - 1 : Displayed(slots[n])'
<1>1. IsToken' = IsToken
  BY DEF IsToken, Of
<1>2. PICK l \in Nat : l = Len(list)
  OBVIOUS
<1>3. PICK p \in Nat : p = num
  BY DEF IInv, TypeOK
<1>4. num' = p + l /\ \A n \in 0 .. p - 1 : slots'[n] = slots[n]
  BY <1>2, <1>3 DEF Pushed, Kept
<1>5. \A k \in 1 .. l : slots'[p + k - 1].key = list[k].key /\ slots'[p + k - 1].render = list[k].render
  BY <1>2, <1>3 DEF Pushed
<1>6. ASSUME NEW n \in 0 .. num' - 1 PROVE Suits(slots[n])'
  <2>1. CASE n \in 0 .. p - 1
    <3>1. slots'[n] = slots[n] /\ Suits(slots[n])
      BY <1>3, <1>4, <2>1 DEF KindInv
    <3> QED
      BY <1>1, <3>1 DEF Suits
  <2>2. CASE n \notin 0 .. p - 1
    <3>1. PICK k \in 1 .. l : n = p + k - 1
      <4>1. n - p + 1 \in 1 .. l /\ n = p + (n - p + 1) - 1
        BY <1>4, <2>2
      <4> QED
        BY <4>1
    <3>2. slots'[n].key = list[k].key /\ slots'[n].render = list[k].render
      BY <1>5, <3>1
    <3>3. Suits(list[k])
      BY <1>2 DEF Fits
    <3> QED
      BY <1>1, <3>2, <3>3 DEF Suits
  <2> QED
    BY <2>1, <2>2
<1>7. ASSUME ~IsToken, NEW n \in 0 .. MAX_ITEMS - 1 PROVE Displayed(slots[n])'
  <2>1. slots' = After(list)
    BY DEF Push
  <2>2. Displayed(slots[n]) /\ n \in DOMAIN slots
    BY <1>7 DEF KindInv, IInv, TypeOK
  <2>3. CASE n \in p .. p + l - 1
    <3>1. n - p + 1 \in 1 .. l
      BY <2>3
    <3>2. list[n - p + 1].display = TRUE
      BY <1>2, <1>7, <3>1 DEF Fits
    <3>3. slots'[n] = Filled(slots[n], list[n - p + 1])
      <4> HIDE DEF Filled
      <4> QED
        BY <1>2, <1>3, <2>1, <2>2, <2>3 DEF After, SlotAt
    <3>4. PICK x, y : x = slots[n] /\ y = list[n - p + 1]
      OBVIOUS
    <3>5. Filled(x, y).display = (x.display /\ y.display) /\ "display" \in DOMAIN Filled(x, y)
      BY DEF Filled
    <3> QED
      BY <2>2, <3>2, <3>3, <3>4, <3>5 DEF Displayed
  <2>4. CASE n \notin p .. p + l - 1
    <3>1. slots'[n] = slots[n]
      BY <1>2, <1>3, <2>1, <2>2, <2>4 DEF After
    <3> QED
      BY <2>2, <3>1 DEF Displayed
  <2> QED
    BY <2>3, <2>4
<1> QED
  BY <1>6, <1>7

\* The titles on the screen stay on it, and those of a push are added.
LEMMA TitlesGrow ==
  ASSUME Kept
  PROVE  Titles \subseteq Titles'
<1> SUFFICES ASSUME NEW n \in 0 .. num - 1 PROVE slots[n].key \in Titles'
  BY DEF Titles
<1>1. n \in 0 .. num' - 1 /\ slots'[n] = slots[n]
  BY KeptRange DEF Kept
<1> QED
  BY <1>1 DEF Titles

LEMMA PushedTitle ==
  ASSUME NEW list, Len(list) \in Nat, NEW then, Pushed(list, then), NEW k \in 1 .. Len(list)
  PROVE  list[k].key \in Titles'
<1>1. PICK p \in Nat : p = num
  BY DEF Pushed, Kept
<1>2. PICK l \in Nat : l = Len(list)
  OBVIOUS
<1>3. num' = p + l /\ slots'[p + k - 1].key = list[k].key
  BY <1>1, <1>2 DEF Pushed
<1>4. p + k - 1 \in 0 .. p + l - 1
  BY <1>2
<1> QED
  BY <1>3, <1>4 DEF Titles

Live == result \in {"running", "accepted"}

\* A step that stores nothing.
LEMMA KindSame ==
  ASSUME KindInv, outcome' = outcome, slots' = slots, num' = num,
         PastScoped' /\ Live' => PastScoped /\ Live
  PROVE  KindInv'
<1>1. IsToken' = IsToken /\ Titles' = Titles
  BY DEF IsToken, Of, Titles
<1>2. \A n \in 0 .. num' - 1 : Suits(slots[n])'
  BY <1>1 DEF KindInv, Suits
<1> QED
  BY <1>1, <1>2 DEF KindInv, Live

LEMMA RefuseKind ==
  ASSUME KindInv, outcome' = outcome, NEW e, e \notin {"accepted", "running"}, Refuse(e)
  PROVE  KindInv'
<1>1. slots' = slots /\ num' = num /\ ~Live'
  BY DEF Refuse, Live
<1> QED
  BY <1>1, KindSame

\* A step that stores items of the kind of the review.
LEMMA KindMove ==
  ASSUME IInv, KindInv, outcome' = outcome,
         NEW S, NEW list \in Seq(S), \A item \in S : Fits(item),
         NEW then, Outcome(list, then),
         \/ ~IsToken
         \/ then \in Early \cup {"caps"} /\ (then = "caps" => cap' = 1)
         \/ PastScoped /\ result = "running"
         \/ Push(list, then) /\ (Pushed(list, then) => {"Warning", "Namespace"} \subseteq Titles')
  PROVE  KindInv'
<1> SUFFICES ASSUME ~KindInv' PROVE FALSE
  OBVIOUS
<1>1. ASSUME NEW e, e \notin {"accepted", "running"}, Refuse(e)
      PROVE  FALSE
  BY <1>1, RefuseKind
<1>2. Len(list) \in Nat /\ \A k \in 1 .. Len(list) : Fits(list[k])
  BY LenProperties, ElementOfSeq
<1>3. IsToken' = IsToken
  BY DEF IsToken, Of
<1>4. ASSUME Kept, step' = then, result' = result,
             IsToken /\ PastScoped' => \/ PastScoped /\ result = "running"
                                       \/ {"Warning", "Namespace"} \subseteq Titles'
      PROVE  IsToken' /\ PastScoped' /\ result' \in {"running", "accepted"}
               => {"Warning", "Namespace"} \subseteq Titles'
  BY <1>3, <1>4, TitlesGrow DEF KindInv
<1>5. then \in Early \cup {"caps"} /\ (then = "caps" => cap' = 1) /\ step' = then => ~PastScoped'
  BY DEF PastScoped, BeforeCaps
<1>6. CASE Push(list, then)
  <2>1. Pushed(list, then) /\ ~Refuse("UnexpectedError")
    BY <1>1, <1>2, <1>6, PushEffect
  <2>2. /\ \A n \in 0 .. num' - 1 : Suits(slots[n])'
        /\ ~IsToken => \A n \in 0 .. MAX_ITEMS - 1 : Displayed(slots[n])'
    BY <1>2, <1>6, <2>1, KindPush
  <2>3. Kept /\ step' = then /\ result' = result
    BY <2>1 DEF Pushed
  <2>4. IsToken' /\ PastScoped' /\ result' \in {"running", "accepted"}
          => {"Warning", "Namespace"} \subseteq Titles'
    BY <1>3, <1>4, <1>5, <2>1, <2>3
  <2> QED
    BY <1>3, <2>2, <2>4 DEF KindInv
<1>7. ASSUME NEW token, Leave(token, then) \/ Skip(then), ~Push(list, then)
      PROVE  FALSE
  <2>1. Kept /\ step' = then /\ result' = result /\ num' = num
    BY <1>7, LeaveEffect
  <2>2. \A n \in 0 .. num' - 1 : Suits(slots[n])'
    BY <1>3, <2>1 DEF KindInv, Suits, Kept
  <2>3. ASSUME NEW n \in 0 .. MAX_ITEMS - 1, Displayed(slots[n])
        PROVE  Displayed(slots[n])'
    <3>1. CASE Skip(then)
      BY <2>3, <3>1 DEF Skip, Displayed
    <3>2. CASE Leave(token, then)
      <4>1. slots' = [slots EXCEPT ![num].token = token] /\ n \in DOMAIN slots
        BY <3>2 DEF Leave, IInv, TypeOK
      <4>2. slots'[n] \in {slots[n], [slots[n] EXCEPT !.token = token]}
        BY <4>1
      <4>3. PICK x : x = slots[n]
        OBVIOUS
      <4>4. Displayed([x EXCEPT !.token = token])
        BY <2>3, <4>3 DEF Displayed
      <4> QED
        BY <2>3, <4>2, <4>3, <4>4 DEF Displayed
    <3> QED
      BY <1>7, <3>1, <3>2
  <2>4. IsToken' /\ PastScoped' /\ result' \in {"running", "accepted"}
          => {"Warning", "Namespace"} \subseteq Titles'
    BY <1>3, <1>4, <1>5, <1>7, <2>1
  <2> QED
    BY <1>3, <2>2, <2>3, <2>4 DEF KindInv
<1> QED
  BY <1>1, <1>6, <1>7 DEF Outcome

\* Most items are of no kind.
LEMMA PlainFit ==
  /\ \A render, key : key \notin Moving \cup Cautioning /\ render \notin Blinding
                        => Fits(ItemOnly(key, render))
  /\ \A render, key, token : key \notin Moving \cup Cautioning /\ render \notin Blinding
                        => Fits(Item(key, render, token))
BY DEF Fits, Suits, Item, ItemOnly

\* The single entry is the signer's, and both its capabilities are reviewed.
LEMMA SignerIsOne ==
  ASSUME IInv, TemplateCommand, signer # 0
  PROVE  /\ signer = 1 /\ Entry = cmd.signers[1] /\ Caps = cmd.signers[1].clist.caps
         /\ HasClist(Entry) /\ Len(Caps) = 2 /\ DOMAIN Caps = 1 .. 2 /\ Caps[1] = Scoped
<1>1. signer \in DOMAIN cmd.signers /\ DOMAIN cmd.signers = 1 .. 1
  BY DEF IInv, SignerDecided, Matches, TemplateCommand, Listed
<1>2. signer = 1
  BY <1>1
<1>3. Entry = cmd.signers[1] /\ Caps = cmd.signers[1].clist.caps
  BY <1>2 DEF Entry, Caps
<1>4. cmd.signers[1].clist.kind = "array" /\ Len(cmd.signers[1].clist.caps) = 2
  BY DEF TemplateCommand
<1>5. HasClist(Entry)
  BY <1>3, <1>4 DEF HasClist
<1>6. DOMAIN Caps = 1 .. Len(Caps)
  BY CapsAreListed
<1> QED
  BY <1>2, <1>3, <1>4, <1>5, <1>6 DEF Scoped

\* Before the loop: the key is in the list of capabilities, so that nothing
\* cautions.
LEMMA KindHead ==
  ASSUME IInv, RInv, TemplateCommand, KindInv, outcome' = outcome,
         StoreSigning \/ StoreNetwork \/ StoreKey \/ ValidateSigners
  PROVE  KindInv'
<1>1. step \in Early /\ cap' = cap
  BY DEF At, StoreSigning, StoreNetwork, StoreKey, ValidateSigners, Early
<1>2. cap' = 1 /\ signer # 0
  BY <1>1 DEF RInv, Beginning, BeforeCaps, IInv, TypeOK, SignerDecided, Early, TemplateCommand
<1>3. CASE StoreSigning
  <2> DEFINE S == {ItemOnly("Signing", "Signing")}
             list == <<ItemOnly("Signing", "Signing")>>
  <2>1. list \in Seq(S) /\ Outcome(list, "network")
    BY <1>3 DEF StoreSigning, Outcome
  <2>2. \A item \in S : Fits(item)
    BY PlainFit DEF Moving, Cautioning, Blinding
  <2> HIDE DEF S, list
  <2> QED
    BY <1>2, <2>1, <2>2, KindMove DEF Early
<1>4. CASE StoreNetwork
  <2> DEFINE S == {Item("OnNetwork", "Std", <<"networkId">>)}
             list == <<Item("OnNetwork", "Std", <<"networkId">>)>>
  <2>1. list \in Seq(S) /\ Outcome(list, "key")
    BY <1>4 DEF StoreNetwork, Outcome
  <2>2. \A item \in S : Fits(item)
    BY PlainFit DEF Moving, Cautioning, Blinding
  <2> HIDE DEF S, list
  <2> QED
    BY <1>2, <2>1, <2>2, KindMove DEF Early
<1>5. CASE StoreKey
  <2> DEFINE many == IF Len(cmd.signers) > 1 THEN <<ItemOnly("Signers", "Signers")>> ELSE <<>>
             rest == <<ItemOnly("Requiring", "Requiring"), Item("OfKey", "Std", KeyToken)>>
             S == {ItemOnly("Signers", "Signers"), ItemOnly("Requiring", "Requiring"),
                   Item("OfKey", "Std", KeyToken)}
  <2>1. many \in Seq(S) /\ rest \in Seq(S) /\ Outcome(many \o rest, "signers")
    BY <1>5 DEF StoreKey, Outcome
  <2>2. \A item \in S : Fits(item)
    BY PlainFit DEF Moving, Cautioning, Blinding
  <2> HIDE DEF many, rest, S
  <2>3. many \o rest \in Seq(S)
    BY <2>1, ConcatIsFinite
  <2> QED
    BY <1>2, <2>1, <2>2, <2>3, KindMove DEF Early
<1>6. CASE ValidateSigners
  <2>1. HasClist(Entry) /\ 1 \in DOMAIN Caps /\ Caps[1] = Scoped
    BY <1>2, SignerIsOne
  <2>2. PubKeyInClist
    <3>1. /\ Caps[1].hasArgs /\ 1 \in DOMAIN Caps[1].args /\ NamesKey(Caps[1].args[1])
          /\ \A b \in 1 .. 1 : b = 1
      BY <2>1 DEF TemplateCommand
    <3> QED
      BY <2>1, <3>1, Zenon DEF PubKeyInClist
  <2> DEFINE S == {}
             list == << >>
  <2>3. list \in Seq(S) /\ Outcome(list, "caps") /\ \A item \in S : Fits(item)
    BY <1>6, <2>1, <2>2 DEF ValidateSigners, Outcome
  <2> HIDE DEF S, list
  <2> QED
    BY <1>2, <2>3, KindMove
<1> QED
  BY <1>3, <1>4, <1>5, <1>6

\* A step without an item.
LEMMA SkipKind ==
  ASSUME IInv, KindInv, outcome' = outcome, NEW then, Skip(then), PastScoped, result = "running"
  PROVE  KindInv'
<1>1. PastScoped /\ Live /\ slots' = slots /\ num' = num
  BY DEF Skip, Live
<1> QED
  BY <1>1, KindSame

\* The capability at hand is the scope's or coin.GAS.
LEMMA AtCapOfTemplate ==
  ASSUME IInv, RInv, TemplateCommand, NEW name, AtCap(name)
  PROVE  /\ step = "caps" /\ result = "running" /\ cap' = cap + 1
         /\ \/ cap = 1 /\ Cap = Scoped /\ name = Scoped.name
            \/ cap = 2 /\ name = "coin.GAS"
<1>1. step = "caps" /\ cap' = cap + 1 /\ cap <= Len(Caps) /\ TxName(cap) = name
  BY DEF AtCap
<1>2. result = "running" /\ signer # 0 /\ cap \in Nat \ {0}
  BY <1>1 DEF IInv, TypeOK, SignerDecided, TemplateCommand
<1>3. Caps = cmd.signers[1].clist.caps /\ Len(Caps) = 2 /\ Caps[1] = Scoped
  BY <1>2, SignerIsOne
<1>4. cap = 1 \/ cap = 2
  BY <1>1, <1>2, <1>3
<1>5. /\ Caps[1].object /\ Caps[2].object /\ Caps[2].name = "coin.GAS"
  BY <1>3 DEF TemplateCommand
<1> QED
  BY <1>1, <1>2, <1>3, <1>4, <1>5 DEF TxName, Cap

\* The namespace of a token is one of the items of store_unverified.
LEMMA NamespaceIs ==
  ASSUME HasNamespace
  PROVE  \E k \in 1 .. Len(Unverified(TRUE)) :
           Unverified(TRUE)[k] = Item("Namespace", "CapNamespace", CapToken)
<1> DEFINE w == <<Item("Warning", "CapNotVerified", CapToken)>>
           c == <<Item("Capability", "CapName", CapToken)>>
           n == <<Item("Namespace", "CapNamespace", CapToken)>>
           a == <<ArgumentsItem>>
<1>0. PICK S : UnverifiedItems \subseteq S
  OBVIOUS
<1>1. w \in Seq(S) /\ c \in Seq(S) /\ n \in Seq(S) /\ a \in Seq(S)
  BY <1>0 DEF UnverifiedItems
<1>2. Unverified(TRUE) = ((w \o c) \o n) \o a
  BY DEF Unverified, ArgumentsItem
<1>3. /\ Len(w) = 1 /\ Len(c) = 1 /\ Len(a) = 1 /\ Len(n) = 1
      /\ n[1] = Item("Namespace", "CapNamespace", CapToken)
  OBVIOUS
<1> HIDE DEF w, c, n, a
<1>4. w \o c \in Seq(S) /\ Len(w \o c) = 2
  BY <1>1, <1>3, ConcatProperties, SMTT(30)
<1>5. (w \o c) \o n \in Seq(S) /\ Len((w \o c) \o n) = 3 /\ ((w \o c) \o n)[3] = n[1]
  BY <1>1, <1>3, <1>4, ConcatProperties
<1>6. Len(((w \o c) \o n) \o a) = 4 /\ (((w \o c) \o n) \o a)[3] = n[1]
  BY <1>1, <1>3, <1>5, ConcatProperties
<1>7. 3 \in 1 .. 4
  OBVIOUS
<1> QED
  BY <1>2, <1>3, <1>6, <1>7

\* The scope of a token is shown by its name, its namespace and its arguments,
\* with the warning; the scope of a coin transfer is shown as a transfer.
LEMMA KindLoop ==
  ASSUME IInv, RInv, TemplateCommand, KindInv, outcome' = outcome,
         \/ StoreTransfer \/ StoreTransferXchain \/ StoreRotate
         \/ StoreGasCapability \/ StoreOther \/ NotACapability
  PROVE  KindInv'
<1>1. CASE NotACapability
  BY <1>1, RefuseKind DEF NotACapability
<1>2. CASE StoreRotate
  <2>1. AtCap("coin.ROTATE")
    BY <1>2 DEF StoreRotate
  <2>2. Scoped.name = "coin.ROTATE"
    BY <2>1, AtCapOfTemplate
  <2> QED
    BY <2>2 DEF TemplateCommand
<1>3. CASE StoreGasCapability
  <2>1. AtCap("coin.GAS") /\ Skip("caps")
    BY <1>3 DEF StoreGasCapability
  <2>2. Scoped.name # "coin.GAS"
    BY DEF TemplateCommand
  <2>3. step = "caps" /\ result = "running" /\ cap = 2
    BY <2>1, <2>2, AtCapOfTemplate
  <2>4. PastScoped
    BY <2>3 DEF PastScoped, BeforeCaps, Early
  <2> QED
    BY <2>1, <2>3, <2>4, SkipKind
<1>4. CASE StoreOther
  <2>1. PICK name \in {"mod.CAP", "ns.mod.CAP", "empty", "long", "missing"} : AtCap(name)
    BY <1>4 DEF StoreOther
  <2>2. cap = 1 /\ Cap = Scoped /\ name = Scoped.name
    BY <2>1, AtCapOfTemplate
  <2>3. IsToken /\ HasNamespace /\ Cap.hasArgs
    BY <2>1, <2>2 DEF TemplateCommand, HasNamespace
  <2> DEFINE list == Unverified(TRUE)
             S == UnverifiedItems
  <2>4. Push(list, "caps")
    BY <1>4, <2>3 DEF StoreOther
  <2>5. list \in Seq(S) /\ Len(list) \in Nat
    BY UnverifiedIsFinite
  <2>6. \A item \in S : Fits(item)
    <3>1. /\ Item("Warning", "CapNotVerified", CapToken).key = "Warning"
          /\ Item("Capability", "CapName", CapToken).key = "Capability"
          /\ Item("Namespace", "CapNamespace", CapToken).key = "Namespace"
      BY DEF Item
    <3> QED
      BY <2>3, <3>1, ArgumentsItemIs DEF UnverifiedItems, Fits, Suits, Moving
  <2>7. PICK k \in 1 .. Len(list) : list[k] = Item("Namespace", "CapNamespace", CapToken)
    BY <2>3, NamespaceIs
  <2>8. 1 \in 1 .. Len(list) /\ list[1] = Item("Warning", "CapNotVerified", CapToken)
    <3>1. TRUE \in BOOLEAN
      OBVIOUS
    <3>2. PICK p \in 1 .. 2 : \E q \in p + 1 .. p + 2 :
            Len(list) = q /\ list[1] = Item("Warning", "CapNotVerified", CapToken)
      BY <3>1, UnverifiedIs
    <3> HIDE DEF list
    <3> QED
      BY <3>2
  <2> HIDE DEF list, S
  <2>9. ASSUME Pushed(list, "caps") PROVE {"Warning", "Namespace"} \subseteq Titles'
    <3>1. list[1].key \in Titles' /\ list[k].key \in Titles'
      BY <2>5, <2>8, <2>9, PushedTitle
    <3>2. list[1].key = "Warning" /\ list[k].key = "Namespace"
      BY <2>7, <2>8 DEF Item
    <3> QED
      BY <3>1, <3>2
  <2>10. Outcome(list, "caps")
    BY <2>4 DEF Outcome
  <2> QED
    BY <2>4, <2>5, <2>6, <2>9, <2>10, KindMove
<1>5. ASSUME NEW name, NEW nargs \in {3, 4}, AtCap(name),
             \/ name = "coin.TRANSFER" /\ nargs = 3
             \/ name = "coin.TRANSFER_XCHAIN" /\ nargs = 4,
             NEW S, \A item \in S : Fits(item) \/ IsToken,
             NEW items \in Seq(S), StoreTransferOf(items, nargs)
      PROVE  KindInv'
  <2>1. cap = 1 /\ Cap = Scoped /\ name = Scoped.name
    BY <1>5, AtCapOfTemplate
  <2>2. ~IsToken /\ Len(Cap.args) = nargs /\ IsPrincipal(Cap.args[2])
    BY <1>5, <2>1 DEF TemplateCommand
  <2>3. PICK none \in Seq(S) : none = ReceiverWarning
    <3>1. ReceiverWarning = << >>
      BY <2>2, Zenon DEF ReceiverWarning
    <3>2. << >> \in Seq(S)
      OBVIOUS
    <3> QED
      BY <3>1, <3>2, Zenon
  <2>4. items \o none \in Seq(S)
    BY <1>5, ConcatIsFinite
  <2>5. \/ Push(items \o none, "caps")
        \/ Refuse("UnexpectedError") \/ Refuse("UnexpectedCharacters")
    BY <1>5, <2>2, <2>3, Zenon DEF StoreTransferOf
  <2>6. Outcome(items \o none, "caps")
    BY <2>5 DEF Outcome
  <2>7. PICK list \in Seq(S) : list = items \o none
    BY <2>4
  <2> QED
    BY <1>5, <2>2, <2>6, <2>7, KindMove
<1> DEFINE Rows(render) == {Item("Transfer", render, CapToken), Item("From", "Std", Arg(1)),
                            Item("To", "Std", Arg(2)), Item("Amount", "Amount", <<"number", cap>>),
                            Item("ToChain", "Std", Arg(4))}
<1>6. ASSUME NEW render \in {"Transfer", "CrossTransfer"}, NEW item \in Rows(render)
      PROVE  Fits(item) \/ IsToken
  <2>1. \A key, token : \A r \in {"Transfer", "CrossTransfer", "Std", "Amount"} :
          key \notin Cautioning => Fits(Item(key, r, token)) \/ IsToken
    BY DEF Fits, Suits, Item, Blinding
  <2> QED
    BY <2>1 DEF Cautioning
<1>7. CASE StoreTransfer
  <2> DEFINE items == TransferItems("Transfer")
             S == Rows("Transfer")
  <2>1. AtCap("coin.TRANSFER") /\ StoreTransferOf(items, 3)
    BY <1>7 DEF StoreTransfer
  <2>2. items \in Seq(S)
    BY DEF TransferItems
  <2>3. \A item \in S : Fits(item) \/ IsToken
    BY <1>6
  <2> HIDE DEF items, S
  <2> QED
    BY <1>5, <2>1, <2>2, <2>3
<1>8. CASE StoreTransferXchain
  <2> DEFINE four == TransferItems("CrossTransfer")
             S == Rows("CrossTransfer")
             chain == Item("ToChain", "Std", Arg(4))
  <2>1. AtCap("coin.TRANSFER_XCHAIN") /\ StoreTransferOf(Append(four, chain), 4)
    BY <1>8 DEF StoreTransferXchain
  <2>2. four \in Seq(S) /\ chain \in S
    BY DEF TransferItems
  <2>3. \A item \in S : Fits(item) \/ IsToken
    BY <1>6
  <2> HIDE DEF four, S, chain
  <2>4. Append(four, chain) \in Seq(S)
    BY <2>2, AppendProperties
  <2> QED
    BY <1>5, <2>1, <2>3, <2>4
<1> QED
  BY <1>1, <1>2, <1>3, <1>4, <1>7, <1>8

\* After the loop: the meta is recognised and nothing of a coin transfer is too
\* long.
LEMMA KindTail ==
  ASSUME IInv, RInv, TemplateCommand, KindInv, outcome' = outcome,
         \/ NoClist \/ CapsDone \/ CheckMeta \/ StoreChainId \/ StoreUsingGas \/ StoreMaxFee
         \/ StorePayer \/ CheckTxLengths \/ HashFails \/ ComputeHash \/ StorePayload
         \/ StorePactId \/ StoreStep \/ StoreWindow \/ StoreExpertItems \/ AddressFails
  PROVE  KindInv'
<1> DEFINE Later == {"meta", "chain", "gas", "fee", "payer", "lengths", "hash", "payload", "pactId",
                     "step", "window", "expert", "validate"}
<1>1. step \in Later \cup {"caps"}
  BY DEF NoClist, CapsDone, CheckMeta, StoreChainId, StoreUsingGas, StoreMaxFee, StorePayer,
         CheckTxLengths, HashFails, ComputeHash, StorePayload, StorePactId, StoreStep,
         StoreWindow, StoreExpertItems, AddressFails, At
<1>2. result = "running" /\ signer # 0 /\ cap \in Nat
  BY <1>1 DEF IInv, TypeOK, SignerDecided, TemplateCommand
<1>3. step \in Later => PastScoped
  BY DEF PastScoped, BeforeCaps, Early
<1> HIDE DEF Later
<1>4. ASSUME step # "caps", NEW item, Fits(item), NEW then, Outcome(<<item>>, then)
      PROVE  KindInv'
  <2> DEFINE S == {item}
             list == <<item>>
  <2>1. list \in Seq(S) /\ (\A i \in S : Fits(i)) /\ Outcome(list, then)
    BY <1>4
  <2>2. PastScoped /\ result = "running"
    BY <1>1, <1>2, <1>3, <1>4
  <2> HIDE DEF S, list
  <2> QED
    BY <2>1, <2>2, KindMove
<1>5. MetaRecognised /\ "sender" \in DOMAIN Meta
  <2>1. cmd.meta.kind = "object" /\ DOMAIN Meta = {META_KEYWORDS[k] : k \in 1 .. 6}
    BY DEF TemplateCommand, Meta
  <2>2. 6 \in 0 .. 6 /\ 6 \in 1 .. 6 /\ META_KEYWORDS[6] = "sender"
    BY DEF META_KEYWORDS
  <2> QED
    BY <2>1, <2>2, Zenon DEF MetaRecognised
<1>6. CASE NoClist
  <2>1. ~HasClist(Entry)
    BY <1>6 DEF NoClist
  <2> QED
    BY <1>2, <2>1, SignerIsOne
<1>7. CASE CapsDone
  <2>1. step = "caps" /\ cap > Len(Caps) /\ Skip("meta")
    BY <1>7 DEF CapsDone, At
  <2>2. Len(Caps) = 2
    BY <1>2, SignerIsOne
  <2>3. cap > 1
    BY <1>2, <2>1, <2>2
  <2>4. PastScoped
    BY <2>1, <2>3 DEF PastScoped, BeforeCaps, Early
  <2> QED
    BY <1>2, <2>1, <2>4, SkipKind
<1>8. CASE CheckMeta
  <2>1. Skip("chain") \/ Refuse("InvalidMetaField") \/ Refuse("UnexpectedCharacters")
    BY <1>5, <1>8 DEF CheckMeta
  <2>2. PastScoped
    BY <1>3, <1>8 DEF CheckMeta, At, Later
  <2> QED
    BY <1>2, <2>1, <2>2, SkipKind, RefuseKind
<1>9. CASE StoreChainId
  <2> DEFINE item == Item("OnChain", "Std", <<"meta", "chainId">>)
  <2>1. Outcome(<<item>>, "gas") /\ step # "caps"
    BY <1>9 DEF StoreChainId, Outcome, At
  <2>2. Fits(item)
    BY PlainFit DEF Moving, Cautioning, Blinding
  <2> HIDE DEF item
  <2> QED
    BY <1>4, <2>1, <2>2
<1>10. CASE StoreUsingGas
  <2> DEFINE item == Item("UsingGas", "Gas", <<"meta">>)
  <2>1. Outcome(<<item>>, "fee") /\ step # "caps"
    BY <1>10 DEF StoreUsingGas, Outcome, At
  <2>2. Fits(item)
    BY PlainFit DEF Moving, Cautioning, Blinding
  <2> HIDE DEF item
  <2> QED
    BY <1>4, <2>1, <2>2
<1>11. CASE StoreMaxFee
  <2> DEFINE item == Item("MaxFee", "MaxFee", <<"meta">>)
  <2>1. Outcome(<<item>>, "payer") /\ step # "caps"
    BY <1>11 DEF StoreMaxFee, Outcome, At
  <2>2. Fits(item)
    BY PlainFit DEF Moving, Cautioning, Blinding
  <2> HIDE DEF item
  <2> QED
    BY <1>4, <2>1, <2>2
<1>12. CASE StorePayer
  <2> DEFINE item == Item("PayingAccount", "Std", <<"meta", "sender">>)
  <2>1. Outcome(<<item>>, "lengths") /\ step # "caps"
    BY <1>12 DEF StorePayer, Outcome, At
  <2>2. Fits(item)
    BY PlainFit DEF Moving, Cautioning, Blinding
  <2> HIDE DEF item
  <2> QED
    BY <1>4, <2>1, <2>2
<1>13. CASE CheckTxLengths
  <2> DEFINE item == ItemOnly("Warning", "TxTooLarge")
  <2>1. Outcome(<<item>>, "hash") /\ step # "caps"
    BY <1>13 DEF CheckTxLengths, Outcome, At
  <2>2. CASE IsToken
    <3>1. Fits(item)
      BY <2>2 DEF Fits, Suits, Moving, ItemOnly
    <3> HIDE DEF item
    <3> QED
      BY <1>4, <2>1, <3>1
  <2>3. CASE ~IsToken
    <3>1. num \in 0 .. MAX_ITEMS - 1 /\ MAX_ITEMS \in Nat
      BY MaxAssumption DEF IInv, TypeOK
    <3>2. \A n \in 0 .. num - 1 : n \in 0 .. MAX_ITEMS - 1
      BY <3>1
    <3>3. \A n \in 0 .. num - 1 : slots[n].display = TRUE
      BY <2>3, <3>2 DEF KindInv, Displayed
    <3>4. Skip("hash") /\ PastScoped
      BY <1>3, <1>13, <3>3 DEF CheckTxLengths, At, Later
    <3> QED
      BY <1>2, <3>4, SkipKind
  <2> QED
    BY <2>2, <2>3
<1>14. CASE HashFails \/ AddressFails
  BY <1>14, RefuseKind DEF HashFails, AddressFails
<1>15. CASE ComputeHash
  <2>1. \E then : Skip(then)
    BY <1>15 DEF ComputeHash
  <2>2. PastScoped
    BY <1>3, <1>15 DEF ComputeHash, At, Later
  <2> QED
    BY <1>2, <2>1, <2>2, SkipKind
<1>16. CASE StorePayload
  <2>1. step # "caps"
    BY <1>16 DEF StorePayload, At
  <2>2. Fits(ItemOnly("Payload", "Exec")) /\ Fits(ItemOnly("Payload", "Cont"))
    BY PlainFit DEF Moving, Cautioning, Blinding
  <2>3. \/ Outcome(<<ItemOnly("Payload", "Exec")>>, "window")
        \/ Outcome(<<ItemOnly("Payload", "Cont")>>, "pactId")
    BY <1>16 DEF StorePayload, Outcome
  <2> QED
    BY <1>4, <2>1, <2>2, <2>3
<1>17. CASE StorePactId
  <2> DEFINE item == Item("PactId", "Std", <<"cont", "pactId">>)
  <2>1. Outcome(<<item>>, "step") /\ step # "caps"
    BY <1>17 DEF StorePactId, StoreContField, Outcome, At
  <2>2. Fits(item)
    BY PlainFit DEF Moving, Cautioning, Blinding
  <2> HIDE DEF item
  <2> QED
    BY <1>4, <2>1, <2>2
<1>18. CASE StoreStep
  <2> DEFINE item == Item("Step", "Std", <<"cont", "step">>)
  <2>1. Outcome(<<item>>, "window") /\ step # "caps"
    BY <1>18 DEF StoreStep, StoreContField, Outcome, At
  <2>2. Fits(item)
    BY PlainFit DEF Moving, Cautioning, Blinding
  <2> HIDE DEF item
  <2> QED
    BY <1>4, <2>1, <2>2
<1>19. CASE StoreWindow
  <2> DEFINE created == Item("Created", "Std", <<"meta", "creationTime">>)
             ttl == Item("Ttl", "Std", <<"meta", "ttl">>)
             S == {created, ttl}
             list == <<created, ttl>>
  <2>1. list \in Seq(S) /\ Outcome(list, "expert") /\ step = "window"
    BY <1>19 DEF StoreWindow, Outcome, At
  <2>2. \A item \in S : Fits(item)
    BY PlainFit DEF Moving, Cautioning, Blinding
  <2>3. PastScoped
    BY <1>3, <2>1 DEF Later
  <2> HIDE DEF S, list
  <2> QED
    BY <1>2, <2>1, <2>2, <2>3, KindMove
<1>20. CASE StoreExpertItems
  <2> DEFINE S == {ItemOnly("TransactionHash", "Hash"), ItemOnly("SignForAddress", "SignForAddr")}
             list == <<ItemOnly("TransactionHash", "Hash"),
                       ItemOnly("SignForAddress", "SignForAddr")>>
  <2>1. list \in Seq(S) /\ Outcome(list, "validate") /\ step = "expert"
    BY <1>20 DEF StoreExpertItems, Outcome, At
  <2>2. \A item \in S : Fits(item)
    BY PlainFit DEF Moving, Cautioning, Blinding
  <2>3. PastScoped
    BY <1>3, <2>1 DEF Later
  <2> HIDE DEF S, list
  <2> QED
    BY <1>2, <2>1, <2>2, <2>3, KindMove
<1> QED
  BY <1>6, <1>7, <1>8, <1>9, <1>10, <1>11, <1>12, <1>13, <1>14, <1>15, <1>16, <1>17, <1>18, <1>19,
     <1>20

\* Every step of the review of a template keeps its kind.
LEMMA KindStep ==
  ASSUME IInv, RInv, TemplateCommand, KindInv, outcome' = outcome, [Next]_vars
  PROVE  KindInv'
<1>1. CASE UNCHANGED vars
  <2>1. slots' = slots /\ num' = num /\ step' = step /\ cap' = cap /\ result' = result
    BY <1>1 DEF vars
  <2>2. PastScoped' = PastScoped /\ Live' = Live
    BY <2>1 DEF PastScoped, Live
  <2> QED
    BY <2>1, <2>2, KindSame
<1>2. CASE StoreHashItems
  BY <1>2 DEF StoreHashItems, TemplateCommand
<1>3. CASE Verifiers \/ NoAddress
  BY <1>3, RefuseKind DEF Verifiers, NoAddress
<1>4. CASE FindDeviceSigner
  <2>1. slots' = slots /\ num' = num /\ (step' = "signing" \/ Refuse(SignerError))
    BY <1>4 DEF FindDeviceSigner, Refuse
  <2>2. SignerError \notin {"accepted", "running"}
    BY DEF SignerError
  <2>3. step' = "signing" => ~PastScoped'
    BY DEF PastScoped, BeforeCaps, Early
  <2> QED
    BY <2>1, <2>2, <2>3, KindSame, RefuseKind
<1>5. CASE Validate
  <2>1. slots' = slots /\ num' = num /\ step = "validate" /\ result = "running"
    BY <1>5 DEF Validate, Refuse, At, IInv, TypeOK
  <2>2. PastScoped /\ Live
    BY <2>1 DEF PastScoped, Live, BeforeCaps, Early
  <2> QED
    BY <2>1, <2>2, KindSame
<1> QED
  BY <1>1, <1>2, <1>3, <1>4, <1>5, KindHead, KindLoop, KindTail DEF Next

\* A step of the review does not change the command and does not go back.
LEMMA ReviewGoesOn ==
  ASSUME [Next]_vars, step # "build"
  PROVE  cmd' = cmd /\ step' # "build"
<1>1. ASSUME NEW list, NEW then, then # "build", Push(list, then)
      PROVE  cmd' = cmd /\ step' # "build"
  BY <1>1 DEF Push, Refuse
<1>2. ASSUME NEW token, NEW then, then # "build", Leave(token, then)
      PROVE  cmd' = cmd /\ step' # "build"
  BY <1>2 DEF Leave
<1>3. ASSUME NEW then, then # "build", Skip(then)
      PROVE  cmd' = cmd /\ step' # "build"
  BY <1>3 DEF Skip
<1>4. ASSUME NEW e, Refuse(e)
      PROVE  cmd' = cmd /\ step' # "build"
  BY <1>4 DEF Refuse
<1>5. CASE UNCHANGED vars
  BY <1>5 DEF vars
<1>6. CASE StoreHashItems \/ Verifiers \/ NoAddress \/ StoreSigning \/ StoreNetwork \/ StoreKey
  BY <1>1, <1>2, <1>4, <1>6, Zenon
     DEF StoreHashItems, Verifiers, NoAddress, StoreSigning, StoreNetwork, StoreKey
<1>7. CASE FindDeviceSigner
  BY <1>4, <1>7 DEF FindDeviceSigner
<1>8. CASE ValidateSigners \/ StoreOther \/ StoreRotate \/ StoreGasCapability \/ NotACapability
  BY <1>1, <1>2, <1>3, <1>4, <1>8, Zenon
     DEF ValidateSigners, StoreOther, StoreRotate, StoreGasCapability, NotACapability
<1>9. CASE StoreTransfer \/ StoreTransferXchain
  <2>1. \E items, nargs : StoreTransferOf(items, nargs)
    BY <1>9, Zenon DEF StoreTransfer, StoreTransferXchain
  <2> QED
    BY <1>1, <1>4, <2>1, Zenon DEF StoreTransferOf
<1>10. CASE NoClist \/ CapsDone \/ CheckMeta \/ StoreChainId \/ StoreUsingGas \/ StoreMaxFee
            \/ StorePayer \/ CheckTxLengths
  BY <1>1, <1>2, <1>3, <1>4, <1>10, Zenon
     DEF NoClist, CapsDone, CheckMeta, StoreChainId, StoreUsingGas, StoreMaxFee, StorePayer,
         CheckTxLengths
<1>11. CASE ComputeHash
  <2>1. \E then \in {"validate", "expert", "payload"} : Skip(then)
    BY <1>11 DEF ComputeHash
  <2> QED
    BY <1>3, <2>1
<1>12. CASE HashFails \/ StorePayload \/ StorePactId \/ StoreStep \/ StoreWindow
            \/ StoreExpertItems \/ AddressFails
  BY <1>1, <1>2, <1>3, <1>4, <1>12, Zenon
     DEF HashFails, StorePayload, StorePactId, StoreStep, StoreContField, StoreWindow,
         StoreExpertItems, AddressFails
<1>13. CASE Validate
  BY <1>4, <1>13 DEF Validate
<1> QED
  BY <1>5, <1>6, <1>7, <1>8, <1>9, <1>10, <1>11, <1>12, <1>13, Zenon DEF Next

LEMMA ListedCommand ==
  ASSUME NEW t, NEW c \in CommandsOf(t)
  PROVE  Listed(c)
<1>1. /\ Len(c.signers) = 1 /\ DOMAIN c.signers = 1 .. 1 /\ c.signers[1].clist.kind = "array"
      /\ c.signers[1].clist.caps
           = << Capability(ScopeName(t.scope), ScopeArgs(t.scope, t.pubKey)), Capability("coin.GAS", <<>>) >>
  BY CommandIs
<1>2. PICK x, y : c.signers[1].clist.caps = <<x, y>>
  BY <1>1
<1>3. PICK caps : caps = <<x, y>>
  OBVIOUS
<1>4. Len(caps) = 2 /\ DOMAIN caps = 1 .. 2
  BY <1>3
<1>5. 1 \in Nat /\ 2 \in Nat /\ \A i \in 1 .. 1 : i = 1
  OBVIOUS
<1>6. c.signers[1].clist.kind \notin {"missing", "null"} /\ c.signers[1].clist.caps = caps
  BY <1>1, <1>2, <1>3
<1> QED
  BY <1>1, <1>4, <1>5, <1>6 DEF Listed

\* What build refuses with is not an acceptance.
LEMMA BuildRefuses ==
  ASSUME NEW input, NEW addr
  PROVE  build(input, addr).error # "accepted"
<1>1. PICK f : f = FieldsAt(input, Offsets(input))
  OBVIOUS
<1>2. /\ Refused("UnexpectedBufferEnd").error # "accepted" /\ Refused("UnexpectedValue").error # "accepted"
      /\ Refused("UnexpectedUnparsedBytes").error # "accepted"
      /\ Refused("ValueOutOfRange").error # "accepted" /\ Refused("UnexpectedError").error # "accepted"
      /\ Refused("UnexpectedCharacters").error # "accepted"
  BY DEF Refused
<1>3. [error |-> "none", template |-> Template(f, input[1], addr), fields |-> f,
       len |-> TemplateLen(f, input[1])].error # "accepted"
  OBVIOUS
<1> QED
  BY <1>1, <1>2, <1>3, BuildCases, Zenon

\* Nothing is stored before the template is built.
Unbuilt ==
  /\ step = "build" /\ result # "accepted"
  /\ expert \in BOOLEAN /\ cap = 1 /\ signer = 0
  /\ slots = [n \in 0 .. MAX_ITEMS - 1 |-> EmptySlot] /\ num = 0

UnderReview == step # "build" /\ Built /\ cmd \in CommandsOf(Of) /\ IInv /\ RInv /\ KindInv

TransferInv == OutcomeIsOfThePayload /\ (Unbuilt \/ UnderReview)

LEMMA IsTemplateCommand ==
  ASSUME OutcomeIsOfThePayload, Built, cmd \in CommandsOf(Of)
  PROVE  TemplateCommand
<1>1. payload \in Seq(Byte) /\ outcome = build(payload, device) /\ outcome.error = "none"
  BY NotBuiltFacts DEF OutcomeIsOfThePayload, Built
<1>2. PICK f : f = FieldsAt(payload, Offsets(payload))
  OBVIOUS
<1>3. PICK t : t \in 0 .. 2 /\ Of = Template(f, t, device)
  BY <1>1, <1>2, BuiltFacts DEF Passed, Of
<1> QED
  BY <1>3, CommandOfTemplate

LEMMA BuildStep ==
  ASSUME Unbuilt, BuildTemplate
  PROVE  Unbuilt' \/ UnderReview'
<1>1. /\ expert' = expert /\ cap' = 1 /\ signer' = 0 /\ slots' = slots /\ num' = 0
      /\ outcome' = build(payload, device) /\ result = "running"
  BY Zenon DEF Unbuilt, BuildTemplate
<1>2. CASE outcome'.error # "none"
  <2>1. result' = outcome'.error /\ step' = step
    BY <1>2, Zenon DEF BuildTemplate
  <2>2. result' # "accepted"
    BY <1>1, <2>1, BuildRefuses, Zenon
  <2> QED
    BY <1>1, <2>1, <2>2, Zenon DEF Unbuilt
<1>3. CASE outcome'.error = "none"
  <2>1. cmd' \in CommandsOf(outcome'.template) /\ step' = "start" /\ result' = "running"
    BY <1>1, <1>3, Zenon DEF BuildTemplate
  <2>2. Built' /\ (cmd \in CommandsOf(Of))'
    BY <1>3, <2>1, Zenon DEF Built, Of
  <2>3. Listed(cmd')
    BY <2>1, ListedCommand
  <2>4. IInv'
    <3>1. DOMAIN slots' = 0 .. MAX_ITEMS - 1 /\ expert' \in BOOLEAN
      BY <1>1 DEF Unbuilt
    <3>2. TypeOK'
      BY <1>1, <2>1, <3>1, MaxAssumption DEF TypeOK
    <3>3. SignerDecided'
      BY <1>1, <2>1 DEF SignerDecided, Accepted
    <3> QED
      BY <2>3, <3>2, <3>3 DEF IInv
  <2>5. RInv'
    <3>1. TitlesOk'
      BY <1>1 DEF TitlesOk
    <3> QED
      BY <1>1, <2>1, <3>1 DEF RInv, Beginning, CapsShown, FeeShown, Going, HashSteps, BeforeFee,
                              BeforeCaps, Early
  <2>6. KindInv'
    <3>1. ~PastScoped'
      BY <2>1 DEF PastScoped, BeforeCaps
    <3>2. \A n \in 0 .. num' - 1 : Suits(slots[n])'
      BY <1>1
    <3>3. Displayed(EmptySlot)
      BY DEF Displayed, EmptySlot
    <3>4. \A n \in 0 .. MAX_ITEMS - 1 : slots'[n] = EmptySlot
      BY <1>1 DEF Unbuilt
    <3>5. \A n \in 0 .. MAX_ITEMS - 1 : Displayed(slots[n])'
      BY <3>3, <3>4 DEF Displayed
    <3> QED
      BY <3>1, <3>2, <3>5 DEF KindInv
  <2>7. step' # "build"
    BY <2>1
  <2> QED
    BY <2>2, <2>4, <2>5, <2>6, <2>7 DEF UnderReview
<1> QED
  BY <1>2, <1>3

LEMMA TransferReviewInvariant == TransferSpec => []TransferInv
<1>1. TransferInit => Unbuilt
  BY DEF TransferInit, Unbuilt
<1>2. TransferInv /\ [TransferNext]_<<vars, transferVars>> /\ OutcomeIsOfThePayload' => TransferInv'
  <2> SUFFICES ASSUME TransferInv, [TransferNext]_<<vars, transferVars>>, OutcomeIsOfThePayload'
               PROVE  Unbuilt' \/ UnderReview'
    BY DEF TransferInv
  <2>1. CASE BuildTemplate
    <3>1. Unbuilt
      BY <2>1 DEF BuildTemplate, TransferInv, UnderReview
    <3> QED
      BY <2>1, <3>1, BuildStep
  <2>2. CASE Unbuilt /\ UNCHANGED vars
    BY <2>2 DEF Unbuilt, vars
  <2>3. CASE UnderReview /\ [Next]_vars /\ UNCHANGED transferVars
    <3>1. TemplateCommand
      BY <2>3, IsTemplateCommand DEF UnderReview, TransferInv
    <3>2. outcome' = outcome /\ cmd' = cmd /\ step' # "build"
      BY <2>3, ReviewGoesOn DEF transferVars, UnderReview
    <3>3. IInv' /\ RInv'
      BY <2>3, ItemsStep, ReviewStep DEF UnderReview
    <3>4. KindInv'
      BY <2>3, <3>1, <3>2, KindStep DEF UnderReview
    <3>5. Built' /\ (cmd \in CommandsOf(Of))'
      BY <2>3, <3>2, Zenon DEF UnderReview, Built, Of
    <3> QED
      BY <3>2, <3>3, <3>4, <3>5 DEF UnderReview
  <2> QED
    BY <2>1, <2>2, <2>3 DEF TransferNext, StoreItems, TransferInv, Unbuilt
<1> QED
  BY <1>1, <1>2, TransferInvariant, PTL DEF TransferSpec, TransferInv

\* For every payload, device key and size of the array: the kind of review a
\* structured transfer gets is decided by its namespace and module alone.  An
\* accepted token transfer is a blind-signing one with its capability by name,
\* namespace and arguments and none of the rows of a transfer; an accepted coin
\* transfer is never a blind-signing one, has no warning and shows the transfer
\* whole (build, store_all_transfers, store_unverified, needs_blind).
THEOREM KindSafe == TransferSpec => []TransfersAreReviewedByKind
<1>1. TransferInv => TransfersAreReviewedByKind
  <2> SUFFICES ASSUME TransferInv, Accepted
               PROVE  IF IsToken THEN TokenIsBlind ELSE CoinIsClear
    BY DEF TransfersAreReviewedByKind
  <2>1. UnderReview /\ OutcomeIsOfThePayload
    BY DEF TransferInv, Unbuilt, Accepted
  <2>2. IInv /\ RInv /\ KindInv /\ TemplateCommand
    BY <2>1, IsTemplateCommand DEF UnderReview
  <2>3. signer # 0 /\ \A c \in DOMAIN Caps : CapShown(c)
    BY <2>2, AcceptedIsShown
  <2>4. DOMAIN Caps = 1 .. 2 /\ Caps[1] = Scoped
    BY <2>2, <2>3, SignerIsOne
  <2>5. 1 \in DOMAIN Caps
    BY <2>4
  <2>6. CapShown(1) /\ Caps[1].name \notin {"coin.GAS", "coin.ROTATE"}
    BY <2>2, <2>3, <2>4, <2>5 DEF TemplateCommand
  <2>7. step = "done" /\ result = "accepted" /\ num \in Nat
    BY <2>2 DEF Accepted, IInv, TypeOK
  <2>8. CASE ~IsToken
    <3>1. \A n \in 0 .. num - 1 : slots[n].key \notin Cautioning /\ slots[n].render \notin Blinding
      BY <2>2, <2>8 DEF KindInv, Suits
    <3>2. ~NeedsBlind
      BY <3>1 DEF NeedsBlind, Blinding
    <3>3. Titles \cap Cautioning = {}
      BY <3>1 DEF Titles
    <3>4. \E n \in 0 .. num - 1 : TransferAt(n, 1)
      BY <2>6, <3>2 DEF CapShown
    <3> QED
      BY <2>8, <3>2, <3>3, <3>4 DEF CoinIsClear, Cautioning
  <2>9. CASE IsToken
    <3>1. \A n \in 0 .. num - 1 : slots[n].key \notin Moving
      BY <2>2, <2>9 DEF KindInv, Suits
    <3>2. Titles \cap Moving = {}
      BY <3>1 DEF Titles
    <3>3. {"Warning", "Namespace"} \subseteq Titles
      BY <2>2, <2>7, <2>9 DEF KindInv, PastScoped, BeforeCaps, Early
    <3>4. Caps[1].name = "ns.mod.CAP"
      BY <2>2, <2>4, <2>9 DEF TemplateCommand
    <3>5. ~ \E n \in 0 .. num - 1 : TransferAt(n, 1)
      BY <3>4 DEF TransferAt
    <3>6. NeedsBlind /\ \E n \in 0 .. num - 1 : BlindAt(n, 1)
      BY <2>6, <3>5 DEF CapShown
    <3>7. PICK n \in 0 .. num - 1 :
            /\ Has(n, "Capability", "CapName", <<"cap", 1>>)
            /\ \E k \in {n + 1, n + 2} : Has(k, "Arguments", "Unknown", <<"cap", 1>>)
      BY <2>6, <3>6 DEF BlindAt
    <3>8. PICK k \in {n + 1, n + 2} : Has(k, "Arguments", "Unknown", <<"cap", 1>>)
      BY <3>7
    <3>9. k \in 0 .. num - 1 /\ slots[n].key = "Capability" /\ slots[k].key = "Arguments"
      BY <2>7, <3>7, <3>8 DEF Has
    <3>10. {"Warning", "Capability", "Namespace", "Arguments"} \subseteq Titles
      BY <3>3, <3>9 DEF Titles
    <3> QED
      BY <2>9, <3>2, <3>6, <3>10 DEF TokenIsBlind, Moving
  <2> QED
    BY <2>8, <2>9
<1> QED
  BY <1>1, TransferReviewInvariant, PTL
=============================================================================
