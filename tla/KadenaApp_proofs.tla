-------------------------- MODULE KadenaApp_proofs --------------------------
(***************************************************************************)
(* KadenaApp for every parser, template builder, path length, buffer size  *)
(* and set of data fields: a review is of what will be signed, blind       *)
(* reviews need the setting, the open stream is one command, and the       *)
(* signature is of the command the host framed.                            *)
(*                                                                         *)
(* SignatureIsOfTheCommand is not inductive: it needs that the transaction *)
(* on the review screen is the one on the wire (ReviewOfWire), which in    *)
(* turn needs StreamIsOneCommand for the chunks before the last.           *)
(***************************************************************************)
EXTENDS KadenaApp, SequenceTheorems, TLAPS

WireType == [ins : SUBSET SigningIns, first : Seq(Nat), rest : Seq(Nat)]

\* The types the argument needs, and that a first 0x03 chunk has a length.
Types ==
  /\ tx \in Seq(Nat)
  /\ payload_length \in Nat
  /\ stream \in SigningIns \cup {Nil}
  /\ wire \in WireType
  /\ stream = "LEGACY_SIGN_JSON" => wire.first # << >>

\* The transaction on the review screen is the one the host framed.
ReviewOfWire ==
  ui = "review" =>
    /\ pending.ins \in SigningIns
    /\ wire.ins = {pending.ins}
    /\ SigningPath = WirePath(pending.ins)
    /\ MessageToSign = WireMessage(pending.ins)

\* The last reply carries no signature.
NoSignature == reply = Nil \/ reply.sig = Nil

Inv ==
  /\ Types
  /\ StreamIsOneCommand
  /\ ReviewOfWire
  /\ ReviewIsOfWhatIsSigned
  /\ BlindReviewNeedsSetting
  /\ SignatureIsOfTheCommand

-----------------------------------------------------------------------------
(* Steps that put no review on the screen and send no signature.           *)

LEMMA QuietInv ==
  ASSUME Types', StreamIsOneCommand', NoSignature', ui' # "review"
  PROVE  Inv'
BY DEF Inv, ReviewOfWire, ReviewIsOfWhatIsSigned, BlindReviewNeedsSetting,
       NoSignature, SignatureIsOfTheCommand

\* The stream is closed, or is not touched.
LEMMA ClosedInv ==
  ASSUME tx' \in Seq(Nat), payload_length' \in Nat, wire' \in WireType,
         stream' = Nil, NoSignature', ui' # "review"
  PROVE  Inv'
<1>1. Types'
  BY NilAssumption DEF Types, SigningIns, Modern, LegacySigning
<1>2. StreamIsOneCommand'
  BY DEF StreamIsOneCommand
<1> QED
  BY <1>1, <1>2, QuietInv

LEMMA UntouchedInv ==
  ASSUME Inv, UNCHANGED <<stream, wire, tx, payload_length, sign_path>>,
         NoSignature', ui' # "review"
  PROVE  Inv'
<1>1. Types'
  BY DEF Inv, Types
<1>2. StreamIsOneCommand'
  BY DEF Inv, StreamIsOneCommand, WirePayload, WireDeclared, WirePath
<1> QED
  BY <1>1, <1>2, QuietInv

LEMMA InitInv == Init => Inv
<1> SUFFICES ASSUME Init PROVE Inv
  OBVIOUS
<1>1. Types
  BY NilAssumption DEF Init, Types, WireType, NoWire, SigningIns, Modern, LegacySigning
<1>2. StreamIsOneCommand /\ SignatureIsOfTheCommand
  BY DEF Init, StreamIsOneCommand, SignatureIsOfTheCommand
<1>3. ReviewOfWire /\ ReviewIsOfWhatIsSigned /\ BlindReviewNeedsSetting
  BY DEF Init, ReviewOfWire, ReviewIsOfWhatIsSigned, BlindReviewNeedsSetting
<1> QED
  BY <1>1, <1>2, <1>3 DEF Inv

-----------------------------------------------------------------------------
(* A complete command.                                                     *)

\* tx_parse succeeded: what it left behind and what the approval will sign.
LEMMA ReviewShown ==
  ASSUME NEW ins \in SigningIns, NEW buffer \in Seq(Nat),
         NEW len \in Nat, len <= Len(buffer),
         ins \notin LegacySigning => len = Len(buffer),
         NEW path, NEW key,
         Complete(ins, buffer, len, path, key), ui' = "review"
  PROVE  LET msg == SubSeq(buffer, 1, len)
             outcome == Outcome(ins, msg, path, key)
         IN /\ pending' = [ins |-> ins, len |-> len, blind |-> outcome = "blind"]
            /\ reply' = Nil
            /\ tx' = buffer
            /\ outcome = "clear" \/ (outcome = "blind" /\ blind_signing)
            /\ ~RefusedEarly(ins, msg, path, key)
            /\ parsed' = [type |-> TxType(ins), path |-> path,
                          json |-> JsonOf(ins, msg, path)]
            /\ MessageToSign' = JsonOf(ins, msg, path)
            /\ Signable(TxType(ins), JsonOf(ins, msg, path))
<1> DEFINE msg == SubSeq(buffer, 1, len)
           outcome == Outcome(ins, msg, path, key)
<1>1. /\ pending' = [ins |-> ins, len |-> len, blind |-> outcome = "blind"]
      /\ reply' = Nil
      /\ tx' = buffer
      /\ outcome = "clear" \/ (outcome = "blind" /\ blind_signing)
  BY DEF Complete, Answer, Show
<1>2. /\ template' = TemplateAfter(ins, buffer, msg, path, key)
      /\ parsed' = ParsedAfter(ins, msg, path, key)
  BY DEF Complete
<1>3. TxType(ins) \in {"Json", "Hash", "Transfer"}
  BY DEF TxType, SigningIns, Modern, LegacySigning
<1>4. msg \in Seq(Nat) /\ Len(msg) = len
  <2>1. \A i \in 1 .. len : buffer[i] \in Nat
    BY LenProperties, ElementOfSeq
  <2>2. msg \in Seq(Nat) /\ Len(msg) = IF 1 <= len THEN len - 1 + 1 ELSE 0
    BY <2>1, SubSeqProperties
  <2> QED
    BY <2>2
<1> HIDE DEF msg
<1>5. ~RefusedEarly(ins, msg, path, key)
  <2>1. CASE TxType(ins) = "Hash"
    <3>1. blind_signing /\ Len(msg) = HASH_LEN
      BY <1>1, <2>1 DEF Outcome
    <3>2. msg # << >>
      BY <3>1, <1>4, HashAssumption
    <3> QED
      BY <2>1, <3>1, <3>2 DEF RefusedEarly
  <2>2. CASE TxType(ins) # "Hash"
    BY <1>1, <2>2 DEF Outcome
  <2> QED
    BY <2>1, <2>2
<1>6. parsed' = [type |-> TxType(ins), path |-> path, json |-> JsonOf(ins, msg, path)]
  BY <1>1, <1>2, <1>5 DEF ParsedAfter
<1>7. MessageToSign' = JsonOf(ins, msg, path)
  <2>1. CASE TxType(ins) = "Transfer"
    <3>1. template' = Build(msg, path)
      BY <1>2, <1>5, <2>1 DEF TemplateAfter
    <3>2. ins \notin {"SIGN", "SIGN_HASH"} /\ ins \notin LegacySigning
      BY <2>1 DEF TxType, LegacySigning
    <3>3. MessageToSign' = template'
      BY <1>1, <2>1, <3>2 DEF MessageToSign
    <3> QED
      BY <2>1, <3>1, <3>3 DEF JsonOf
  <2>2. CASE ins \in {"SIGN", "SIGN_HASH"}
    <3>1. msg = buffer
      BY <2>2, LenProperties, SubSeqFull DEF msg, LegacySigning
    <3>2. TxType(ins) # "Transfer"
      BY <2>2 DEF TxType
    <3>3. MessageToSign' = tx'
      BY <1>1, <2>2, <3>2 DEF MessageToSign, LegacySigning
    <3> QED
      BY <1>1, <3>1, <3>2, <3>3 DEF JsonOf
  <2>3. CASE ins \in LegacySigning
    <3>1. TxType(ins) # "Transfer"
      BY <2>3 DEF TxType, LegacySigning
    <3>2. MessageToSign' = SubSeq(tx', 1, IF len <= Len(tx') THEN len ELSE Len(tx'))
      BY <1>1, <2>3, <3>1 DEF MessageToSign, LegacySigning
    <3> QED
      BY <1>1, <3>1, <3>2 DEF JsonOf, msg
  <2> QED
    BY <2>1, <2>2, <2>3 DEF SigningIns, Modern, TxType
<1>8. Signable(TxType(ins), JsonOf(ins, msg, path))
  <2>1. CASE TxType(ins) = "Hash"
    <3>1. Len(msg) = HASH_LEN /\ msg # << >>
      BY <1>1, <1>5, <2>1 DEF Outcome, RefusedEarly
    <3> QED
      BY <2>1, <3>1, HashAssumption DEF Signable, JsonOf
  <2>2. CASE TxType(ins) # "Hash"
    BY <1>1, <2>2 DEF Outcome, Signable
  <2> QED
    BY <2>1, <2>2
<1> QED
  BY <1>1, <1>5, <1>6, <1>7, <1>8 DEF msg

\* A complete command whose accepted APDUs frame buffer, len and path.
LEMMA CompleteInv ==
  ASSUME NEW ins \in SigningIns, NEW buffer \in Seq(Nat),
         NEW len \in Nat, len <= Len(buffer),
         ins \notin LegacySigning => len = Len(buffer),
         NEW path, NEW key,
         Complete(ins, buffer, len, path, key), UNCHANGED settings,
         payload_length' \in Nat, sign_path' = path,
         wire' \in WireType, wire'.ins = {ins},
         WirePayload(ins)' = buffer, WireDeclared(ins)' = len, WirePath(ins)' = path
  PROVE  Inv'
<1>1. tx' \in Seq(Nat) /\ stream' = Nil
  <2>1. tx' = << >> \/ tx' = buffer
    BY DEF Complete
  <2>2. << >> \in Seq(Nat)
    OBVIOUS
  <2>3. stream' = Nil
    BY DEF Complete
  <2> QED
    BY <2>1, <2>2, <2>3
<1>2. CASE ui' # "review"
  <2>1. NoSignature'
    BY DEF Complete, Answer, Show, Status, NoSignature
  <2> QED
    BY <1>1, <1>2, <2>1, ClosedInv
<1>3. CASE ui' = "review"
  <2> DEFINE msg == SubSeq(buffer, 1, len)
             outcome == Outcome(ins, msg, path, key)
  <2>1. /\ pending' = [ins |-> ins, len |-> len, blind |-> outcome = "blind"]
        /\ reply' = Nil
        /\ outcome = "clear" \/ (outcome = "blind" /\ blind_signing)
        /\ ~RefusedEarly(ins, msg, path, key)
        /\ parsed' = [type |-> TxType(ins), path |-> path, json |-> JsonOf(ins, msg, path)]
        /\ MessageToSign' = JsonOf(ins, msg, path)
        /\ Signable(TxType(ins), JsonOf(ins, msg, path))
    BY <1>3, ReviewShown
  <2> HIDE DEF msg
  <2>2. pending'.ins = ins /\ pending'.blind = (outcome = "blind")
    BY <2>1
  <2>3. /\ parsed'.type = TxType(ins)
        /\ parsed'.path = path
        /\ parsed'.json = JsonOf(ins, msg, path)
    BY <2>1
  <2>4. Types'
    BY <1>1, NilAssumption DEF Types, SigningIns, Modern, LegacySigning
  <2>5. StreamIsOneCommand' /\ SignatureIsOfTheCommand'
    BY <1>1, <2>1 DEF StreamIsOneCommand, SignatureIsOfTheCommand
  <2>6. ReviewOfWire'
    <3>1. WireMessage(ins)' = JsonOf(ins, msg, path)
      BY DEF WireMessage, JsonOf, msg
    <3> QED
      BY <2>1, <2>2, <3>1 DEF ReviewOfWire, SigningPath, WirePath, WireMessage,
                              WirePayload, WireDeclared
  <2>7. ReviewIsOfWhatIsSigned'
    BY <2>1, <2>2, <2>3 DEF ReviewIsOfWhatIsSigned, SigningPath
  <2>8. BlindReviewNeedsSetting'
    <3>1. blind_signing' = blind_signing /\ expert' = expert
      BY DEF settings
    <3>2. CASE TxType(ins) = "Hash"
      <4>1. outcome = "blind"
        BY <2>1, <3>2 DEF Outcome
      <4> QED
        BY <2>1, <2>2, <3>1, <4>1 DEF BlindReviewNeedsSetting
    <3>3. CASE TxType(ins) # "Hash"
      <4>1. outcome = Verdict(JsonOf(ins, msg, path), path, expert)
        BY <2>1, <3>3 DEF Outcome
      <4> QED
        BY <2>1, <2>2, <2>3, <3>1, <3>3, <4>1 DEF BlindReviewNeedsSetting
    <3> QED
      BY <3>2, <3>3
  <2> QED
    BY <2>4, <2>5, <2>6, <2>7, <2>8 DEF Inv
<1> QED
  BY <1>2, <1>3

-----------------------------------------------------------------------------
(* The actions.                                                            *)

\* Data fields and pieces are sequences of cells.
LEMMA DataType ==
  /\ \A data \in Data : data \in Seq(Nat)
  /\ \A piece \in Pieces : piece \in Seq(Nat)
BY DataAssumption

\* An accepted chunk extends what is known of the command.
LEMMA ExtendedType ==
  ASSUME wire \in WireType, NEW ins \in SigningIns, NEW data \in Seq(Nat),
         wire' = Extended(ins, data)
  PROVE  /\ wire' \in WireType
         /\ wire'.ins = wire.ins \cup {ins}
         /\ wire'.first = wire.first
         /\ wire'.rest = wire.rest \o data
<1>1. /\ wire.ins \in SUBSET SigningIns /\ wire.first \in Seq(Nat) /\ wire.rest \in Seq(Nat)
      /\ wire = [ins |-> wire.ins, first |-> wire.first, rest |-> wire.rest]
  BY DEF WireType
<1>2. wire.rest \o data \in Seq(Nat)
  BY <1>1, ConcatProperties
<1>3. wire' = [ins |-> wire.ins \cup {ins}, first |-> wire.first, rest |-> wire.rest \o data]
  BY <1>1 DEF Extended
<1>4. wire.ins \cup {ins} \in SUBSET SigningIns
  BY <1>1
<1> QED
  BY <1>1, <1>2, <1>3, <1>4 DEF WireType

\* A reply that is only a status word, and a refused legacy path.
LEMMA AnswerIsQuiet ==
  ASSUME NEW sw, Answer(sw)
  PROVE  NoSignature' /\ ui' # "review"
BY DEF Answer, Status, NoSignature

LEMMA RefusedPathIsQuiet ==
  ASSUME NEW buf, NEW offset, NEW check_len,
         LegacyMisframed(buf, offset, check_len) \/ LegacyBadPrefix(buf, offset, check_len)
  PROVE  NoSignature' /\ ui' # "review" /\ UNCHANGED sign_path
<1>1. UNCHANGED sign_path
  BY DEF LegacyMisframed, LegacyBadPrefix, paths
<1>2. \E sw : Answer(sw)
  BY DEF LegacyMisframed, LegacyBadPrefix
<1> QED
  BY <1>1, <1>2, AnswerIsQuiet

LEMMA OtherInv == Inv /\ Other(Data) => Inv'
<1> SUFFICES ASSUME Inv, Other(Data) PROVE Inv'
  OBVIOUS
<1> USE DEF Status, NoSignature, paths, buffers, settings
<1>1. ASSUME NEW sw, Query(sw) PROVE Inv'
  BY <1>1, UntouchedInv DEF Query, Answer
<1>2. CASE Locked
  BY <1>2, UntouchedInv DEF Locked, Answer
<1>3. ASSUME NEW show \in BOOLEAN, NEW key \in BOOLEAN, NEW data \in Data,
             GetAddr(show, data, key)
      PROVE  Inv'
  <2>1. NoSignature' /\ ui' # "review"
    BY <1>3 DEF GetAddr, Address, Answer, Show
  <2>2. UNCHANGED <<wire, tx, payload_length, sign_path>>
    BY <1>3 DEF GetAddr
  <2>3. stream' = stream \/ stream' = Nil
    BY <1>3 DEF GetAddr
  <2>4. CASE stream' = stream
    BY <2>1, <2>2, <2>4, UntouchedInv
  <2>5. CASE stream' = Nil
    BY <2>1, <2>2, <2>5, ClosedInv DEF Inv, Types
  <2> QED
    BY <2>3, <2>4, <2>5
<1>4. ASSUME NEW show \in BOOLEAN, NEW key \in BOOLEAN, NEW data \in Data,
             LegacyGetAddr(show, data, key)
      PROVE  Inv'
  <2>1. NoSignature' /\ ui' # "review"
    <3>1. CASE LegacyMisframed(data, 0, TRUE) \/ LegacyBadPrefix(data, 0, TRUE)
      BY <3>1, RefusedPathIsQuiet
    <3>2. CASE Address(show, LegacyPathOf(data, 0), key)
      BY <3>2 DEF Address, Answer, Show
    <3> QED
      BY <1>4, <3>1, <3>2 DEF LegacyGetAddr
  <2>2. UNCHANGED <<stream, wire, tx, payload_length, sign_path>>
    BY <1>4 DEF LegacyGetAddr, LegacyMisframed, LegacyBadPrefix
  <2> QED
    BY <2>1, <2>2, UntouchedInv
<1> QED
  BY <1>1, <1>2, <1>3, <1>4 DEF Other

LEMMA ModernInv == Inv /\ ModernChunk(Commands, Data) => Inv'
<1> SUFFICES ASSUME Inv, NEW ins \in Modern, NEW data \in Data,
                    \/ SignInit(ins, data)
                    \/ SignMismatch(ins)
                    \/ SignFull(ins, data)
                    \/ SignAdd(ins, data)
                    \/ \E key \in BOOLEAN : SignLast(ins, data, key)
                    \/ SignBadP1
             PROVE  Inv'
  BY DEF ModernChunk
<1> USE DEF Status, NoSignature, paths, buffers, settings
<1>0. /\ data \in Seq(Nat)
      /\ ins \in SigningIns /\ ins \notin LegacySigning /\ ins # "LEGACY_SIGN_JSON"
      /\ NoWire \in WireType
  BY DataType DEF SigningIns, Modern, LegacySigning, NoWire, WireType
<1>1. CASE SignInit(ins, data)
  <2>1. NoSignature' /\ ui' # "review" /\ tx' = << >> /\ payload_length' = payload_length
    BY <1>1 DEF SignInit, Answer
  <2>2. CASE stream' = Nil /\ wire' = NoWire
    BY <1>0, <2>1, <2>2, ClosedInv DEF Inv, Types
  <2>3. CASE stream' = ins /\ wire' = Opened(ins, data) /\ sign_path' = PathOf(data)
    <3>1. wire' = [ins |-> {ins}, first |-> data, rest |-> << >>]
      BY <2>3 DEF Opened
    <3>2. Types'
      BY <1>0, <2>1, <2>3, <3>1 DEF Inv, Types, WireType
    <3>3. StreamIsOneCommand'
      BY <1>0, <2>1, <2>3, <3>1 DEF StreamIsOneCommand, WirePayload, WirePath,
                                             LegacySigning, Modern
    <3> QED
      BY <2>1, <3>2, <3>3, QuietInv
  <2> QED
    BY <1>1, <2>2, <2>3 DEF SignInit
<1>2. CASE SignMismatch(ins) \/ SignFull(ins, data)
  <2>1. /\ stream' = Nil /\ wire' = NoWire
        /\ NoSignature' /\ ui' # "review"
        /\ UNCHANGED <<tx, payload_length>>
    BY <1>2 DEF SignMismatch, SignFull, Answer
  <2> QED
    BY <1>0, <2>1, ClosedInv DEF Inv, Types
<1>3. CASE SignAdd(ins, data)
  <2>1. /\ stream = ins
        /\ tx' = tx \o data
        /\ NoSignature' /\ ui' # "review"
        /\ UNCHANGED <<stream, payload_length, sign_path>>
        /\ wire' = Extended(ins, data)
    BY <1>3 DEF SignAdd, Continues, Answer
  <2>2. /\ wire' \in WireType /\ wire'.ins = wire.ins \cup {ins}
        /\ wire'.first = wire.first /\ wire'.rest = wire.rest \o data
    BY <1>0, <2>1, ExtendedType DEF Inv, Types
  <2>3. Types'
    BY <1>0, <2>1, <2>2 DEF Inv, Types
  <2>4. StreamIsOneCommand'
    BY <1>0, <2>1, <2>2, NilAssumption
    DEF Inv, StreamIsOneCommand, WirePayload, WirePath, LegacySigning, Modern
  <2> QED
    BY <2>1, <2>3, <2>4, QuietInv
<1>4. ASSUME NEW key \in BOOLEAN, SignLast(ins, data, key) PROVE Inv'
  <2>1. /\ stream = ins
        /\ Complete(ins, tx \o data, Len(tx \o data), sign_path, key)
        /\ UNCHANGED <<paths, payload_length, settings>>
        /\ wire' = Extended(ins, data)
    BY <1>4 DEF SignLast, Continues
  <2>2. /\ wire' \in WireType /\ wire'.ins = wire.ins \cup {ins}
        /\ wire'.first = wire.first /\ wire'.rest = wire.rest \o data
    BY <1>0, <2>1, ExtendedType DEF Inv, Types
  <2>3. tx \o data \in Seq(Nat) /\ Len(tx \o data) \in Nat
    BY <1>0 DEF Inv, Types
  <2>4. wire.ins = {ins} /\ tx = wire.rest /\ sign_path = PathOf(wire.first)
    BY <1>0, <2>1, NilAssumption DEF Inv, StreamIsOneCommand, WirePayload, WirePath,
                                     LegacySigning, Modern
  <2>5. /\ WirePayload(ins)' = tx \o data
        /\ WireDeclared(ins)' = Len(tx \o data)
        /\ WirePath(ins)' = sign_path
    BY <1>0, <2>2, <2>4 DEF WirePayload, WireDeclared, WirePath, LegacySigning, Modern
  <2>6. wire'.ins = {ins} /\ payload_length' \in Nat /\ sign_path' = sign_path
    BY <2>1, <2>2, <2>4 DEF Inv, Types
  <2>7. Len(tx \o data) <= Len(tx \o data)
    BY <2>3
  <2> QED
    BY <1>0, <2>1, <2>2, <2>3, <2>5, <2>6, <2>7, CompleteInv
<1>5. CASE SignBadP1
  BY <1>5, UntouchedInv DEF SignBadP1, Answer
<1> QED
  BY <1>1, <1>2, <1>3, <1>4, <1>5

LEMMA Associative ==
  ASSUME NEW a \in Seq(Nat), NEW b \in Seq(Nat), NEW c \in Seq(Nat)
  PROVE  (a \o b) \o c = a \o (b \o c)
BY ConcatAssociative

\* What a legacy chunk that is taken leaves on the wire.
LEMMA LegacyTaken ==
  ASSUME Inv, NEW ins, NEW data \in Seq(Nat), LegacyTakes(ins, data)
  PROVE  /\ ins \in LegacySigning /\ ins \in SigningIns
         /\ DeclaredBy(ins, data) \in Nat
         /\ BufferBefore \o PayloadOf(ins, data) \in Seq(Nat)
         /\ wire' = LegacyWire(ins, data) =>
              /\ wire' \in WireType
              /\ wire'.ins = {ins}
              /\ ins = "LEGACY_SIGN_JSON" => wire'.first # << >>
              /\ WirePayload(ins)' = BufferBefore \o PayloadOf(ins, data)
              /\ WireDeclared(ins)' = DeclaredBy(ins, data)
<1>0. /\ ins \in LegacySigning /\ ins \in SigningIns
      /\ ins = "LEGACY_SIGN_JSON" \/ ins = "LEGACY_SIGN_HASH"
      /\ tx \in Seq(Nat) /\ payload_length \in Nat /\ HASH_LEN \in Nat
  BY HashAssumption DEF LegacyTakes, SigningIns, LegacySigning, Inv, Types
<1>1. CASE stream = Nil
  <2>1. /\ BufferBefore = << >>
        /\ LegacyWire(ins, data) = [ins |-> {ins}, first |-> data, rest |-> << >>]
    BY <1>1 DEF BufferBefore, LegacyWire, FirstChunk, Opened
  <2>2. CASE ins = "LEGACY_SIGN_JSON"
    <3>1. data # << >> /\ PayloadOf(ins, data) = Tail(data) /\ DeclaredBy(ins, data) = data[1]
      BY <1>1, <2>2 DEF LegacyTakes, PayloadOf, DeclaredBy, FirstChunk
    <3>2. Tail(data) \in Seq(Nat) /\ data[1] \in Nat
      BY <3>1
    <3>3. << >> \o Tail(data) = Tail(data) /\ Tail(data) \o << >> = Tail(data)
      BY <3>2
    <3>4. ASSUME wire' = LegacyWire(ins, data)
          PROVE  /\ wire' \in WireType
                 /\ wire'.ins = {ins} /\ wire'.first = data /\ wire'.rest = << >>
      <4>1. {ins} \in SUBSET SigningIns
        BY <1>0
      <4> QED
        BY <2>1, <3>4, <4>1 DEF WireType
    <3>5. ASSUME wire' = LegacyWire(ins, data)
          PROVE  WirePayload(ins)' = Tail(data) /\ WireDeclared(ins)' = data[1]
      BY <2>2, <3>3, <3>4, <3>5 DEF WirePayload, WireDeclared
    <3> QED
      BY <1>0, <2>1, <3>1, <3>2, <3>3, <3>4, <3>5
  <2>3. CASE ins = "LEGACY_SIGN_HASH"
    <3>1. PayloadOf(ins, data) = data /\ DeclaredBy(ins, data) = HASH_LEN
      BY <1>1, <2>3 DEF PayloadOf, DeclaredBy, FirstChunk
    <3>2. << >> \o data = data /\ data \o << >> = data
      OBVIOUS
    <3>4. ASSUME wire' = LegacyWire(ins, data)
          PROVE  /\ wire' \in WireType
                 /\ wire'.ins = {ins} /\ wire'.first = data /\ wire'.rest = << >>
      <4>1. {ins} \in SUBSET SigningIns
        BY <1>0
      <4> QED
        BY <2>1, <3>4, <4>1 DEF WireType
    <3>5. ASSUME wire' = LegacyWire(ins, data)
          PROVE  WirePayload(ins)' = data /\ WireDeclared(ins)' = HASH_LEN
      BY <2>3, <3>2, <3>4, <3>5 DEF WirePayload, WireDeclared
    <3> QED
      BY <1>0, <2>1, <2>3, <3>1, <3>2, <3>4, <3>5
  <2> QED
    BY <1>0, <2>2, <2>3
<1>2. CASE stream # Nil
  <2>1. /\ stream = ins
        /\ BufferBefore = tx /\ PayloadOf(ins, data) = data
        /\ DeclaredBy(ins, data) = payload_length
        /\ LegacyWire(ins, data) = Extended(ins, data)
    BY <1>2 DEF LegacyTakes, BufferBefore, PayloadOf, DeclaredBy, LegacyWire, FirstChunk
  <2>2. /\ wire \in WireType /\ wire.ins = {ins}
        /\ tx = WirePayload(ins) /\ payload_length = WireDeclared(ins)
        /\ ins = "LEGACY_SIGN_JSON" => wire.first # << >>
    BY <1>0, <1>2, <2>1 DEF Inv, Types, StreamIsOneCommand
  <2>3. wire.first \in Seq(Nat) /\ wire.rest \in Seq(Nat) /\ tx \o data \in Seq(Nat)
    BY <1>0, <2>2 DEF WireType
  <2>4. ASSUME wire' = LegacyWire(ins, data)
        PROVE  /\ wire' \in WireType
               /\ wire'.ins = {ins}
               /\ ins = "LEGACY_SIGN_JSON" => wire'.first # << >>
               /\ WirePayload(ins)' = tx \o data
               /\ WireDeclared(ins)' = payload_length
    <3>0. wire' = Extended(ins, data)
      BY <2>1, <2>4
    <3>1. /\ wire' \in WireType /\ wire'.ins = wire.ins \cup {ins}
          /\ wire'.first = wire.first /\ wire'.rest = wire.rest \o data
      BY <1>0, <2>2, <3>0, ExtendedType
    <3>2. CASE ins = "LEGACY_SIGN_JSON"
      <4>1. Tail(wire.first) \in Seq(Nat)
        BY <2>2, <2>3, <3>2
      <4>2. tx = Tail(wire.first) \o wire.rest
        BY <2>2, <3>2 DEF WirePayload
      <4>3. (Tail(wire.first) \o wire.rest) \o data = Tail(wire.first) \o (wire.rest \o data)
        BY <2>3, <4>1, Associative
      <4>4. WirePayload(ins)' = Tail(wire.first) \o (wire.rest \o data)
        BY <3>1, <3>2 DEF WirePayload
      <4>5. WireDeclared(ins)' = payload_length
        BY <2>2, <3>1, <3>2 DEF WireDeclared
      <4> QED
        BY <2>2, <3>1, <4>2, <4>3, <4>4, <4>5
    <3>3. CASE ins = "LEGACY_SIGN_HASH"
      <4>2. tx = wire.first \o wire.rest
        BY <2>2, <3>3 DEF WirePayload
      <4>3. (wire.first \o wire.rest) \o data = wire.first \o (wire.rest \o data)
        BY <2>3, Associative
      <4>4. WirePayload(ins)' = wire.first \o (wire.rest \o data)
        BY <3>1, <3>3 DEF WirePayload
      <4>5. WireDeclared(ins)' = payload_length
        BY <2>2, <3>1, <3>3 DEF WireDeclared
      <4> QED
        BY <2>2, <3>1, <3>3, <4>2, <4>3, <4>4, <4>5
    <3> QED
      BY <1>0, <3>2, <3>3
  <2> QED
    BY <1>0, <2>1, <2>3, <2>4
<1> QED
  BY <1>1, <1>2


\* The same of an 0x10 APDU.
LEMMA TransferTaken ==
  ASSUME Inv, NEW ins, NEW data \in Seq(Nat), NEW piece \in Seq(Nat),
         TransferTakes(ins, data)
  PROVE  /\ ins \in SigningIns /\ ins \notin LegacySigning /\ ins = "LEGACY_TRANSFER"
         /\ BufferBefore \o piece \in Seq(Nat)
         /\ payload_length' \in Nat
         /\ UNCHANGED settings
         /\ wire' = TransferWire(ins, data, piece) =>
              /\ wire' \in WireType
              /\ wire'.ins = {ins}
              /\ WirePayload(ins)' = BufferBefore \o piece
              /\ WireDeclared(ins)' = Len(BufferBefore \o piece)
              /\ WirePath(ins)' = sign_path'
<1>0. /\ ins \in SigningIns /\ ins \notin LegacySigning /\ ins \notin Modern
      /\ ins = "LEGACY_TRANSFER"
      /\ tx \in Seq(Nat) /\ payload_length' \in Nat
      /\ UNCHANGED settings
  BY DEF TransferTakes, SigningIns, LegacySigning, Modern, Inv, Types
<1>1. ASSUME wire' \in WireType, wire'.rest = BufferBefore \o piece,
             LegacyPathOf(wire'.first, 0) = sign_path'
      PROVE  /\ WirePayload(ins)' = BufferBefore \o piece
             /\ WireDeclared(ins)' = Len(BufferBefore \o piece)
             /\ WirePath(ins)' = sign_path'
  <2>1. WirePayload(ins)' = wire'.rest /\ WireDeclared(ins)' = Len(wire'.rest)
    BY <1>0 DEF WirePayload, WireDeclared
  <2>2. WirePath(ins)' = LegacyPathOf(wire'.first, 0)
    BY <1>0 DEF WirePath
  <2> QED
    BY <1>1, <2>1, <2>2
<1>2. CASE stream = Nil
  <2>1. /\ BufferBefore = << >> /\ sign_path' = LegacyPathOf(data, 0)
        /\ TransferWire(ins, data, piece) = [ins |-> {ins}, first |-> data, rest |-> piece]
    BY <1>2 DEF BufferBefore, TransferWire, FirstChunk, TransferTakes, Opened
  <2>2. << >> \o piece = piece
    OBVIOUS
  <2>3. {ins} \in SUBSET SigningIns
    BY <1>0
  <2>4. ASSUME wire' = TransferWire(ins, data, piece)
        PROVE  wire' \in WireType /\ wire'.ins = {ins} /\ wire'.first = data /\ wire'.rest = piece
    BY <2>1, <2>3, <2>4 DEF WireType
  <2> QED
    BY <1>0, <1>1, <2>1, <2>2, <2>4
<1>3. CASE stream # Nil
  <2>1. /\ stream = ins
        /\ BufferBefore = tx /\ sign_path' = sign_path
        /\ TransferWire(ins, data, piece) = Extended(ins, piece)
    BY <1>3 DEF TransferTakes, BufferBefore, TransferWire, FirstChunk, paths
  <2>2. wire \in WireType /\ wire.ins = {ins} /\ tx = WirePayload(ins) /\ sign_path = WirePath(ins)
    BY <1>0, <1>3, <2>1 DEF Inv, Types, StreamIsOneCommand
  <2>3. tx = wire.rest
    BY <1>0, <2>2 DEF WirePayload
  <2>4. sign_path = LegacyPathOf(wire.first, 0)
    BY <1>0, <2>2 DEF WirePath
  <2>5. tx \o piece \in Seq(Nat)
    BY <1>0
  <2>6. ASSUME wire' = TransferWire(ins, data, piece)
        PROVE  /\ wire' \in WireType /\ wire'.ins = wire.ins \cup {ins}
               /\ wire'.first = wire.first /\ wire'.rest = wire.rest \o piece
    <3>1. wire' = Extended(ins, piece)
      BY <2>1, <2>6
    <3> QED
      BY <1>0, <2>2, <3>1, ExtendedType
  <2> QED
    BY <1>0, <1>1, <2>1, <2>2, <2>3, <2>4, <2>5, <2>6
<1> QED
  BY <1>2, <1>3

LEMMA LegacyInv == Inv /\ LegacyChunk(Commands, Data, Pieces) => Inv'
<1> SUFFICES ASSUME Inv, NEW ins, NEW data \in Data,
                    \/ LegacyMismatch(ins)
                    \/ LegacyTooShort(ins, data)
                    \/ LegacyFull(ins, data)
                    \/ LegacyMore(ins, data)
                    \/ \E key \in BOOLEAN : LegacyLast(ins, data, key)
                    \/ TransferNoPath(ins, data)
                    \/ \E piece \in Pieces :
                         \/ TransferMore(ins, data, piece)
                         \/ \E sw \in TransferRefusal : TransferRefused(ins, data, piece, sw)
                         \/ \E key \in BOOLEAN : TransferLast(ins, data, piece, key)
             PROVE  Inv'
  BY DEF LegacyChunk
<1> DEFINE buffer == BufferBefore \o PayloadOf(ins, data)
           pl == DeclaredBy(ins, data)
<1>0. /\ data \in Seq(Nat) /\ NoWire \in WireType /\ << >> \in Seq(Nat)
      /\ tx \in Seq(Nat) /\ payload_length \in Nat
  BY DataType DEF NoWire, WireType, Inv, Types
<1>1. CASE LegacyMismatch(ins)
  <2>1. /\ stream' = Nil /\ wire' = NoWire /\ UNCHANGED <<tx, payload_length>>
        /\ Answer("TX_NOT_INITIALIZED")
    BY <1>1 DEF LegacyMismatch, buffers
  <2> QED
    BY <1>0, <2>1, AnswerIsQuiet, ClosedInv
<1>2. CASE LegacyTooShort(ins, data)
  <2>1. /\ UNCHANGED <<stream, wire, tx, payload_length, sign_path>>
        /\ Answer("WRONG_LENGTH")
    BY <1>2 DEF LegacyTooShort, buffers, paths
  <2> QED
    BY <2>1, AnswerIsQuiet, UntouchedInv
<1>3. CASE LegacyFull(ins, data)
  <2>1. /\ stream' = Nil /\ wire' = NoWire /\ tx' = << >> /\ payload_length' = pl
        /\ Answer("OUTPUT_BUFFER_TOO_SMALL") /\ LegacyTakes(ins, data)
    BY <1>3 DEF LegacyFull
  <2>2. pl \in Nat
    BY <1>0, <2>1, LegacyTaken
  <2> QED
    BY <1>0, <2>1, <2>2, AnswerIsQuiet, ClosedInv
<1>4. CASE LegacyMore(ins, data)
  <2>1. /\ stream' = ins /\ wire' = LegacyWire(ins, data)
        /\ tx' = buffer /\ payload_length' = pl
        /\ Answer("OK") /\ LegacyTakes(ins, data)
    BY <1>4 DEF LegacyMore
  <2>2. /\ ins \in LegacySigning /\ ins \in SigningIns /\ pl \in Nat /\ buffer \in Seq(Nat)
        /\ wire' \in WireType /\ wire'.ins = {ins}
        /\ ins = "LEGACY_SIGN_JSON" => wire'.first # << >>
        /\ WirePayload(ins)' = buffer /\ WireDeclared(ins)' = pl
    BY <1>0, <2>1, LegacyTaken
  <2> HIDE DEF buffer, pl
  <2>3. Types'
    BY <2>1, <2>2 DEF Types
  <2>4. StreamIsOneCommand'
    <3>1. WirePayload(stream)' = buffer /\ WireDeclared(stream)' = pl
      BY <2>1, <2>2 DEF WirePayload, WireDeclared
    <3> QED
      BY <2>1, <2>2, <3>1 DEF StreamIsOneCommand
  <2> QED
    BY <2>1, <2>3, <2>4, AnswerIsQuiet, QuietInv
<1>5. ASSUME NEW key \in BOOLEAN, LegacyLast(ins, data, key) PROVE Inv'
  <2>1. LegacyTakes(ins, data) /\ payload_length' = pl /\ UNCHANGED settings
    BY <1>5 DEF LegacyLast
  <2>2. /\ ins \in LegacySigning /\ ins \in SigningIns /\ pl \in Nat /\ buffer \in Seq(Nat)
        /\ wire' = LegacyWire(ins, data) =>
             /\ wire' \in WireType /\ wire'.ins = {ins}
             /\ WirePayload(ins)' = buffer /\ WireDeclared(ins)' = pl
    BY <1>0, <2>1, LegacyTaken
  <2>3. CASE /\ Answer("DATA_INVALID") /\ tx' = << >>
             /\ stream' = Nil /\ wire' = NoWire
    BY <1>0, <2>1, <2>2, <2>3, AnswerIsQuiet, ClosedInv
  <2>4. CASE /\ LegacyMisframed(buffer, pl, TRUE) \/ LegacyBadPrefix(buffer, pl, TRUE)
             /\ tx' = buffer
             /\ stream' = Nil /\ wire' = NoWire
    BY <1>0, <2>1, <2>2, <2>4, RefusedPathIsQuiet, ClosedInv
  <2>5. CASE /\ Len(buffer) >= pl
             /\ sign_path' = LegacyPathOf(buffer, pl)
             /\ Complete(ins, buffer, pl, LegacyPathOf(buffer, pl), key)
             /\ wire' = LegacyWire(ins, data)
    <3> HIDE DEF buffer, pl
    <3>1. WirePath(ins)' = LegacyPathOf(buffer, pl)
      <4>1. ins \notin Modern /\ ins # "LEGACY_TRANSFER"
        BY <2>2 DEF LegacySigning, Modern
      <4>2. WirePath(ins)' = LegacyPathOf(WirePayload(ins)', WireDeclared(ins)')
        BY <2>2, <4>1 DEF WirePath
      <4> QED
        BY <2>2, <2>5, <4>2
    <3>2. pl <= Len(buffer)
      BY <2>2, <2>5
    <3> QED
      BY <2>1, <2>2, <2>5, <3>1, <3>2, CompleteInv
  <2> QED
    BY <1>5, <2>3, <2>4, <2>5 DEF LegacyLast
<1>6. CASE TransferNoPath(ins, data)
  <2>1. /\ UNCHANGED <<stream, wire, tx, payload_length>>
        /\ LegacyMisframed(data, 0, FALSE) \/ LegacyBadPrefix(data, 0, FALSE)
    BY <1>6 DEF TransferNoPath, buffers
  <2> QED
    BY <2>1, RefusedPathIsQuiet, UntouchedInv
<1>7. ASSUME NEW piece \in Pieces, TransferMore(ins, data, piece) PROVE Inv'
  <2> DEFINE b == BufferBefore \o piece
  <2>1. /\ stream' = ins /\ wire' = TransferWire(ins, data, piece)
        /\ tx' = b /\ Answer("OK") /\ TransferTakes(ins, data)
    BY <1>7 DEF TransferMore
  <2>2. piece \in Seq(Nat)
    BY DataType
  <2>3. /\ ins \in SigningIns /\ ins \notin LegacySigning /\ ins = "LEGACY_TRANSFER"
        /\ b \in Seq(Nat) /\ payload_length' \in Nat
        /\ wire' \in WireType /\ wire'.ins = {ins}
        /\ WirePayload(ins)' = b /\ WirePath(ins)' = sign_path'
    BY <1>0, <2>1, <2>2, TransferTaken
  <2> HIDE DEF b
  <2>4. Types'
    BY <2>1, <2>3 DEF Types
  <2>5. StreamIsOneCommand'
    <3>1. WirePayload(stream)' = b /\ WirePath(stream)' = sign_path'
      BY <2>1, <2>3 DEF WirePayload, WirePath
    <3> QED
      BY <2>1, <2>3, <3>1 DEF StreamIsOneCommand
  <2> QED
    BY <2>1, <2>4, <2>5, AnswerIsQuiet, QuietInv
<1>8. ASSUME NEW piece \in Pieces, NEW sw, TransferRefused(ins, data, piece, sw) PROVE Inv'
  <2>1. /\ TransferTakes(ins, data) /\ Answer(sw)
        /\ tx' = BufferBefore \o piece \/ tx' = << >>
        /\ stream' = Nil /\ wire' = NoWire
    BY <1>8 DEF TransferRefused
  <2>2. piece \in Seq(Nat)
    BY DataType
  <2>3. BufferBefore \o piece \in Seq(Nat) /\ payload_length' \in Nat
    BY <1>0, <2>1, <2>2, TransferTaken
  <2> QED
    BY <1>0, <2>1, <2>3, AnswerIsQuiet, ClosedInv
<1>9. ASSUME NEW piece \in Pieces, NEW key \in BOOLEAN, TransferLast(ins, data, piece, key)
      PROVE  Inv'
  <2> DEFINE b == BufferBefore \o piece
  <2>1. /\ TransferTakes(ins, data) /\ wire' = TransferWire(ins, data, piece)
        /\ Complete(ins, b, Len(b), sign_path', key)
    BY <1>9 DEF TransferLast
  <2>2. piece \in Seq(Nat)
    BY DataType
  <2>3. /\ ins \in SigningIns /\ ins \notin LegacySigning
        /\ b \in Seq(Nat) /\ payload_length' \in Nat /\ UNCHANGED settings
        /\ wire' \in WireType /\ wire'.ins = {ins}
        /\ WirePayload(ins)' = b /\ WireDeclared(ins)' = Len(b)
        /\ WirePath(ins)' = sign_path'
    BY <1>0, <2>1, <2>2, TransferTaken
  <2> HIDE DEF b
  <2>4. Len(b) \in Nat /\ Len(b) <= Len(b)
    BY <2>3
  <2> QED
    BY <2>1, <2>3, <2>4, CompleteInv
<1> HIDE DEF buffer, pl
<1> QED
  BY <1>1, <1>2, <1>3, <1>4, <1>5, <1>6, <1>7, <1>8, <1>9

\* The user's decisions.
LEMMA DecisionInv == Inv /\ Decision => Inv'
<1> SUFFICES ASSUME Inv, Decision PROVE Inv'
  OBVIOUS
<1>1. ASSUME NEW approved \in BOOLEAN, AddressDone(approved) PROVE Inv'
  <2>1. UNCHANGED <<stream, wire, tx, payload_length, sign_path>> /\ \E sw : Answer(sw)
    BY <1>1 DEF AddressDone, paths, buffers
  <2> QED
    BY <2>1, AnswerIsQuiet, UntouchedInv
<1>2. CASE BlindScreenDone
  <2>1. UNCHANGED <<stream, wire, tx, payload_length, sign_path>> /\ Answer("DATA_INVALID")
    BY <1>2 DEF BlindScreenDone, paths, buffers
  <2> QED
    BY <2>1, AnswerIsQuiet, UntouchedInv
<1>3. ASSUME NEW approved \in BOOLEAN, NEW key \in BOOLEAN, NEW signed \in BOOLEAN,
             SignDone(approved, key, signed)
      PROVE  Inv'
  <2> DEFINE sig == [path |-> SigningPath,
                     digest |-> Digest(TxType(pending.ins), MessageToSign)]
  <2>1. /\ ui = "review" /\ ui' = "ready"
        /\ UNCHANGED <<stream, wire, tx, payload_length, sign_path>>
    BY <1>3 DEF SignDone, paths, buffers
  <2>2. (\E sw : reply' = Status(sw)) \/ reply' = [sw |-> "OK", sig |-> sig]
    BY <1>3 DEF SignDone
  <2>3. CASE \E sw : reply' = Status(sw)
    <3>1. NoSignature'
      BY <2>3 DEF Status, NoSignature
    <3> QED
      BY <2>1, <3>1, UntouchedInv
  <2>4. CASE reply' = [sw |-> "OK", sig |-> sig]
    <3>1. /\ pending.ins \in SigningIns /\ wire.ins = {pending.ins}
          /\ SigningPath = WirePath(pending.ins)
          /\ MessageToSign = WireMessage(pending.ins)
      BY <2>1 DEF Inv, ReviewOfWire
    <3>2. /\ reply'.sig.path = WirePath(pending.ins)
          /\ reply'.sig.digest = Digest(TxType(pending.ins), WireMessage(pending.ins))
      BY <2>4, <3>1
    <3>3. SignatureIsOfTheCommand'
      BY <2>1, <3>1, <3>2 DEF SignatureIsOfTheCommand, WirePath, WireMessage,
                              WirePayload, WireDeclared
    <3>4. Types'
      BY <2>1 DEF Inv, Types
    <3>5. StreamIsOneCommand'
      BY <2>1 DEF Inv, StreamIsOneCommand, WirePayload, WireDeclared, WirePath
    <3> QED
      BY <2>1, <3>3, <3>4, <3>5 DEF Inv, ReviewOfWire, ReviewIsOfWhatIsSigned,
                                    BlindReviewNeedsSetting
  <2> QED
    BY <2>2, <2>3, <2>4
<1> QED
  BY <1>1, <1>2, <1>3 DEF Decision

\* Nothing the invariant is about changes, or the settings change while no
\* review is on the screen.
LEMMA SettledInv ==
  ASSUME Inv, UNCHANGED <<paths, stream, pending, payload_length, buffers, ui, reply, wire>>,
         ui = "ready" \/ UNCHANGED <<blind_signing, expert>>
  PROVE  Inv'
<1> USE DEF paths, buffers
<1>1. Types' /\ StreamIsOneCommand'
  BY DEF Inv, Types, StreamIsOneCommand, WirePayload, WireDeclared, WirePath
<1>2. SignatureIsOfTheCommand'
  BY DEF Inv, SignatureIsOfTheCommand, WirePath, WireMessage, WirePayload, WireDeclared
<1>3. CASE ui = "ready"
  BY <1>1, <1>2, <1>3 DEF Inv, ReviewOfWire, ReviewIsOfWhatIsSigned, BlindReviewNeedsSetting
<1>4. CASE UNCHANGED <<blind_signing, expert>>
  <2>1. ReviewOfWire'
    BY DEF Inv, ReviewOfWire, SigningPath, MessageToSign, WirePath, WireMessage,
           WirePayload, WireDeclared
  <2>2. ReviewIsOfWhatIsSigned'
    BY DEF Inv, ReviewIsOfWhatIsSigned, SigningPath, MessageToSign
  <2>3. BlindReviewNeedsSetting'
    BY <1>4 DEF Inv, BlindReviewNeedsSetting
  <2> QED
    BY <1>1, <1>2, <2>1, <2>2, <2>3 DEF Inv
<1> QED
  BY <1>3, <1>4

LEMMA NextInv == Inv /\ [Next]_vars => Inv'
<1> SUFFICES ASSUME Inv, [Next]_vars PROVE Inv'
  OBVIOUS
<1>1. CASE Toggle
  BY <1>1, SettledInv DEF Toggle
<1>2. CASE LockOrUnlock
  BY <1>2, SettledInv DEF LockOrUnlock
<1>3. CASE UNCHANGED vars
  BY <1>3, SettledInv DEF vars, settings
<1>4. CASE Restart
  <2>1. /\ tx' = << >> /\ payload_length' = 0 /\ wire' = NoWire /\ stream' = Nil
        /\ reply' = Nil /\ ui' = "ready"
    BY <1>4 DEF Restart
  <2>2. tx' \in Seq(Nat) /\ payload_length' \in Nat /\ wire' \in WireType
    BY <2>1 DEF NoWire, WireType
  <2>3. NoSignature'
    BY <2>1 DEF NoSignature
  <2> QED
    BY <2>1, <2>2, <2>3, ClosedInv
<1> QED
  BY <1>1, <1>2, <1>3, <1>4, OtherInv, ModernInv, LegacyInv, DecisionInv DEF Next, Step

LEMMA AppInvariant == Spec => []Inv
BY InitInv, NextInv, PTL DEF Spec

\* Whatever the parser accepts and the host sends, over restarts and changes of
\* the settings: the signature is of the command on the wire (sign_done).
THEOREM AppSafe == Spec => []SignatureIsOfTheCommand
<1>1. Inv => SignatureIsOfTheCommand
  BY DEF Inv
<1> QED
  BY <1>1, AppInvariant, PTL

\* For every set of APDUs the open stream is one command's, whatever other
\* commands come in between (sign_chunk, legacy_sign, legacy_transfer).
THEOREM StreamSafe == Spec => []StreamIsOneCommand
<1>1. Inv => StreamIsOneCommand
  BY DEF Inv
<1> QED
  BY <1>1, AppInvariant, PTL

\* For every parser and template builder, the buffer an approval signs is the one
\* the review items were made from (tx_parse, sign_done).
THEOREM ReviewedIsSigned == Spec => []ReviewIsOfWhatIsSigned
<1>1. Inv => ReviewIsOfWhatIsSigned
  BY DEF Inv
<1> QED
  BY <1>1, AppInvariant, PTL

\* For every parser, a blind review is on the screen only while the setting is on
\* (tx_parse).
THEOREM BlindSafe == Spec => []BlindReviewNeedsSetting
<1>1. Inv => BlindReviewNeedsSetting
  BY DEF Inv
<1> QED
  BY <1>1, AppInvariant, PTL

-----------------------------------------------------------------------------
(* Types.                                                                  *)

PathsTyped == Len(hd_path) = PATH_WORDS /\ Len(sign_path) = PATH_WORDS

TxTyped == tx \in Seq(Nat) /\ Len(tx) <= FLASH_CAP

SettingsTyped == blind_signing \in BOOLEAN /\ expert \in BOOLEAN /\ pin_validated \in BOOLEAN

ScreenTyped ==
  /\ ui \in Screens
  /\ ui = "review" => pending.ins \in SigningIns
  /\ ui = "address" => pending.ins = "GET_ADDR"
  /\ ui \in {"ready", "blind_required"} => pending = Nil
  /\ reply # Nil => reply.sw \in Statuses

Typed ==
  PathsTyped /\ TxTyped /\ SettingsTyped /\ ScreenTyped /\ stream \in SigningIns \cup {Nil}

\* Every path that is extracted has PATH_WORDS components.
LEMMA PathLengths ==
  /\ \A data \in Seq(Nat) : Len(data) >= PATH_WORDS => Len(PathOf(data)) = PATH_WORDS
  /\ \A buf, offset : Len(LegacyPathOf(buf, offset)) = PATH_WORDS
  /\ Len(ZeroPath) = PATH_WORDS
<1>1. ASSUME NEW data \in Seq(Nat), Len(data) >= PATH_WORDS
      PROVE  Len(PathOf(data)) = PATH_WORDS
  <2>1. Len(data) \in Nat /\ \A i \in 1 .. PATH_WORDS : data[i] \in Nat
    BY <1>1, SizesAssumption, LenProperties, ElementOfSeq
  <2>2. Len(SubSeq(data, 1, PATH_WORDS)) = IF 1 <= PATH_WORDS THEN PATH_WORDS - 1 + 1 ELSE 0
    BY <2>1, SizesAssumption, SubSeqProperties
  <2> QED
    BY <2>2, SizesAssumption DEF PathOf
<1>2. Len(ZeroPath) = PATH_WORDS
  BY SizesAssumption DEF ZeroPath
<1>3. ASSUME NEW buf, NEW offset
      PROVE  Len(LegacyPathOf(buf, offset)) = PATH_WORDS
  BY SizesAssumption DEF LegacyPathOf
<1> QED
  BY <1>1, <1>2, <1>3

LEMMA AnswerTyped ==
  ASSUME NEW sw \in Statuses, Answer(sw)
  PROVE  ScreenTyped'
BY DEF Answer, Status, ScreenTyped, Screens

\* What an append that fits leaves in the buffer.
LEMMA AppendTyped ==
  ASSUME NEW buffer \in Seq(Nat), NEW data \in Seq(Nat), Fits(buffer, data)
  PROVE  buffer \o data \in Seq(Nat) /\ Len(buffer \o data) <= FLASH_CAP
BY ConcatProperties DEF Fits

LEMMA EmptyTyped == << >> \in Seq(Nat) /\ Len(<< >>) <= FLASH_CAP
BY SizesAssumption

LEMMA CompleteTyped ==
  ASSUME NEW ins \in SigningIns, NEW buffer \in Seq(Nat), Len(buffer) <= FLASH_CAP,
         NEW len, NEW path, NEW key, Complete(ins, buffer, len, path, key)
  PROVE  TxTyped' /\ ScreenTyped' /\ stream' \in SigningIns \cup {Nil}
<1>1. stream' = Nil /\ (tx' = buffer \/ tx' = << >>)
  BY DEF Complete
<1>2. TxTyped'
  BY <1>1, EmptyTyped DEF TxTyped
<1>3. \/ Answer("DATA_INVALID") \/ Show("blind_required", Nil)
      \/ \E blind : Show("review", [ins |-> ins, len |-> len, blind |-> blind])
  BY DEF Complete
<1>4. ScreenTyped'
  BY <1>3, AnswerTyped DEF Show, ScreenTyped, Screens, Statuses
<1> QED
  BY <1>1, <1>2, <1>4

LEMMA OtherTyped == Typed /\ Other(Data) => Typed'
<1> SUFFICES ASSUME Typed, Other(Data) PROVE Typed'
  OBVIOUS
<1> USE DEF paths, buffers, settings, Typed, PathsTyped, TxTyped, SettingsTyped
<1>1. ASSUME NEW sw \in {"OK", "CLA_NOT_SUPPORTED", "INS_NOT_SUPPORTED"}, Query(sw)
      PROVE  Typed'
  <2>1. sw \in Statuses /\ Answer(sw)
    BY <1>1 DEF Query, Statuses
  <2> QED
    BY <1>1, <2>1, AnswerTyped DEF Query
<1>2. CASE Locked
  <2>1. ScreenTyped'
    BY <1>2, AnswerTyped DEF Locked, Statuses
  <2> QED
    BY <1>2, <2>1 DEF Locked
<1>3. ASSUME NEW show \in BOOLEAN, NEW key \in BOOLEAN, NEW path, Address(show, path, key)
      PROVE  ScreenTyped'
  <2>1. CASE Answer("EXECUTION_ERROR") \/ Answer("OK")
    BY <2>1, AnswerTyped DEF Statuses
  <2>2. CASE Show("address", [ins |-> "GET_ADDR", path |-> path])
    BY <2>2 DEF Show, ScreenTyped, Screens
  <2> QED
    BY <1>3, <2>1, <2>2 DEF Address
<1>4. ASSUME NEW show \in BOOLEAN, NEW key \in BOOLEAN, NEW data \in Data,
             GetAddr(show, data, key)
      PROVE  Typed'
  <2>1. ScreenTyped'
    BY <1>3, <1>4, AnswerTyped DEF GetAddr, Statuses
  <2>2. PathsTyped'
    BY <1>4, PathLengths, DataAssumption DEF GetAddr
  <2>3. TxTyped' /\ SettingsTyped' /\ stream' \in SigningIns \cup {Nil}
    BY <1>4 DEF GetAddr
  <2> QED
    BY <2>1, <2>2, <2>3
<1>5. ASSUME NEW show \in BOOLEAN, NEW key \in BOOLEAN, NEW data \in Data,
             LegacyGetAddr(show, data, key)
      PROVE  Typed'
  <2>1. ScreenTyped'
    BY <1>3, <1>5, AnswerTyped DEF LegacyGetAddr, LegacyMisframed, LegacyBadPrefix, Statuses
  <2>2. PathsTyped'
    BY <1>5, PathLengths DEF LegacyGetAddr, LegacyMisframed, LegacyBadPrefix, LegacyPathOk
  <2>3. TxTyped' /\ SettingsTyped' /\ stream' \in SigningIns \cup {Nil}
    BY <1>5 DEF LegacyGetAddr
  <2> QED
    BY <2>1, <2>2, <2>3
<1> QED
  BY <1>1, <1>2, <1>4, <1>5 DEF Other

LEMMA ModernTyped == Typed /\ ModernChunk(Commands, Data) => Typed'
<1> SUFFICES ASSUME Typed, NEW ins \in Modern, NEW data \in Data,
                    \/ SignInit(ins, data)
                    \/ SignMismatch(ins)
                    \/ SignFull(ins, data)
                    \/ SignAdd(ins, data)
                    \/ \E key \in BOOLEAN : SignLast(ins, data, key)
                    \/ SignBadP1
             PROVE  Typed'
  BY DEF ModernChunk
<1> USE DEF paths, buffers, settings, Typed, PathsTyped, TxTyped, SettingsTyped
<1>a. data \in Seq(Nat) /\ ins \in SigningIns
  BY DataAssumption DEF SigningIns
<1>1. CASE SignInit(ins, data)
  <2>1. ScreenTyped'
    BY <1>1, AnswerTyped DEF SignInit, Statuses
  <2>2. PathsTyped'
    BY <1>1, <1>a, PathLengths DEF SignInit
  <2>3. TxTyped' /\ SettingsTyped' /\ stream' \in SigningIns \cup {Nil}
    BY <1>1, <1>a, EmptyTyped DEF SignInit
  <2> QED
    BY <2>1, <2>2, <2>3
<1>2. CASE SignMismatch(ins) \/ SignFull(ins, data) \/ SignBadP1
  <2>1. ScreenTyped'
    BY <1>2, AnswerTyped DEF SignMismatch, SignFull, SignBadP1, Statuses
  <2> QED
    BY <1>2, <2>1 DEF SignMismatch, SignFull, SignBadP1
<1>3. CASE SignAdd(ins, data)
  <2>1. ScreenTyped'
    BY <1>3, AnswerTyped DEF SignAdd, Statuses
  <2>2. TxTyped'
    BY <1>3, <1>a, AppendTyped DEF SignAdd
  <2> QED
    BY <1>3, <2>1, <2>2 DEF SignAdd
<1>4. ASSUME NEW key \in BOOLEAN, SignLast(ins, data, key)
      PROVE  Typed'
  <2>1. tx \o data \in Seq(Nat) /\ Len(tx \o data) <= FLASH_CAP
    BY <1>4, <1>a, AppendTyped DEF SignLast
  <2>2. TxTyped' /\ ScreenTyped' /\ stream' \in SigningIns \cup {Nil}
    BY <1>4, <1>a, <2>1, CompleteTyped DEF SignLast
  <2> QED
    BY <1>4, <2>2 DEF SignLast
<1> QED
  BY <1>1, <1>2, <1>3, <1>4

LEMMA LegacyTyped == Typed /\ LegacyChunk(Commands, Data, Pieces) => Typed'
<1> SUFFICES ASSUME Typed, NEW ins, NEW data \in Data,
                    \/ LegacyMismatch(ins)
                    \/ LegacyTooShort(ins, data)
                    \/ LegacyFull(ins, data)
                    \/ LegacyMore(ins, data)
                    \/ \E key \in BOOLEAN : LegacyLast(ins, data, key)
                    \/ TransferNoPath(ins, data)
                    \/ \E piece \in Pieces :
                         \/ TransferMore(ins, data, piece)
                         \/ \E sw \in TransferRefusal : TransferRefused(ins, data, piece, sw)
                         \/ \E key \in BOOLEAN : TransferLast(ins, data, piece, key)
             PROVE  Typed'
  BY DEF LegacyChunk
<1> USE DEF paths, buffers, settings, Typed, PathsTyped, TxTyped, SettingsTyped
<1>a. data \in Seq(Nat) /\ BufferBefore \in Seq(Nat)
  BY DataAssumption DEF BufferBefore
<1>b. ASSUME LegacyTakes(ins, data)
      PROVE  PayloadOf(ins, data) \in Seq(Nat) /\ ins \in SigningIns
  BY <1>a, <1>b, HeadTailProperties DEF LegacyTakes, PayloadOf, SigningIns
<1>1. CASE LegacyMismatch(ins) \/ LegacyTooShort(ins, data) \/ LegacyFull(ins, data)
  <2>1. ScreenTyped'
    BY <1>1, AnswerTyped DEF LegacyMismatch, LegacyTooShort, LegacyFull, Statuses
  <2> QED
    BY <1>1, <2>1, EmptyTyped DEF LegacyMismatch, LegacyTooShort, LegacyFull
<1>2. CASE LegacyMore(ins, data)
  <2>1. ScreenTyped'
    BY <1>2, AnswerTyped DEF LegacyMore, Statuses
  <2>2. TxTyped'
    BY <1>2, <1>a, <1>b, AppendTyped DEF LegacyMore
  <2> QED
    BY <1>2, <1>b, <2>1, <2>2 DEF LegacyMore
<1>3. ASSUME NEW key \in BOOLEAN, LegacyLast(ins, data, key)
      PROVE  Typed'
  <2> DEFINE buffer == BufferBefore \o PayloadOf(ins, data)
             pl == DeclaredBy(ins, data)
  <2>1. buffer \in Seq(Nat) /\ Len(buffer) <= FLASH_CAP /\ ins \in SigningIns
    BY <1>3, <1>a, <1>b, AppendTyped DEF LegacyLast
  <2>2. SettingsTyped'
    BY <1>3 DEF LegacyLast
  <2>3. \/ /\ Answer("DATA_INVALID") \/ Answer("WRONG_LENGTH")
           /\ tx' \in {<< >>, buffer}
           /\ stream' = Nil
        \/ Complete(ins, buffer, pl, LegacyPathOf(buffer, pl), key)
    BY <1>3 DEF LegacyLast, LegacyMisframed, LegacyBadPrefix
  <2>4. PathsTyped'
    BY <1>3, PathLengths DEF LegacyLast, LegacyMisframed, LegacyBadPrefix, LegacyPathOk
  <2> HIDE DEF buffer, pl
  <2>5. CASE Complete(ins, buffer, pl, LegacyPathOf(buffer, pl), key)
    BY <2>1, <2>2, <2>4, <2>5, CompleteTyped
  <2>6. CASE /\ Answer("DATA_INVALID") \/ Answer("WRONG_LENGTH")
             /\ tx' \in {<< >>, buffer}
             /\ stream' = Nil
    <3>1. ScreenTyped'
      BY <2>6, AnswerTyped DEF Statuses
    <3> QED
      BY <2>1, <2>2, <2>4, <2>6, <3>1, EmptyTyped
  <2> QED
    BY <2>3, <2>5, <2>6
<1>4. CASE TransferNoPath(ins, data)
  <2>1. ScreenTyped'
    BY <1>4, AnswerTyped DEF TransferNoPath, LegacyMisframed, LegacyBadPrefix, Statuses
  <2>2. PathsTyped'
    BY <1>4, PathLengths DEF TransferNoPath, LegacyMisframed, LegacyBadPrefix
  <2> QED
    BY <1>4, <2>1, <2>2 DEF TransferNoPath
<1>5. ASSUME NEW piece \in Pieces, Fits(BufferBefore, piece)
      PROVE  BufferBefore \o piece \in Seq(Nat) /\ Len(BufferBefore \o piece) <= FLASH_CAP
  BY <1>5, <1>a, AppendTyped, DataAssumption
<1>6. ASSUME TransferTakes(ins, data)
      PROVE  PathsTyped' /\ SettingsTyped' /\ ins \in SigningIns
  BY <1>6, PathLengths DEF TransferTakes, LegacyPathOk, SigningIns
<1>7. ASSUME NEW piece \in Pieces, TransferMore(ins, data, piece)
      PROVE  Typed'
  <2>1. ScreenTyped'
    BY <1>7, AnswerTyped DEF TransferMore, Statuses
  <2> QED
    BY <1>5, <1>6, <1>7, <2>1 DEF TransferMore
<1>8. ASSUME NEW piece \in Pieces, NEW sw \in TransferRefusal,
             TransferRefused(ins, data, piece, sw)
      PROVE  Typed'
  <2>1. sw \in Statuses /\ Answer(sw)
    BY <1>8 DEF TransferRefused, TransferRefusal, Statuses
  <2>2. ScreenTyped'
    BY <2>1, AnswerTyped
  <2> QED
    BY <1>5, <1>6, <1>8, <2>2, EmptyTyped DEF TransferRefused
<1>9. ASSUME NEW piece \in Pieces, NEW key \in BOOLEAN, TransferLast(ins, data, piece, key)
      PROVE  Typed'
  <2>1. PICK path : path = sign_path'
    OBVIOUS
  <2>2. Complete(ins, BufferBefore \o piece, Len(BufferBefore \o piece), path, key)
    BY <1>9, <2>1 DEF TransferLast
  <2>3. TransferTakes(ins, data) /\ Fits(BufferBefore, piece)
    BY <1>9 DEF TransferLast
  <2> QED
    BY <1>5, <1>6, <2>2, <2>3, CompleteTyped
<1> QED
  BY <1>1, <1>2, <1>3, <1>4, <1>7, <1>8, <1>9

LEMMA DecisionTyped == Typed /\ Decision => Typed'
<1> SUFFICES ASSUME Typed, Decision PROVE Typed'
  OBVIOUS
<1> USE DEF paths, buffers, settings
<1>1. ScreenTyped'
  <2>1. ASSUME NEW approved \in BOOLEAN, AddressDone(approved)
        PROVE  ScreenTyped'
    BY <2>1, AnswerTyped DEF AddressDone, Statuses
  <2>2. ASSUME NEW approved \in BOOLEAN, NEW key \in BOOLEAN, NEW signed \in BOOLEAN,
               SignDone(approved, key, signed)
        PROVE  ScreenTyped'
    <3>1. ui' = "ready" /\ pending' = Nil /\ reply'.sw \in Statuses
      BY <2>2 DEF SignDone, Status, Statuses
    <3> QED
      BY <3>1 DEF ScreenTyped, Screens
  <2>3. CASE BlindScreenDone
    BY <2>3, AnswerTyped DEF BlindScreenDone, Statuses
  <2> QED
    BY <2>1, <2>2, <2>3 DEF Decision
<1>2. UNCHANGED <<paths, stream, buffers, settings>>
  BY DEF Decision, AddressDone, SignDone, BlindScreenDone
<1> QED
  BY <1>1, <1>2 DEF Typed, PathsTyped, TxTyped, SettingsTyped

LEMMA TypedInductive == Typed /\ [Next]_vars => Typed'
<1> SUFFICES ASSUME Typed, [Next]_vars PROVE Typed'
  OBVIOUS
<1> USE DEF Typed, PathsTyped, TxTyped, SettingsTyped, ScreenTyped
<1>1. CASE Toggle \/ LockOrUnlock \/ UNCHANGED vars
  BY <1>1 DEF Toggle, LockOrUnlock, vars, paths, buffers, settings
<1>2. CASE Restart
  BY <1>2, PathLengths, EmptyTyped DEF Restart, settings, Screens
<1> QED
  BY <1>1, <1>2, OtherTyped, ModernTyped, LegacyTyped, DecisionTyped DEF Next, Step

\* For every set of APDUs, path length and buffer size: the buffer never
\* outgrows its capacity, whatever is appended (tx_append's callers), a path
\* is always whole, and the screen agrees with what is pending (handle,
\* sign_done, address_done).
THEOREM AppTyped == Spec => []TypeOK
<1>1. Init => Typed
  BY PathLengths, EmptyTyped
  DEF Init, Typed, PathsTyped, TxTyped, SettingsTyped, ScreenTyped, Screens
<1>2. Typed => TypeOK
  BY DEF Typed, PathsTyped, TxTyped, SettingsTyped, ScreenTyped, TypeOK
<1> QED
  BY <1>1, <1>2, TypedInductive, PTL DEF Spec
=============================================================================
