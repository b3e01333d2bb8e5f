------------------------ MODULE LegacyTransfer_proofs -----------------------
(***************************************************************************)
(* LegacyTransfer for every set of APDUs, slice length, hold-back buffer,  *)
(* capacity and item count: the loop never indexes outside the APDU, what  *)
(* is in the buffer is what was sent, and what is accepted is a type and   *)
(* NUM_ITEMS items.                                                        *)
(*                                                                         *)
(* TakenInOrder speaks of the state between two APDUs.  Inside the loop    *)
(* the buffer and what the slice still holds are what was sent (Taken),    *)
(* unless a continued item of an APDU longer than a slice reached past the *)
(* slice's end: such an APDU is always refused.                            *)
(***************************************************************************)
EXTENDS LegacyTransfer, SequenceTheorems, TLAPS

Byte == 0 .. U8 - 1

Types ==
  /\ stream \in BOOLEAN
  /\ items \in Byte
  /\ item_len \in Byte
  /\ check_item_len \in BOOLEAN
  /\ local_data \in Seq(Byte) /\ Len(local_data) < U8
  /\ tx \in Seq(Byte) /\ Len(tx) <= FLASH_CAP
  /\ buf \in Seq(Byte)
  /\ sent \in Seq(Byte)
  /\ offset \in Int /\ payload_size \in Int
  /\ pc \in {"idle", "loop"}
  /\ pc = "loop" => stream /\ at \in 0 .. rx
  /\ reply \in Refusals \cup {"none", "OK", "complete"}

Taken ==
  pc = "loop" /\ at <= LEGACY_CHUNK_SIZE =>
    /\ tx \o Bytes(buf, at, SliceLen(buf)) = sent
    /\ local_data = << >>

\* An accepted transfer is all that was sent, and the stream is closed.
CompleteIsAll == reply = "complete" => tx = sent /\ ~stream /\ pc = "idle"

Inv == Types /\ Taken /\ TakenInOrder /\ CompleteIsAll

-----------------------------------------------------------------------------
(* Bytes of an APDU.                                                       *)

LEMMA BytesType ==
  ASSUME NEW data \in Seq(Byte), NEW a \in Nat, NEW b \in Nat, a <= b, b <= Len(data)
  PROVE  Bytes(data, a, b) \in Seq(Byte) /\ Len(Bytes(data, a, b)) = b - a
<1>1. \A i \in a + 1 .. b : data[i] \in Byte
  BY LenProperties, ElementOfSeq
<1>2. /\ SubSeq(data, a + 1, b) \in Seq(Byte)
      /\ Len(SubSeq(data, a + 1, b)) = IF a + 1 <= b THEN b - (a + 1) + 1 ELSE 0
  BY <1>1, SubSeqProperties
<1> QED
  BY <1>2 DEF Bytes

LEMMA BytesSplit ==
  ASSUME NEW data \in Seq(Byte), NEW a \in Nat, NEW b \in Nat, NEW c \in Nat,
         a <= b, b <= c, c <= Len(data)
  PROVE  Bytes(data, a, b) \o Bytes(data, b, c) = Bytes(data, a, c)
<1>1. Len(data) \in Nat
  OBVIOUS
<1>2. /\ a + 1 \in 1 .. Len(data) + 1
      /\ b \in (a + 1) - 1 .. Len(data)
      /\ c \in b .. Len(data)
  BY <1>1
<1>3. SubSeq(data, a + 1, b) \o SubSeq(data, b + 1, c) = SubSeq(data, a + 1, c)
  BY <1>2, ConcatAdjacentSubSeq
<1> QED
  BY <1>3 DEF Bytes

LEMMA BytesEmpty ==
  ASSUME NEW data, NEW a \in Nat, NEW b \in Nat, b <= a
  PROVE  Bytes(data, a, b) = << >>
<1>1. SubSeq(data, a + 1, b) = << >>
  BY SubSeqEmpty
<1> QED
  BY <1>1 DEF Bytes

LEMMA Associative ==
  ASSUME NEW a \in Seq(Byte), NEW b \in Seq(Byte), NEW c \in Seq(Byte)
  PROVE  (a \o b) \o c = a \o (b \o c)
BY ConcatAssociative

LEMMA SliceType ==
  ASSUME NEW data \in Seq(Byte)
  PROVE  SliceLen(data) \in Nat /\ SliceLen(data) <= Len(data) /\ SliceLen(data) <= LEGACY_CHUNK_SIZE
BY SizesAssumption DEF SliceLen

-----------------------------------------------------------------------------
(* A refusal.                                                              *)

LEMMA RefusedInv ==
  ASSUME Inv, NEW sw \in Refusals, Refuse(sw),
         items' \in Byte, item_len' \in Byte, check_item_len' \in BOOLEAN,
         local_data' \in Seq(Byte), Len(local_data)' < U8,
         tx' \in Seq(Byte), Len(tx)' <= FLASH_CAP, buf' \in Seq(Byte), sent' \in Seq(Byte),
         offset' \in Int, payload_size' \in Int
  PROVE  Inv'
<1>1. pc' = "idle" /\ stream' = FALSE /\ reply' = sw /\ sw # "complete"
  BY DEF Refuse, Return, Refusals
<1>2. Types'
  BY <1>1 DEF Types
<1> QED
  BY <1>1, <1>2 DEF Inv, Taken, TakenInOrder, CompleteIsAll

LEMMA InitInv == Init => Inv
<1> SUFFICES ASSUME Init PROVE Inv
  OBVIOUS
<1>1. << >> \in Seq(Byte) /\ Len(<< >>) = 0 /\ 0 \in Byte
  BY SizesAssumption DEF Byte
<1>2. /\ items \in Byte /\ item_len \in Byte /\ offset \in Int /\ payload_size \in Int
      /\ local_data \in Seq(Byte) /\ tx \in Seq(Byte) /\ buf \in Seq(Byte) /\ sent \in Seq(Byte)
      /\ Len(local_data) < U8 /\ Len(tx) <= FLASH_CAP
  BY <1>1, SizesAssumption DEF Init
<1>3. /\ stream = FALSE /\ check_item_len = FALSE /\ pc = "idle" /\ reply = "none"
  BY DEF Init
<1>4. Types
  BY <1>2, <1>3 DEF Types
<1> QED
  BY <1>3, <1>4 DEF Inv, Taken, TakenInOrder, CompleteIsAll

-----------------------------------------------------------------------------
(* The ways into the loop.                                                 *)

LEMMA FirstInv ==
  ASSUME Inv, NEW data \in Apdus, First(data)
  PROVE  Inv'
<1>0. data \in Seq(Byte) /\ Len(data) \in Nat
  BY ApdusAssumption DEF Byte
<1>1. /\ << >> \in Seq(Byte) /\ Len(<< >>) = 0 /\ 0 \in Byte
      /\ PATH_LEN \in Nat /\ PATH_LEN < LEGACY_CHUNK_SIZE /\ LEGACY_CHUNK_SIZE \in Nat
      /\ FLASH_CAP \in Nat /\ 1 <= FLASH_CAP /\ 0 < U8
  BY SizesAssumption DEF Byte
<1>2. /\ buf' = data /\ items' = 0 /\ item_len' = 0 /\ local_data' = << >>
      /\ check_item_len' = FALSE
      /\ sent' = Bytes(data, PATH_LEN, SliceLen(data))
      /\ Len(data) >= PATH_LEN
  BY DEF First
<1>3. SliceLen(data) \in Nat /\ SliceLen(data) <= Len(data) /\ SliceLen(data) >= PATH_LEN
  BY <1>0, <1>1, <1>2 DEF SliceLen
<1>4. sent' \in Seq(Byte)
  BY <1>0, <1>1, <1>2, <1>3, BytesType
<1>5. CASE Refuse("WRONG_LENGTH") /\ tx' = << >> /\ UNCHANGED <<offset, payload_size>>
  <2>1. offset' \in Int /\ payload_size' \in Int /\ Len(tx)' <= FLASH_CAP /\ Len(local_data)' < U8
    BY <1>1, <1>2, <1>5 DEF Inv, Types
  <2>2. "WRONG_LENGTH" \in Refusals
    BY DEF Refusals
  <2> QED
    BY <1>0, <1>1, <1>2, <1>4, <1>5, <2>1, <2>2, RefusedInv
<1>6. CASE /\ Len(data) > PATH_LEN
           /\ tx' = Bytes(data, PATH_LEN, PATH_LEN + 1)
           /\ stream' = TRUE
           /\ Loop(PATH_LEN, 0)
  <2>1. pc' = "loop" /\ offset' = PATH_LEN /\ payload_size' = 0 /\ reply' = "none"
    BY <1>6 DEF Loop
  <2>2. at' = PATH_LEN + 1 /\ rx' = Len(data) /\ at' \in Nat /\ at' <= rx'
    BY <1>0, <1>1, <1>2, <1>6, <2>1 DEF at, rx
  <2>a. PATH_LEN + 1 \in Nat /\ PATH_LEN <= PATH_LEN + 1 /\ PATH_LEN + 1 <= Len(data)
    BY <1>0, <1>1, <1>6
  <2>3. tx' \in Seq(Byte) /\ Len(tx') = 1
    <3>1. /\ Bytes(data, PATH_LEN, PATH_LEN + 1) \in Seq(Byte)
          /\ Len(Bytes(data, PATH_LEN, PATH_LEN + 1)) = (PATH_LEN + 1) - PATH_LEN
      BY <1>0, <1>1, <2>a, BytesType
    <3> QED
      BY <1>1, <1>6, <3>1
  <2>4. Types'
    <3>1. /\ Len(tx)' <= FLASH_CAP /\ Len(local_data)' < U8
          /\ offset' \in Int /\ payload_size' \in Int /\ at' \in 0 .. rx'
      BY <1>0, <1>1, <1>2, <2>1, <2>2, <2>3
    <3> QED
      BY <1>0, <1>1, <1>2, <1>4, <1>6, <2>1, <2>3, <3>1 DEF Types
  <2>5. Taken'
    <3>1. PATH_LEN + 1 <= SliceLen(data)
      BY <1>0, <1>1, <1>6 DEF SliceLen
    <3>2. Bytes(data, PATH_LEN, PATH_LEN + 1) \o Bytes(data, PATH_LEN + 1, SliceLen(data))
            = Bytes(data, PATH_LEN, SliceLen(data))
      BY <1>0, <1>1, <1>3, <2>a, <3>1, BytesSplit, ZenonT(60)
    <3> QED
      BY <1>2, <1>6, <2>2, <3>2 DEF Taken
  <2> QED
    BY <2>1, <2>4, <2>5 DEF Inv, TakenInOrder, CompleteIsAll
<1> QED
  BY <1>5, <1>6 DEF First

LEMMA ContinueInv ==
  ASSUME Inv, NEW data \in Apdus,
         ContinueFull(data) \/ ContinueBroken(data) \/ ContinueWhole(data)
  PROVE  Inv'
<1>0. data \in Seq(Byte) /\ Len(data) \in Nat
  BY ApdusAssumption DEF Byte
<1>1. /\ << >> \in Seq(Byte) /\ Len(<< >>) = 0
      /\ LEGACY_CHUNK_SIZE \in Nat /\ FLASH_CAP \in Nat /\ 0 <= FLASH_CAP
      /\ U8 \in Nat /\ 0 < U8 /\ 0 \in Int
  BY SizesAssumption
<1>2. /\ pc = "idle" /\ stream
      /\ buf' = data /\ sent' = sent \o Bytes(data, 0, SliceLen(data))
  BY DEF Continue, ContinueFull, ContinueBroken, ContinueWhole
<1>3. /\ SliceLen(data) \in Nat /\ SliceLen(data) <= Len(data)
      /\ Bytes(data, 0, SliceLen(data)) \in Seq(Byte)
  BY <1>0, SliceType, BytesType
<1>4. /\ tx \in Seq(Byte) /\ local_data \in Seq(Byte) /\ sent \in Seq(Byte)
      /\ Len(tx) \in Nat /\ Len(local_data) \in Nat
      /\ tx \o local_data = sent
      /\ items \in Byte /\ item_len \in Byte /\ check_item_len \in BOOLEAN
      /\ offset \in Int /\ payload_size \in Int /\ Len(local_data) < U8
  BY <1>2 DEF Inv, Types, TakenInOrder
<1>5. sent' \in Seq(Byte)
  BY <1>2, <1>3, <1>4
<1>6. "OUTPUT_BUFFER_TOO_SMALL" \in Refusals /\ "WRONG_LENGTH" \in Refusals /\ "DATA_INVALID" \in Refusals
  BY DEF Refusals
<1>7. CASE RefuseFull /\ UNCHANGED <<saved, offset, payload_size>>
  <2>1. Refuse("OUTPUT_BUFFER_TOO_SMALL") /\ tx' = << >>
    BY <1>7 DEF RefuseFull
  <2>2. UNCHANGED <<items, item_len, local_data, check_item_len, offset, payload_size>>
    BY <1>7 DEF saved
  <2>3. Len(tx)' <= FLASH_CAP /\ Len(local_data)' < U8
    BY <1>1, <1>4, <2>1, <2>2
  <2> QED
    BY <1>0, <1>1, <1>2, <1>4, <1>5, <1>6, <2>1, <2>2, <2>3, RefusedInv
<1>8. CASE ContinueBroken(data)
  <2>1. tx' = tx \o local_data /\ Len(tx) + Len(local_data) <= FLASH_CAP
    BY <1>8 DEF ContinueBroken, Fits
  <2>2. tx' \in Seq(Byte) /\ Len(tx') <= FLASH_CAP
    <3>1. tx \o local_data \in Seq(Byte) /\ Len(tx \o local_data) = Len(tx) + Len(local_data)
      BY <1>4, ConcatProperties
    <3> QED
      BY <2>1, <3>1
  <2>3. UNCHANGED <<items, item_len, local_data, check_item_len, offset, payload_size>>
    BY <1>8 DEF ContinueBroken, saved
  <2>4. Refuse("WRONG_LENGTH") \/ Refuse("DATA_INVALID")
    BY <1>8 DEF ContinueBroken
  <2>5. PICK sw \in Refusals : Refuse(sw)
    BY <1>6, <2>4
  <2>6. Len(local_data)' < U8 /\ Len(tx)' <= FLASH_CAP
    BY <1>4, <2>2, <2>3
  <2> QED
    BY <1>0, <1>2, <1>4, <1>5, <2>2, <2>3, <2>5, <2>6, RefusedInv
<1>9. CASE /\ ContinueWhole(data)
           /\ Fits(local_data \o Bytes(data, 0, HeadLen(data)))
           /\ tx' = tx \o (local_data \o Bytes(data, 0, HeadLen(data)))
           /\ items' = (items + 1) % U8
           /\ local_data' = << >>
           /\ IF check_item_len
                THEN Loop(0, HeadLen(data) - 1) ELSE Loop(-1, HeadLen(data))
           /\ UNCHANGED <<stream, item_len, check_item_len>>
  <2> DEFINE h == HeadLen(data)
             taken == Bytes(data, 0, h)
  <2>1. h \in Nat /\ h >= 1 /\ h <= Len(data)
    <3>1. /\ IF check_item_len THEN data # << >> ELSE item_len > Len(local_data)
          /\ HeadLen(data) <= Len(data)
      BY <1>9 DEF ContinueWhole
    <3>2. CASE check_item_len
      <4>1. data[1] \in Byte
        BY <1>0, <3>1, <3>2
      <4> QED
        BY <1>1, <3>1, <3>2, <4>1 DEF HeadLen, Byte
    <3>3. CASE ~check_item_len
      BY <1>1, <1>4, <3>1, <3>3 DEF HeadLen, Byte
    <3> QED
      BY <3>2, <3>3
  <2> HIDE DEF h
  <2>2. taken \in Seq(Byte) /\ Len(taken) = h
    BY <1>0, <2>1, BytesType
  <2>3. /\ tx' = tx \o (local_data \o taken)
        /\ Len(tx) + Len(local_data \o taken) <= FLASH_CAP
    BY <1>9 DEF Fits, h
  <2> HIDE DEF taken
  <2>4. tx' \in Seq(Byte) /\ Len(tx') <= FLASH_CAP
    BY <1>1, <1>4, <2>2, <2>3
  <2>5. tx' = sent \o taken
    BY <1>4, <2>2, <2>3, Associative, ZenonT(60)
  <2>6. /\ pc' = "loop" /\ reply' = "none"
        /\ \/ offset' = 0 /\ payload_size' = h - 1
           \/ offset' = -1 /\ payload_size' = h
    BY <1>9 DEF Loop, h
  <2>7. /\ offset' \in Int /\ payload_size' \in Int
        /\ at' = h /\ rx' = Len(data) /\ at' \in 0 .. rx'
    BY <1>0, <1>2, <2>1, <2>6 DEF at, rx
  <2>8. items' \in Byte
    BY <1>1, <1>4, <1>9 DEF Byte
  <2>9. Types'
    BY <1>0, <1>1, <1>2, <1>4, <1>5, <1>9, <2>4, <2>6, <2>7, <2>8 DEF Types
  <2>10. Taken'
    <3> SUFFICES ASSUME h <= LEGACY_CHUNK_SIZE
                 PROVE  tx' \o Bytes(data, h, SliceLen(data)) = sent'
      BY <1>2, <1>9, <2>7 DEF Taken
    <3>1. h <= SliceLen(data)
      BY <1>0, <1>1, <2>1 DEF SliceLen
    <3>2. taken \o Bytes(data, h, SliceLen(data)) = Bytes(data, 0, SliceLen(data))
      <4>1. 0 \in Nat /\ 0 <= h
        BY <2>1
      <4>2. Bytes(data, 0, h) \o Bytes(data, h, SliceLen(data)) = Bytes(data, 0, SliceLen(data))
        BY <1>0, <1>3, <2>1, <3>1, <4>1, BytesSplit
      <4> QED
        BY <4>2 DEF taken
    <3>3. Bytes(data, h, SliceLen(data)) \in Seq(Byte)
      BY <1>0, <1>3, <2>1, <3>1, BytesType
    <3>4. (sent \o taken) \o Bytes(data, h, SliceLen(data))
            = sent \o (taken \o Bytes(data, h, SliceLen(data)))
      BY <1>4, <2>2, <3>3, Associative, ZenonT(60)
    <3> QED
      BY <1>2, <2>5, <3>2, <3>4
  <2> QED
    BY <2>6, <2>9, <2>10 DEF Inv, TakenInOrder, CompleteIsAll
<1> QED
  BY <1>7, <1>8, <1>9 DEF ContinueFull, ContinueWhole

-----------------------------------------------------------------------------
(* The loop.                                                               *)

LEMMA LoopInv == Inv /\ Iteration => Inv'
<1> SUFFICES ASSUME Inv, Iteration PROVE Inv'
  OBVIOUS
<1>0. /\ << >> \in Seq(Byte) /\ Len(<< >>) = 0
      /\ LEGACY_CHUNK_SIZE \in Nat /\ LEGACY_LOCAL_BUFFER_SIZE \in Nat /\ FLASH_CAP \in Nat
      /\ U8 \in Nat /\ 0 < U8 /\ 0 <= FLASH_CAP /\ LEGACY_LOCAL_BUFFER_SIZE < U8
  BY SizesAssumption
<1>1. /\ pc = "loop" /\ UNCHANGED <<buf, sent>>
  BY DEF Iteration, InLoop, LoopBoundary, LoopShort, LoopSplit, LoopPastEnd, LoopItem, ItemAt
<1>2. /\ buf \in Seq(Byte) /\ sent \in Seq(Byte) /\ tx \in Seq(Byte) /\ local_data \in Seq(Byte)
      /\ Len(buf) \in Nat /\ Len(tx) \in Nat /\ Len(tx) <= FLASH_CAP /\ Len(local_data) < U8
      /\ items \in Byte /\ item_len \in Byte /\ check_item_len \in BOOLEAN
      /\ offset \in Int /\ payload_size \in Int
      /\ stream = TRUE /\ at \in Nat /\ at <= Len(buf)
  BY <1>1 DEF Inv, Types, rx
<1>3. at <= LEGACY_CHUNK_SIZE => tx \o Bytes(buf, at, SliceLen(buf)) = sent /\ local_data = << >>
  BY <1>1 DEF Inv, Taken
<1>4. "OUTPUT_BUFFER_TOO_SMALL" \in Refusals /\ "WRONG_LENGTH" \in Refusals /\ "DATA_INVALID" \in Refusals
  BY DEF Refusals
<1>5. SliceLen(buf) \in Nat /\ SliceLen(buf) <= Len(buf) /\ SliceLen(buf) <= LEGACY_CHUNK_SIZE
  BY <1>2, SliceType
<1>6. CASE LoopBoundary
  <2>1. /\ pc' = "idle" /\ reply' = "OK" /\ check_item_len' = TRUE
        /\ UNCHANGED <<stream, items, item_len, local_data, tx, offset, payload_size>>
        /\ at = LEGACY_CHUNK_SIZE
    BY <1>6 DEF LoopBoundary, Return, InLoop
  <2>2. Types'
    BY <1>1, <1>2, <2>1 DEF Types
  <2>3. tx \o local_data = sent
    <3>1. SliceLen(buf) <= at /\ at <= LEGACY_CHUNK_SIZE
      BY <1>0, <1>5, <2>1
    <3>2. Bytes(buf, at, SliceLen(buf)) = << >>
      BY <1>2, <1>5, <3>1, BytesEmpty
    <3> QED
      BY <1>3, <3>1, <3>2
  <2> QED
    BY <1>1, <2>1, <2>2, <2>3 DEF Inv, Taken, TakenInOrder, CompleteIsAll
<1>7. CASE LoopShort \/ LoopPastEnd
  <2>1. /\ Refuse("DATA_INVALID") \/ Refuse("WRONG_LENGTH")
        /\ UNCHANGED <<items, item_len, local_data, check_item_len, tx, offset, payload_size>>
    BY <1>7 DEF LoopShort, LoopPastEnd, ItemAt, InLoop, saved
  <2>2. PICK sw \in Refusals : Refuse(sw)
    BY <1>4, <2>1
  <2>3. Len(tx)' <= FLASH_CAP /\ Len(local_data)' < U8
    BY <1>2, <2>1
  <2> QED
    BY <1>1, <1>2, <2>1, <2>2, <2>3, RefusedInv
<1>8. CASE LoopSplit
  <2>1. /\ at < Len(buf) /\ Len(buf) = LEGACY_CHUNK_SIZE
        /\ check_item_len' = FALSE /\ item_len' = (buf[at + 1] + 1) % U8
        /\ UNCHANGED <<items, tx, offset, payload_size>>
    BY <1>8 DEF LoopSplit, ItemAt, InLoop, rx
  <2>2. item_len' \in Byte
    <3>1. at + 1 \in 1 .. Len(buf)
      BY <1>2, <2>1
    <3>2. buf[at + 1] \in Byte
      BY <1>2, <3>1, ElementOfSeq
    <3> QED
      BY <1>0, <2>1, <3>2 DEF Byte
  <2>3. CASE Refuse("OUTPUT_BUFFER_TOO_SMALL") /\ UNCHANGED local_data
    <3>1. Len(tx)' <= FLASH_CAP /\ Len(local_data)' < U8
      BY <1>2, <2>1, <2>3
    <3> QED
      BY <1>1, <1>2, <1>4, <2>1, <2>2, <2>3, <3>1, RefusedInv
  <2>4. CASE /\ ~(LEGACY_CHUNK_SIZE - at >= LEGACY_LOCAL_BUFFER_SIZE)
             /\ Return("OK") /\ local_data' = HeldBack /\ UNCHANGED stream
    <3>1. pc' = "idle" /\ reply' = "OK"
      BY <2>4 DEF Return
    <3>2. /\ at <= LEGACY_CHUNK_SIZE /\ LEGACY_CHUNK_SIZE <= Len(buf)
          /\ SliceLen(buf) = LEGACY_CHUNK_SIZE
      BY <1>0, <1>2, <2>1 DEF SliceLen
    <3>3. local_data' \in Seq(Byte) /\ Len(local_data') = LEGACY_CHUNK_SIZE - at
      BY <1>0, <1>2, <2>4, <3>2, BytesType DEF HeldBack
    <3>4. Len(local_data)' < U8
      BY <1>0, <1>2, <2>4, <3>3
    <3>5. Types'
      BY <1>1, <1>2, <2>1, <2>2, <2>4, <3>1, <3>3, <3>4 DEF Types
    <3>6. tx' \o local_data' = sent'
      BY <1>1, <1>3, <2>1, <2>4, <3>2 DEF HeldBack
    <3> QED
      BY <3>1, <3>5, <3>6 DEF Inv, Taken, TakenInOrder, CompleteIsAll
  <2> QED
    BY <1>8, <2>3, <2>4 DEF LoopSplit
<1>9. CASE LoopItem
  <2> DEFINE item == Bytes(buf, at, next)
             rest == Bytes(buf, next, SliceLen(buf))
  <2>1. /\ at < Len(buf) /\ next <= LEGACY_CHUNK_SIZE /\ next <= Len(buf)
        /\ UNCHANGED <<item_len, local_data, check_item_len>>
    BY <1>9 DEF LoopItem, rx
  <2>2. buf[at + 1] \in Byte
    <3>1. at + 1 \in 1 .. Len(buf)
      BY <1>2, <2>1
    <3> QED
      BY <1>2, <3>1, ElementOfSeq
  <2>3. next \in Nat /\ at < next /\ next = at + buf[at + 1] + 1
    BY <1>0, <1>2, <2>2, SMTT(30) DEF next, Byte
  <2>4. at <= next /\ at <= LEGACY_CHUNK_SIZE /\ next <= SliceLen(buf)
    BY <1>0, <1>2, <2>1, <2>3 DEF SliceLen
  <2>5. /\ item \in Seq(Byte) /\ rest \in Seq(Byte)
        /\ item \o rest = Bytes(buf, at, SliceLen(buf))
    BY <1>2, <1>5, <2>1, <2>3, <2>4, BytesType, BytesSplit
  <2>6. (tx \o item) \o rest = sent /\ local_data = << >>
    <3> HIDE DEF item, rest
    <3>1. (tx \o item) \o rest = tx \o (item \o rest)
      BY <1>2, <2>5, Associative
    <3> QED
      BY <1>3, <2>4, <2>5, <3>1
  <2>7. CASE RefuseFull /\ UNCHANGED <<items, offset, payload_size>>
    <3>1. Refuse("OUTPUT_BUFFER_TOO_SMALL") /\ tx' = << >>
      BY <2>7 DEF RefuseFull
    <3>2. Len(tx)' <= FLASH_CAP /\ Len(local_data)' < U8
      BY <1>0, <1>2, <2>1, <3>1
    <3> QED
      BY <1>0, <1>1, <1>2, <1>4, <2>1, <2>7, <3>1, <3>2, RefusedInv
  <2>8. CASE /\ Fits(item) /\ tx' = tx \o item
             /\ items' = (items + 1) % U8
             /\ \/ Refuse("DATA_INVALID") /\ UNCHANGED <<offset, payload_size>>
                \/ /\ next >= rx
                   /\ Return("complete") \/ Return("DATA_INVALID")
                   /\ stream' = FALSE
                   /\ UNCHANGED <<offset, payload_size>>
                \/ Loop(at, buf[at + 1]) /\ UNCHANGED stream
    <3>1. tx' \in Seq(Byte) /\ Len(tx)' <= FLASH_CAP
      <4> HIDE DEF item
      <4>1. tx \o item \in Seq(Byte) /\ Len(tx \o item) = Len(tx) + Len(item)
        BY <1>2, <2>5, ConcatProperties
      <4> QED
        BY <2>8, <4>1 DEF Fits
    <3>2. items' \in Byte
      BY <1>0, <1>2, <2>8 DEF Byte
    <3>3. Len(local_data)' < U8
      BY <1>2, <2>1
    <3>4. CASE /\ UNCHANGED <<offset, payload_size>>
               /\ \/ Refuse("DATA_INVALID")
                  \/ Return("DATA_INVALID") /\ stream' = FALSE
      <4>1. Refuse("DATA_INVALID")
        BY <3>4 DEF Refuse
      <4> QED
        BY <1>1, <1>2, <1>4, <2>1, <3>1, <3>2, <3>3, <3>4, <4>1, RefusedInv
    <3>5. CASE /\ next >= rx /\ Return("complete") /\ stream' = FALSE
               /\ UNCHANGED <<offset, payload_size>>
      <4>1. pc' = "idle" /\ reply' = "complete"
        BY <3>5 DEF Return
      <4>2. rest = << >>
        <5>1. SliceLen(buf) <= next
          BY <1>2, <1>5, <2>3, <3>5 DEF rx
        <5> QED
          BY <1>5, <2>3, <5>1, BytesEmpty
      <4>3. tx' = sent'
        <5> HIDE DEF item, rest
        <5>1. tx' \o rest = tx'
          BY <3>1, <4>2
        <5> QED
          BY <1>1, <2>6, <2>8, <5>1
      <4>4. Types'
        BY <1>1, <1>2, <2>1, <3>1, <3>2, <3>3, <3>5, <4>1 DEF Types
      <4> QED
        BY <3>5, <4>1, <4>3, <4>4 DEF Inv, Taken, TakenInOrder, CompleteIsAll
    <3>6. CASE Loop(at, buf[at + 1]) /\ UNCHANGED stream
      <4>1. pc' = "loop" /\ reply' = "none" /\ offset' = at /\ payload_size' = buf[at + 1]
        BY <3>6 DEF Loop
      <4>2. at' = next /\ rx' = Len(buf)
        BY <1>1, <2>3, <4>1 DEF at, rx
      <4>3. offset' \in Int /\ payload_size' \in Int /\ at' \in 0 .. rx'
        BY <1>0, <1>2, <2>1, <2>2, <2>3, <4>1, <4>2 DEF Byte
      <4>4. Types'
        BY <1>1, <1>2, <2>1, <3>1, <3>2, <3>3, <3>6, <4>1, <4>3 DEF Types
      <4>5. Taken'
        <5>1. tx' \o Bytes(buf, next, SliceLen(buf)) = sent
          BY <2>6, <2>8
        <5> QED
          BY <1>1, <2>1, <2>6, <4>2, <5>1 DEF Taken
      <4> QED
        BY <4>1, <4>4, <4>5 DEF Inv, TakenInOrder, CompleteIsAll
    <3> QED
      BY <2>8, <3>4, <3>5, <3>6
  <2> QED
    BY <1>9, <2>7, <2>8 DEF LoopItem
<1> QED
  BY <1>6, <1>7, <1>8, <1>9 DEF Iteration

LEMMA NextInv == Inv /\ [Next]_vars => Inv'
<1> SUFFICES ASSUME Inv, [Next]_vars PROVE Inv'
  OBVIOUS
<1>1. CASE UNCHANGED vars
  BY <1>1 DEF vars, saved, Inv, Types, Taken, TakenInOrder, CompleteIsAll, at, rx
<1>2. ASSUME NEW data \in Apdus, Chunk(data) PROVE Inv'
  BY <1>2, FirstInv, ContinueInv DEF Chunk
<1> QED
  BY <1>1, <1>2, LoopInv DEF Next

LEMMA FramingInvariant == Spec => []Inv
BY InitInv, NextInv, PTL DEF Spec

\* INS 0x10, wherever the APDUs' ends fall in the items: between two APDUs the
\* buffer and the bytes held back are what was sent (legacy_transfer_chunk).
THEOREM FramingSafe == Spec => []TakenInOrder
<1>1. Inv => TakenInOrder
  BY DEF Inv
<1> QED
  BY <1>1, FramingInvariant, PTL

\* INS 0x10, for every set of APDUs: the loop's offsets stay inside the APDU, and
\* the bytes held back inside their buffer (legacy_transfer_chunk).
THEOREM FramingTyped == Spec => []TypeOK
<1>1. Inv => TypeOK
  BY DEF Inv, Types, TypeOK, Byte
<1> QED
  BY <1>1, FramingInvariant, PTL

-----------------------------------------------------------------------------
(* An accepted transfer is a type and NUM_ITEMS items.  The buffer is cut  *)
(* into as many items as the counter says (WholeItems), because the        *)
(* counter does not wrap: every item that it takes past NUM_ITEMS came     *)
(* with a whole slice (Counted), and the buffer is full before U8 of them. *)

\* Between two APDUs the bytes held back start with the length of the item.
HeldItem ==
  pc = "idle" /\ stream =>
    IF check_item_len THEN local_data = << >>
    ELSE local_data # << >> /\ item_len = (local_data[1] + 1) % U8

Counted ==
  /\ pc = "idle" /\ stream /\ items > NUM_ITEMS =>
       Len(sent) >= (items - NUM_ITEMS) * LEGACY_CHUNK_SIZE
  /\ pc = "loop" => items <= U8 - 2
  /\ pc = "loop" /\ items > NUM_ITEMS =>
       Len(sent) >= (items - NUM_ITEMS - 1) * LEGACY_CHUNK_SIZE + SliceLen(buf)

WholeItems ==
  /\ pc = "idle" /\ stream => CutInto(tx, items)
  /\ pc = "loop" /\ at <= LEGACY_CHUNK_SIZE => CutInto(tx, items)
  /\ reply = "complete" => CutInto(tx, NUM_ITEMS)

CInv == HeldItem /\ Counted /\ WholeItems

LEMMA CutStarts ==
  ASSUME NEW body \in Seq(Byte), Len(body) = 1
  PROVE  CutInto(body, 0)
<1> DEFINE cut == [i \in 0 .. 0 |-> 2]
<1>1. cut \in [0 .. 0 -> 1 .. Len(body) + 1] /\ cut[0] = 2 /\ cut[0] = Len(body) + 1
  OBVIOUS
<1>2. \A i \in 0 .. 0 - 1 : FALSE
  OBVIOUS
<1> HIDE DEF cut
<1> QED
  BY <1>1, <1>2 DEF CutInto

\* One more item, its length byte included.
LEMMA CutGrows ==
  ASSUME NEW body \in Seq(Byte), NEW item \in Seq(Byte), NEW n \in Nat,
         NEW m \in Nat, Len(item) = m + 1, item[1] = m, CutInto(body, n)
  PROVE  CutInto(body \o item, n + 1)
<1> DEFINE whole == body \o item
<1>1. PICK b \in Nat, k \in Nat : b = Len(body) /\ k = Len(item)
  OBVIOUS
<1>2. k >= 1 /\ k = m + 1
  BY <1>1
<1>3. /\ Len(whole) = b + k
      /\ DOMAIN body = 1 .. b /\ DOMAIN whole = 1 .. b + k
      /\ \A i \in 1 .. b + k : whole[i] = IF i <= b THEN body[i] ELSE item[i - b]
  <2>1. /\ whole \in Seq(Byte) /\ Len(whole) = Len(body) + Len(item)
        /\ \A i \in 1 .. Len(body) + Len(item) :
             whole[i] = IF i <= Len(body) THEN body[i] ELSE item[i - Len(body)]
    BY ConcatProperties
  <2> HIDE DEF whole
  <2> QED
    BY <1>1, <2>1, LenProperties
<1> HIDE DEF whole
<1>4. PICK cut \in [0 .. n -> 1 .. b + 1] :
        /\ cut[0] = 2
        /\ cut[n] = b + 1
        /\ \A i \in 0 .. n - 1 :
             cut[i] \in 1 .. b /\ cut[i + 1] = cut[i] + body[cut[i]] + 1
  BY <1>1, <1>3 DEF CutInto
<1> DEFINE more == [i \in 0 .. n + 1 |-> IF i <= n THEN cut[i] ELSE b + k + 1]
<1>5. more \in [0 .. n + 1 -> 1 .. b + k + 1]
  BY <1>2
<1>6. /\ more[0] = 2 /\ more[n + 1] = b + k + 1 /\ more[n] = b + 1
      /\ \A i \in 0 .. n : more[i] = cut[i]
  BY <1>4
<1> HIDE DEF more
<1>7. ASSUME NEW i \in 0 .. (n + 1) - 1
      PROVE  more[i] \in 1 .. b + k /\ more[i + 1] = more[i] + whole[more[i]] + 1
  <2>1. CASE i = n
    <3>1. b + 1 \in 1 .. b + k /\ (b + 1) - b = 1 /\ ~(b + 1 <= b)
      BY <1>2
    <3>2. whole[b + 1] = m
      BY <1>3, <3>1
    <3>3. b + k + 1 = (b + 1) + m + 1
      BY <1>2
    <3>4. more[i] = b + 1 /\ more[i + 1] = b + k + 1
      BY <1>6, <2>1
    <3> QED
      BY <3>1, <3>2, <3>3, <3>4
  <2>2. CASE i # n
    <3>1. i \in 0 .. n - 1 /\ i \in 0 .. n /\ i + 1 \in 0 .. n
      BY <2>2
    <3>2. cut[i] \in 1 .. b /\ cut[i + 1] = cut[i] + body[cut[i]] + 1
      BY <1>4, <3>1
    <3>3. cut[i] \in 1 .. b + k /\ cut[i] <= b
      BY <1>2, <3>2
    <3>4. whole[cut[i]] = body[cut[i]]
      BY <1>3, <3>3
    <3>5. more[i] = cut[i] /\ more[i + 1] = cut[i + 1]
      BY <1>6, <3>1
    <3> QED
      BY <3>2, <3>3, <3>4, <3>5
  <2> QED
    BY <2>1, <2>2
<1> QED
  BY <1>3, <1>5, <1>6, <1>7, ZenonT(60) DEF CutInto, whole

\* What the capacity says of the counter.
LEMMA CounterBound ==
  ASSUME NEW n \in Nat, (n - NUM_ITEMS) * LEGACY_CHUNK_SIZE <= FLASH_CAP
  PROVE  n < U8 - 2
<1> DEFINE a == n - NUM_ITEMS
           b == U8 - 2 - NUM_ITEMS
           c == LEGACY_CHUNK_SIZE
<1>1. a \in Int /\ b \in Int /\ c \in Nat /\ a * c < b * c
  BY SizesAssumption, WrapAssumption
<1>2. ASSUME NEW x \in Int, NEW y \in Int, NEW z \in Nat, x * z < y * z
      PROVE  x < y
  <2>1. CASE x >= y
    <3>1. x - y \in Nat /\ (x - y) * z >= 0
      BY <1>2, <2>1
    <3>2. (x - y) * z = x * z - y * z
      BY <1>2
    <3> QED
      BY <1>2, <3>1, <3>2
  <2> QED
    BY <1>2, <2>1
<1>3. a < b
  <2> HIDE DEF a, b, c
  <2> QED
    BY <1>1, <1>2
<1> QED
  BY <1>3, SizesAssumption

LEMMA NextMultiple ==
  ASSUME NEW n \in Int, NEW c \in Int
  PROVE  (n + 1) * c = n * c + c /\ 0 * c = 0
OBVIOUS

LEMMA RefusedItems ==
  ASSUME NEW sw \in Refusals, Refuse(sw)
  PROVE  CInv'
BY DEF Refuse, Return, Refusals, CInv, HeldItem, Counted, WholeItems

LEMMA ItemsFit == NUM_ITEMS < U8 - 2 /\ 0 <= U8 - 2
<1>1. NUM_ITEMS \in Nat /\ FLASH_CAP \in Nat /\ LEGACY_CHUNK_SIZE \in Nat /\ U8 \in Nat
  BY SizesAssumption
<1>2. NUM_ITEMS - NUM_ITEMS = 0 /\ 0 * LEGACY_CHUNK_SIZE = 0
  BY <1>1
<1>3. (NUM_ITEMS - NUM_ITEMS) * LEGACY_CHUNK_SIZE <= FLASH_CAP
  BY <1>1, <1>2
<1>4. NUM_ITEMS < U8 - 2
  BY <1>1, <1>3, CounterBound
<1> QED
  BY <1>1, <1>4

LEMMA FirstItems ==
  ASSUME NEW data \in Apdus, First(data)
  PROVE  CInv'
<1>1. CASE Refuse("WRONG_LENGTH")
  BY <1>1, RefusedItems DEF Refusals
<1>2. CASE /\ Len(data) > PATH_LEN
           /\ tx' = Bytes(data, PATH_LEN, PATH_LEN + 1)
           /\ Loop(PATH_LEN, 0)
  <2>1. pc' = "loop" /\ reply' = "none" /\ items' = 0
    BY <1>2 DEF First, Loop
  <2>2. data \in Seq(Byte) /\ PATH_LEN \in Nat /\ PATH_LEN + 1 \in Nat
    BY ApdusAssumption, SizesAssumption DEF Byte
  <2>3. PATH_LEN <= PATH_LEN + 1 /\ PATH_LEN + 1 <= Len(data) /\ (PATH_LEN + 1) - PATH_LEN = 1
    BY <1>2, <2>2
  <2>4. tx' \in Seq(Byte) /\ Len(tx') = 1
    BY <1>2, <2>2, <2>3, BytesType
  <2>5. CutInto(tx', 0)
    BY <2>4, CutStarts
  <2>6. items' <= U8 - 2 /\ ~(items' > NUM_ITEMS)
    BY <2>1, ItemsFit, SizesAssumption
  <2>7. HeldItem' /\ Counted'
    BY <2>1, <2>6 DEF HeldItem, Counted
  <2>8. WholeItems'
    BY <2>1, <2>5 DEF WholeItems, CutInto
  <2> QED
    BY <2>7, <2>8 DEF CInv
<1> QED
  BY <1>1, <1>2 DEF First

\* The item that an APDU brings the end of, whole.
LEMMA HeadIsItem ==
  ASSUME Inv, CInv, NEW data \in Apdus, ContinueWhole(data)
  PROVE  LET item == local_data \o Bytes(data, 0, HeadLen(data)) IN
         item \in Seq(Byte) /\ \E m \in Nat : Len(item) = m + 1 /\ item[1] = m
<1> DEFINE h == HeadLen(data)
           head == Bytes(data, 0, h)
<1>1. data \in Seq(Byte) /\ Len(data) \in Nat
  BY ApdusAssumption DEF Byte
<1>2. /\ local_data \in Seq(Byte) /\ item_len \in Byte /\ check_item_len \in BOOLEAN
      /\ IF check_item_len THEN local_data = << >>
         ELSE local_data # << >> /\ item_len = (local_data[1] + 1) % U8
      /\ IF check_item_len THEN data # << >> ELSE item_len > Len(local_data)
      /\ h <= Len(data)
  BY DEF Inv, CInv, Types, HeldItem, ContinueWhole, Continue
<1>3. U8 \in Nat /\ U8 > 0
  BY SizesAssumption
<1>4. CASE check_item_len
  <2>1. data[1] \in Byte /\ data[1] \in Nat /\ h = data[1] + 1
    BY <1>1, <1>2, <1>3, <1>4, ElementOfSeq DEF HeadLen, Byte
  <2>2. PICK m \in Nat : m = data[1] /\ h = m + 1
    BY <2>1
  <2> HIDE DEF h
  <2>3. h \in Nat /\ 0 <= h /\ h >= 1 /\ h - 0 = h /\ 0 \in Nat
    BY <2>2
  <2>4. head \in Seq(Byte) /\ Len(head) = h
    BY <1>1, <1>2, <2>3, BytesType
  <2>5. head[1] = data[1]
    <3>1. \A i \in 1 .. h : data[i] \in Byte
      BY <1>1, <1>2, <2>3, ElementOfSeq
    <3>2. 1 \in 1 .. h /\ 0 + 1 = 1 /\ 1 <= h
      BY <2>3
    <3>3. SubSeq(data, 1, h)[1] = data[1]
      BY <1>1, <1>2, <2>3, <3>1, <3>2, SubSeqProperties
    <3> QED
      BY <3>2, <3>3 DEF Bytes
  <2> HIDE DEF head
  <2>6. local_data \o head = head
    BY <1>2, <1>4, <2>4
  <2> QED
    BY <2>2, <2>4, <2>5, <2>6 DEF head, h
<1>5. CASE ~check_item_len
  <2>1. PICK b \in Nat : b = Len(local_data)
    BY <1>2
  <2>2. b >= 1 /\ local_data[1] \in Byte
    BY <1>2, <1>5, <2>1, ElementOfSeq
  <2>3. PICK m \in Nat : m = local_data[1] /\ m < U8
    BY <1>3, <2>2 DEF Byte
  <2>4. item_len = m + 1
    <3>1. item_len = (m + 1) % U8 /\ item_len > 0
      BY <1>2, <1>3, <1>5, <2>1, <2>2, <2>3 DEF Byte
    <3>2. CASE m + 1 = U8
      <4>1. U8 % U8 = 0
        BY <1>3
      <4> QED
        BY <1>3, <3>1, <3>2, <4>1
    <3>3. CASE m + 1 < U8
      BY <1>3, <3>1, <3>3
    <3> QED
      BY <1>3, <2>3, <3>2, <3>3
  <2>5. h = (m + 1) - b /\ m + 1 > b
    BY <1>2, <1>5, <2>1, <2>4 DEF HeadLen
  <2> HIDE DEF h
  <2>6. h \in Nat /\ 0 <= h /\ h - 0 = h /\ b + h = m + 1 /\ 0 \in Nat
    BY <2>1, <2>5
  <2>7. head \in Seq(Byte) /\ Len(head) = h
    BY <1>1, <1>2, <2>6, BytesType
  <2> HIDE DEF head
  <2>8. /\ local_data \o head \in Seq(Byte)
        /\ Len(local_data \o head) = Len(local_data) + Len(head)
        /\ \A i \in 1 .. Len(local_data) + Len(head) :
             (local_data \o head)[i] = IF i <= Len(local_data) THEN local_data[i]
                                       ELSE head[i - Len(local_data)]
    BY <1>2, <2>7, ConcatProperties
  <2>9. 1 \in 1 .. Len(local_data) + Len(head) /\ 1 <= Len(local_data)
    BY <2>1, <2>2, <2>6, <2>7
  <2>10. (local_data \o head)[1] = local_data[1]
    BY <2>8, <2>9
  <2>11. Len(local_data \o head) = m + 1
    BY <2>1, <2>6, <2>7, <2>8
  <2> QED
    BY <2>3, <2>8, <2>10, <2>11 DEF head, h
<1> QED
  BY <1>2, <1>4, <1>5

\* The counter before an item that is not compared with NUM_ITEMS.
LEMMA CounterFits ==
  ASSUME Inv, CInv, NEW data, Continue(data), Fits(local_data)
  PROVE  items < U8 - 2
<1>1. /\ pc = "idle" /\ stream /\ items \in Nat
      /\ tx \in Seq(Byte) /\ local_data \in Seq(Byte) /\ tx \o local_data = sent
  BY SizesAssumption DEF Continue, Inv, Types, TakenInOrder, Byte
<1>2. Len(sent) <= FLASH_CAP /\ Len(sent) \in Nat
  <2>1. Len(tx \o local_data) = Len(tx) + Len(local_data)
    BY <1>1, ConcatProperties
  <2> QED
    BY <1>1, <2>1 DEF Fits
<1>3. CASE items > NUM_ITEMS
  <2>1. Len(sent) >= (items - NUM_ITEMS) * LEGACY_CHUNK_SIZE
    BY <1>1, <1>3 DEF CInv, Counted
  <2>2. (items - NUM_ITEMS) * LEGACY_CHUNK_SIZE \in Int /\ FLASH_CAP \in Nat
    BY <1>1, SizesAssumption
  <2>3. (items - NUM_ITEMS) * LEGACY_CHUNK_SIZE <= FLASH_CAP
    BY <1>2, <2>1, <2>2
  <2> QED
    BY <1>1, <2>3, CounterBound
<1>4. CASE ~(items > NUM_ITEMS)
  BY <1>1, <1>4, ItemsFit, SizesAssumption
<1> QED
  BY <1>3, <1>4

LEMMA ContinueItems ==
  ASSUME Inv, CInv, NEW data \in Apdus,
         ContinueFull(data) \/ ContinueBroken(data) \/ ContinueWhole(data)
  PROVE  CInv'
<1>1. "OUTPUT_BUFFER_TOO_SMALL" \in Refusals /\ "WRONG_LENGTH" \in Refusals /\ "DATA_INVALID" \in Refusals
  BY DEF Refusals
<1>2. CASE \/ Refuse("OUTPUT_BUFFER_TOO_SMALL") \/ Refuse("WRONG_LENGTH") \/ Refuse("DATA_INVALID")
  BY <1>1, <1>2, RefusedItems
<1> DEFINE item == local_data \o Bytes(data, 0, HeadLen(data))
<1>3. CASE /\ ContinueWhole(data)
           /\ tx' = tx \o item
           /\ items' = (items + 1) % U8
           /\ pc' = "loop" /\ reply' = "none"
  <2>1. /\ pc = "idle" /\ stream /\ Continue(data) /\ Fits(local_data)
        /\ buf' = data /\ sent' = sent \o Bytes(data, 0, SliceLen(data))
    BY <1>3 DEF ContinueWhole, Continue
  <2>2. items \in Nat /\ items < U8 - 2 /\ U8 \in Nat /\ LEGACY_CHUNK_SIZE \in Nat /\ NUM_ITEMS \in Nat
    BY <2>1, CounterFits, SizesAssumption DEF Inv, Types, Byte
  <2>3. items' = items + 1
    BY <1>3, <2>2
  <2>4. item \in Seq(Byte) /\ \E m \in Nat : Len(item) = m + 1 /\ item[1] = m
    BY <1>3, HeadIsItem
  <2>5. CutInto(tx, items) /\ tx \in Seq(Byte)
    BY <2>1 DEF CInv, WholeItems, Inv, Types
  <2> HIDE DEF item
  <2>6. CutInto(tx \o item, items + 1)
    BY <2>2, <2>4, <2>5, CutGrows
  <2>7. WholeItems'
    BY <1>3, <2>3, <2>6 DEF WholeItems, CutInto
  <2>8. Counted'
    <3>1. PICK s \in Nat, l \in Nat : s = Len(sent) /\ l = SliceLen(data) /\ Len(sent') = s + l
      <4>1. data \in Seq(Byte) /\ sent \in Seq(Byte)
        BY ApdusAssumption DEF Inv, Types, Byte
      <4>2. /\ SliceLen(data) \in Nat /\ SliceLen(data) <= Len(data)
            /\ 0 \in Nat /\ 0 <= SliceLen(data) /\ SliceLen(data) - 0 = SliceLen(data)
        BY <4>1, SliceType
      <4>3. Bytes(data, 0, SliceLen(data)) \in Seq(Byte) /\ Len(Bytes(data, 0, SliceLen(data))) = SliceLen(data)
        BY <4>1, <4>2, BytesType
      <4>4. Len(sent \o Bytes(data, 0, SliceLen(data))) = Len(sent) + SliceLen(data)
        BY <4>1, <4>3, ConcatProperties
      <4> QED
        BY <2>1, <4>1, <4>2, <4>4
    <3>2. CASE items > NUM_ITEMS
      <4>1. s >= (items - NUM_ITEMS) * LEGACY_CHUNK_SIZE
        BY <2>1, <3>1, <3>2 DEF CInv, Counted
      <4>2. items' - NUM_ITEMS - 1 = items - NUM_ITEMS /\ items - NUM_ITEMS \in Int
        BY <2>2, <2>3
      <4>3. (items - NUM_ITEMS) * LEGACY_CHUNK_SIZE \in Int
        BY <2>2
      <4>4. s + l >= (items' - NUM_ITEMS - 1) * LEGACY_CHUNK_SIZE + l
        BY <4>1, <4>2, <4>3
      <4> QED
        BY <1>3, <2>1, <2>2, <2>3, <3>1, <4>4 DEF Counted, SliceLen
    <3>3. CASE items = NUM_ITEMS
      <4>1. items' - NUM_ITEMS - 1 = 0 /\ 0 * LEGACY_CHUNK_SIZE = 0
        BY <2>2, <2>3, <3>3
      <4>2. s + l >= (items' - NUM_ITEMS - 1) * LEGACY_CHUNK_SIZE + l
        BY <4>1
      <4> QED
        BY <1>3, <2>1, <2>2, <2>3, <3>1, <4>2 DEF Counted, SliceLen
    <3>4. CASE items < NUM_ITEMS
      BY <1>3, <2>2, <2>3, <3>4, SMTT(30) DEF Counted
    <3> QED
      BY <2>2, <3>2, <3>3, <3>4
  <2> QED
    BY <1>3, <2>7, <2>8 DEF CInv, HeldItem
<1>4. \/ \/ Refuse("OUTPUT_BUFFER_TOO_SMALL") \/ Refuse("WRONG_LENGTH") \/ Refuse("DATA_INVALID")
      \/ /\ ContinueWhole(data)
         /\ tx' = tx \o item
         /\ items' = (items + 1) % U8
         /\ pc' = "loop" /\ reply' = "none"
  BY DEF ContinueFull, ContinueBroken, ContinueWhole, RefuseFull, Loop
<1> QED
  BY <1>2, <1>3, <1>4

\* The loop leaves an open transfer only at the end of a whole slice.
LEMMA SliceCounted ==
  ASSUME Inv, CInv, pc = "loop", Len(buf) >= LEGACY_CHUNK_SIZE, items > NUM_ITEMS
  PROVE  Len(sent) >= (items - NUM_ITEMS) * LEGACY_CHUNK_SIZE
<1>1. items \in Nat /\ NUM_ITEMS \in Nat /\ LEGACY_CHUNK_SIZE \in Nat /\ buf \in Seq(Byte)
  BY SizesAssumption DEF Inv, Types, Byte
<1>2. SliceLen(buf) = LEGACY_CHUNK_SIZE
  BY <1>1 DEF SliceLen
<1>3. Len(sent) >= (items - NUM_ITEMS - 1) * LEGACY_CHUNK_SIZE + LEGACY_CHUNK_SIZE
  BY <1>2 DEF CInv, Counted
<1>4. PICK k \in Int : k = items - NUM_ITEMS - 1 /\ k + 1 = items - NUM_ITEMS
  BY <1>1
<1>5. (k + 1) * LEGACY_CHUNK_SIZE = k * LEGACY_CHUNK_SIZE + LEGACY_CHUNK_SIZE
  BY <1>1, NextMultiple
<1> QED
  BY <1>3, <1>4, <1>5

LEMMA LoopItems == Inv /\ CInv /\ Iteration => CInv'
<1> SUFFICES ASSUME Inv, CInv, Iteration PROVE CInv'
  OBVIOUS
<1>0. "OUTPUT_BUFFER_TOO_SMALL" \in Refusals /\ "WRONG_LENGTH" \in Refusals /\ "DATA_INVALID" \in Refusals
  BY DEF Refusals
<1>1. pc = "loop" /\ UNCHANGED <<buf, sent>>
  BY DEF Iteration, InLoop, LoopBoundary, LoopShort, LoopSplit, LoopPastEnd, LoopItem, ItemAt
<1>2. /\ buf \in Seq(Byte) /\ tx \in Seq(Byte) /\ Len(buf) \in Nat
      /\ items \in Nat /\ items <= U8 - 2 /\ at \in Nat /\ at <= Len(buf)
      /\ at <= LEGACY_CHUNK_SIZE => local_data = << >> /\ CutInto(tx, items)
  BY <1>1, SizesAssumption DEF Inv, Types, Taken, CInv, Counted, WholeItems, Byte, rx
<1>3. U8 \in Nat /\ LEGACY_CHUNK_SIZE \in Nat /\ NUM_ITEMS \in Nat
  BY SizesAssumption
<1>4. CASE LoopBoundary
  <2>1. /\ pc' = "idle" /\ reply' = "OK" /\ check_item_len' = TRUE
        /\ UNCHANGED <<stream, items, item_len, local_data, tx>>
        /\ at = LEGACY_CHUNK_SIZE
    BY <1>4 DEF LoopBoundary, Return
  <2>2. Len(buf) >= LEGACY_CHUNK_SIZE /\ at <= LEGACY_CHUNK_SIZE
    BY <1>2, <1>3, <2>1
  <2>3. items > NUM_ITEMS => Len(sent) >= (items - NUM_ITEMS) * LEGACY_CHUNK_SIZE
    BY <1>1, <2>2, SliceCounted
  <2>4. Counted'
    BY <1>1, <2>1, <2>3 DEF Counted
  <2>5. HeldItem' /\ WholeItems'
    BY <1>2, <2>1, <2>2 DEF HeldItem, WholeItems, CutInto
  <2> QED
    BY <2>4, <2>5 DEF CInv
<1>5. CASE LoopShort \/ LoopPastEnd
  BY <1>0, <1>5, RefusedItems DEF LoopShort, LoopPastEnd
<1>6. CASE LoopSplit
  <2>1. CASE Refuse("OUTPUT_BUFFER_TOO_SMALL")
    BY <1>0, <2>1, RefusedItems
  <2>2. CASE Return("OK") /\ local_data' = HeldBack /\ UNCHANGED stream
    <3>1. /\ pc' = "idle" /\ reply' = "OK" /\ check_item_len' = FALSE
          /\ item_len' = (buf[at + 1] + 1) % U8
          /\ UNCHANGED <<items, tx>>
          /\ at < Len(buf) /\ Len(buf) = LEGACY_CHUNK_SIZE
      BY <1>6, <2>2 DEF LoopSplit, ItemAt, InLoop, Return, rx
    <3>2. /\ Len(buf) >= LEGACY_CHUNK_SIZE /\ at <= LEGACY_CHUNK_SIZE
          /\ at + 1 <= LEGACY_CHUNK_SIZE
      BY <1>2, <1>3, <3>1
    <3>3. items > NUM_ITEMS => Len(sent) >= (items - NUM_ITEMS) * LEGACY_CHUNK_SIZE
      BY <1>1, <3>2, SliceCounted
    <3>4. Counted'
      BY <1>1, <3>1, <3>3 DEF Counted
    <3>5. HeldBack # << >> /\ HeldBack[1] = buf[at + 1]
      <4>1. PICK a \in Nat, c \in Nat : a = at /\ c = LEGACY_CHUNK_SIZE /\ a + 1 <= c
        BY <1>2, <1>3, <3>2
      <4>2. \A i \in a + 1 .. c : buf[i] \in Byte
        BY <1>2, <3>1, <4>1, ElementOfSeq
      <4>3. /\ Len(SubSeq(buf, a + 1, c)) = c - (a + 1) + 1
            /\ \A i \in 1 .. c - (a + 1) + 1 : SubSeq(buf, a + 1, c)[i] = buf[(a + 1) + i - 1]
        BY <1>2, <4>1, <4>2, SubSeqProperties
      <4>4. 1 \in 1 .. c - (a + 1) + 1 /\ (a + 1) + 1 - 1 = a + 1 /\ c - (a + 1) + 1 # 0
        BY <4>1
      <4>5. SubSeq(buf, a + 1, c)[1] = buf[a + 1]
        BY <4>3, <4>4
      <4>6. SubSeq(buf, a + 1, c) # << >>
        BY <4>3, <4>4
      <4> QED
        BY <4>1, <4>5, <4>6 DEF HeldBack, Bytes
    <3>6. HeldItem'
      BY <2>2, <3>1, <3>5 DEF HeldItem
    <3>7. WholeItems'
      BY <1>2, <3>1, <3>2 DEF WholeItems, CutInto
    <3> QED
      BY <3>4, <3>6, <3>7 DEF CInv
  <2> QED
    BY <1>6, <2>1, <2>2 DEF LoopSplit
<1>7. CASE LoopItem
  <2> DEFINE item == Bytes(buf, at, next)
  <2>1. CASE Refuse("OUTPUT_BUFFER_TOO_SMALL") \/ Refuse("DATA_INVALID")
    BY <1>0, <2>1, RefusedItems
  <2>2. CASE /\ tx' = tx \o item
             /\ items' = (items + 1) % U8
             /\ ~(items' > NUM_ITEMS)
             /\ \/ items' = NUM_ITEMS /\ Return("complete") /\ stream' = FALSE
                \/ Loop(at, buf[at + 1])
    <3>1. at < Len(buf) /\ next <= LEGACY_CHUNK_SIZE /\ next <= Len(buf)
      BY <1>7 DEF LoopItem, rx
    <3>2. PICK m \in Nat : m = buf[at + 1]
      <4>1. at + 1 \in 1 .. Len(buf)
        BY <1>2, <3>1
      <4>2. buf[at + 1] \in Byte
        BY <1>2, <4>1, ElementOfSeq
      <4> QED
        BY <1>3, <4>2 DEF Byte
    <3>3. PICK a \in Nat : a = at
      BY <1>2
    <3>4. next = a + m + 1 /\ a <= a + m + 1 /\ a + m + 1 \in Nat
      BY <3>2, <3>3 DEF next
    <3>5. (a + m + 1) - a = m + 1 /\ a <= LEGACY_CHUNK_SIZE /\ a + m + 1 <= Len(buf)
      BY <1>2, <1>3, <3>1, <3>3, <3>4
    <3>6. item \in Seq(Byte) /\ Len(item) = m + 1
      BY <1>2, <3>3, <3>4, <3>5, BytesType
    <3>7. item[1] = m
      <4>1. \A i \in a + 1 .. a + m + 1 : buf[i] \in Byte
        BY <1>2, <3>4, <3>5, ElementOfSeq
      <4>2. /\ a + 1 <= a + m + 1 /\ 1 \in 1 .. (a + m + 1) - (a + 1) + 1
            /\ (a + 1) + 1 - 1 = a + 1
        OBVIOUS
      <4>3. \A i \in 1 .. (a + m + 1) - (a + 1) + 1 :
              SubSeq(buf, a + 1, a + m + 1)[i] = buf[(a + 1) + i - 1]
        BY <1>2, <4>1, <4>2, SubSeqProperties
      <4>4. SubSeq(buf, a + 1, a + m + 1)[1] = buf[a + 1]
        BY <4>2, <4>3
      <4> QED
        BY <3>2, <3>3, <3>4, <4>4 DEF Bytes
    <3>8. items' = items + 1 /\ items' <= U8 - 2
      <4>1. items' = (items + 1) % U8 /\ ~(items' > NUM_ITEMS)
        BY <2>2
      <4>2. items + 1 \in 0 .. U8 - 1
        BY <1>2, <1>3
      <4>3. items' = items + 1
        BY <1>3, <4>1, <4>2
      <4> QED
        BY <1>2, <1>3, <4>1, <4>3, ItemsFit
    <3> HIDE DEF item
    <3>9. CutInto(tx', items')
      <4>1. CutInto(tx \o item, items + 1)
        BY <1>2, <3>3, <3>5, <3>6, <3>7, CutGrows
      <4> QED
        BY <2>2, <3>8, <4>1
    <3>10. CASE Loop(at, buf[at + 1])
      <4>1. pc' = "loop" /\ reply' = "none"
        BY <3>10 DEF Loop
      <4>2. WholeItems'
        BY <3>9, <4>1 DEF WholeItems, CutInto
      <4> QED
        BY <2>2, <3>8, <4>1, <4>2 DEF CInv, HeldItem, Counted
    <3>11. CASE items' = NUM_ITEMS /\ Return("complete") /\ stream' = FALSE
      <4>1. pc' = "idle" /\ reply' = "complete"
        BY <3>11 DEF Return
      <4>2. WholeItems'
        BY <3>9, <3>11, <4>1 DEF WholeItems, CutInto
      <4> QED
        BY <3>11, <4>1, <4>2 DEF CInv, HeldItem, Counted
    <3> QED
      BY <2>2, <3>10, <3>11
  <2>3. \/ Refuse("OUTPUT_BUFFER_TOO_SMALL") \/ Refuse("DATA_INVALID")
        \/ /\ tx' = tx \o item
           /\ items' = (items + 1) % U8
           /\ ~(items' > NUM_ITEMS)
           /\ \/ items' = NUM_ITEMS /\ Return("complete") /\ stream' = FALSE
              \/ Loop(at, buf[at + 1])
    BY <1>7 DEF LoopItem, RefuseFull, Refuse, AllItems
  <2> QED
    BY <2>1, <2>2, <2>3
<1> QED
  BY <1>4, <1>5, <1>6, <1>7 DEF Iteration

\* INS 0x10, for every set of APDUs and every capacity that the u8 item counter
\* cannot outrun (WrapAssumption): a transfer that legacy_transfer_chunk accepts is
\* all that was sent, and is a transaction type and NUM_ITEMS whole items.
THEOREM CompleteSafe == Spec => []CompleteIsWhatWasSent
<1>1. Init => CInv
  BY DEF Init, CInv, HeldItem, Counted, WholeItems
<1>2. Inv /\ CInv /\ [Next]_vars => CInv'
  <2> SUFFICES ASSUME Inv, CInv, [Next]_vars PROVE CInv'
    OBVIOUS
  <2>1. CASE UNCHANGED vars
    BY <2>1 DEF vars, saved, CInv, HeldItem, Counted, WholeItems, CutInto, SliceLen, at
  <2>2. ASSUME NEW data \in Apdus, Chunk(data) PROVE CInv'
    BY <2>2, FirstItems, ContinueItems DEF Chunk
  <2> QED
    BY <2>1, <2>2, LoopItems DEF Next
<1>3. Inv /\ CInv => CompleteIsWhatWasSent
  BY DEF Inv, CInv, CompleteIsAll, WholeItems, CompleteIsWhatWasSent
<1> QED
  BY <1>1, <1>2, <1>3, FramingInvariant, PTL DEF Spec
=============================================================================
