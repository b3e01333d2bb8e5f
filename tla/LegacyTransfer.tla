--------------------------- MODULE LegacyTransfer ---------------------------
(***************************************************************************)
(* INS 0x10 (legacy_transfer_chunk): the host slices a derivation path, a  *)
(* transaction type and NUM_ITEMS length-prefixed items into APDUs of      *)
(* LEGACY_CHUNK_SIZE bytes, and the app copies type and items into the     *)
(* transaction buffer.  An item may be cut by the end of an APDU: between  *)
(* two items (check_item_len) or inside one (local_data, item_len).        *)
(*                                                                         *)
(* Offsets count from the first data byte: the 5 header bytes that the     *)
(* code adds on both sides of every comparison are left out.  An iteration *)
(* of the code's while loop is a step.  KadenaApp checks the path, the     *)
(* locked device and the other commands; here the path is PATH_LEN bytes   *)
(* that the first APDU starts with.                                        *)
(*                                                                         *)
(* sent is a history variable: what the APDUs of the command carried after *)
(* the path, in the first LEGACY_CHUNK_SIZE bytes of each.                 *)
(***************************************************************************)
EXTENDS Integers, Sequences

CONSTANTS
  Apdus,                    \* the data fields a host may send
  PATH_LEN,                 \* 9 to 21: the path with its count
  LEGACY_CHUNK_SIZE,        \* 230
  LEGACY_LOCAL_BUFFER_SIZE, \* 33
  NUM_ITEMS,                \* 12: LEGACY_TRANSFER_NUM_ITEMS
  FLASH_CAP,                \* 15104
  U8                        \* 256: values of a byte

ASSUME ApdusAssumption == Apdus \subseteq Seq(0 .. U8 - 1)
ASSUME SizesAssumption ==
  /\ PATH_LEN \in Nat
  /\ LEGACY_CHUNK_SIZE \in Nat
  /\ LEGACY_LOCAL_BUFFER_SIZE \in Nat
  /\ NUM_ITEMS \in Nat
  /\ FLASH_CAP \in Nat \ {0}
  /\ U8 \in Nat \ {0}
  /\ PATH_LEN < LEGACY_CHUNK_SIZE
  /\ LEGACY_LOCAL_BUFFER_SIZE < U8
\* The buffer is full long before the item counter, which only the loop compares
\* with NUM_ITEMS, could wrap round: a slice per item it does not compare.
ASSUME WrapAssumption == (U8 - 2 - NUM_ITEMS) * LEGACY_CHUNK_SIZE > FLASH_CAP

VARIABLES
  stream,         \* a transfer is open
  items,          \* u8: items taken so far
  item_len,       \* u8: length of the item cut in two, its length byte included
  local_data,     \* its bytes held back (local_data[..local_data_len])
  check_item_len, \* the next APDU starts with an item
  tx,             \* the transaction buffer
  buf,            \* data of the APDU being handled, or handled last
  offset, payload_size, \* of the loop: the item taken last
  pc,             \* "idle", or "loop" inside the while loop
  reply,          \* how the last APDU ended
  sent            \* history

saved == <<items, item_len, local_data, check_item_len>>
vars == <<stream, saved, tx, buf, offset, payload_size, pc, reply, sent>>

\* The bytes first .. last - 1 of an APDU, as the code's buf[first..last].
Bytes(data, first, last) == SubSeq(data, first + 1, last)

\* How much of an APDU is a slice of the payload.
SliceLen(data) == IF Len(data) < LEGACY_CHUNK_SIZE THEN Len(data) ELSE LEGACY_CHUNK_SIZE

Fits_OffByOne(data) == Len(tx) + Len(data) <= FLASH_CAP + 1
Fits(data) == Len(tx) + Len(data) <= FLASH_CAP

-----------------------------------------------------------------------------
(* The ways to leave the handler.                                          *)

Return(r) == pc' = "idle" /\ reply' = r

\* legacy_transfer: any error closes the stream.
Refuse(sw) == Return(sw) /\ stream' = FALSE

\* legacy_append has failed.
RefuseFull == Refuse("OUTPUT_BUFFER_TOO_SMALL") /\ tx' = << >>

Loop(off, size) ==
  /\ pc' = "loop"
  /\ offset' = off
  /\ payload_size' = size
  /\ reply' = "none"

-----------------------------------------------------------------------------
(* The first APDU: legacy_initialize_transfer.                             *)

First(data) ==
  /\ pc = "idle"
  /\ ~stream
  /\ Len(data) >= PATH_LEN
  /\ buf' = data
  /\ items' = 0
  /\ item_len' = 0
  /\ local_data' = << >>
  /\ check_item_len' = FALSE
  /\ sent' = Bytes(data, PATH_LEN, SliceLen(data))
  /\ \/ /\ Len(data) = PATH_LEN
        /\ Refuse("WRONG_LENGTH")
        /\ tx' = << >>
        /\ UNCHANGED <<offset, payload_size>>
     \/ /\ Len(data) > PATH_LEN
        /\ tx' = Bytes(data, PATH_LEN, PATH_LEN + 1)
        /\ stream' = TRUE
        /\ Loop(PATH_LEN, 0)

-----------------------------------------------------------------------------
(* A later APDU: legacy_existing_transfer.                                 *)

Continue(data) ==
  /\ pc = "idle"
  /\ stream
  /\ buf' = data
  /\ sent' = sent \o Bytes(data, 0, SliceLen(data))

\* How much of the APDU belongs to the item that comes first in it.
HeadLen(data) ==
  IF check_item_len THEN data[1] + 1 ELSE item_len - Len(local_data)

\* The bytes held back do not fit.
ContinueFull(data) ==
  /\ Continue(data)
  /\ ~Fits(local_data)
  /\ RefuseFull
  /\ UNCHANGED <<saved, offset, payload_size>>

\* The item is not whole in this APDU, or was already (item_len wraps to 0
\* for an item of U8 - 1 bytes).
ContinueBroken(data) ==
  /\ Continue(data)
  /\ Fits(local_data)
  /\ tx' = tx \o local_data
  /\ \/ check_item_len /\ data = << >> /\ Refuse("WRONG_LENGTH")
     \/ ~check_item_len /\ item_len <= Len(local_data) /\ Refuse("DATA_INVALID")
     \/ /\ check_item_len => data # << >>
        /\ ~check_item_len => item_len > Len(local_data)
        /\ HeadLen(data) > Len(data)
        /\ Refuse("WRONG_LENGTH")
  /\ UNCHANGED <<saved, offset, payload_size>>

ContinueWhole(data) ==
  LET head == local_data \o Bytes(data, 0, HeadLen(data)) IN
  /\ Continue(data)
  /\ Fits(local_data)
  /\ IF check_item_len THEN data # << >> ELSE item_len > Len(local_data)
  /\ HeadLen(data) <= Len(data)
  /\ \/ /\ ~Fits(head)
        /\ RefuseFull
        /\ UNCHANGED <<saved, offset, payload_size>>
     \/ /\ Fits(head)
        /\ tx' = tx \o head
        /\ items' = (items + 1) % U8
        /\ local_data' = << >>
        /\ IF check_item_len
             THEN Loop(0, HeadLen(data) - 1) ELSE Loop(-1, HeadLen(data))
        /\ UNCHANGED <<stream, item_len, check_item_len>>

-----------------------------------------------------------------------------
(* The while loop: at is where the next item starts.                       *)

at == offset + payload_size + 1
rx == Len(buf)
next == at + buf[at + 1] + 1

InLoop == pc = "loop" /\ UNCHANGED <<buf, sent, offset, payload_size>>

\* The APDU ends with an item.  (rx < offset cannot happen: the item taken
\* last was inside the APDU.)
LoopBoundary ==
  /\ InLoop
  /\ at <= rx
  /\ at = LEGACY_CHUNK_SIZE
  /\ check_item_len' = TRUE
  /\ Return("OK")
  /\ UNCHANGED <<stream, items, item_len, local_data, tx>>

\* A short APDU ends, and its last item came from the APDU before it (or it is
\* a first one that has no item).
LoopShort ==
  /\ InLoop
  /\ at >= rx
  /\ at # LEGACY_CHUNK_SIZE \/ at > rx
  /\ Refuse("DATA_INVALID")
  /\ UNCHANGED <<saved, tx>>

ItemAt == InLoop /\ at < rx /\ at # LEGACY_CHUNK_SIZE

HeldBack_WithoutLength == Bytes(buf, at + 1, LEGACY_CHUNK_SIZE)

\* What the APDU holds of the item that starts at at.
HeldBack == Bytes(buf, at, LEGACY_CHUNK_SIZE)

\* legacy_handle_overflow: the item is cut by the end of the APDU.
LoopSplit ==
  /\ ItemAt
  /\ next > LEGACY_CHUNK_SIZE
  /\ rx = LEGACY_CHUNK_SIZE
  /\ check_item_len' = FALSE
  /\ item_len' = (buf[at + 1] + 1) % U8
  /\ IF LEGACY_CHUNK_SIZE - at >= LEGACY_LOCAL_BUFFER_SIZE
       THEN Refuse("OUTPUT_BUFFER_TOO_SMALL") /\ UNCHANGED local_data
       ELSE /\ Return("OK")
            /\ local_data' = HeldBack
            /\ UNCHANGED stream
  /\ UNCHANGED <<items, tx>>

\* V1: the item points past the received bytes.
LoopPastEnd ==
  /\ ItemAt
  /\ \/ next > LEGACY_CHUNK_SIZE /\ rx # LEGACY_CHUNK_SIZE
     \/ next <= LEGACY_CHUNK_SIZE /\ next > rx
  /\ Refuse("WRONG_LENGTH")
  /\ UNCHANGED <<saved, tx>>

AllItems_AtMost(n) == n <= NUM_ITEMS
AllItems(n) == n = NUM_ITEMS

\* The item is taken: it may be the last one, or one too many.
LoopItem ==
  LET item == Bytes(buf, at, next) IN
  /\ pc = "loop"
  /\ UNCHANGED <<buf, sent>>
  /\ at < rx
  /\ at # LEGACY_CHUNK_SIZE
  /\ next <= LEGACY_CHUNK_SIZE
  /\ next <= rx
  /\ \/ /\ ~Fits(item)
        /\ RefuseFull
        /\ UNCHANGED <<items, offset, payload_size>>
     \/ /\ Fits(item)
        /\ tx' = tx \o item
        /\ items' = (items + 1) % U8
        /\ IF items' > NUM_ITEMS
             THEN Refuse("DATA_INVALID") /\ UNCHANGED <<offset, payload_size>>
           ELSE IF next >= rx /\ next # LEGACY_CHUNK_SIZE
             THEN /\ IF AllItems(items') THEN Return("complete") ELSE Return("DATA_INVALID")
                  /\ stream' = FALSE
                  /\ UNCHANGED <<offset, payload_size>>
           ELSE Loop(at, buf[at + 1]) /\ UNCHANGED stream
  /\ UNCHANGED <<item_len, local_data, check_item_len>>

-----------------------------------------------------------------------------

Init ==
  /\ stream = FALSE
  /\ items = 0
  /\ item_len = 0
  /\ local_data = << >>
  /\ check_item_len = FALSE
  /\ tx = << >>
  /\ buf = << >>
  /\ offset = 0
  /\ payload_size = 0
  /\ pc = "idle"
  /\ reply = "none"
  /\ sent = << >>

Chunk(data) ==
  \/ First(data)
  \/ ContinueFull(data)
  \/ ContinueBroken(data)
  \/ ContinueWhole(data)

Iteration == LoopBoundary \/ LoopShort \/ LoopSplit \/ LoopPastEnd \/ LoopItem

Next == (\E data \in Apdus : Chunk(data)) \/ Iteration

Spec == Init /\ [][Next]_vars

-----------------------------------------------------------------------------

Refusals == {"WRONG_LENGTH", "DATA_INVALID", "OUTPUT_BUFFER_TOO_SMALL"}

\* The loop's offsets stay inside the APDU: the code indexes the APDU and takes
\* slices of it with them, and a Rust index out of bounds panics.
TypeOK ==
  /\ stream \in BOOLEAN
  /\ items \in 0 .. U8 - 1
  /\ item_len \in 0 .. U8 - 1
  /\ check_item_len \in BOOLEAN
  /\ Len(local_data) < U8
  /\ Len(tx) <= FLASH_CAP
  /\ pc \in {"idle", "loop"}
  /\ pc = "loop" => stream /\ at \in 0 .. rx
  /\ reply \in Refusals \cup {"none", "OK", "complete"}

\* body is a transaction type followed by n whole items: cut[i] is where item
\* i + 1 starts.
CutInto(body, n) ==
  \E cut \in [0 .. n -> 1 .. Len(body) + 1] :
    /\ cut[0] = 2
    /\ cut[n] = Len(body) + 1
    /\ \A i \in 0 .. n - 1 :
         cut[i] \in DOMAIN body /\ cut[i + 1] = cut[i] + body[cut[i]] + 1

\* Between the APDUs of an open transfer, the buffer and the bytes held back are
\* what the APDUs carried, in order: no byte is dropped, repeated or left over
\* from an earlier command, wherever the APDUs' ends fall in the items.
TakenInOrder == pc = "idle" /\ stream => tx \o local_data = sent

\* A transfer that is accepted is exactly what was sent, and is a type and
\* NUM_ITEMS items.  (The u8 item counter is not checked for the item that an
\* APDU continues: only the buffer's capacity keeps it from wrapping round.)
CompleteIsWhatWasSent ==
  reply = "complete" => tx = sent /\ CutInto(tx, NUM_ITEMS)

\* docs/apdu.md:524-526: the host sends slices, and "A command is complete when
\* an APDU carries fewer than 230 data bytes": a short slice that brings the end
\* of a well-formed transfer is not refused.
ShortApduCompletes ==
  reply \in Refusals /\ Len(buf) \in 1 .. LEGACY_CHUNK_SIZE - 1
    => ~CutInto(sent, NUM_ITEMS)
=============================================================================
