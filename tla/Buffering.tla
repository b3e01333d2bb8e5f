----------------------------- MODULE Buffering ------------------------------
(***************************************************************************)
(* The transaction buffer as the device implements it: kadena_core's       *)
(* Buffering (RAM first; the append that overflows RAM moves everything to *)
(* flash, where the transaction stays until the next reset) over the two   *)
(* arrays of src/platform.rs and src/storage.rs.  The structured-transfer  *)
(* template shares the RAM array: it is the last TEMPLATE_BUF bytes.       *)
(*                                                                         *)
(* The arrays keep every byte they ever held, stale ones included, so that *)
(* a read past the valid length, or a template overlapping the transaction *)
(* it was built from, is visible.                                          *)
(***************************************************************************)
EXTENDS Integers, Sequences

CONSTANTS
  Byte,               \* the values of one byte (256 on the device)
  RAM_CAP,            \* 8192 on the device
  FLASH_CAP,          \* 15104
  TEMPLATE_BUF,       \* 1280
  MAX_TRANSFER_BODY,  \* 3073: the longest body transfer::build accepts
  Chunks,             \* the data a caller may append (one APDU: at most 255 bytes)
  Templates           \* the templates transfer::build may produce

TEMPLATE_AT == RAM_CAP - TEMPLATE_BUF

ASSUME SizesAssumption ==
  /\ RAM_CAP \in Nat
  /\ FLASH_CAP \in Nat
  /\ TEMPLATE_BUF \in Nat
  /\ MAX_TRANSFER_BODY \in Nat
  /\ RAM_CAP <= FLASH_CAP
  /\ TEMPLATE_BUF <= RAM_CAP
  /\ MAX_TRANSFER_BODY <= TEMPLATE_AT  \* the const assert of platform.rs

ASSUME DataAssumption ==
  /\ 0 \in Byte
  /\ Chunks \subseteq Seq(Byte)
  /\ Templates \subseteq Seq(Byte)
  /\ \A t \in Templates : Len(t) <= TEMPLATE_BUF

VARIABLES
  ram_pos,       \* bytes of the transaction in RAM
  flash_pos,     \* bytes of the transaction in flash
  in_ram,        \* which of the two holds the transaction
  ram,           \* the RAM array
  flash,         \* the flash array
  template_len,  \* bytes of the template at TEMPLATE_AT
  accepted       \* result of the last append

vars == <<ram_pos, flash_pos, in_ram, ram, flash, template_len, accepted>>

-----------------------------------------------------------------------------

\* An array after data was copied to it from index pos (0-based) on.
Written(array, pos, data) ==
  [i \in DOMAIN array |->
     IF pos <= i /\ i < pos + Len(data) THEN data[i - pos + 1] ELSE array[i]]

\* The n bytes of an array from index pos on.
Slice(array, pos, n) == [i \in 1 .. n |-> array[pos + i - 1]]

\* Buffering::get through Device::tx.
Get == IF in_ram THEN Slice(ram, 0, ram_pos) ELSE Slice(flash, 0, flash_pos)

\* Device::template.
Template == Slice(ram, TEMPLATE_AT, template_len)

-----------------------------------------------------------------------------

Init ==
  /\ ram_pos = 0
  /\ flash_pos = 0
  /\ in_ram = TRUE
  /\ ram = [i \in 0 .. RAM_CAP - 1 |-> 0]
  /\ flash = [i \in 0 .. FLASH_CAP - 1 |-> 0]
  /\ template_len = 0
  /\ accepted = TRUE

\* Buffering::reset: the positions only, the bytes stay.
Reset ==
  /\ ram_pos' = 0
  /\ flash_pos' = 0
  /\ in_ram' = TRUE
  /\ UNCHANGED <<ram, flash, template_len, accepted>>

FlashFits_OffByOne(pos, data) == FLASH_CAP - pos + 1 >= Len(data)

\* Buffering::append_flash at position pos of array, all of data or nothing.
FlashFits(pos, data) == FLASH_CAP - pos >= Len(data)

RamFits_Strict(data) == RAM_CAP - ram_pos > Len(data)
RamFits(data) == RAM_CAP - ram_pos >= Len(data)

\* Buffering::append while the transaction is in RAM and data fits there.
AppendRam(data) ==
  /\ in_ram
  /\ RamFits(data)
  /\ ram' = Written(ram, ram_pos, data)
  /\ ram_pos' = ram_pos + Len(data)
  /\ accepted' = TRUE
  /\ UNCHANGED <<flash_pos, in_ram, flash, template_len>>

AppendMove_KeepsRamPos(data) ==
  LET pos == flash_pos + ram_pos
      moved == Written(flash, flash_pos, Slice(ram, 0, ram_pos))
      fits == FlashFits(pos, data)
  IN
  /\ in_ram
  /\ ~RamFits(data)
  /\ in_ram' = FALSE
  /\ flash' = IF fits THEN Written(moved, pos, data) ELSE moved
  /\ flash_pos' = IF fits THEN pos + Len(data) ELSE pos
  /\ accepted' = fits
  /\ UNCHANGED <<ram_pos, ram, template_len>>

\* Buffering::append when data overflows RAM: what RAM holds moves to flash,
\* then data is appended there if it fits.
AppendMove(data) ==
  LET moved == Written(flash, flash_pos, Slice(ram, 0, ram_pos))
      pos   == flash_pos + ram_pos
  IN
  /\ in_ram
  /\ ~RamFits(data)
  /\ in_ram' = FALSE
  /\ ram_pos' = 0
  /\ IF FlashFits(pos, data)
       THEN /\ flash' = Written(moved, pos, data)
            /\ flash_pos' = pos + Len(data)
            /\ accepted' = TRUE
       ELSE /\ flash' = moved
            /\ flash_pos' = pos
            /\ accepted' = FALSE
  /\ UNCHANGED <<ram, template_len>>

\* Buffering::append once the transaction is in flash.
AppendFlash(data) ==
  /\ ~in_ram
  /\ IF FlashFits(flash_pos, data)
       THEN /\ flash' = Written(flash, flash_pos, data)
            /\ flash_pos' = flash_pos + Len(data)
            /\ accepted' = TRUE
       ELSE /\ UNCHANGED <<flash, flash_pos>>
            /\ accepted' = FALSE
  /\ UNCHANGED <<ram_pos, in_ram, ram, template_len>>

TemplateStore_AnyBody(data) ==
  /\ ram' = Written(ram, TEMPLATE_AT, data)
  /\ template_len' = Len(data)
  /\ UNCHANGED <<ram_pos, flash_pos, in_ram, flash, accepted>>

\* Device::template_store, called once transfer::build has accepted the
\* transaction as a transfer body (so it is no longer than such a body).
TemplateStore(data) ==
  /\ Len(Get) <= MAX_TRANSFER_BODY
  /\ ram' = Written(ram, TEMPLATE_AT, data)
  /\ template_len' = Len(data)
  /\ UNCHANGED <<ram_pos, flash_pos, in_ram, flash, accepted>>

Next ==
  \/ Reset
  \/ \E data \in Chunks : AppendRam(data) \/ AppendMove(data) \/ AppendFlash(data)
  \/ \E data \in Templates : TemplateStore(data)

Spec == Init /\ [][Next]_vars

-----------------------------------------------------------------------------

\* The positions and arrays keep their types, and the positions their bounds:
\* the subtractions RAM_CAP - ram_pos and FLASH_CAP - flash_pos of the code are
\* on usize and must not go below zero, and no index leaves its array.
TypeOK ==
  /\ ram_pos \in 0 .. RAM_CAP
  /\ flash_pos \in 0 .. FLASH_CAP
  /\ in_ram \in BOOLEAN
  /\ ram \in [0 .. RAM_CAP - 1 -> Byte]
  /\ flash \in [0 .. FLASH_CAP - 1 -> Byte]
  /\ template_len \in 0 .. TEMPLATE_BUF
  /\ accepted \in BOOLEAN

\* Only one of the two positions counts: while the transaction is in RAM the
\* flash position is zero (the move appends at flash_pos), and after the move
\* the RAM position is zero.
OnePosition == IF in_ram THEN flash_pos = 0 ELSE ram_pos = 0

\* The buffer is a TxBuffer: every append is all or nothing, a read is exactly
\* the bytes appended since the reset wherever they are stored (the move to
\* flash included, and an append refused right after it), and the template is
\* not disturbed by a transaction that stays below TEMPLATE_AT.
Abstract == INSTANCE TxBuffer WITH
  tx <- Get, template <- Template,
  Capacity <- FLASH_CAP, TemplateAt <- TEMPLATE_AT

ImplementsTxBuffer == Abstract!Spec

\* Flash wear (buffering.rs: "Most transactions therefore never touch flash"):
\* an append that is accepted writes flash only when the transaction, with it,
\* is longer than RAM, or had already moved.
FlashOnlyOnOverflow ==
  [][in_ram /\ flash' # flash /\ accepted' => Len(Get') > RAM_CAP]_vars
=============================================================================
