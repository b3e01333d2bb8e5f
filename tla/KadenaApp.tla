------------------------------ MODULE KadenaApp -----------------------------
(***************************************************************************)
(* The command state machine of the app: kadena_core::app::App (the APDU   *)
(* dispatcher with its modern and legacy command streams) driven by the    *)
(* main loop of src/main.rs, which answers a command at once, or after the *)
(* user has decided on an address or transaction review, or has closed the *)
(* "blind signing required" screen.                                        *)
(*                                                                         *)
(* Data.  A cell stands for a byte or, where the code reads a 4-byte word  *)
(* (a path component, the declared payload length), for that word.  The    *)
(* parser and the transfer template builder are constant operators: the    *)
(* state machine uses only their outcome.  The transaction buffer is the   *)
(* abstract one of TxBuffer.                                               *)
(*                                                                         *)
(* wire is a history variable: the data of the APDUs accepted for the last *)
(* signing command (of a 0x10 APDU after its path, the items it brought).  *)
(* No action depends on it.                                                *)
(***************************************************************************)
EXTENDS Integers, Sequences

CONSTANTS
  Data,               \* the data fields a host may send
  Commands,           \* the signing INS it sends
  Pieces,             \* what one 0x10 APDU may add to the buffer
  PATH_WORDS,         \* 5: components of a derivation path
  HDPATH_0, HDPATH_1, \* 44' and 626'
  HASH_LEN,           \* 32
  LEGACY_CHUNK_SIZE,  \* 230: data bytes of a full legacy APDU
  FLASH_CAP,          \* 15104: capacity of the transaction buffer
  TEMPLATE_AT,        \* a longer transaction overwrites the template
  Verdict(_, _, _),   \* of parser and review items on (json, path, expert)
  Build(_, _),        \* transfer::build of (body, path), or Nil
  Clobbered,          \* the template's bytes once the transaction overran it
  Nil

Modern == {"SIGN", "SIGN_HASH", "SIGN_TRANSFER"}
LegacySigning == {"LEGACY_SIGN_JSON", "LEGACY_SIGN_HASH"}
SigningIns == Modern \cup LegacySigning \cup {"LEGACY_TRANSFER"}

TxType(ins) ==
  CASE ins \in {"SIGN", "LEGACY_SIGN_JSON"} -> "Json"
    [] ins \in {"SIGN_HASH", "LEGACY_SIGN_HASH"} -> "Hash"
    [] ins \in {"SIGN_TRANSFER", "LEGACY_TRANSFER"} -> "Transfer"

VARIABLES
  hd_path,         \* last path any command carried
  sign_path,       \* path of the signing command
  stream,          \* INS of the open stream, or Nil
  pending,         \* what the user is deciding on, or Nil
  payload_length,  \* declared length of a legacy 0x03 / 0x04 payload
  hdpath_length,   \* cells of the last legacy path, its count included
  parsed,          \* what the review items were made from
  tx, template,    \* Platform: the transaction buffer and the template
  blind_signing, expert, \* Platform: the settings
  pin_validated,   \* Platform: the device is unlocked
  ui,              \* where the main loop is
  reply,           \* last reply sent to the host
  wire             \* history: the accepted APDUs of the signing command

paths == <<hd_path, sign_path, hdpath_length>>
buffers == <<tx, template, parsed>>
settings == <<blind_signing, expert, pin_validated>>
vars == <<paths, stream, pending, payload_length, buffers, settings, ui, reply, wire>>

ASSUME DataAssumption == Data \subseteq Seq(Nat) /\ Pieces \subseteq Seq(Nat)
ASSUME SizesAssumption == PATH_WORDS \in Nat /\ FLASH_CAP \in Nat
ASSUME HashAssumption == HASH_LEN \in Nat \ {0}
ASSUME NilAssumption == Nil \notin SigningIns

-----------------------------------------------------------------------------
(* Replies and reviews: the Action a handler returns.                      *)

ZeroPath == [i \in 1 .. PATH_WORDS |-> 0]

Status(sw) == [sw |-> sw, sig |-> Nil]

\* Action::Reply: the main loop sends it and takes the next command.
Answer(sw) ==
  /\ ui' = "ready"
  /\ pending' = Nil
  /\ reply' = Status(sw)

\* The other actions put something on the screen and answer later.
Show(screen, what) ==
  /\ ui' = screen
  /\ pending' = what
  /\ reply' = Nil

\* What is known of a signing command from the APDUs accepted for it.
NoWire == [ins |-> {}, first |-> << >>, rest |-> << >>]
Opened(ins, data) == [ins |-> {ins}, first |-> data, rest |-> << >>]
Extended(ins, data) ==
  [wire EXCEPT !.ins = @ \cup {ins}, !.rest = @ \o data]

\* handle: every command starts by dropping what was pending.  The INS that
\* dispatch serves need an unlocked device.
Unlocked == ui = "ready" /\ pin_validated

-----------------------------------------------------------------------------
(* Derivation paths.                                                       *)

PrefixOk(path) == path[1] = HDPATH_0 /\ path[2] = HDPATH_1

\* extract_hd_path: the path of a modern command, if data is long enough.
PathOf(data) == SubSeq(data, 1, PATH_WORDS)

\* legacy_extract_hd_path(buf, offset, check_len): a count, then that many
\* components; a shorter path is padded with zeros.
LegacyCount(buf, offset) == buf[offset + 1]

LegacyFramed(buf, offset, check_len) ==
  /\ offset < Len(buf)
  /\ LegacyCount(buf, offset) \in 2 .. PATH_WORDS
  /\ offset + 1 + LegacyCount(buf, offset) <= Len(buf)
  /\ check_len => offset + 1 + LegacyCount(buf, offset) = Len(buf)

LegacyPathOf(buf, offset) ==
  [i \in 1 .. PATH_WORDS |->
     IF i <= LegacyCount(buf, offset) THEN buf[offset + 1 + i] ELSE 0]

\* The two failures of legacy_extract_hd_path: one before hd_path is written
\* and one, the prefix check, after.
LegacyMisframed(buf, offset, check_len) ==
  /\ ~LegacyFramed(buf, offset, check_len)
  /\ Answer(IF offset < Len(buf) /\ LegacyCount(buf, offset) \notin 2 .. PATH_WORDS
              THEN "DATA_INVALID" ELSE "WRONG_LENGTH")
  /\ UNCHANGED paths

LegacyBadPrefix(buf, offset, check_len) ==
  /\ LegacyFramed(buf, offset, check_len)
  /\ ~PrefixOk(LegacyPathOf(buf, offset))
  /\ Answer("DATA_INVALID")
  /\ hd_path' = LegacyPathOf(buf, offset)
  /\ UNCHANGED <<sign_path, hdpath_length>>

LegacyPathOk(buf, offset, check_len) ==
  /\ LegacyFramed(buf, offset, check_len)
  /\ PrefixOk(LegacyPathOf(buf, offset))
  /\ hd_path' = LegacyPathOf(buf, offset)
  /\ hdpath_length' = LegacyCount(buf, offset) + 1

-----------------------------------------------------------------------------
(* The transaction buffer (Platform::tx_append and friends, see TxBuffer). *)

Fits_OffByOne(buffer, data) == Len(buffer) + Len(data) <= FLASH_CAP + 1
Fits(buffer, data) == Len(buffer) + Len(data) <= FLASH_CAP

\* The template after the transaction became buffer.
Kept(buffer) == IF Len(buffer) <= TEMPLATE_AT THEN template ELSE Clobbered

-----------------------------------------------------------------------------
(* Parsing and signing.                                                    *)

\* The JSON that is parsed: the template built from a transfer, or the message.
JsonOf(ins, msg, path) ==
  IF TxType(ins) = "Transfer" THEN Build(msg, path) ELSE msg

\* No review items, or ones that a refusal left half made.
NotParsed == [type |-> "None", path |-> << >>, json |-> << >>]

\* tx_parse refuses these before it writes anything but the template.
RefusedEarly(ins, msg, path, key) ==
  \/ TxType(ins) = "Hash" /\ (~blind_signing \/ Len(msg) # HASH_LEN)
  \/ msg = << >>
  \/ TxType(ins) = "Transfer" /\ (~key \/ Build(msg, path) = Nil)

Outcome_NeverBlind(ins, msg, path, key) ==
  IF RefusedEarly(ins, msg, path, key) \/ ~key THEN "error"
  ELSE IF TxType(ins) # "Hash" /\ Verdict(JsonOf(ins, msg, path), path, expert) = "error"
    THEN "error" ELSE "clear"

\* What tx_parse over the bytes msg finds.  key says whether the OS derived the
\* public key, which every review but the plain hash one needs.  (A failing OS
\* blake2b ends like a Verdict of "error": after the template was stored.)
Outcome(ins, msg, path, key) ==
  CASE TxType(ins) = "Hash" /\ ~blind_signing -> "blind"
    [] TxType(ins) = "Hash" /\ blind_signing ->
         IF Len(msg) = HASH_LEN /\ (key \/ ~expert) THEN "blind" ELSE "error"
    [] TxType(ins) # "Hash" ->
         IF RefusedEarly(ins, msg, path, key) \/ ~key \/ JsonOf(ins, msg, path) = << >>
           THEN "error" ELSE Verdict(JsonOf(ins, msg, path), path, expert)

\* The review items after tx_parse.
ParsedAfter(ins, msg, path, key) ==
  IF RefusedEarly(ins, msg, path, key) THEN parsed
  ELSE IF Outcome(ins, msg, path, key) = "error" THEN NotParsed
  ELSE [type |-> TxType(ins), path |-> path, json |-> JsonOf(ins, msg, path)]

\* tx_parse stores the template as soon as it is built.
TemplateAfter(ins, buffer, msg, path, key) ==
  IF TxType(ins) = "Transfer" /\ ~RefusedEarly(ins, msg, path, key)
    THEN Build(msg, path) ELSE Kept(buffer)

\* A command is complete: tx_parse over the first len cells of buffer, then
\* the review, the blind-signing screen, or the refusal.  A refusal of legacy
\* JSON and of 0x10 carries no text and resets the buffer.
Complete(ins, buffer, len, path, key) ==
  LET msg == SubSeq(buffer, 1, len)
      outcome == Outcome(ins, msg, path, key)
  IN
  /\ stream' = Nil
  /\ template' = TemplateAfter(ins, buffer, msg, path, key)
  /\ parsed' = ParsedAfter(ins, msg, path, key)
  /\ \/ /\ outcome = "error"
        /\ Answer("DATA_INVALID")
        /\ tx' = IF ins \in {"LEGACY_SIGN_JSON", "LEGACY_TRANSFER"} THEN << >> ELSE buffer
     \/ /\ outcome = "blind" /\ ~blind_signing
        /\ Show("blind_required", Nil)
        /\ tx' = buffer
     \/ /\ outcome = "clear" \/ (outcome = "blind" /\ blind_signing)
        /\ Show("review", [ins |-> ins, len |-> len, blind |-> outcome = "blind"])
        /\ tx' = buffer

\* sign_done signs with the path of the signing command.
SigningPath_Current == hd_path
SigningPath == sign_path

\* The message a signing command signs, read when the user approves.
MessageToSign ==
  CASE TxType(pending.ins) = "Transfer" -> template
    [] pending.ins \in {"SIGN", "SIGN_HASH"} -> tx
    [] pending.ins \in LegacySigning ->
         SubSeq(tx, 1, IF pending.len <= Len(tx) THEN pending.len ELSE Len(tx))

\* crypto_sign: a hash is signed as it is, anything else as its blake2b-256.
Digest(type, msg) ==
  IF type = "Hash" THEN <<"raw", SubSeq(msg, 1, HASH_LEN)>> ELSE <<"blake2b", msg>>

Signable(type, msg) == msg # << >> /\ (type = "Hash" => Len(msg) >= HASH_LEN)

-----------------------------------------------------------------------------
(* Commands that are not part of a signing stream.                         *)

\* GET_DEVICE_INFO, the two GET_VERSIONs, and what handle refuses by CLA or INS.
Query(sw) ==
  /\ ui = "ready"
  /\ Answer(sw)
  /\ UNCHANGED <<paths, stream, payload_length, buffers, settings, wire>>

\* A locked device refuses every command that dispatch serves.
Locked ==
  /\ ui = "ready"
  /\ ~pin_validated
  /\ Answer("COMMAND_NOT_ALLOWED")
  /\ UNCHANGED <<paths, stream, payload_length, buffers, settings, wire>>

\* The reply to an address command, or its review.
Address(show, path, key) ==
  IF ~key THEN Answer("EXECUTION_ERROR")
  ELSE IF show THEN Show("address", [ins |-> "GET_ADDR", path |-> path])
  ELSE Answer("OK")

\* INS 0x21: closes a modern stream, whether or not data holds a path.
GetAddr(show, data, key) ==
  /\ Unlocked
  /\ stream' = IF stream \in Modern THEN Nil ELSE stream
  /\ \/ /\ Len(data) < PATH_WORDS
        /\ Answer("WRONG_LENGTH")
        /\ UNCHANGED hd_path
     \/ /\ Len(data) >= PATH_WORDS
        /\ hd_path' = PathOf(data)
        /\ IF PrefixOk(PathOf(data))
             THEN Address(show, PathOf(data), key) ELSE Answer("DATA_INVALID")
  /\ UNCHANGED <<sign_path, hdpath_length, payload_length, buffers, settings, wire>>

\* INS 0x01 and 0x02: leave any stream alone.
LegacyGetAddr(show, data, key) ==
  /\ Unlocked
  /\ \/ LegacyMisframed(data, 0, TRUE)
     \/ LegacyBadPrefix(data, 0, TRUE)
     \/ /\ LegacyPathOk(data, 0, TRUE)
        /\ Address(show, LegacyPathOf(data, 0), key)
        /\ UNCHANGED sign_path
  /\ UNCHANGED <<stream, payload_length, buffers, settings, wire>>

-----------------------------------------------------------------------------
(* Modern signing commands: sign_chunk for INS 0x22, 0x23, 0x24.           *)

\* P1 = 0: closes any stream, empties the buffer and takes the path.
SignInit(ins, data) ==
  /\ Unlocked
  /\ tx' = << >>
  /\ \/ /\ Len(data) < PATH_WORDS
        /\ Answer("WRONG_LENGTH")
        /\ stream' = Nil /\ wire' = NoWire
        /\ UNCHANGED <<hd_path, sign_path>>
     \/ /\ Len(data) >= PATH_WORDS
        /\ ~PrefixOk(PathOf(data))
        /\ Answer("DATA_INVALID")
        /\ hd_path' = PathOf(data)
        /\ stream' = Nil /\ wire' = NoWire
        /\ UNCHANGED sign_path
     \/ /\ Len(data) >= PATH_WORDS
        /\ PrefixOk(PathOf(data))
        /\ Answer("OK")
        /\ hd_path' = PathOf(data)
        /\ sign_path' = PathOf(data)
        /\ stream' = ins /\ wire' = Opened(ins, data)
  /\ UNCHANGED <<hdpath_length, payload_length, template, parsed, settings>>

\* continue_modern: a chunk belongs to an open stream of its own INS.
Continues_AnyModern(ins) == stream \in Modern
Continues(ins) == stream = ins

\* A chunk of any other stream closes the stream.
SignMismatch(ins) ==
  /\ Unlocked
  /\ ~Continues(ins)
  /\ Answer("TX_NOT_INITIALIZED")
  /\ stream' = Nil /\ wire' = NoWire
  /\ UNCHANGED <<paths, payload_length, buffers, settings>>

\* The append of P1 = 1 and of P1 = 2 that does not fit closes the stream.
SignFull(ins, data) ==
  /\ Unlocked
  /\ Continues(ins)
  /\ ~Fits(tx, data)
  /\ Answer("OUTPUT_BUFFER_TOO_SMALL")
  /\ stream' = Nil /\ wire' = NoWire
  /\ UNCHANGED <<paths, payload_length, buffers, settings>>

\* P1 = 1.
SignAdd(ins, data) ==
  /\ Unlocked
  /\ Continues(ins)
  /\ Fits(tx, data)
  /\ tx' = tx \o data
  /\ template' = Kept(tx \o data)
  /\ Answer("OK")
  /\ wire' = Extended(ins, data)
  /\ UNCHANGED <<paths, stream, payload_length, parsed, settings>>

SignLast_NotAppended(ins, data, key) ==
  /\ Unlocked
  /\ Continues(ins)
  /\ Fits(tx, data)
  /\ Complete(ins, tx, Len(tx), sign_path, key)
  /\ wire' = Extended(ins, data)
  /\ UNCHANGED <<paths, payload_length, settings>>

\* P1 = 2.
SignLast(ins, data, key) ==
  /\ Unlocked
  /\ Continues(ins)
  /\ Fits(tx, data)
  /\ Complete(ins, tx \o data, Len(tx \o data), sign_path, key)
  /\ wire' = Extended(ins, data)
  /\ UNCHANGED <<paths, payload_length, settings>>

\* Any other P1.
SignBadP1 ==
  /\ Unlocked
  /\ Answer("INVALID_P1P2")
  /\ UNCHANGED <<paths, stream, payload_length, buffers, settings, wire>>

-----------------------------------------------------------------------------
(* Legacy signing commands: legacy_sign for INS 0x03 and 0x04.             *)

\* legacy_first_chunk: while another stream is open, refuse and close it.
LegacyMismatch(ins) ==
  /\ Unlocked
  /\ stream \notin {Nil, ins}
  /\ Answer("TX_NOT_INITIALIZED")
  /\ stream' = Nil /\ wire' = NoWire
  /\ UNCHANGED <<paths, payload_length, buffers, settings>>

\* A first 0x03 chunk too short for the length word.
LegacyTooShort(ins, data) ==
  /\ Unlocked
  /\ ins = "LEGACY_SIGN_JSON"
  /\ stream = Nil
  /\ data = << >>
  /\ Answer("WRONG_LENGTH")
  /\ UNCHANGED <<paths, stream, payload_length, buffers, settings, wire>>

\* A chunk that is taken: with no stream open it is a first one.
FirstChunk == stream = Nil

DeclaredBy(ins, data) ==
  CASE ~FirstChunk -> payload_length
    [] FirstChunk /\ ins = "LEGACY_SIGN_JSON" -> data[1]
    [] FirstChunk /\ ins = "LEGACY_SIGN_HASH" -> HASH_LEN

\* tx_reset, before a first chunk.
BufferBefore == IF FirstChunk THEN << >> ELSE tx

PayloadOf(ins, data) ==
  IF FirstChunk /\ ins = "LEGACY_SIGN_JSON" THEN Tail(data) ELSE data

LegacyTakes(ins, data) ==
  /\ Unlocked
  /\ ins \in LegacySigning
  /\ stream \in {Nil, ins}
  /\ FirstChunk /\ ins = "LEGACY_SIGN_JSON" => data # << >>

LegacyWire(ins, data) == IF FirstChunk THEN Opened(ins, data) ELSE Extended(ins, data)

\* legacy_append fails: the buffer is reset and the stream closed.
LegacyFull(ins, data) ==
  /\ LegacyTakes(ins, data)
  /\ ~Fits(BufferBefore, PayloadOf(ins, data))
  /\ Answer("OUTPUT_BUFFER_TOO_SMALL")
  /\ payload_length' = DeclaredBy(ins, data)
  /\ tx' = << >>
  /\ stream' = Nil /\ wire' = NoWire
  /\ UNCHANGED <<paths, template, parsed, settings>>

\* legacy_check_end_of_chunk: the buffer is exactly the payload and a path.
EndOfChunk(buffer, pl) ==
  /\ pl < Len(buffer)
  /\ LegacyCount(buffer, pl) \in 2 .. PATH_WORDS
  /\ pl + LegacyCount(buffer, pl) + 1 = Len(buffer)

\* A short APDU ends the command; a full one only if nothing is missing.
IsLast(data, buffer, pl) ==
  Len(data) < LEGACY_CHUNK_SIZE \/ EndOfChunk(buffer, pl)

LegacyMore(ins, data) ==
  LET buffer == BufferBefore \o PayloadOf(ins, data)
      pl == DeclaredBy(ins, data)
  IN
  /\ LegacyTakes(ins, data)
  /\ Fits(BufferBefore, PayloadOf(ins, data))
  /\ ~IsLast(data, buffer, pl)
  /\ Answer("OK")
  /\ payload_length' = pl
  /\ tx' = buffer
  /\ template' = Kept(buffer)
  /\ stream' = ins /\ wire' = LegacyWire(ins, data)
  /\ UNCHANGED <<paths, parsed, settings>>

\* The last chunk: legacy_check_request takes the path from behind the
\* payload, then the payload is parsed.  A buffer shorter than declared is
\* reset; a bad path leaves it.  (The length check after the path extraction
\* repeats what check_len established, and never fails.)
LegacyLast(ins, data, key) ==
  LET buffer == BufferBefore \o PayloadOf(ins, data)
      pl == DeclaredBy(ins, data)
  IN
  /\ LegacyTakes(ins, data)
  /\ Fits(BufferBefore, PayloadOf(ins, data))
  /\ IsLast(data, buffer, pl)
  /\ payload_length' = pl
  /\ \/ /\ Len(buffer) < pl
        /\ Answer("DATA_INVALID")
        /\ tx' = << >>
        /\ template' = Kept(buffer)
        /\ stream' = Nil /\ wire' = NoWire
        /\ UNCHANGED <<paths, parsed>>
     \/ /\ Len(buffer) >= pl
        /\ \/ LegacyMisframed(buffer, pl, TRUE)
           \/ LegacyBadPrefix(buffer, pl, TRUE)
        /\ tx' = buffer
        /\ template' = Kept(buffer)
        /\ stream' = Nil /\ wire' = NoWire
        /\ UNCHANGED parsed
     \/ /\ Len(buffer) >= pl
        /\ LegacyPathOk(buffer, pl, TRUE)
        /\ sign_path' = LegacyPathOf(buffer, pl)
        /\ Complete(ins, buffer, pl, LegacyPathOf(buffer, pl), key)
        /\ wire' = LegacyWire(ins, data)
  /\ UNCHANGED settings

-----------------------------------------------------------------------------
(* INS 0x10: legacy_transfer.  How an APDU is cut into transfer items is   *)
(* LegacyTransfer's subject; here an APDU adds any of Pieces to the buffer *)
(* and the walk over its items ends in one of three ways.                  *)

TransferRefusal == {"DATA_INVALID", "WRONG_LENGTH", "OUTPUT_BUFFER_TOO_SMALL"}

\* legacy_initialize_transfer refuses the path of a first APDU.
TransferNoPath(ins, data) ==
  /\ Unlocked
  /\ ins = "LEGACY_TRANSFER"
  /\ FirstChunk
  /\ \/ LegacyMisframed(data, 0, FALSE)
     \/ LegacyBadPrefix(data, 0, FALSE)
  /\ UNCHANGED <<stream, payload_length, buffers, settings, wire>>

\* An APDU of a transfer: the first one carries the path, the others none.
TransferTakes(ins, data) ==
  /\ Unlocked
  /\ ins = "LEGACY_TRANSFER"
  /\ stream \in {Nil, ins}
  /\ IF FirstChunk
       THEN /\ LegacyPathOk(data, 0, FALSE)
            /\ sign_path' = LegacyPathOf(data, 0)
       ELSE UNCHANGED paths
  /\ UNCHANGED <<payload_length, settings>>

TransferWire(ins, data, piece) ==
  IF FirstChunk THEN [Opened(ins, data) EXCEPT !.rest = piece] ELSE Extended(ins, piece)

\* The walk ends in an error: any error closes the stream; one from
\* legacy_append has also reset the buffer.
TransferRefused(ins, data, piece, sw) ==
  /\ TransferTakes(ins, data)
  /\ Fits(BufferBefore, piece)
  /\ Answer(sw)
  /\ \/ tx' = BufferBefore \o piece
     \/ sw = "OUTPUT_BUFFER_TOO_SMALL" /\ tx' = << >>
  /\ template' = Kept(BufferBefore \o piece)
  /\ stream' = Nil /\ wire' = NoWire
  /\ UNCHANGED parsed

TransferMore(ins, data, piece) ==
  /\ TransferTakes(ins, data)
  /\ Fits(BufferBefore, piece)
  /\ Answer("OK")
  /\ tx' = BufferBefore \o piece
  /\ template' = Kept(BufferBefore \o piece)
  /\ stream' = ins /\ wire' = TransferWire(ins, data, piece)
  /\ UNCHANGED parsed

TransferLast(ins, data, piece, key) ==
  LET buffer == BufferBefore \o piece IN
  /\ TransferTakes(ins, data)
  /\ Fits(BufferBefore, piece)
  /\ Complete(ins, buffer, Len(buffer), sign_path', key)
  /\ wire' = TransferWire(ins, data, piece)

-----------------------------------------------------------------------------
(* After the user's decision: the second half of the main loop's body.     *)

\* address_done.
AddressDone(approved) ==
  /\ ui = "address"
  /\ Answer(IF approved THEN "OK" ELSE "COMMAND_NOT_ALLOWED")
  /\ UNCHANGED <<paths, stream, payload_length, buffers, settings, wire>>

\* sign_done.  key and signed are the OS's derivation and signature calls.
SignDone(approved, key, signed) ==
  LET type == TxType(pending.ins) IN
  /\ ui = "review"
  /\ ui' = "ready"
  /\ pending' = Nil
  /\ reply' =
       IF ~approved THEN Status("COMMAND_NOT_ALLOWED")
       ELSE IF pending.ins = "LEGACY_TRANSFER" /\ ~key THEN Status("EXECUTION_ERROR")
       ELSE IF ~Signable(type, MessageToSign) \/ ~signed THEN Status("SIGN_VERIFY_ERROR")
       ELSE [sw |-> "OK",
             sig |-> [path |-> SigningPath, digest |-> Digest(type, MessageToSign)]]
  /\ UNCHANGED <<paths, stream, payload_length, buffers, settings, wire>>

\* The blind-signing screen is closed; the refusal is sent only now.
BlindScreenDone ==
  /\ ui = "blind_required"
  /\ Answer("DATA_INVALID")
  /\ UNCHANGED <<paths, stream, payload_length, buffers, settings, wire>>

-----------------------------------------------------------------------------
(* The device around the app.                                              *)

\* The user flips a switch on the settings page, which the SDK runs only
\* while the main loop waits for a command.
Toggle ==
  /\ ui = "ready"
  /\ \/ blind_signing' = ~blind_signing /\ UNCHANGED expert
     \/ expert' = ~expert /\ UNCHANGED blind_signing
  /\ UNCHANGED <<paths, stream, pending, payload_length, buffers, pin_validated,
                 ui, reply, wire>>

\* The device locks and unlocks at any time.
LockOrUnlock ==
  /\ pin_validated' = ~pin_validated
  /\ UNCHANGED <<paths, stream, pending, payload_length, buffers, blind_signing,
                 expert, ui, reply, wire>>

\* sample_main: App::new, Device::new and the settings as first installed.
Init ==
  /\ hd_path = ZeroPath
  /\ sign_path = ZeroPath
  /\ hdpath_length = 0
  /\ stream = Nil
  /\ pending = Nil
  /\ payload_length = 0
  /\ parsed = NotParsed
  /\ tx = << >>
  /\ template = << >>
  /\ blind_signing = FALSE
  /\ expert = FALSE
  /\ pin_validated = TRUE
  /\ ui = "ready"
  /\ reply = Nil
  /\ wire = NoWire

\* The app is closed, or loses power, and starts again.  Only the settings are
\* kept in flash.
Restart ==
  /\ hd_path' = ZeroPath
  /\ sign_path' = ZeroPath
  /\ hdpath_length' = 0
  /\ stream' = Nil
  /\ pending' = Nil
  /\ payload_length' = 0
  /\ parsed' = NotParsed
  /\ tx' = << >>
  /\ template' = << >>
  /\ ui' = "ready"
  /\ reply' = Nil
  /\ wire' = NoWire
  /\ UNCHANGED settings

-----------------------------------------------------------------------------

\* One step, with the signing INS, data fields and 0x10 pieces to choose from.
Other(fields) ==
  \/ \E sw \in {"OK", "CLA_NOT_SUPPORTED", "INS_NOT_SUPPORTED"} : Query(sw)
  \/ Locked
  \/ \E show, key \in BOOLEAN, data \in fields :
       GetAddr(show, data, key) \/ LegacyGetAddr(show, data, key)

ModernChunk(commands, fields) ==
  \E ins \in commands \cap Modern, data \in fields :
    \/ SignInit(ins, data)
    \/ SignMismatch(ins)
    \/ SignFull(ins, data)
    \/ SignAdd(ins, data)
    \/ \E key \in BOOLEAN : SignLast(ins, data, key)
    \/ SignBadP1

LegacyChunk(commands, fields, pieces) ==
  \E ins \in commands \ Modern, data \in fields :
    \/ LegacyMismatch(ins)
    \/ LegacyTooShort(ins, data)
    \/ LegacyFull(ins, data)
    \/ LegacyMore(ins, data)
    \/ \E key \in BOOLEAN : LegacyLast(ins, data, key)
    \/ TransferNoPath(ins, data)
    \/ \E piece \in pieces :
         \/ TransferMore(ins, data, piece)
         \/ \E sw \in TransferRefusal : TransferRefused(ins, data, piece, sw)
         \/ \E key \in BOOLEAN : TransferLast(ins, data, piece, key)

Decision ==
  \/ \E approved \in BOOLEAN : AddressDone(approved)
  \/ \E approved, key, signed \in BOOLEAN : SignDone(approved, key, signed)
  \/ BlindScreenDone

Step(commands, fields, pieces) ==
  \/ Other(fields)
  \/ ModernChunk(commands, fields)
  \/ LegacyChunk(commands, fields, pieces)
  \/ Decision \/ Toggle \/ LockOrUnlock \/ Restart

Next == Step(Commands, Data, Pieces)

Spec == Init /\ [][Next]_vars

-----------------------------------------------------------------------------
(* What the host framed: the path and the message of the signing command,  *)
(* read off the accepted APDUs as docs/apdu.md lays them out.              *)

WirePayload(ins) ==
  CASE ins = "LEGACY_SIGN_JSON" -> Tail(wire.first) \o wire.rest
    [] ins = "LEGACY_SIGN_HASH" -> wire.first \o wire.rest
    [] OTHER -> wire.rest

WireDeclared(ins) ==
  CASE ins = "LEGACY_SIGN_JSON" -> wire.first[1]
    [] ins = "LEGACY_SIGN_HASH" -> HASH_LEN
    [] OTHER -> Len(wire.rest)

WirePath(ins) ==
  CASE ins \in Modern -> PathOf(wire.first)
    [] ins = "LEGACY_TRANSFER" -> LegacyPathOf(wire.first, 0)
    [] ins \in LegacySigning -> LegacyPathOf(WirePayload(ins), WireDeclared(ins))

WireMessage(ins) ==
  LET sent == SubSeq(WirePayload(ins), 1, WireDeclared(ins)) IN
  IF TxType(ins) = "Transfer" THEN Build(sent, WirePath(ins)) ELSE sent

-----------------------------------------------------------------------------

Statuses ==
  {"OK", "CLA_NOT_SUPPORTED", "INS_NOT_SUPPORTED", "COMMAND_NOT_ALLOWED",
   "EXECUTION_ERROR", "WRONG_LENGTH", "DATA_INVALID", "TX_NOT_INITIALIZED",
   "OUTPUT_BUFFER_TOO_SMALL", "INVALID_P1P2", "SIGN_VERIFY_ERROR"}

Screens == {"ready", "address", "review", "blind_required"}

\* The state machine's types: a transaction never outgrows the buffer, the
\* paths have PATH_WORDS components, and the screen says what is pending.
TypeOK ==
  /\ Len(tx) <= FLASH_CAP
  /\ Len(hd_path) = PATH_WORDS
  /\ Len(sign_path) = PATH_WORDS
  /\ stream \in SigningIns \cup {Nil}
  /\ blind_signing \in BOOLEAN
  /\ expert \in BOOLEAN
  /\ pin_validated \in BOOLEAN
  /\ ui \in Screens
  /\ ui = "review" => pending.ins \in SigningIns
  /\ ui = "address" => pending.ins = "GET_ADDR"
  /\ ui \in {"ready", "blind_required"} => pending = Nil
  /\ reply # Nil => reply.sw \in Statuses

\* Command streams (V5, V7, V8): the open stream is one command's.  Every APDU
\* accepted for it carried its INS, the buffer holds exactly their data, and
\* the path and length the command will be signed with are the ones it gave,
\* whatever other commands (0x02, 0x21, GET_VERSION...) came in between.
StreamIsOneCommand ==
  stream # Nil =>
    /\ wire.ins = {stream}
    /\ tx = WirePayload(stream)
    /\ stream \in LegacySigning => payload_length = WireDeclared(stream)
    /\ stream \notin LegacySigning => sign_path = WirePath(stream)

\* What is signed is what was parsed and shown: while a transaction review is
\* on the screen, the buffer the approval will sign is the one the review items
\* were made from, under the same path and type, and it can be signed.
ReviewIsOfWhatIsSigned ==
  ui = "review" =>
    /\ parsed.type = TxType(pending.ins)
    /\ parsed.path = SigningPath
    /\ parsed.json = MessageToSign
    /\ Signable(parsed.type, MessageToSign)

\* The signature the host gets is over the message it framed, under the path
\* it gave, in a command whose APDUs all carried the same INS.
SignatureIsOfTheCommand ==
  reply # Nil /\ reply.sig # Nil =>
    \E ins \in SigningIns :
      /\ wire.ins = {ins}
      /\ reply.sig.path = WirePath(ins)
      /\ reply.sig.digest = Digest(TxType(ins), WireMessage(ins))

\* Blind signing needs the setting: a hash, or a transaction whose review
\* cannot bound what is signed, is on the review screen only in the
\* blind-signing flow and only while the setting is on.
BlindReviewNeedsSetting ==
  ui = "review"
    /\ (parsed.type = "Hash" \/ Verdict(parsed.json, parsed.path, expert) = "blind")
  => blind_signing /\ pending.blind

\* app.rs:202-203 says of hd_path, the path that every path-carrying command
\* overwrites, that "signing uses its current value".
SigningUsesHdPath ==
  reply # Nil /\ reply.sig # Nil => reply.sig.path = hd_path
=============================================================================
