# A TLA+ model of the Kadena Ledger app

This directory models the Rust Kadena app for Ledger devices: the command
state machine, the framing of legacy transfers, the transaction buffer, the
JSON tokenizer and lookups, the transfer template, the review items and the
blind-signing decision, the texts of the values, principal accounts, the fee
arithmetic, and the transaction review with its layout on Nano screens. The
modules are checked with TLC on small instances, and theorems about them are
proved with TLAPS for all values of their constants.

## The system

The app is one thread. `sample_main` (src/main.rs) waits for an APDU, hands it
to `App::handle` (kadena-core/src/app.rs), and then either answers, or shows a
review (address or transaction) or the "blind signing required" screen and
answers when the user has decided. There are no threads and no callbacks: what
is hard is the **sequence of APDUs**, which the host chooses. Two families of
commands share one path variable, one stream, one buffer and one template, a
signing command takes many APDUs, and the message that is signed is read again
from the buffer after the review. Everything else that can happen between two
APDUs (settings, locking, closing the app, other commands) can happen between
two chunks of a signing command.

### Inventory

| Component | State | Operations | Interacts with |
|---|---|---|---|
| Dispatcher (`app.rs`, `main.rs`) | `hd_path`, `sign_path`, `stream`, `pending`, legacy statics, `parsed` | `handle`, per-INS handlers, `address_done`, `sign_done` | buffer and OS through the `Platform` trait; the main loop |
| Legacy transfer framing (`app.rs` 700-873) | `items`, `item_len`, `local_data`, `check_item_len` | `legacy_transfer_chunk` and its parts | buffer |
| Transaction buffer (`buffering.rs`, `platform.rs`, `storage.rs`) | positions, RAM array, flash array, `template_len` | `tx_reset`, `tx_append`, `tx`, `template_store`, `template` | called by the dispatcher |
| Review (`ui.rs`: `review_tx`, `batch`) | local | `start`, `continue_review`, `finish` of the SDK | review items of the dispatcher |
| Nano layout (`ui.rs`: `screen_fields`, `mod nano`) | local | `hard_wrap`, `pages`, `split_title` | NBGL's text measurement |
| Fee (`fee.rs`) | none | `parse`, `max_fee` | called by the review items |
| Tokenizer (`jsmn.rs`) | `pos`, `toknext`, `toksuper`, the token array, the grammar state | `parse_strict` | called by `read_json` |
| Lookups (`json.rs`) | none | `object_get_value`, `array_get_nth_element`, ..., `check_key_integrity` | tokens; called by the items |
| Parser (`parser.rs`) | tokens, items | `read_json`, `store_items`, `validate` | called by `tx_parse` |
| Review items (`items.rs`) | item list | `store_tx_items`, `render`, `needs_blind` | parser, fee, principal |
| Transfer template (`transfer.rs`) | none | `build` | called by `tx_parse` |
| Principal, display escaping, error texts | none | pure functions | items, UI |
| Settings (`settings.rs`) | two switches in flash | `init`, `get` | home screen of the SDK |

What makes each correct:

* dispatcher: the signature is over the message the host framed, under the path
  of that command, in one command of one INS, and it is what the user reviewed;
  blind signing only with the setting;
* transfer framing: no byte is lost, repeated or stale wherever the APDUs end;
* buffer: all-or-nothing appends, reads of exactly what was appended, and a
  template that does not overlap the transaction it was built from;
* review: every item on the screen before approval, within the heap, and it ends;
* Nano layout: nothing of a value or title is hidden; the layout loops end;
* fee: the exact product;
* tokenizer and lookups: what is accepted is one strict JSON object, the tokens
  are its parts, a lookup finds the member a node would find, and there is only
  one such member;
* transfer template: its fields are the payload's, none adds structure, the code
  is what the signature is scoped to, and the app's own review accepts it;
* items: the entry reviewed is the one the node applies, all of it is shown, and
  everything the review cannot bound is a blind-signing review;
* texts of values: whole or refused, never cut, and two values never look alike;
* principals: exactly Pact's forms, since any other receiver gets a warning.

`PROJECT.json` lists the hazards at their lines with the properties that cover
them.

## The modules

| Module | Models | State and actions |
|---|---|---|
| `TxBuffer` | the contract of `Platform::tx_*` and `template*` | a sequence of bytes and a template |
| `Buffering` | `buffering.rs` over the arrays of `platform.rs` and `storage.rs` | positions and arrays, stale bytes included; `AppendRam`, `AppendMove`, `AppendFlash` are the three ways through `append` |
| `KadenaApp` | `app.rs` and the main loop | the fields of `App` and of the platform; one action per way a command can end; `Step` is one step with given commands and data, `Next` the step with all of them |
| `LegacyTransfer` | `legacy_transfer_chunk` | the legacy statics; one action per loop iteration, and one per way into the loop |
| `ReviewUI` | `review_tx`, `batch` | the local variables of both, and where `review_tx` is |
| `NanoScreen` | `screen_fields` on Nano, `hard_wrap`, `split_title`, `pages` | the title's two parts, the layout being tried, the pages cut so far |
| `Jsmn` | `jsmn.rs` in strict mode | the parser's fields, and which loop it is in; one action per branch of the three loops |
| `Json` | `json.rs` | operators on a token array: the walks, the lookups, `check_key_integrity` |
| `Display` | `display.rs` | operators |
| `ReadJson` | `Parsed::read_json` | `Jsmn`, then the bytes after the root, then the keys |
| `JsonGrammar` | the reference for the four above, not code | every text of the grammar up to a length, with its tokens |
| `Transfer` | `transfer.rs` | operators: the reader, the field grammars, the template as a record of what is pasted where, its length in bytes |
| `TransferReview` | `tx_parse` of a transfer | `Transfer` composed with `Items`: `BuildTemplate`, then Items' own steps on the template |
| `TransferPayloads` | the host, not code | the payloads to check |
| `Principal` | `principal.rs` | operators: each matcher gives what is left of the text |
| `Render` | `ItemArray::render`, `render_unknown`, the writer `W` | the writer's position and the bytes accounted for; one action per argument (`RenderInit`, `RenderNext`) |
| `Fee` | `fee.rs` | operators, and the reference with integers |
| `Items` | `items.rs`, and `store_items` and `validate` of `parser.rs` | the item array with its inherited tokens; one action per item builder, one per kind of capability |
| `Buffering_proofs`, `KadenaApp_proofs`, `LegacyTransfer_proofs`, `NanoScreen_proofs` | | theorems about the module of that name |
| `ReadJson_proofs` | | theorems about `ReadJson` and, under it, `Jsmn`, `Json` and `Display` |
| `Review_proofs` | | theorems about `Items` and `TransferReview` |
| `ReviewUI_proofs` | | theorems about `ReviewUI` and `Render` |
| `Induction` | not code | induction over numbers and sequences, in a form the provers can use |

**KadenaApp and its parts.** `KadenaApp` uses the transaction buffer as
`TxBuffer` describes it, which `Buffering` is shown to implement. The INS 0x10
APDUs of `KadenaApp` add an arbitrary piece to the buffer and end in any of the
ways `LegacyTransfer` models byte for byte. `parsed` is what the review items
were made from; `ReviewUI` is what happens between `Show("review", ..)` and
`SignDone`. `Verdict` (parser and items on a JSON text: error, clear or blind)
and `Build` (the transfer template) are constant operators, so that every
result about `KadenaApp` holds for any parser. `ReadJson` is the first half of
`Verdict` and `Items` the second: `result` is its error or not, `NeedsBlind` its
clear or blind. `Transfer` is `Build`. `TransferReview` takes `read_json` of the
template to succeed: the constant text has at most 55 tokens (110 fit on Nano X)
and no field adds structure (`NoFieldAddsStructure`).

**Data.** In `KadenaApp` a cell is a byte or, where the code reads a 32-bit
word (path components, declared length), that word. In `LegacyTransfer` a cell
is a byte and bytes have `U8` values (256 in the code): `item_len` and `items`
wrap there. In `NanoScreen` a character is its position in the value, or a
space. In `Fee` digits have base `BASE`. In `Items` the command is a record of
the fields the lookups find, a value is a class (a principal, an escaped
string, a number too long to show, ...) and a token is the place of a value, so
that an item shows whether its title, its render and its token are a row of the
review: one of `CommandRows`, or one of a capability's (`RowsOf`). A refused
command's items are left as they are: `init` clears them before the next use
and nothing shows them. That the rendering of unverified arguments cannot fail,
on which `Items` relies, is `ArgumentsFit` of `Render`. In `Jsmn`, `Json` and
`Display` a byte is the class the tokenizer puts it in, and the document is
chosen byte by byte as the scan reaches it. In `Transfer` bytes are numbers and
the limits are the code's. In `Principal` a byte is a class of characters. In
`Render` a text is its length: what matters is whether a check counts all that
its renderer writes; a render that looks members up as it runs may not find them
(`LookupFails`).

**History variables.** `wire` (KadenaApp), `sent` (LegacyTransfer) and `shown`
(ReviewUI) record what the host sent and the user saw. No guard reads them.

## The runs

| Run | Checks | Shows |
|---|---|---|
| `buffering` | `TypeOK`, `OnePosition`, `ImplementsTxBuffer`, `FlashOnlyOnOverflow` | the buffer implements `TxBuffer`; flash is written only by a transaction longer than RAM |
| `app` | `TypeOK`, `StreamIsOneCommand`, `SignatureIsOfTheCommand`, `ReviewIsOfWhatIsSigned`, `BlindReviewNeedsSetting` | the signing state machine, for hosts that send 0x22 with 0x24, 0x03 with 0x04, or 0x23 with 0x10 |
| `legacy_transfer` | `TypeOK`, `TakenInOrder`, `CompleteIsWhatWasSent` | the framing of INS 0x10 |
| `review` | `TypeOK`, `ApprovedSawEverything`, `StepFitsHeap`, `ReviewEnds` | the streaming review |
| `nano_screen` | `NothingHidden`, `TitleIsWhole`, `NoTrailingSpace`, `LayoutEnds` | the Nano layout |
| `items` | `TypeOK`, `ReviewedEntryIsPacts`, `ClearReviewIsBounded`, `EveryCapabilityIsShown`, `ItemsShowTheirFields` | which entry is reviewed, that all of it is shown, every field under its own title and the rows of a capability together and in order, and that a clear review bounds the signature |
| `read_json` | `TokensAreTheDocument`, `NoDocumentIsRefused`, `LookupsFollowNesting`, `MembersAreUnambiguous`, `ShownTextIsTheValue` | the tokenizer accepts the documents of the grammar and no others, with their tokens; the flat lookups follow the nesting; no object has two readings; the screen text determines the value |
| `transfer` | `FieldsAreThePayload`, `TemplateFits`, `NoFieldAddsStructure`, `CodeIsTheScope`, `TransfersAreReviewedByKind`, `OnlyTheOSRefuses` | structured transfers from bytes to review |
| `values` | `ValuesAreWhole`, `ArgumentsFit`, `PrincipalsAreTheForms`, `FeeIsExact` | the texts of values, principal accounts, the fee; each behaviour is about one of the three |
| `app_hd_path` | `SigningUsesHdPath` (violated) | finding 1 |
| `legacy_transfer_doc` | `ShortApduCompletes` (violated) | finding 2 |
| `items_key_doc` | `KeyNotInTransferIsShown` (violated) | finding 3 |

### Bounds, and why they are enough

* `Buffering.cfg`: two byte values, RAM of 4, flash of 6, template of 2, appends
  of 0 to 3 bytes. An append can end before, at or past each capacity; flash is
  less than twice RAM, as on the device, so the move can be followed by a
  refusal. The theorems remove the bounds.
* `KadenaApp.cfg`: paths of 3 components instead of 5, hashes of 2 cells, a full
  legacy slice of 4, a buffer of 6 cells with the template at 3. The data sets
  hold good and bad paths of each family, clear and blind contents, wrong
  lengths, and fields that fill or overflow the buffer. Every field is offered
  to every command. A host sends one pair of signing commands, with all address,
  query, settings, lock and restart steps: two signing commands suffice to
  interleave, and the three pairs cover each handler and a pair across the
  families. The theorems hold for all commands at once.
* `LegacyTransfer.cfg`: slices of 4 bytes, bytes of 8 values, 2 items, a
  hold-back buffer of 3, capacity 13. Every APDU of up to 4 bytes that are 0 or
  3 (an empty item, or one as long as a slice), and some with other contents,
  with a length that wraps (7), and longer than a slice. An item may end before,
  at or after every slice end.
* `ReviewUI.cfg`: every review of up to 4 items of cost 1 to 4 with a budget of
  3, one or two fields each, at most 3 fields per step.
* `NanoScreen.cfg`: every pattern of spaces in up to 5 characters, titles with
  and without spaces, a window of 6 characters, 3 lines; every measurement. An
  empty value is left out: an empty text fits a page, which a measurement that
  may have any outcome does not know.
* `ReadJson.cfg`: three families of texts. `structure`: up to 17 bytes of
  brackets, colons, commas, strings of at most one byte (`x` or a brace) and
  one-byte primitives, 7 tokens (so that the array is full, and one too many):
  nested and empty containers, arrays of objects, duplicate and empty keys.
  `spaced`: the same up to 11 bytes with whitespace anywhere, 4 tokens. `text`:
  up to 13 bytes, one member, a string of up to 6 bytes over quote, backslash,
  `u`, a hex digit, another letter, a control and a non-ASCII byte: every
  escape, complete, cut short or wrong. Up to 3 bytes may follow the object.
* `Transfer.cfg`: the code's own limits and byte values. A plain transfer of
  each of the three types; those that differ from it in one field, which is
  empty, too long by one, as long as it may be, of 255 bytes, or made of
  characters at the edges of the field's grammar; every text of up to 5
  characters over a digit, a dot, an exponent and a sign in the number fields;
  pairs of a namespace and a module; amounts of 11 to 14 fractional digits; all
  fields at their limit. The plain and the token payloads are also cut at every
  byte and made one byte longer. The OS derives the key or fails.
* `Values.cfg`: the value buffer of 300 and every length of a value up to past
  it; up to five arguments of total lengths around the limit of 256, and counts
  up to 257, past the 8-bit counter. Accounts of up to 9 bytes over six classes
  with hashes of 1 and keys of 2, long enough for each form with a name of three
  parts. Fees in base 3, up to 4 digits (3 accepted), exponents -2 to 2 (1
  accepted), every text of up to 3 characters, a result of at most 5.
* `Items.cfg`: every list of up to three of 14 capabilities, which take each way
  through `store_all_transfers` (right and wrong argument counts, too many, too
  large, named and unnamed key, with and without namespace), and each malformed
  capability alone; every pair of 61 signer entries; every subset and every
  single deviation of `meta`; payloads, networks, types; expert mode on and off.
  An array of 20 slots (100 in the code) is filled by three capabilities, inside
  a capability, in `meta` and in the expert items. The number of capabilities
  that `validate_signers` counts in 8 bits stays far below 256, as it does on
  the device: 256 accepted capabilities take more tokens than the tokenizer has.

### Deadlock and fairness

`KadenaApp`, `LegacyTransfer` and `Buffering` never stop. `ReviewUI`,
`NanoScreen`, `Items`, `ReadJson`, `TransferReview` and `Render` model one call,
which returns: deadlock is not checked there. Two specifications assume fairness. `ReviewUI`: the app goes on filling
a step (it is the only thread), and the user answers every page (a user who
walks away leaves the review open for ever, as on the device). `NanoScreen`: the
loops run on. No fairness is assumed of the host.

## What is proved

TLAPS checks, for every value of the constants that satisfies the named
assumptions:

* **`Buffering_proofs`** (from `SizesAssumption`: the template area lies within
  RAM, RAM is no larger than flash, the longest transfer body ends below the
  template, as `platform.rs` asserts at compile time; and `DataAssumption`:
  data are byte strings). `TypeCorrect` (`TypeOK`): positions stay in their
  arrays; `PositionSafe` (`OnePosition`): only one is in use. The conjunction of
  the two is inductive as it stands. `Refinement` (`ImplementsTxBuffer`): each
  way through `append` and `template_store` maps to one abstract step; the
  lemmas say what a slice of an array is after a write at, behind or outside it.
  `FlashWear` (`FlashOnlyOnOverflow`).
* **`KadenaApp_proofs`** (from `DataAssumption`: data are sequences of numbers;
  `HashAssumption`: a hash has at least one byte; `NilAssumption`: `Nil` is not
  an INS; `SizesAssumption`: lengths are numbers). `AppSafe`
  (`SignatureIsOfTheCommand`), `StreamSafe` (`StreamIsOneCommand`),
  `ReviewedIsSigned` (`ReviewIsOfWhatIsSigned`), `BlindSafe`
  (`BlindReviewNeedsSetting`) and `AppTyped` (`TypeOK`) hold for every parser,
  template builder, path length, buffer size, template position and set of data
  fields, for all six signing commands. `SignatureIsOfTheCommand` is not
  inductive: when the user approves, it needs that the transaction on the screen
  is the one on the wire (`ReviewOfWire`); that is established when a command
  completes (`CompleteInv`), from `StreamIsOneCommand`, which says that the
  buffer, path and length collected so far are the accepted APDUs'. For a
  transfer the argument is that `tx_parse` stores the template before the review
  and nothing can write it while the review is open.
* **`LegacyTransfer_proofs`** (from `ApdusAssumption`: APDUs are byte strings;
  `SizesAssumption`: a path is shorter than a slice, the hold-back buffer's
  length is a byte; `WrapAssumption`: the buffer is full before the item counter
  wraps. Only the loop compares the counter with the twelve items, so past them
  an item is counted without the comparison only when a whole slice ends in it;
  in the code 242 such slices of 230 bytes are more than the 15104 bytes of the
  buffer).
  `FramingTyped` (`TypeOK`: the loop indexes inside the APDU), `FramingSafe`
  (`TakenInOrder`) and `CompleteSafe` (`CompleteIsWhatWasSent`). Inside the loop
  the invariant is `Taken`: the buffer followed by what the slice still holds is
  what was sent. For the twelve items it is `CInv`: what is taken so far divides
  into as many items as the counter says (`WholeItems`), the bytes held back
  begin with their item's length (`HeldItem`), and a counter past twelve has cost
  a slice for each item more (`Counted`), so that it never wraps.
* **`ReviewUI_proofs`** (from `ReviewsAssumption` and `BatchAssumption`: items
  are sequences of records of positive costs and fields, the budgets are
  numbers). `ReviewTyped` (`TypeOK`), `ReviewSafe` (`ApprovedSawEverything`) and
  `HeapSafe` (`StepFitsHeap`). The strengthening says that at every page the
  items shown are the first `next`, in order, and that a step has no more items
  than screen fields. The same module proves `Render` (from `ValuesAssumption`:
  an item has the values its render reads, of any length; `BufAssumption`: the
  value buffer has more than 294 bytes, 300 in the code). `ValuesSafe`
  (`ValuesAreWhole`): the writer, which cuts without a word, never cuts, because
  every check counts the pieces written. `ArgumentsSafe` (`ArgumentsFit`): for
  at most five arguments of at most 256 bytes of JSON, what `render_unknown`
  adds to each fits the buffer. In the loop the bytes written are the bytes
  accounted for and the sum of the arguments so far.
* **`Review_proofs`**, the items (from `MaxAssumption`: the array has a slot;
  `CommandsAssumption`: a command is `Listed`, its signers and an entry's
  capabilities are sequences). `ItemsTyped` (`TypeOK`): no item is
  written outside the array, and `num` stays below its size. `ItemsSafe` (`ReviewedEntryIsPacts`): `SignerDecided` carries the choice of
  the signer entry, made in the first step, to the end. `ClearReviewSafe`
  (`ClearReviewIsBounded`), `CapabilitiesShown` (`EveryCapabilityIsShown`) and
  `FieldsShown` (`ItemsShowTheirFields`) are about a finished review; the
  invariant `RInv` is about an unfinished one: which items the first steps have
  stored (`Beginning`), that every item stored is a text of the app, a row of the
  command, or a row of a capability whose earlier rows are right before it
  (`TitlesOk`), that the capabilities before `cap` are on the screen, each with
  its warning if it needs one (`CapsShown`), and that the fee is (`FeeShown`).
  One lemma per item builder says what it adds; `Kept` says that nothing stored
  is written again, so that what was shown stays shown.
* **`Review_proofs`**, structured transfers (of `TransferSpec`: any payload of
  bytes, any key or none; the limits are the code's). `FieldsSafe`
  (`FieldsAreThePayload`): the fields of a template are the ones framed in the
  payload and the payload is nothing else, by induction on the field that the
  reader is at. `TemplateSafe` (`TemplateFits`): the pieces and the longest
  fields come to 1191 bytes at most. `StructureSafe` (`NoFieldAddsStructure`):
  the scans `is_decimal` and `is_json_number` accept the numbers of the grammar
  only, and no accepted byte ends a string or a name. `ScopeSafe`
  (`CodeIsTheScope`). These four are read off `OutcomeIsOfThePayload`, which says
  that the outcome of the build, once there is one, is that of the payload and
  the key at hand; it is inductive.
  `KindSafe` (`TransfersAreReviewedByKind`) is about the composition, from the
  bytes to the accepted review: the module alone makes a transfer blind or
  clear. `IInv` and `RInv` above hold of the command of a template as of any
  that is `Listed`; `TemplateCommand` is what the review reads of it (one entry,
  the scope's capability and `coin.GAS`, arguments that name the key and a
  principal receiver, the six fields of `meta`); and `KindInv` says of the items
  stored so far that none belongs to the other kind of review (`Suits`), that
  nothing of a coin transfer is too long to show, since `CheckTxLengths` would
  make it a blind one, and that a token's warning and namespace are stored once
  the first capability is past. What else an accepted review shows is `RInv`'s.
* **`ReadJson_proofs`** (of any document, of any length and nesting; from
  `CharsAssumption`, `TokensAssumption` and `LenAssumption` of `Jsmn`: the bytes
  are of the tokenizer's classes, the token array has some size, a document is
  shorter than the value that marks an open end). `LookupsSafe` (`LookupsFollowNesting`),
  `MembersSafe` (`MembersAreUnambiguous`) and `ShownSafe`
  (`ShownTextIsTheValue`). The tokenizer does not look at what follows the
  top-level object, and its tokens are in order only until something other than
  whitespace is reached there; such a document is `Spoiled` and `read_json`
  refuses it. Until then the invariant says that token spans are `Laminar` (each
  lies in an earlier one or behind it), that inside every object keys and values
  alternate (`Paired`), and what the grammar state says of the container that is
  open (`Scope`); the walks of `json.rs`, which compare a start with the last
  end, are shown to follow from that, by induction on the token they have
  reached. For the display, `TextInv` says that every string token is made of
  plain bytes and whole escapes, so that what the screen shows is read back
  piece by piece (`ReadBack`).
* **`NanoScreen_proofs`** (from `NanoAssumption`: characters are numbers, those
  of a value at or above the space, those of a title at or below it, so that the
  two can be told apart; values and titles are not empty; a title neither begins
  nor ends in a space). `NothingHiddenSafe` (`NothingHidden`), `TitleSafe`
  (`TitleIsWhole`) and `TrailingSafe` (`NoTrailingSpace`) hold whatever NBGL
  measures. The invariant `NInv` follows the value from step to step: `Wrapping`
  (lines and rest are the value), `TextIsValue`, `TitleIsSplit` (title line and
  rest of the title are the title but for spaces), and `Paged`: the pages and
  what is left keep the text but for line breaks and one space a page, none
  behind the last one. For the last clause it must be known that no text ends in
  a line break (`EndsWell`): a page that ends in a space and a line break would
  hide the space and leave nothing. The lemmas on `Only` and `FlattenSeq`
  (what they are, of an empty sequence, an appended element, a concatenation)
  are proved by induction on the sequence.
* **`Induction`** states induction without a predicate as a parameter, as a fact
  about a set: a set of numbers that has 0 and the successor of each member has
  all of them (`Inductive`), a set of sequences that has the empty one and each
  member with one more element has all of them (`InductiveSeq`). They follow
  from the well-foundedness of `<`. What a recursive function computes is proved
  by showing first that a function with its equation exists, then by induction;
  the facts about such functions that several proofs use are kept there too.

### Only model-checked

* Liveness, `ReviewEnds` and `LayoutEnds`: fairness is out of the prover's
  reach.
* `TokensAreTheDocument` and `NoDocumentIsRefused` of `MCReadJson`: the
  reference grammar is recursive (`JsonGrammar` and `MCReadJson` are the only
  modules with recursive operators, and no theorem reaches them).
* `OnlyTheOSRefuses` of `TransferReview`: it is a statement about the code's
  array of 100 items and not about every size, since a small array fills up.
* `PrincipalsAreTheForms` and `FeeIsExact` of `MCValues`: they compare the
  matchers with sets of texts and the digits with products of integers, both
  enumerated up to a bound.

## Findings

1. **Comment out of date** (`app_hd_path`). app.rs:202-203 says of `hd_path`
   that "signing uses its current value". Since V7 it is `sign_path`, saved when
   the signing command gave its path; `SignatureIsOfTheCommand` shows that this
   is what keeps an address command between two chunks from changing the key.
2. **A well-formed transfer can be refused** (`legacy_transfer_doc`).
   docs/apdu.md:524-526 says that the host slices the 0x10 payload into 230
   bytes and that a shorter APDU completes the command. The code completes a
   transfer only after an item that starts in the APDU at hand; if the twelfth
   item was cut by the slice before, or starts exactly at its end, the short
   APDU is answered 0x6984 (app.rs:755-757).

3. **A warning another capability suppresses** (`items_key_doc`).
   docs/apdu.md:563-566 says that the review has an item "Key not in transfer"
   when no transfer names the key. `find_pubkey_in_clist` (items.rs:516) looks
   for the key in the arguments of every capability, as the C app did, so an
   unverified capability or a rotation that names the key counts as a transfer
   that does.

A remark without a run: display.rs:7-8 says that "A literal `\x` cannot occur in
a value: the tokenizer refuses that JSON escape". An escaped backslash followed
by an x does put these two bytes into a value. `ShownTextIsTheValue` shows that
the screen text of a string is unambiguous all the same, since the backslash
before it is part of an escape of its own.

## Not modelled, and what is left

Not modelled: the error texts and status words of `error.rs` (a table of
constants, without state or decision); the text of paths, addresses and titles,
and drawing; the home page and status screens, which the SDK runs; key
derivation, signatures and hashing (OS; a call succeeds or fails); NBGL (a
measurement has any value); the reads and writes of the SDK's settings storage;
the heap probe, which is not in the shipped app; and the test tooling.

What would come next: the compositions, each 0x10 APDU of `LegacyTransfer` as a
0x10 action of `KadenaApp`, and `ReadJson` and `Items` in the place of `Verdict`;
and a bound on the items of a template, with which `OnlyTheOSRefuses` could be
proved for every array that has room for them.
