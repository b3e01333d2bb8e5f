------------------------------ MODULE TxBuffer ------------------------------
(***************************************************************************)
(* What the transaction buffer promises its caller (the tx_* and template  *)
(* methods of kadena_core::app::Platform): an append takes all of its data *)
(* or none of it, a read returns every byte appended since the last reset, *)
(* and a stored transfer template stays readable until the transaction     *)
(* grows past TemplateAt bytes.                                            *)
(***************************************************************************)
EXTENDS Naturals, Sequences

CONSTANTS
  Chunks,     \* the byte strings a caller may append
  Templates,  \* the byte strings a caller may store as a template
  Capacity,   \* most bytes a transaction may have
  TemplateAt  \* a transaction of at most this length leaves the template alone

VARIABLES
  tx,        \* the bytes appended since the last reset
  template,  \* the bytes of the structured-transfer template
  accepted   \* result of the last append

vars == <<tx, template, accepted>>

Fits(buffer, data) == Len(buffer) + Len(data) <= Capacity

Init ==
  /\ tx = << >>
  /\ template = << >>
  /\ accepted = TRUE

Reset ==
  /\ tx' = << >>
  /\ UNCHANGED <<template, accepted>>

Append_(data) ==
  /\ IF Fits(tx, data)
       THEN tx' = tx \o data /\ accepted' = TRUE
       ELSE tx' = tx /\ accepted' = FALSE
  /\ Len(tx') <= TemplateAt => template' = template

TemplateStore(data) ==
  /\ Len(tx) <= TemplateAt
  /\ template' = data
  /\ UNCHANGED <<tx, accepted>>

Next ==
  \/ Reset
  \/ \E data \in Chunks : Append_(data)
  \/ \E data \in Templates : TemplateStore(data)

Spec == Init /\ [][Next]_vars
=============================================================================
