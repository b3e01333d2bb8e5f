------------------------------ MODULE Display -------------------------------
(***************************************************************************)
(* The screen text of a value (kadena-core/src/display.rs, V13): a byte    *)
(* outside printable ASCII becomes \xNN.  Bytes are the classes of Jsmn;   *)
(* the "hi" byte is 0xAA, so that its digits are bytes of a value too.     *)
(***************************************************************************)
EXTENDS Sequences, SequencesExt

Printable(c) == c \notin {"tab", "ctl", "hi"}

ShownByte_Dot(c) == IF Printable(c) THEN <<c>> ELSE <<"x">>

ShownByte(c) == IF Printable(c) THEN <<c>> ELSE <<"\\", "x", "A", "A">>

\* escape
Shown(bytes) == FlattenSeq([i \in DOMAIN bytes |-> ShownByte(bytes[i])])
=============================================================================
