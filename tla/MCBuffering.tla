---------------------------- MODULE MCBuffering -----------------------------
(***************************************************************************)
(* Buffering over two byte values, with every append of at most three    *)
(* bytes.  The sizes keep the order of the device's: the template is a     *)
(* tail of RAM, flash is less than twice RAM, and a chunk can fill, miss   *)
(* by one, or overflow each of the two.                                    *)
(***************************************************************************)
EXTENDS Buffering

MCByte == {0, 1}
BytesUpTo(n) == UNION {[1 .. k -> MCByte] : k \in 0 .. n}
MCChunks == BytesUpTo(3)
MCTemplates == BytesUpTo(2)
=============================================================================
