-------------------------- MODULE MCLegacyTransfer --------------------------
(***************************************************************************)
(* Every APDU of up to 4 cells that are a 0 or a 3, for slices of 4 after  *)
(* a path of one cell: an item is empty, or fills a slice.  The others     *)
(* have items of U8 - 1 bytes, whose length wraps, contents unlike any     *)
(* length, and more cells than a slice.                                    *)
(***************************************************************************)
EXTENDS LegacyTransfer

Slices == UNION {[1 .. n -> {0, 3}] : n \in 0 .. 4}

MCApdus ==
  Slices \cup {<<0, 0, 0, 7>>, <<3, 7, 3, 5>>, <<7, 6, 0, 7>>, <<6, 5, 1, 5>>,
               <<5, 6, 0>>, <<3, 0, 0, 0, 7>>, <<3, 7, 0, 7, 3>>}
=============================================================================
