----------------------------- MODULE MCReviewUI -----------------------------
(***************************************************************************)
(* Every review of up to 4 items that cost less than, as much as, or more  *)
(* than a step's budget of 3, in one or two screen fields.                 *)
(***************************************************************************)
EXTENDS ReviewUI

MCReviews == UNION {[1 .. n -> [cost : 1 .. 4, fields : 1 .. 2]] : n \in 0 .. 4}
=============================================================================
