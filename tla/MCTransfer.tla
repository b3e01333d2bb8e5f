----------------------------- MODULE MCTransfer -----------------------------
(***************************************************************************)
(* Structured transfers from the host's fields to the review: those of     *)
(* TransferPayloads, every beginning of the plain one and of the tokens',  *)
(* and the same with a byte too many.                                      *)
(***************************************************************************)
EXTENDS TransferReview, TransferPayloads

Whole(s) == Payload(s.type, s.f)

Beginnings(s) == {SubSeq(Whole(s), 1, n) : n \in 0 .. Len(Whole(s)) - 1}

Cut == {s \in Sent : s.f \in {Plain} \cup Tokens}

Payloads ==
  {Whole(s) : s \in Sent} \cup {Whole(s) \o <<0>> : s \in Cut} \cup UNION {Beginnings(s) : s \in Cut}

MCInit == payload \in Payloads /\ device \in {Key, <<>>} /\ TransferInit

MCSpec == MCInit /\ [][TransferNext]_<<vars, transferVars>>
=============================================================================
