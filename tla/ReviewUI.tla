------------------------------ MODULE ReviewUI ------------------------------
(***************************************************************************)
(* The transaction review (src/ui.rs: review_tx and batch).  The items are *)
(* streamed to the SDK in steps, so that only one step is in the 8 KiB     *)
(* heap: a step is filled item by item until it is full or the next item   *)
(* would exceed BATCH_BYTES, is shown, and the user goes on or rejects.    *)
(*                                                                         *)
(* An item is what a step needs to know of it: the number of screen fields *)
(* it takes and what they cost (title, value, FIELD_OVERHEAD each).        *)
(* Rendering needs the OS (the key of a signer item), so it may fail even  *)
(* though parser_validate has rendered every item once.                    *)
(*                                                                         *)
(* shown is a history variable: the items the user has paged through.      *)
(***************************************************************************)
EXTENDS Integers, Sequences

CONSTANTS
  Reviews,      \* the lists of items a review may have
  BATCH_BYTES,  \* 1200
  BATCH_ITEMS   \* 16

Item == [cost : Nat, fields : Nat \ {0}]

ASSUME ReviewsAssumption == Reviews \subseteq Seq(Item)
ASSUME BatchAssumption == BATCH_BYTES \in Nat /\ BATCH_ITEMS \in Nat \ {0}

VARIABLES
  items,    \* App::review_item(0 .. review_len)
  step,     \* where review_tx is
  next,     \* items in earlier steps
  used,     \* items in this step
  fields,   \* out.len(): screen fields in this step
  bytes,    \* their cost
  approved, \* what review_tx returned
  shown     \* history

vars == <<items, step, next, used, fields, bytes, approved, shown>>
frame == <<items, approved>>

-----------------------------------------------------------------------------

Return(result) ==
  /\ step' = "done"
  /\ approved' = result
  /\ UNCHANGED <<items, next, used, fields, bytes, shown>>

NextStep_SkipsOne(from) ==
  /\ step' = IF from < Len(items) THEN "fill" ELSE "finish"
  /\ next' = IF from = 0 \/ from = Len(items) THEN from ELSE from + 1
  /\ used' = 0
  /\ fields' = 0
  /\ bytes' = 0
  /\ UNCHANGED frame

\* The outer loop's head: a new step, or the final page.
NextStep(from) ==
  /\ step' = IF from < Len(items) THEN "fill" ELSE "finish"
  /\ next' = from
  /\ used' = 0
  /\ fields' = 0
  /\ bytes' = 0
  /\ UNCHANGED frame

\* review.start: the title page (after the blind-signing warning, if blind).
Start(accepts) ==
  /\ step = "start"
  /\ IF accepts THEN NextStep(0) /\ UNCHANGED shown ELSE Return(FALSE)

-----------------------------------------------------------------------------
(* batch.                                                                  *)

Candidate == items[next + used + 1]

Wanted == next + used < Len(items) /\ fields < BATCH_ITEMS

Room_NoEmptyCheck == bytes + Candidate.cost <= BATCH_BYTES
Room_FirstTwo == fields <= 1 \/ bytes + Candidate.cost <= BATCH_BYTES

\* A step takes its first item whatever it costs.
Room == fields = 0 \/ bytes + Candidate.cost <= BATCH_BYTES

RenderFails ==
  /\ step = "fill"
  /\ Wanted
  /\ Return(FALSE)

TakeItem_CountsFields ==
  /\ step = "fill"
  /\ Wanted
  /\ Room
  /\ used' = used + Candidate.fields
  /\ fields' = fields + Candidate.fields
  /\ bytes' = bytes + Candidate.cost
  /\ UNCHANGED <<frame, step, next, shown>>

TakeItem ==
  /\ step = "fill"
  /\ Wanted
  /\ Room
  /\ used' = used + 1
  /\ fields' = fields + Candidate.fields
  /\ bytes' = bytes + Candidate.cost
  /\ UNCHANGED <<frame, step, next, shown>>

CloseBatch ==
  /\ step = "fill"
  /\ ~(Wanted /\ Room)
  /\ step' = "show"
  /\ UNCHANGED <<frame, next, used, fields, bytes, shown>>

-----------------------------------------------------------------------------

\* review.continue_review: not skippable, the user pages through or rejects.
ContinueReview(accepts) ==
  /\ step = "show"
  /\ IF accepts
       THEN /\ NextStep(next + used)
            /\ shown' = shown \o [i \in 1 .. used |-> next + i]
       ELSE Return(FALSE)

\* review.finish.
Finish(accepts) ==
  /\ step = "finish"
  /\ Return(accepts)

Init ==
  /\ items \in Reviews
  /\ step = "start"
  /\ next = 0
  /\ used = 0
  /\ fields = 0
  /\ bytes = 0
  /\ approved = FALSE
  /\ shown = << >>

Fill == TakeItem \/ CloseBatch \/ RenderFails

Decision ==
  \E accepts \in BOOLEAN : Start(accepts) \/ ContinueReview(accepts) \/ Finish(accepts)

Next == Fill \/ Decision

Spec == Init /\ [][Next]_vars

\* The app runs while it fills a step, and the user answers every page.
FairSpec == Spec /\ WF_vars(Fill) /\ WF_vars(Decision)

-----------------------------------------------------------------------------

TypeOK ==
  /\ items \in Reviews
  /\ step \in {"start", "fill", "show", "finish", "done"}
  /\ next \in Nat /\ used \in Nat /\ next + used <= Len(items)
  /\ fields \in Nat /\ bytes \in Nat
  /\ approved \in BOOLEAN

Numbered(n) == [i \in 1 .. n |-> i]

\* F7: the user can sign only after every item of the review was on the screen,
\* once and in order, however the items fell into steps.
ApprovedSawEverything == approved => shown = Numbered(Len(items))

\* ui.rs:27-34: "a step holds this much, or one item alone", so that a large
\* transaction cannot exhaust the heap; and a step never has more than
\* BATCH_ITEMS items.
StepFitsHeap ==
  /\ bytes <= BATCH_BYTES \/ used = 1
  /\ used <= BATCH_ITEMS

\* A user who answers every page gets to the end of any review: no step is
\* empty, whatever the first item costs.
ReviewEnds == step = "start" ~> step = "done"
=============================================================================
