---------------------------- MODULE MCNanoScreen ----------------------------
(***************************************************************************)
(* Every value of up to 5 characters, told apart by which are spaces, and  *)
(* titles of one to three words.                                           *)
(***************************************************************************)
EXTENDS NanoScreen

MCValues ==
  {[i \in 1 .. n |-> IF i \in spaces THEN SPACE ELSE i] :
     <<n, spaces>> \in (1 .. 5) \X SUBSET (1 .. 5)}

MCTitles == {<<-2, -3>>, <<-2, SPACE, -3>>, <<-2, SPACE, -3, SPACE, -4>>}

Newline == -1
=============================================================================
