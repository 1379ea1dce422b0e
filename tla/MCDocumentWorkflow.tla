------------------------- MODULE MCDocumentWorkflow -------------------------
(* One document, whose revisions may have any of the texts; c1 is source   *)
(* code and c2 is not.                                                     *)
EXTENDS DocumentWorkflow, TLC

CONSTANTS d1, c1, c2

AllTexts == d1 :> {c1, c2}

Symmetry == Permutations(Workers)
=============================================================================
