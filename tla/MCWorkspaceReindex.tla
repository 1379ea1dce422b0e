------------------------- MODULE MCWorkspaceReindex -------------------------
(* One contract for every process, or an old worker that is still running. *)
EXTENDS WorkspaceReindex, TLC

CONSTANTS d1, d2, w1, w2, old, new

AllNew == w1 :> new @@ w2 :> new

OneOld == w1 :> old @@ w2 :> new

Symmetry == Permutations(Docs)
=============================================================================
