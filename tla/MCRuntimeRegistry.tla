-------------------------- MODULE MCRuntimeRegistry -------------------------
(* Two calls for one key in a registry that is closed, and a call for a    *)
(* second key in another thread.                                           *)
EXTENDS RuntimeRegistry, TLC

CONSTANTS r1, r2, a1, a2, b1, q1, k1, k2

CallsOn == [c \in {a1, a2, q1} |-> r1] @@ b1 :> r2

CallsFor == a1 :> k1 @@ a2 :> k1 @@ b1 :> k2
=============================================================================
