--------------------------- MODULE MCSourceObjects --------------------------
EXTENDS SourceObjects, TLC

Symmetry == Permutations(Requests) \cup Permutations(Contents)
=============================================================================
