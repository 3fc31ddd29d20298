------------------------------ MODULE MCPosSale ------------------------------
\* Small instances of PosSale for TLC.
EXTENDS PosSale, TLC

CONSTANTS s1, s2, tee, mug, h1, h2

Shelf2 == [p \in SKUs |-> 2]
Symmetry == Permutations(Sales) \cup Permutations(Requests) \cup Permutations(SKUs)
=============================================================================
