----------------------------- MODULE MCTransfers -----------------------------
\* Small instances of Transfers for TLC.
EXTENDS Transfers, TLC

CONSTANTS t1, t2, online, shop, tee, mug, h1, h2

OneEach == [s \in Stores |-> [p \in SKUs |-> 1]]
Symmetry == Permutations(Transfers) \cup Permutations(Requests)
=============================================================================
