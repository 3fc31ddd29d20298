----------------------------- MODULE MCOrderStock -----------------------------
(***************************************************************************)
(* Small instances of OrderStock for TLC.                                  *)
(***************************************************************************)
EXTENDS OrderStock, TLC

CONSTANTS o1, o2, l1, l2, l3, tee, mug, ebook, h1

\* One slot for each of three SKUs.
ThreeSkus == (l1 :> tee @@ l2 :> mug @@ l3 :> ebook)
\* Every slot sells the same SKU.
OneSku == [l \in Lines |-> tee]
Shelf2 == [p \in SKUs |-> 2]
Shelf1 == [p \in SKUs |-> 1]

\* Orders differ only in their names.
OrderSymmetry == Permutations(Orders)
=============================================================================
