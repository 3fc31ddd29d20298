------------------------------ MODULE MCPayments ------------------------------
(***************************************************************************)
(* Small instances of Payments for TLC.                                    *)
(***************************************************************************)
EXTENDS Payments, TLC

CONSTANTS t1, t2, h1, h2

\* Two submissions that only together cover the price.
PartPayments == (t1 :> 1 @@ t2 :> 2)

NoPayments == [s \in {} |-> 1]

\* bKash calls back twice.
TwoCallbacks == {{"callback"}}

RequestSymmetry == Permutations(Requests)
=============================================================================
