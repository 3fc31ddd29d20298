------------------------------- MODULE MCCoupons -------------------------------
(***************************************************************************)
(* Small instances of Coupons for TLC: a customer who orders with and      *)
(* without logging in, and a walk-in who leaves no number at the till.     *)
(***************************************************************************)
EXTENDS Coupons, TLC

CONSTANTS c1, c2, c3, c4, ann, tel1, tel2, h1, h2

\* c1 is ann's, c2 the same phone as a guest, c3 ann from another phone,
\* c4 an unknown walk-in.
MCAccountOf == (c1 :> ann @@ c2 :> Unknown @@ c3 :> ann @@ c4 :> Unknown)
MCPhoneOf == (c1 :> tel1 @@ c2 :> tel1 @@ c3 :> tel2 @@ c4 :> Unknown)

\* Restore requests differ only in their names.
StaffSymmetry == Permutations(Staff)
=============================================================================
