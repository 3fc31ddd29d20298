------------------------------- MODULE MCCourier -------------------------------
(* Instances of Courier: one order owing 2, of which a partial delivery brings  *)
(* in 1, and up to two parcels.                                                 *)
EXTENDS Courier

\* Reports come in order, and a parcel follows the reported return of the last.
InOrder == {}
=============================================================================
