------------------------------- MODULE MCRecovery -------------------------------
(* Instances of Recovery: two rows of one shopper, and a template that needs a *)
(* phone.                                                                      *)
EXTENDS Recovery, TLC

CONSTANTS r1, r2, h1, h2, sms

RowSymmetry == Permutations({r1, r2}) \cup Permutations({h1, h2})
=============================================================================
