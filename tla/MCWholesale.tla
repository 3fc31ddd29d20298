------------------------------ MODULE MCWholesale ------------------------------
(* Instances of Wholesale: a physical and a digital product.                    *)
EXTENDS Wholesale, TLC

CONSTANTS o1, h1, h2, sack, ebook

NoPractices == {}

Symmetry == Permutations({h1, h2})
===============================================================================
