----------------------------- MODULE MCPayments -----------------------------
(* The attempts of the customer are interchangeable.                       *)
EXTENDS Payments, TLC

Symmetry == Permutations(Attempts)
=============================================================================
