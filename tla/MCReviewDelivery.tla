-------------------------- MODULE MCReviewDelivery --------------------------
(* Model values for ReviewDelivery.                                        *)
EXTENDS ReviewDelivery, TLC

CONSTANTS d1, d2, d3

Symmetry == Permutations(Deliveries)
=============================================================================
