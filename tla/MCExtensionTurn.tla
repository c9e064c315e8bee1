-------------------------- MODULE MCExtensionTurn --------------------------
(* Model values for ExtensionTurn.                                         *)
EXTENDS ExtensionTurn, TLC

CONSTANTS s1, s2, t1, t2, t3, c1, c2, c3

Symmetry == Permutations(Sessions) \cup Permutations(Convs \ OldConvs)
=============================================================================
