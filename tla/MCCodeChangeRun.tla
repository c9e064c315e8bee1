--------------------------- MODULE MCCodeChangeRun ---------------------------
(***************************************************************************)
(* CodeChangeRun for TLC.  Its constants are bounds only, so the .cfg files *)
(* give them; there is no set of values to define and no symmetry.         *)
(***************************************************************************)
EXTENDS CodeChangeRun
=============================================================================
