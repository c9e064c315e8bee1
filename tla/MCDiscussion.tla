---------------------------- MODULE MCDiscussion ----------------------------
(* Two proposals, one of which leaves a decision open.                     *)
EXTENDS Discussion

CONSTANTS p, q

MCRefs == {p, q}
MCOpenRefs == {q}
=============================================================================
