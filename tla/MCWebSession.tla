---------------------------- MODULE MCWebSession ----------------------------
(* Model values and the bound of WebSession's run.                         *)
EXTENDS WebSession, TLC, Naturals

CONSTANTS chatgpt, claude, s1, s2, t1, t2, t3, c1, c2, c3

\* Either the second connection or the second turn, and at most two answers owed.
Bounded == /\ unused # {} \/ \E t \in Turns : owner[t] = None
           /\ Cardinality(owed) <= 2
=============================================================================
