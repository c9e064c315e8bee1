----------------------------- MODULE MCAuditRound -----------------------------
(* Model values for AuditRound: one required and checked requirement, one     *)
(* optional requirement, and a problem of the required one that a reviewer    *)
(* may call optional.                                                         *)
EXTENDS AuditRound, TLC

CONSTANTS r1, r2, p1

AboutRequired == p1 :> r1
Opinion(verdict1, verdict2, stance) ==
    [verdict |-> r1 :> verdict1 @@ r2 :> verdict2, stance |-> p1 :> stance, flag |-> "OPTIONAL"]
SomeOpinions == {Opinion("SATISFIED", "SATISFIED", "RESOLVED"),
                 Opinion("SATISFIED", "UNSATISFIED", "OPEN"),
                 Opinion("UNSATISFIED", "SATISFIED", "WITHDRAWN"),
                 Opinion("UNDETERMINED", "SATISFIED", "RESOLVED")}
=============================================================================
