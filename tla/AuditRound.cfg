SPECIFICATION FairSpec
CONSTANTS
    r1 = r1
    r2 = r2
    p1 = p1
    None = None
    Requirements = {r1, r2}
    Required = {r1}
    Checked = {r1}
    Problems = {p1}
    About <- AboutRequired
    Opinions <- SomeOpinions
    OpenQuestions = FALSE
    MaxIterations = 2
    MaxEvidenceRounds = 1
    MaxRepairs = 1
    MaxDecisions = 1
    MaxCrashes = 1
CHECK_DEADLOCK FALSE
INVARIANTS
  VerdictHolds
PROPERTIES
  ResolvedTogether
  AuditEnds
