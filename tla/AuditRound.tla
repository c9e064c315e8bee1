------------------------------ MODULE AuditRound ------------------------------
(***************************************************************************)
(* The audit of a frozen candidate by JUDGE and CRITIC                     *)
(* (src/src/orchestration/audit-round.js), its deterministic verdict       *)
(* (src/src/domain/review-coordination.js and code-review.js) and the      *)
(* agreement on the next work order.                                       *)
(*                                                                         *)
(* How a prompt is delivered is ReviewDelivery's matter: here a question   *)
(* is asked, and answered, lost or held for another tab.  A step is what   *)
(* runs between two awaits, or between two saves of the record.            *)
(* Reports are what their control packet asserts; the aggregate of two     *)
(* reports is computed exactly.                                            *)
(***************************************************************************)
EXTENDS FiniteSets, Naturals

CONSTANTS
    Requirements,      \* requirements.items
    Required,          \* those with required = true
    Checked,           \* those whose SATISFIED needs the latest execution to pass
    Problems,          \* what a reviewer may object to (bound)
    About,             \* the requirement of each problem
    Opinions,          \* what a report may assert (bound)
    OpenQuestions,     \* requirements.unresolvedQuestions is not empty
    MaxIterations, MaxEvidenceRounds, MaxRepairs,   \* policy
    MaxDecisions,      \* answers of the user about one candidate (bound)
    MaxCrashes,        \* crashes of the controller (bound)
    None               \* null

Verdicts == {"SATISFIED", "UNSATISFIED", "UNDETERMINED"}
Stances == {"OPEN", "RESOLVED", "WITHDRAWN"}
Flags == {"OPTIONAL", "REQUIRED"}
Statuses == {"OPEN", "FIX_SUBMITTED", "RESOLVED", "WITHDRAWN"}
Roles == {"JUDGE", "CRITIC"}
Phases == {"ROUND0", "ROUND1"}
Kinds == {"REPORT", "INVALID", "EVIDENCE_REQUEST"}
Recoveries == {"READY", "REFUSED", "RESUMING", "CLOSED", "COMPLETED"}
\* where the job waits
Waits == {"begin", "next", "asked", "answered", "supplement", "verdict", "proposing", "judging", "working"}

ASSUME AuditAssumption ==
    /\ Required \subseteq Requirements /\ Checked \subseteq Requirements
    /\ About \in [Problems -> Requirements]
    /\ Opinions \subseteq [verdict : [Requirements -> Verdicts], stance : [Problems -> Stances],
                           flag : Flags]
    /\ OpenQuestions \in BOOLEAN
    /\ MaxIterations \in Nat \ {0} /\ MaxEvidenceRounds \in Nat /\ MaxRepairs \in Nat
    /\ MaxDecisions \in Nat /\ MaxCrashes \in Nat
    /\ None \notin Flags \cup Statuses \cup Roles \cup Phases \cup Kinds \cup Recoveries \cup Waits

MaxPlanRounds == 2

VARIABLES
    \* the run's record
    stage, reason,   \* stage and terminationReason
    iteration,       \* names the candidate: one per iteration
    evidence,        \* how much evidence the candidate has
    passed,          \* its latest verification execution succeeded
    evidenceRounds, decisions,
    findings,        \* status and required flag of every problem on record
    requests,        \* per role and phase: what its answers left on record
    turn,            \* reviewTurnId: role, phase and the acknowledged answer
    coordination,    \* the role and phase it names
    order,           \* the last agreed work order
    review,          \* reviews.at(-1)
    recovery,        \* reviewRecovery
    shown,           \* the roles whose conversation contains the peer's artifacts about the candidate
    \* the process
    job,             \* where the job is, and its repairs and plan round
    manifest,        \* the audit's AuditManifest
    crashes

vars == <<stage, reason, iteration, evidence, passed, evidenceRounds, decisions, findings, requests,
          turn, coordination, order, review, recovery, shown, job, manifest, crashes>>

NoFinding == [status |-> None, required |-> FALSE]
Known == {p \in Problems : findings[p] # NoFinding}
Unresolved(fs) == {p \in Problems : fs[p].status \in {"OPEN", "FIX_SUBMITTED"}}

\* what a report asserts: a verdict per requirement, its stance on every finding on record, and a
\* new finding where it finds a problem open that is not on record
Reports == {opinion \in Opinions : \A p \in Problems \ Known : opinion.stance[p] # "WITHDRAWN"}
NoReport == [verdict |-> None, stance |-> None, flag |-> None]

\* createAuditManifest: candidate, evidence, user decisions and the findings known before it
ManifestWith(amount) == [iteration |-> iteration, evidence |-> amount, decisions |-> decisions,
                         findings |-> [p \in Known |-> findings[p].required]]
Manifest == ManifestWith(evidence)

NoAnswer == [kind |-> None, for |-> {}, report |-> NoReport]
NoTurn == [role |-> None, phase |-> None, answer |-> NoAnswer]
NoRequest == [manifest |-> None, acknowledged |-> FALSE, report |-> NoReport]
NoRequests == [r \in Roles |-> [h \in Phases |-> NoRequest]]
Nowhere == [role |-> None, phase |-> None]
NoOrder == [iteration |-> 0, manifest |-> None, covers |-> {}]
NoReview == [decision |-> None, iteration |-> 0, manifest |-> None]
NoRecovery == [status |-> None, manifest |-> None, from |-> {}]
NoJob == [at |-> None, role |-> None, phase |-> None, repairs |-> 0, round |-> 0]

Init ==
    /\ stage = "REVIEW_RUNNING" /\ reason = None
    /\ iteration = 1 /\ evidence = 0 /\ passed \in BOOLEAN
    /\ evidenceRounds = 0 /\ decisions = 0
    /\ findings = [p \in Problems |-> NoFinding]
    /\ requests = NoRequests /\ turn = NoTurn /\ coordination = Nowhere
    /\ order = NoOrder /\ review = NoReview /\ recovery = NoRecovery
    /\ shown = {}
    /\ job = [NoJob EXCEPT !.at = "begin"] /\ manifest = None
    /\ crashes = 0

-----------------------------------------------------------------------------
(* The verdict: pure functions of two reports and the findings on record.  *)

\* verifyRequiredExecutions: SATISFIED must cite the latest execution, and it must have passed
ValidReport(report) == \A r \in Checked : report.verdict[r] = "SATISFIED" => passed

StrongestVerdict(verdicts) ==
    IF "UNSATISFIED" \in verdicts THEN "UNSATISFIED"
    ELSE IF "UNDETERMINED" \in verdicts THEN "UNDETERMINED" ELSE "SATISFIED"

ReportsDisagree(reports) == Cardinality(reports) > 1

\* a mutant: one reviewer's word resolves a finding
ResolvedByOne(reports, p) == \E report \in reports : report.stance[p] = "RESOLVED"
Resolved(reports, p) == \A report \in reports : report.stance[p] = "RESOLVED"

\* findings after aggregateReviewReports and evaluateCodeReview: an omitted or undecided one stays
\* open, the flag is the strictest of both and of the requirement
Findings(reports) ==
    [p \in Problems |->
        IF p \in Known
        THEN [status |-> IF Resolved(reports, p) THEN "RESOLVED" ELSE "OPEN",
              required |-> findings[p].required \/ About[p] \in Required]
        ELSE IF \A report \in reports : report.stance[p] # "OPEN" THEN NoFinding
        ELSE [status |-> "OPEN",
              required |-> About[p] \in Required \/ \E report \in reports :
                                report.stance[p] = "OPEN" /\ report.flag = "REQUIRED"]]

Aggregate(reports) == [r \in Requirements |-> StrongestVerdict({report.verdict[r] : report \in reports})]

EvaluateCodeReview(reports) ==
    LET verdicts == {Aggregate(reports)[r] : r \in Required}
        open == \E p \in Unresolved(Findings(reports)) : Findings(reports)[p].required
    IN IF "UNSATISFIED" \in verdicts \/ open THEN "REWORK"
       ELSE IF "UNDETERMINED" \in verdicts \/ OpenQuestions THEN "HOLD"
       ELSE "PASS"

\* the reports of the audit in progress, from its last phase
FinalReports(phase) == {requests[r][phase].report : r \in Roles}

-----------------------------------------------------------------------------
(* Ends of the job.                                                        *)

Holds(why) ==
    /\ stage' = "HOLD" /\ reason' = why
    /\ job' = NoJob /\ manifest' = None
    /\ coordination' = Nowhere
Fails ==
    /\ stage' = "RECOVERY_REQUIRED" /\ reason' = "EXECUTION_UNCERTAIN"
    /\ job' = NoJob /\ manifest' = None
    /\ UNCHANGED coordination
Goes(to) ==
    /\ job' = to
    /\ UNCHANGED <<stage, reason, manifest, coordination>>
AsksNext(role, phase) == [NoJob EXCEPT !.at = "next", !.role = role, !.phase = phase]

kept == <<iteration, crashes>>

-----------------------------------------------------------------------------
(* auditCandidate: Round 0, then a cross review when it is not unanimous.  *)

BeginAudit ==
    /\ job.at = "begin"
    /\ manifest' = Manifest
    /\ job' = AsksNext("JUDGE", "ROUND0")
    /\ UNCHANGED <<stage, reason, evidence, passed, evidenceRounds, decisions, findings, requests, turn,
                   coordination, order, review, recovery, shown, kept>>

\* the request is recorded before its prompt leaves; an answer of an older manifest is forgotten
Request(role, phase) ==
    requests' = [requests EXCEPT ![role][phase] =
                    IF @.manifest = manifest THEN @ ELSE [NoRequest EXCEPT !.manifest = manifest]]

Reused(role, phase) == recovery.status = "RESUMING" /\ <<role, phase>> \in recovery.from
Omitted(role, phase) ==
    /\ recovery.status = "RESUMING"
    /\ requests[role][phase].manifest = manifest /\ requests[role][phase].acknowledged

ReviewRole ==
    LET role == job.role  phase == job.phase IN
    /\ job.at = "next"
    /\ \/ recovery.status # "RESUMING"
       \/ recovery.manifest = manifest /\ ~Reused(role, phase) /\ ~Omitted(role, phase)
    /\ Request(role, phase)
    /\ turn' = [role |-> role, phase |-> phase, answer |-> NoAnswer]
    /\ coordination' = [role |-> role, phase |-> phase]
    /\ stage' = IF job.repairs > 0 THEN "REPORT_REPAIR" ELSE "REVIEW_RUNNING"
    /\ shown' = IF phase = "ROUND1" THEN shown \cup {role} ELSE shown
    /\ job' = [job EXCEPT !.at = "asked"]
    /\ UNCHANGED <<reason, evidence, passed, evidenceRounds, decisions, findings, order, review,
                   recovery, manifest, kept>>

\* an acknowledged answer that was not recovered, or another manifest: the run is refused
RefusesRecovered ==
    /\ job.at = "next" /\ recovery.status = "RESUMING"
    /\ recovery.manifest # manifest \/ (~Reused(job.role, job.phase) /\ Omitted(job.role, job.phase))
    /\ Fails
    /\ UNCHANGED <<evidence, passed, evidenceRounds, decisions, findings, requests, turn, order,
                   review, recovery, shown, kept>>

\* submitRoleTurn returns: the answer is stored and acknowledged
Answer(answer) ==
    /\ job.at = "asked"
    /\ turn' = [turn EXCEPT !.answer = answer]
    /\ requests' = [requests EXCEPT ![turn.role][turn.phase].acknowledged = TRUE]
    /\ job' = [job EXCEPT !.at = "answered"]
    /\ UNCHANGED <<stage, reason, evidence, passed, evidenceRounds, decisions, findings, coordination,
                   order, review, recovery, shown, manifest, kept>>

\* another tab is needed, or the outcome of the prompt is not known
Undelivered ==
    /\ job.at \in {"asked", "proposing", "judging"}
    /\ Holds("WEB_BINDING_REQUIRED") \/ Fails
    /\ UNCHANGED <<evidence, passed, evidenceRounds, decisions, findings, requests, turn, order,
                   review, recovery, shown, kept>>

\* a mutant: the repairs of a role are never used up
RepairsForever ==
    /\ job.at = "answered"
    /\ \/ turn.answer.kind = "INVALID"
       \/ turn.answer.kind = "REPORT" /\ ~ValidReport(turn.answer.report)
    /\ Goes([job EXCEPT !.at = "next"])
    /\ UNCHANGED <<evidence, passed, evidenceRounds, decisions, findings, requests, turn, order,
                   review, recovery, shown, kept>>

RepairReport ==
    /\ job.at = "answered"
    /\ \/ turn.answer.kind = "INVALID"
       \/ turn.answer.kind = "REPORT" /\ ~ValidReport(turn.answer.report)
    /\ IF job.repairs < MaxRepairs
       THEN Goes([job EXCEPT !.at = "next", !.repairs = @ + 1])
       ELSE Holds("REPORT_REPAIR_LIMIT")
    /\ UNCHANGED <<evidence, passed, evidenceRounds, decisions, findings, requests, turn, order,
                   review, recovery, shown, kept>>

\* persistProcessedReview, then the next role, the cross review or the verdict
AfterReport(reports) ==
    IF job.role = "JUDGE" THEN AsksNext("CRITIC", job.phase)
    ELSE IF /\ job.phase = "ROUND0"
            /\ \/ ReportsDisagree(reports)
               \/ \E r \in Requirements : Aggregate(reports)[r] # "SATISFIED"
    THEN AsksNext("JUDGE", "ROUND1")
    ELSE [NoJob EXCEPT !.at = "verdict", !.phase = job.phase]

AcceptReport ==
    LET reports == {turn.answer.report, requests["JUDGE"][job.phase].report} IN
    /\ job.at = "answered"
    /\ turn.answer.kind = "REPORT" /\ ValidReport(turn.answer.report)
    /\ requests' = [requests EXCEPT ![job.role][job.phase].report = turn.answer.report]
    /\ Goes(AfterReport(reports))
    /\ UNCHANGED <<evidence, passed, evidenceRounds, decisions, findings, turn, order,
                   review, recovery, shown, kept>>

RestoreReport ==
    /\ job.at = "next" /\ recovery.status = "RESUMING" /\ recovery.manifest = manifest
    /\ Reused(job.role, job.phase)
    /\ Goes(AfterReport(FinalReports(job.phase)))
    /\ UNCHANGED <<evidence, passed, evidenceRounds, decisions, findings, requests, turn, order,
                   review, recovery, shown, kept>>

\* a mutant: the rounds are counted by the call that asks, which a restart forgets
CountsPerCall == evidenceRounds' = evidenceRounds
CountsRound == evidenceRounds' = evidenceRounds + 1

SupplementBegins ==
    /\ job.at = "answered" /\ turn.answer.kind = "EVIDENCE_REQUEST"
    /\ IF evidenceRounds + 1 > MaxEvidenceRounds
       THEN Holds("EVIDENCE_LIMIT") /\ UNCHANGED evidenceRounds
       ELSE /\ CountsRound
            /\ stage' = "EVIDENCE_SUPPLEMENT"
            /\ job' = [job EXCEPT !.at = "supplement"]
            /\ UNCHANGED <<reason, manifest, coordination>>
    /\ UNCHANGED <<evidence, passed, decisions, findings, requests, turn, order,
                   review, recovery, shown, kept>>

\* a mutant: the audit goes on over evidence its manifest does not name
AsksAgain(amount) == [job EXCEPT !.at = "next"]
\* the role is asked again; new evidence starts the audit over
Resumes(amount) ==
    IF ManifestWith(amount) = manifest THEN [job EXCEPT !.at = "next"] ELSE [NoJob EXCEPT !.at = "begin"]

\* CODE and VERIFY add evidence, if they can be had; EVIDENCE quotes what is there
Supplement ==
    LET for == turn.answer.for IN
    /\ job.at = "supplement"
    /\ \/ /\ evidence' \in {evidence} \cup (IF for \cap {"CODE", "VERIFY"} # {} THEN {evidence + 1} ELSE {})
          /\ IF "VERIFY" \in for /\ evidence' # evidence THEN passed' \in BOOLEAN ELSE UNCHANGED passed
          /\ IF "QUESTION" \in for
             THEN Holds("USER_DECISION_REQUIRED")
             ELSE /\ job' = Resumes(evidence')
                  /\ coordination' = IF job'.at = "begin" THEN Nowhere ELSE coordination
                  /\ UNCHANGED <<stage, reason, manifest>>
       \/ /\ "VERIFY" \in for   \* the verification changed the candidate or cannot be ended
          /\ Fails /\ UNCHANGED <<evidence, passed>>
    /\ UNCHANGED <<evidenceRounds, decisions, findings, requests, turn, order,
                   review, recovery, shown, kept>>

-----------------------------------------------------------------------------
(* The verdict, and the plan of a rework.                                  *)

\* the result of the audit is saved at once
SaveVerdict(phase) ==
    LET reports == FinalReports(phase)  decision == EvaluateCodeReview(reports) IN
    /\ findings' = Findings(reports)
    /\ review' = [decision |-> decision, iteration |-> iteration, manifest |-> manifest]
    /\ stage' = CASE decision = "PASS" -> "AWAITING_APPLY"
                  [] decision = "HOLD" -> "HOLD"
                  [] OTHER -> IF iteration >= MaxIterations THEN "INCONCLUSIVE" ELSE "REWORK"
    /\ reason' = IF decision = "REWORK" /\ iteration >= MaxIterations THEN "ITERATION_LIMIT" ELSE None
    /\ recovery' = IF recovery.status = "RESUMING" THEN [NoRecovery EXCEPT !.status = "COMPLETED"] ELSE recovery
    /\ coordination' = Nowhere
    /\ job' = IF stage' = "REWORK" THEN [NoJob EXCEPT !.at = "working"] ELSE NoJob
    /\ manifest' = None

Conclude ==
    /\ job.at = "verdict"
    /\ IF EvaluateCodeReview(FinalReports(job.phase)) = "REWORK" /\ iteration < MaxIterations
       THEN /\ Goes([job EXCEPT !.at = "proposing", !.round = 1])
            /\ shown' = Roles
            /\ UNCHANGED <<findings, review, recovery>>
       ELSE SaveVerdict(job.phase) /\ UNCHANGED shown
    /\ UNCHANGED <<evidence, passed, evidenceRounds, decisions, requests, turn, order, kept>>

\* planPacket: a packet that does not match its plan is asked for again
RepairPlan ==
    /\ job.at \in {"proposing", "judging"}
    /\ IF job.repairs < MaxRepairs
       THEN Goes([job EXCEPT !.repairs = @ + 1])
       ELSE Holds("PLAN_REPAIR_LIMIT")
    /\ UNCHANGED <<evidence, passed, evidenceRounds, decisions, findings, requests, turn, order,
                   review, recovery, shown, kept>>

Propose ==
    /\ job.at = "proposing"
    /\ job' = [job EXCEPT !.at = "judging", !.repairs = 0]
    /\ coordination' = [role |-> "CRITIC", phase |-> "PLAN_REVIEW"]
    /\ UNCHANGED <<stage, reason, evidence, passed, evidenceRounds, decisions, findings, requests, turn,
                   order, review, recovery, shown, manifest, kept>>

\* a mutant: the plan is based on the findings on record
CoveredOnRecord == Unresolved(findings)
Covered == Unresolved(Findings(FinalReports(job.phase)))

AcceptPlan ==
    /\ job.at = "judging"
    /\ order' = [iteration |-> iteration, manifest |-> manifest, covers |-> Covered]
    /\ SaveVerdict(job.phase)
    /\ UNCHANGED <<evidence, passed, evidenceRounds, decisions, requests, turn, shown, kept>>

RejectPlan ==
    /\ job.at = "judging"
    /\ IF job.round < MaxPlanRounds
       THEN Goes([job EXCEPT !.at = "proposing", !.round = @ + 1, !.repairs = 0])
       ELSE Holds("PLAN_CONSENSUS_NOT_REACHED")
    /\ UNCHANGED <<evidence, passed, evidenceRounds, decisions, findings, requests, turn, order,
                   review, recovery, shown, kept>>

\* executeIterations with the agreed order: the worker answers every unresolved finding
NextCandidate ==
    /\ job.at = "working"
    /\ order.iteration = iteration
    /\ \/ /\ iteration' = iteration + 1
          /\ evidence' = 0 /\ passed' \in BOOLEAN /\ evidenceRounds' = 0 /\ decisions' = 0
          /\ findings' = [p \in Problems |->
                            IF p \in Unresolved(findings)
                            THEN [findings[p] EXCEPT !.status = "FIX_SUBMITTED"] ELSE findings[p]]
          /\ requests' = NoRequests /\ turn' = NoTurn /\ shown' = {}
          /\ stage' = "REVIEW_RUNNING" /\ job' = [NoJob EXCEPT !.at = "begin"]
          /\ UNCHANGED <<reason, manifest, coordination>>
       \/ /\ Fails
          /\ UNCHANGED <<iteration, evidence, passed, evidenceRounds, decisions, findings, requests,
                         turn, shown>>
    /\ order' = NoOrder /\ review' = NoReview   \* only those of the current candidate are read
    /\ UNCHANGED <<recovery, crashes>>

-----------------------------------------------------------------------------
(* code.review.retry and code.decision.reply; crashes.                     *)

CanResume ==
    /\ stage = "RECOVERY_REQUIRED" /\ recovery.status = "READY"
    /\ <<turn.role, turn.phase>> \in recovery.from
Retryable ==
    /\ stage = "HOLD"
    /\ reason \in {"REPORT_REPAIR_LIMIT", "WEB_BINDING_REQUIRED", "PLAN_REPAIR_LIMIT",
                   "PLAN_CONSENSUS_NOT_REACHED", "USER_DECISION_REQUIRED"}

Retry ==
    /\ job = NoJob
    /\ CanResume \/ Retryable
    /\ decisions' = decisions + (IF reason = "USER_DECISION_REQUIRED" /\ Retryable THEN 1 ELSE 0)
    /\ decisions' <= MaxDecisions
    /\ recovery' = IF recovery = NoRecovery THEN recovery
                   ELSE IF CanResume THEN [recovery EXCEPT !.status = "RESUMING"]
                   ELSE [NoRecovery EXCEPT !.status = "CLOSED"]
    /\ turn' = IF CanResume THEN turn ELSE NoTurn
    /\ stage' = "REVIEW_RUNNING" /\ reason' = None
    /\ job' = [NoJob EXCEPT !.at = "begin"]
    /\ UNCHANGED <<evidence, passed, evidenceRounds, findings, requests, coordination, order, review,
                   shown, manifest, kept>>

\* recoverAcknowledgedReviews: the answer of the last request is evaluated, nothing is sent
Recoverable(role, phase) ==
    /\ coordination = [role |-> role, phase |-> phase]
    /\ requests[role][phase].manifest = Manifest
    /\ turn.answer.kind = "REPORT" /\ ValidReport(turn.answer.report)

\* also refused as long as a delivery of unknown outcome owns the run (ReviewDelivery)
AnswerRecovered ==
    LET role == turn.role  phase == turn.phase IN
    \/ /\ turn.answer = NoAnswer
       /\ UNCHANGED <<recovery, requests>>
    \/ /\ turn.answer # NoAnswer /\ Recoverable(role, phase)
       /\ requests' = [requests EXCEPT ![role][phase].report = turn.answer.report]
       /\ recovery' = [status |-> "READY", manifest |-> Manifest,
                       from |-> {k \in Roles \X Phases : requests'[k[1]][k[2]].manifest = Manifest
                                                         /\ requests'[k[1]][k[2]].report # NoReport}]
    \/ /\ turn.answer # NoAnswer
       /\ recovery' = [NoRecovery EXCEPT !.status = "REFUSED"]
       /\ UNCHANGED requests

Crash ==
    /\ crashes < MaxCrashes
    /\ crashes' = crashes + 1
    /\ job' = NoJob /\ manifest' = None
    /\ IF stage \in {"HOLD", "AWAITING_APPLY", "INCONCLUSIVE"}
       THEN UNCHANGED <<stage, reason, recovery, requests>>
       ELSE /\ stage' = "RECOVERY_REQUIRED"
            /\ AnswerRecovered
            /\ UNCHANGED reason
    /\ UNCHANGED <<iteration, evidence, passed, evidenceRounds, decisions, findings, turn, coordination,
                   order, review, shown>>

ReviewerAnswers ==
    \/ \E report \in Reports : Answer([NoAnswer EXCEPT !.kind = "REPORT", !.report = report])
    \/ Answer([NoAnswer EXCEPT !.kind = "INVALID"])
    \/ \E for \in {{"EVIDENCE"}, {"CODE"}, {"VERIFY"}, {"QUESTION"}} :
            Answer([NoAnswer EXCEPT !.kind = "EVIDENCE_REQUEST", !.for = for])

Job == \/ BeginAudit \/ ReviewRole \/ RefusesRecovered \/ RestoreReport
       \/ ReviewerAnswers \/ Undelivered \/ RepairReport \/ AcceptReport
       \/ SupplementBegins \/ Supplement \/ Conclude
       \/ RepairPlan \/ Propose \/ AcceptPlan \/ RejectPlan \/ NextCandidate

Next == Job \/ Retry \/ Crash

Spec == Init /\ [][Next]_vars

\* the job's own code is never starved, and every question is answered or given up at its timeout
FairSpec == Spec /\ WF_vars(Job)

-----------------------------------------------------------------------------
(* Properties.                                                             *)

Stages == {"REVIEW_RUNNING", "REPORT_REPAIR", "EVIDENCE_SUPPLEMENT", "REWORK", "HOLD", "AWAITING_APPLY",
           "INCONCLUSIVE", "RECOVERY_REQUIRED"}
Reasons == {"REPORT_REPAIR_LIMIT", "WEB_BINDING_REQUIRED", "EVIDENCE_LIMIT", "USER_DECISION_REQUIRED",
            "ITERATION_LIMIT", "EXECUTION_UNCERTAIN", "PLAN_REPAIR_LIMIT", "PLAN_CONSENSUS_NOT_REACHED"}
Manifests == [iteration : 1 .. MaxIterations, evidence : Nat, decisions : 0 .. MaxDecisions,
              findings : UNION {[known -> BOOLEAN] : known \in SUBSET Problems}]
Manifested == Manifests \cup {None}
Reported == Opinions \cup {NoReport}
RequestTypes == [manifest : Manifested, acknowledged : BOOLEAN, report : Reported]
Wanted == {"EVIDENCE", "CODE", "VERIFY", "QUESTION"}
AnswerTypes == [kind : Kinds \cup {None}, for : SUBSET Wanted, report : Reported]
TurnTypes == [role : Roles \cup {None}, phase : Phases \cup {None}, answer : AnswerTypes]
JobTypes == [at : Waits \cup {None}, role : Roles \cup {None}, phase : Phases \cup {None},
             repairs : 0 .. MaxRepairs, round : 0 .. MaxPlanRounds]

TypeOK ==
    /\ stage \in Stages /\ reason \in Reasons \cup {None}
    /\ iteration \in 1 .. MaxIterations /\ evidence \in Nat /\ passed \in BOOLEAN
    /\ evidenceRounds \in 0 .. MaxEvidenceRounds /\ decisions \in 0 .. MaxDecisions
    /\ findings \in [Problems -> [status : {None} \cup Statuses, required : BOOLEAN]]
    /\ requests \in [Roles -> [Phases -> RequestTypes]] /\ turn \in TurnTypes
    /\ coordination \in [role : Roles \cup {None}, phase : Phases \cup {None, "PLAN_REVIEW"}]
    /\ order \in [iteration : 0 .. MaxIterations, manifest : Manifested, covers : SUBSET Problems]
    /\ review \in [decision : {None, "PASS", "HOLD", "REWORK"}, iteration : 0 .. MaxIterations,
                   manifest : Manifested]
    /\ recovery \in [status : Recoveries \cup {None},
                     manifest : Manifested, from : SUBSET (Roles \X Phases)]
    /\ shown \subseteq Roles
    /\ job \in JobTypes /\ manifest \in Manifested
    /\ crashes \in 0 .. MaxCrashes

Approves(role, phase) ==
    LET request == requests[role][phase] IN
    /\ request.manifest = review.manifest
    /\ \A r \in Required : request.report.verdict[r] = "SATISFIED"
    /\ \A p \in Problems : findings[p].required => request.report.stance[p] = "RESOLVED"

\* A candidate is offered for application only if both reviewers, in the same round and over the
\* evidence and decisions the run still has, found every required requirement satisfied and every
\* required finding resolved, and the latest execution of its checks passed: through evidence that
\* restarts the audit, repairs, retries, rework, crashes and recovered answers.
AcceptedByBoth == stage = "AWAITING_APPLY" =>
    /\ \E phase \in Phases : \A role \in Roles : Approves(role, phase)
    /\ review.manifest.iteration = iteration
    /\ review.manifest.evidence = evidence /\ review.manifest.decisions = decisions
    /\ \A p \in Unresolved(findings) : ~findings[p].required
    /\ Checked \cap Required # {} => passed

\* The evidence of a candidate grows at most by the rounds the policy allows, however often new
\* evidence restarts the audit, the audit is retried or the controller restarts.
EvidenceIsBounded == evidence <= MaxEvidenceRounds

\* The worker starts over only with an order the critic accepted for this candidate and audit, and
\* that order covers exactly the findings the audit then left unresolved.
WorkOrderCoversFindings == stage = "REWORK" =>
    /\ order.iteration = iteration
    /\ order.manifest = review.manifest
    /\ order.covers = Unresolved(findings)

\* A verdict, to apply or to rework, rests on reports about what the run still holds, and
\* comes within the bounds that a restarted audit must not reset.
VerdictHolds == TypeOK /\ EvidenceIsBounded /\ AcceptedByBoth /\ WorkOrderCoversFindings

\* A finding on record never disappears, never becomes optional, and is resolved only by both
\* reviewers in one round over the same manifest, whatever is restored after a crash.
ResolvedTogether == [][\A p \in Known :
    /\ findings'[p] # NoFinding
    /\ findings[p].required => findings'[p].required
    /\ findings[p].status # "RESOLVED" /\ findings'[p].status = "RESOLVED" =>
        \E phase \in Phases : \A role \in Roles :
            /\ requests[role][phase].manifest = manifest
            /\ requests[role][phase].report.stance[p] = "RESOLVED"]_vars

\* Every audit ends: repairs, evidence rounds, cross review, plan rounds and iterations are bounded
\* together, given that each question is answered or given up (the turn's own timeout).
AuditEnds == (job # NoJob) ~> (job = NoJob)

=============================================================================
