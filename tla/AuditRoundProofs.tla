-------------------------- MODULE AuditRoundProofs --------------------------
(***************************************************************************)
(* Proofs about AuditRound, for any requirements, problems, opinions and   *)
(* policy, and any number of decisions and crashes.                        *)
(***************************************************************************)
EXTENDS AuditRound, TLAPS

Asking == {"next", "asked", "answered", "supplement"}
Deciding == {"verdict", "proposing", "judging"}

\* The evidence is paid for by the rounds that were counted
Supplied == evidence <= evidenceRounds /\ (job.at = "supplement" => evidence < evidenceRounds)

\* An audit goes on only as long as its manifest is what the run holds
OnManifest == job.at \in Asking \cup Deciding => manifest = Manifest

\* The role and phase of the job are those of the question that is out
Placed ==
    /\ job.at \in Asking => job.role \in Roles
    /\ job.at \in Asking \cup Deciding => job.phase \in Phases
    /\ job.at \in {"asked", "answered", "supplement"} => turn.role = job.role /\ turn.phase = job.phase
    /\ turn.answer # NoAnswer => turn.role \in Roles /\ turn.phase \in Phases
    /\ turn.answer.kind = "REPORT" => turn.answer.report \in Opinions

\* The reports collected so far are about the manifest of the audit
Has(role, phase) == requests[role][phase].manifest = manifest /\ requests[role][phase].report \in Opinions
Collected ==
    /\ job.at \in {"asked", "answered", "supplement"} => requests[job.role][job.phase].manifest = manifest
    /\ job.at \in Asking /\ job.role = "CRITIC" => Has("JUDGE", job.phase)
    /\ job.at \in Deciding => \A role \in Roles : Has(role, job.phase)

\* A report on record cites the executions of the evidence it is about
Valid ==
    \A role \in Roles, phase \in Phases :
        requests[role][phase].report \in Opinions =>
            /\ requests[role][phase].manifest \in Manifests
            /\ requests[role][phase].manifest.evidence <= evidence
            /\ requests[role][phase].manifest.evidence = evidence => ValidReport(requests[role][phase].report)

\* What may be restored is on record, for the manifest that was recovered
Restorable ==
    /\ recovery.status \in {"READY", "RESUMING"} =>
         \A k \in recovery.from :
            requests[k[1]][k[2]].manifest = recovery.manifest /\ requests[k[1]][k[2]].report \in Opinions
    /\ recovery.status = "READY" => job.at = None
    /\ recovery.status = "RESUMING" => job.at # "working"

\* A candidate that may be applied has no job, a rework has one and an iteration left
Staged ==
    /\ stage = "AWAITING_APPLY" => job.at = None
    /\ stage = "REWORK" => job.at = "working"
    /\ job.at = "working" => iteration < MaxIterations

IInv == TypeOK /\ Supplied /\ OnManifest /\ Placed /\ Collected /\ Valid /\ Restorable /\ Staged
        /\ AcceptedByBoth /\ WorkOrderCoversFindings

-----------------------------------------------------------------------------
(* The moves: what each action does to the job, its questions and the record. *)

\* where the job is after the step
JobIs(at, role, phase) == job' \in JobTypes /\ job'.at = at /\ job'.role = role /\ job'.phase = phase
JobOver == job' \in JobTypes /\ job'.at = None
NoVerdict == stage' \in Stages \ {"AWAITING_APPLY", "REWORK"}
\* what most moves leave alone
Kept == UNCHANGED <<iteration, evidence, passed, decisions, findings, order, review, recovery>>

\* the audit fixes its manifest
Begins ==
    /\ job.at = "begin" /\ manifest' = Manifest /\ JobIs("next", "JUDGE", "ROUND0")
    /\ UNCHANGED <<stage, evidenceRounds, requests, turn>> /\ Kept
\* a question is recorded and sent; an older answer to it is forgotten
Asks ==
    LET role == job.role  phase == job.phase IN
    /\ job.at = "next" /\ JobIs("asked", role, phase)
    /\ recovery.status = "RESUMING" => recovery.manifest = manifest /\ <<role, phase>> \notin recovery.from
    /\ requests' \in [Roles -> [Phases -> RequestTypes]] /\ requests'[role][phase].manifest = manifest
    /\ requests'[role][phase] = requests[role][phase] \/ requests'[role][phase].report = NoReport
    /\ \A r \in Roles, h \in Phases : r # role \/ h # phase => requests'[r][h] = requests[r][h]
    /\ turn' \in TurnTypes /\ turn'.role = role /\ turn'.phase = phase /\ turn'.answer = NoAnswer
    /\ NoVerdict /\ UNCHANGED <<evidenceRounds, manifest>> /\ Kept
\* the answer is stored and acknowledged
Hears ==
    /\ job.at = "asked" /\ JobIs("answered", job.role, job.phase)
    /\ requests' \in [Roles -> [Phases -> RequestTypes]]
    /\ \A r \in Roles, h \in Phases :
         requests'[r][h].manifest = requests[r][h].manifest /\ requests'[r][h].report = requests[r][h].report
    /\ turn' \in TurnTypes /\ turn'.role = turn.role /\ turn'.phase = turn.phase
    /\ turn'.answer.kind = "REPORT" => turn'.answer.report \in Opinions
    /\ UNCHANGED <<stage, evidenceRounds, manifest>> /\ Kept
\* the job ends without a verdict
Stops ==
    /\ job.at # None /\ JobOver /\ NoVerdict /\ manifest' = None
    /\ UNCHANGED <<evidenceRounds, requests, turn>> /\ Kept
\* the role is asked again
Repeats ==
    /\ job.at = "answered" /\ JobIs("next", job.role, job.phase)
    /\ UNCHANGED <<stage, evidenceRounds, requests, turn, manifest>> /\ Kept
\* where the job goes after a report
Advances ==
    \/ job.role = "JUDGE" /\ JobIs("next", "CRITIC", job.phase)
    \/ job.role = "CRITIC" /\ JobIs("next", "JUDGE", "ROUND1")
    \/ job.role = "CRITIC" /\ JobIs("verdict", None, job.phase)
\* the report is kept for the round
Accepts ==
    LET role == job.role  phase == job.phase IN
    /\ job.at = "answered" /\ turn.answer.kind = "REPORT" /\ ValidReport(turn.answer.report)
    /\ requests' \in [Roles -> [Phases -> RequestTypes]]
    /\ \A r \in Roles, h \in Phases : requests'[r][h].manifest = requests[r][h].manifest
    /\ requests'[role][phase].report = turn.answer.report
    /\ \A r \in Roles, h \in Phases : r # role \/ h # phase => requests'[r][h] = requests[r][h]
    /\ Advances
    /\ UNCHANGED <<stage, evidenceRounds, turn, manifest>> /\ Kept
\* a recovered report stands for a question
Restores ==
    /\ job.at = "next" /\ recovery.status = "RESUMING" /\ recovery.manifest = manifest
    /\ <<job.role, job.phase>> \in recovery.from
    /\ Advances
    /\ UNCHANGED <<stage, evidenceRounds, requests, turn, manifest>> /\ Kept
\* an evidence round is counted
Counts ==
    /\ job.at = "answered" /\ JobIs("supplement", job.role, job.phase)
    /\ evidenceRounds' = evidenceRounds + 1 /\ evidenceRounds' <= MaxEvidenceRounds
    /\ NoVerdict /\ UNCHANGED <<requests, turn, manifest>> /\ Kept
\* evidence is supplied, and the audit goes on, starts over or stops
Supplies ==
    /\ job.at = "supplement"
    /\ \/ evidence' = evidence /\ passed' = passed
       \/ evidence' = evidence + 1 /\ passed' \in BOOLEAN
    /\ \/ JobOver /\ NoVerdict /\ manifest' = None
       \/ JobIs("begin", None, None) /\ UNCHANGED <<stage, manifest>>
       \/ JobIs("next", job.role, job.phase) /\ ManifestWith(evidence') = manifest /\ UNCHANGED <<stage, manifest>>
    /\ UNCHANGED <<iteration, evidenceRounds, decisions, findings, requests, turn, order, review, recovery>>
\* the work order is being agreed
Plans ==
    /\ job.at \in Deciding /\ job' \in JobTypes /\ job'.at \in Deciding /\ job'.phase = job.phase
    /\ UNCHANGED <<stage, evidenceRounds, requests, turn, manifest>> /\ Kept
Decides ==
    LET reports == FinalReports(job.phase)  decision == EvaluateCodeReview(reports) IN
    /\ job.at \in Deciding
    /\ findings' = Findings(reports)
    /\ review' = [decision |-> decision, iteration |-> iteration, manifest |-> manifest]
    /\ decision \in {"PASS", "HOLD", "REWORK"}
    /\ \/ decision = "PASS" /\ stage' = "AWAITING_APPLY" /\ JobOver
       \/ decision # "PASS" /\ NoVerdict /\ JobOver
       \/ /\ stage' = "REWORK" /\ job' \in JobTypes /\ job'.at = "working" /\ iteration < MaxIterations
          /\ order' = [iteration |-> iteration, manifest |-> manifest, covers |-> Unresolved(findings')]
    /\ order' = order \/ order' = [iteration |-> iteration, manifest |-> manifest, covers |-> Unresolved(findings')]
    /\ recovery'.status \notin {"READY", "RESUMING"}
    /\ manifest' = None
    /\ UNCHANGED <<iteration, evidence, passed, evidenceRounds, decisions, requests, turn>>
\* the worker makes the next candidate, or fails
Reworks ==
    /\ job.at = "working" /\ NoVerdict
    /\ \/ /\ iteration' = iteration + 1 /\ evidence' = 0 /\ passed' \in BOOLEAN /\ evidenceRounds' = 0 /\ decisions' = 0
          /\ findings' = [p \in Problems |->
                            IF p \in Unresolved(findings)
                            THEN [findings[p] EXCEPT !.status = "FIX_SUBMITTED"] ELSE findings[p]]
          /\ requests' = NoRequests /\ turn' = NoTurn
          /\ job' \in JobTypes /\ job'.at = "begin" /\ UNCHANGED manifest
       \/ /\ JobOver /\ manifest' = None
          /\ UNCHANGED <<iteration, evidence, passed, evidenceRounds, decisions, findings, requests, turn>>
    /\ UNCHANGED recovery
\* the operator starts the audit again
Retries ==
    /\ job.at = None /\ stage \notin {"AWAITING_APPLY", "REWORK"} /\ NoVerdict
    /\ JobIs("begin", None, None)
    /\ \/ recovery'.status \notin {"READY", "RESUMING"}
       \/ recovery'.status = "RESUMING" /\ recovery.status = "READY" /\ recovery'.manifest = recovery.manifest
          /\ recovery'.from = recovery.from
    /\ turn' = turn \/ turn' = NoTurn
    /\ decisions' \in Nat /\ decisions' >= decisions
    /\ UNCHANGED <<iteration, evidence, passed, evidenceRounds, findings, requests, order, review, manifest>>
\* the controller restarts, and may recover the last answer
Crashes ==
    /\ JobOver /\ manifest' = None
    /\ (stage' = stage /\ stage # "REWORK") \/ NoVerdict
    /\ \/ UNCHANGED <<requests, recovery>>
       \/ UNCHANGED requests /\ recovery'.status = "REFUSED"
       \/ /\ turn.answer.kind = "REPORT" /\ turn.answer # NoAnswer /\ ValidReport(turn.answer.report)
          /\ requests[turn.role][turn.phase].manifest = Manifest
          /\ requests' \in [Roles -> [Phases -> RequestTypes]]
          /\ \A r \in Roles, h \in Phases : requests'[r][h].manifest = requests[r][h].manifest
          /\ requests'[turn.role][turn.phase].report = turn.answer.report
          /\ \A r \in Roles, h \in Phases : r # turn.role \/ h # turn.phase => requests'[r][h] = requests[r][h]
          /\ recovery'.manifest = Manifest
          /\ \A k \in recovery'.from : /\ k \in Roles \X Phases /\ requests'[k[1]][k[2]].manifest = Manifest
                                       /\ requests'[k[1]][k[2]].report # NoReport
          /\ stage \notin {"HOLD", "AWAITING_APPLY"} /\ NoVerdict
    /\ UNCHANGED <<iteration, evidence, passed, evidenceRounds, decisions, findings, turn, order, review>>

Moves == \/ Begins \/ Asks \/ Hears \/ Stops \/ Repeats \/ Accepts \/ Restores \/ Counts \/ Supplies
         \/ Plans \/ Decides \/ Reworks \/ Retries \/ Crashes

-----------------------------------------------------------------------------
(* What the actions rest on.                                               *)

\* null is none of the words, and no report is an opinion
LEMMA Words ==
  /\ \A w \in Flags \cup Statuses \cup Roles \cup Phases \cup Kinds \cup Recoveries \cup Waits : w # None
  /\ NoReport \notin Opinions /\ NoReport \in Reported /\ Opinions \subseteq Reported
  BY AuditAssumption DEF Flags, NoReport, Reported

LEMMA ManifestTyped ==
  ASSUME TypeOK, NEW amount \in Nat PROVE ManifestWith(amount) \in Manifests
  <1>1. [p \in Known |-> findings[p].required] \in [Known -> BOOLEAN] /\ Known \in SUBSET Problems
    BY DEF TypeOK, Known
  <1> QED
    BY <1>1 DEF TypeOK, ManifestWith, Manifests

\* One request is replaced, acknowledged or gets its report
Acknowledged(role, phase) == requests' = [requests EXCEPT ![role][phase].acknowledged = TRUE]
ReportedBy(role, phase, report) == requests' = [requests EXCEPT ![role][phase].report = report]

LEMMA RequestReplaced ==
  ASSUME requests \in [Roles -> [Phases -> RequestTypes]], NEW role \in Roles, NEW phase \in Phases,
         NEW q \in RequestTypes, requests' = [requests EXCEPT ![role][phase] = q]
  PROVE  /\ requests' \in [Roles -> [Phases -> RequestTypes]]
         /\ \A r \in Roles, h \in Phases :
              requests'[r][h] = IF r = role /\ h = phase THEN q ELSE requests[r][h]
  OBVIOUS
LEMMA RequestAsked ==
  ASSUME requests \in [Roles -> [Phases -> RequestTypes]], manifest \in Manifested,
         NEW role \in Roles, NEW phase \in Phases, Request(role, phase)
  PROVE  /\ requests' \in [Roles -> [Phases -> RequestTypes]]
         /\ requests'[role][phase].manifest = manifest
         /\ requests'[role][phase] = requests[role][phase] \/ requests'[role][phase].report = NoReport
         /\ \A r \in Roles, h \in Phases : r # role \/ h # phase => requests'[r][h] = requests[r][h]
  <1> DEFINE q == IF requests[role][phase].manifest = manifest THEN requests[role][phase]
                  ELSE [NoRequest EXCEPT !.manifest = manifest]
  <1>1. [NoRequest EXCEPT !.manifest = manifest] \in RequestTypes
        /\ [NoRequest EXCEPT !.manifest = manifest].manifest = manifest
        /\ [NoRequest EXCEPT !.manifest = manifest].report = NoReport
    BY DEF RequestTypes, NoRequest, Reported
  <1>2. q \in RequestTypes /\ q.manifest = manifest /\ (q = requests[role][phase] \/ q.report = NoReport)
    BY <1>1
  <1>3. requests' = [requests EXCEPT ![role][phase] = q]
    BY DEF Request
  <1> HIDE DEF q
  <1> QED
    BY <1>2, <1>3, RequestReplaced
LEMMA RequestAcknowledged ==
  ASSUME requests \in [Roles -> [Phases -> RequestTypes]], NEW role \in Roles, NEW phase \in Phases,
         Acknowledged(role, phase)
  PROVE  /\ requests' \in [Roles -> [Phases -> RequestTypes]]
         /\ \A r \in Roles, h \in Phases :
              requests'[r][h].manifest = requests[r][h].manifest /\ requests'[r][h].report = requests[r][h].report
  <1>1. requests[role][phase] \in RequestTypes
    OBVIOUS
  <1> DEFINE q == [requests[role][phase] EXCEPT !.acknowledged = TRUE]
  <1>2. q \in RequestTypes /\ q.manifest = requests[role][phase].manifest /\ q.report = requests[role][phase].report
    BY <1>1 DEF RequestTypes
  <1>3. requests' = [requests EXCEPT ![role][phase] = q]
    BY DEF Acknowledged
  <1> HIDE DEF q
  <1>4. /\ requests' \in [Roles -> [Phases -> RequestTypes]]
        /\ \A r \in Roles, h \in Phases :
             requests'[r][h] = IF r = role /\ h = phase THEN q ELSE requests[r][h]
    BY <1>2, <1>3, RequestReplaced
  <1> QED
    BY <1>2, <1>4
LEMMA RequestReported ==
  ASSUME requests \in [Roles -> [Phases -> RequestTypes]], NEW role \in Roles, NEW phase \in Phases,
         NEW report \in Opinions, ReportedBy(role, phase, report)
  PROVE  /\ requests' \in [Roles -> [Phases -> RequestTypes]]
         /\ \A r \in Roles, h \in Phases : requests'[r][h].manifest = requests[r][h].manifest
         /\ requests'[role][phase].report = report
         /\ \A r \in Roles, h \in Phases : r # role \/ h # phase => requests'[r][h] = requests[r][h]
  <1>1. requests[role][phase] \in RequestTypes
    OBVIOUS
  <1> DEFINE q == [requests[role][phase] EXCEPT !.report = report]
  <1>2. q \in RequestTypes /\ q.manifest = requests[role][phase].manifest /\ q.report = report
    BY <1>1 DEF RequestTypes, Reported
  <1>3. requests' = [requests EXCEPT ![role][phase] = q]
    BY DEF ReportedBy
  <1> HIDE DEF q
  <1>4. /\ requests' \in [Roles -> [Phases -> RequestTypes]]
        /\ \A r \in Roles, h \in Phases :
             requests'[r][h] = IF r = role /\ h = phase THEN q ELSE requests[r][h]
    BY <1>2, <1>3, RequestReplaced
  <1> QED
    BY <1>2, <1>4

LEMMA Bounds ==
  /\ MaxRepairs \in Nat /\ MaxIterations \in Nat \ {0} /\ MaxEvidenceRounds \in Nat /\ MaxDecisions \in Nat
  /\ MaxCrashes \in Nat /\ MaxPlanRounds = 2
  /\ 0 \in 0 .. MaxRepairs /\ 0 \in 0 .. MaxPlanRounds /\ 1 \in 0 .. MaxPlanRounds
  /\ \A n \in 0 .. MaxRepairs : n < MaxRepairs => n + 1 \in 0 .. MaxRepairs
  /\ \A n \in 0 .. MaxPlanRounds : n < MaxPlanRounds => n + 1 \in 0 .. MaxPlanRounds
  BY AuditAssumption DEF MaxPlanRounds

\* The job is moved from one wait to the next
LEMMA NoJobTyped == NoJob \in JobTypes /\ NoJob.at = None /\ NoJob.role = None /\ NoJob.phase = None
  BY Bounds DEF JobTypes, NoJob
LEMMA JobTyped ==
  ASSUME NEW at \in Waits
  PROVE  /\ [NoJob EXCEPT !.at = at] \in JobTypes /\ [NoJob EXCEPT !.at = at].at = at
         /\ [NoJob EXCEPT !.at = at].role = None /\ [NoJob EXCEPT !.at = at].phase = None
  BY NoJobTyped DEF JobTypes
LEMMA JobAsks ==
  ASSUME NEW role \in Roles, NEW phase \in Phases
  PROVE  /\ AsksNext(role, phase) \in JobTypes /\ AsksNext(role, phase).at = "next"
         /\ AsksNext(role, phase).role = role /\ AsksNext(role, phase).phase = phase
  <1>1. AsksNext(role, phase) = [NoJob EXCEPT !.at = "next", !.role = role, !.phase = phase] /\ "next" \in Waits
    BY DEF AsksNext, Waits
  <1> QED
    BY <1>1, NoJobTyped DEF JobTypes
LEMMA JobDecides ==
  ASSUME NEW phase \in Phases, NEW j, j = [NoJob EXCEPT !.at = "verdict", !.phase = phase]
  PROVE  j \in JobTypes /\ j.at = "verdict" /\ j.role = None /\ j.phase = phase
  <1>1. "verdict" \in Waits
    BY DEF Waits
  <1> QED
    BY <1>1, NoJobTyped DEF JobTypes
LEMMA JobMoved ==
  ASSUME job \in JobTypes, NEW at \in Waits, NEW j,
         \/ j = [job EXCEPT !.at = at]
         \/ job.repairs < MaxRepairs /\ j = [job EXCEPT !.at = at, !.repairs = @ + 1]
         \/ j = [job EXCEPT !.at = at, !.repairs = 0]
         \/ j = [job EXCEPT !.at = at, !.round = 1]
         \/ job.round < MaxPlanRounds /\ j = [job EXCEPT !.at = at, !.round = @ + 1, !.repairs = 0]
  PROVE  j \in JobTypes /\ j.at = at /\ j.role = job.role /\ j.phase = job.phase
  <1> DEFINE J(n, k) == [at |-> at, role |-> job.role, phase |-> job.phase, repairs |-> n, round |-> k]
  <1>1. /\ job.role \in Roles \cup {None} /\ job.phase \in Phases \cup {None}
        /\ job.repairs \in 0 .. MaxRepairs /\ job.round \in 0 .. MaxPlanRounds
        /\ job = [at |-> job.at, role |-> job.role, phase |-> job.phase, repairs |-> job.repairs, round |-> job.round]
    BY DEF JobTypes
  <1>2. \A n \in 0 .. MaxRepairs, k \in 0 .. MaxPlanRounds :
          J(n, k) \in JobTypes /\ J(n, k).at = at /\ J(n, k).role = job.role /\ J(n, k).phase = job.phase
    BY <1>1 DEF JobTypes
  <1>3. \E n \in 0 .. MaxRepairs, k \in 0 .. MaxPlanRounds : j = J(n, k)
    <2>1. CASE j = [job EXCEPT !.at = at]
      <3>1. j = J(job.repairs, job.round)
        BY <1>1, <2>1
      <3> QED
        BY <1>1, <3>1, Zenon
    <2>2. CASE job.repairs < MaxRepairs /\ j = [job EXCEPT !.at = at, !.repairs = @ + 1]
      <3>1. job.repairs + 1 \in 0 .. MaxRepairs
        BY <1>1, <2>2, Bounds
      <3>2. j = J(job.repairs + 1, job.round)
        BY <1>1, <2>2
      <3> QED
        BY <1>1, <3>1, <3>2, Zenon
    <2>3. CASE j = [job EXCEPT !.at = at, !.repairs = 0]
      <3>1. j = J(0, job.round)
        BY <1>1, <2>3
      <3> QED
        BY <1>1, <3>1, Bounds, Zenon
    <2>4. CASE j = [job EXCEPT !.at = at, !.round = 1]
      <3>1. j = J(job.repairs, 1)
        BY <1>1, <2>4
      <3> QED
        BY <1>1, <3>1, Bounds, Zenon
    <2>5. CASE job.round < MaxPlanRounds /\ j = [job EXCEPT !.at = at, !.round = @ + 1, !.repairs = 0]
      <3>1. job.round + 1 \in 0 .. MaxPlanRounds
        BY <1>1, <2>5, Bounds
      <3>2. j = J(0, job.round + 1)
        BY <1>1, <2>5
      <3> QED
        BY <1>1, <3>1, <3>2, Bounds, Zenon
    <2> QED
      BY <2>1, <2>2, <2>3, <2>4, <2>5
  <1>4. PICK n \in 0 .. MaxRepairs, k \in 0 .. MaxPlanRounds : j = J(n, k)
    BY <1>3
  <1> HIDE DEF J
  <1> QED
    BY <1>2, <1>4

-----------------------------------------------------------------------------
(* Every action is one of the moves.                                       *)

\* A hold, a failure and a new wait of the job
LEMMA Ends ==
  ASSUME (\E why \in Reasons : Holds(why)) \/ Fails
  PROVE  JobOver /\ NoVerdict /\ manifest' = None
  <1>1. NoJob \in JobTypes /\ NoJob.at = None
    BY Bounds DEF JobTypes, NoJob
  <1> QED
    BY <1>1 DEF Holds, Fails, JobOver, NoVerdict, Stages

LEMMA BeginMoves == ASSUME TypeOK, BeginAudit PROVE Begins
  BY JobAsks DEF BeginAudit, Begins, JobIs, Kept, kept, Waits, Roles, Phases

LEMMA AskMoves ==
  ASSUME TypeOK, Placed, ReviewRole PROVE Asks
  <1> DEFINE role == job.role
  <1> DEFINE phase == job.phase
  <1>1. job.at = "next" /\ role \in Roles /\ phase \in Phases
    BY DEF ReviewRole, Placed, Asking
  <1>2. /\ requests' \in [Roles -> [Phases -> RequestTypes]] /\ requests'[role][phase].manifest = manifest
        /\ requests'[role][phase] = requests[role][phase] \/ requests'[role][phase].report = NoReport
        /\ \A r \in Roles, h \in Phases : r # role \/ h # phase => requests'[r][h] = requests[r][h]
    <2>1. Request(role, phase)
      BY DEF ReviewRole
    <2> HIDE DEF role, phase
    <2> QED
      BY <1>1, <2>1, RequestAsked DEF TypeOK
  <1>3. turn' \in TurnTypes /\ turn'.role = role /\ turn'.phase = phase /\ turn'.answer = NoAnswer
    BY <1>1, Words DEF ReviewRole, TurnTypes, AnswerTypes, NoAnswer
  <1>4. JobIs("asked", role, phase)
    <2>1. "asked" \in Waits /\ job \in JobTypes /\ job' = [job EXCEPT !.at = "asked"]
      BY DEF Waits, TypeOK, ReviewRole
    <2> QED
      BY <2>1, JobMoved DEF JobIs
  <1>5. recovery.status = "RESUMING" => recovery.manifest = manifest /\ <<role, phase>> \notin recovery.from
    BY DEF ReviewRole, Reused
  <1>6. NoVerdict /\ UNCHANGED <<evidenceRounds, manifest>> /\ Kept
    BY DEF ReviewRole, NoVerdict, Stages, Kept, kept
  <1> QED
    BY <1>1, <1>2, <1>3, <1>4, <1>5, <1>6 DEF Asks

LEMMA RefuseMoves == ASSUME TypeOK, RefusesRecovered PROVE Stops
  <1>1. job.at # None
    BY Words DEF RefusesRecovered, Waits
  <1> QED
    BY <1>1, Ends DEF RefusesRecovered, Stops, Kept, kept

LEMMA HearMoves ==
  ASSUME TypeOK, Placed, ReviewerAnswers PROVE Hears
  <1>1. PICK answer \in AnswerTypes : Answer(answer) /\ (answer.kind = "REPORT" => answer.report \in Opinions)
    <2>1. \A report \in Opinions : [NoAnswer EXCEPT !.kind = "REPORT", !.report = report] \in AnswerTypes
                                   /\ [NoAnswer EXCEPT !.kind = "REPORT", !.report = report].report = report
      BY Words DEF AnswerTypes, NoAnswer, Kinds
    <2>2. [NoAnswer EXCEPT !.kind = "INVALID"] \in AnswerTypes /\ [NoAnswer EXCEPT !.kind = "INVALID"].kind = "INVALID"
      BY Words DEF AnswerTypes, NoAnswer, Kinds
    <2>3. \A for \in {{"EVIDENCE"}, {"CODE"}, {"VERIFY"}, {"QUESTION"}} :
            /\ [NoAnswer EXCEPT !.kind = "EVIDENCE_REQUEST", !.for = for] \in AnswerTypes
            /\ [NoAnswer EXCEPT !.kind = "EVIDENCE_REQUEST", !.for = for].kind = "EVIDENCE_REQUEST"
      BY Words DEF AnswerTypes, NoAnswer, Kinds, Wanted
    <2>4. CASE \E report \in Reports : Answer([NoAnswer EXCEPT !.kind = "REPORT", !.report = report])
      BY <2>1, <2>4 DEF Reports
    <2>5. CASE Answer([NoAnswer EXCEPT !.kind = "INVALID"])
      BY <2>2, <2>5
    <2>6. CASE \E for \in {{"EVIDENCE"}, {"CODE"}, {"VERIFY"}, {"QUESTION"}} :
                 Answer([NoAnswer EXCEPT !.kind = "EVIDENCE_REQUEST", !.for = for])
      BY <2>3, <2>6
    <2> QED
      BY <2>4, <2>5, <2>6 DEF ReviewerAnswers
  <1>2. job.at = "asked" /\ turn.role \in Roles /\ turn.phase \in Phases
    BY <1>1 DEF Answer, Placed, Asking
  <1>3. /\ requests' \in [Roles -> [Phases -> RequestTypes]]
        /\ \A r \in Roles, h \in Phases :
             requests'[r][h].manifest = requests[r][h].manifest /\ requests'[r][h].report = requests[r][h].report
    <2>1. Acknowledged(turn.role, turn.phase)
      BY <1>1 DEF Answer, Acknowledged
    <2> QED
      BY <1>2, <2>1, RequestAcknowledged DEF TypeOK
  <1>4. turn' \in TurnTypes /\ turn'.role = turn.role /\ turn'.phase = turn.phase /\ turn'.answer = answer
    BY <1>1 DEF Answer, TurnTypes, TypeOK
  <1>5. JobIs("answered", job.role, job.phase)
    <2>1. "answered" \in Waits /\ job \in JobTypes /\ job' = [job EXCEPT !.at = "answered"]
      BY <1>1 DEF Waits, TypeOK, Answer
    <2> QED
      BY <2>1, JobMoved DEF JobIs
  <1>6. UNCHANGED <<stage, evidenceRounds, manifest>> /\ Kept
    BY <1>1 DEF Answer, Kept, kept
  <1> QED
    BY <1>1, <1>2, <1>3, <1>4, <1>5, <1>6 DEF Hears

LEMMA UndeliveredMoves == ASSUME TypeOK, Undelivered PROVE Stops
  <1>1. job.at # None /\ "WEB_BINDING_REQUIRED" \in Reasons
    BY Words DEF Undelivered, Waits, Reasons
  <1> QED
    BY <1>1, Ends DEF Undelivered, Stops, Kept, kept

LEMMA RepairMoves == ASSUME TypeOK, RepairReport PROVE Repeats \/ Stops
  <1>1. job.at = "answered" /\ job.at # None /\ "REPORT_REPAIR_LIMIT" \in Reasons /\ "next" \in Waits
    BY Words DEF RepairReport, Waits, Reasons
  <1>2. CASE job.repairs < MaxRepairs
    <2>1. Goes([job EXCEPT !.at = "next", !.repairs = @ + 1])
      BY <1>2 DEF RepairReport
    <2>2. job' = [job EXCEPT !.at = "next", !.repairs = @ + 1]
      BY <2>1 DEF Goes
    <2>3. JobIs("next", job.role, job.phase)
      BY <1>1, <1>2, <2>2, JobMoved DEF JobIs, TypeOK
    <2> QED
      BY <1>1, <2>1, <2>3 DEF RepairReport, Repeats, Kept, kept, Goes
  <1>3. CASE ~(job.repairs < MaxRepairs)
    <2>1. Holds("REPORT_REPAIR_LIMIT")
      BY <1>3 DEF RepairReport
    <2> QED
      BY <1>1, <2>1, Ends DEF RepairReport, Stops, Kept, kept
  <1> QED
    BY <1>2, <1>3

\* The next role, the cross review, or the verdict
LEMMA Advanced ==
  ASSUME TypeOK, Placed, job.at \in {"next", "answered"}, NEW reports, Goes(AfterReport(reports))
  PROVE  Advances
  <1>1. job.role \in Roles /\ job.phase \in Phases
    BY DEF Placed, Asking
  <1>2. job' = AfterReport(reports)
    BY DEF Goes
  <1>3. "JUDGE" \in Roles /\ "CRITIC" \in Roles /\ "ROUND1" \in Phases /\ "verdict" \in Waits
    BY DEF Roles, Phases, Waits
  <1>4. CASE job.role = "JUDGE"
    <2>1. job' = AsksNext("CRITIC", job.phase)
      BY <1>2, <1>4 DEF AfterReport
    <2>2. JobIs("next", "CRITIC", job.phase)
      BY <1>1, <1>3, <2>1, JobAsks DEF JobIs
    <2> QED
      BY <1>4, <2>2 DEF Advances
  <1>5. CASE job.role # "JUDGE"
    <2>1. job.role = "CRITIC"
      BY <1>1, <1>5 DEF Roles
    <2>2. job' = AsksNext("JUDGE", "ROUND1") \/ job' = [NoJob EXCEPT !.at = "verdict", !.phase = job.phase]
      BY <1>2, <1>5, Zenon DEF AfterReport
    <2>3. JobIs("next", "JUDGE", "ROUND1") \/ JobIs("verdict", None, job.phase)
      <3>1. CASE job' = AsksNext("JUDGE", "ROUND1")
        BY <1>3, <3>1, JobAsks DEF JobIs
      <3>2. CASE job' = [NoJob EXCEPT !.at = "verdict", !.phase = job.phase]
        BY <1>1, <3>2, JobDecides DEF JobIs
      <3> QED
        BY <2>2, <3>1, <3>2
    <2> QED
      BY <2>1, <2>3 DEF Advances
  <1> QED
    BY <1>4, <1>5

LEMMA AcceptMoves ==
  ASSUME TypeOK, Placed, AcceptReport PROVE Accepts
  <1>1. /\ job.at = "answered" /\ turn.answer.kind = "REPORT" /\ ValidReport(turn.answer.report)
        /\ job.role \in Roles /\ job.phase \in Phases /\ turn.answer.report \in Opinions
    BY DEF AcceptReport, Placed, Asking
  <1>2. /\ requests' \in [Roles -> [Phases -> RequestTypes]]
        /\ \A r \in Roles, h \in Phases : requests'[r][h].manifest = requests[r][h].manifest
        /\ requests'[job.role][job.phase].report = turn.answer.report
        /\ \A r \in Roles, h \in Phases : r # job.role \/ h # job.phase => requests'[r][h] = requests[r][h]
    <2>1. ReportedBy(job.role, job.phase, turn.answer.report)
      BY DEF AcceptReport, ReportedBy
    <2> QED
      BY <1>1, <2>1, RequestReported DEF TypeOK
  <1>3. Advances
    <2>1. Goes(AfterReport({turn.answer.report, requests["JUDGE"][job.phase].report}))
      BY DEF AcceptReport
    <2> QED
      BY <1>1, <2>1, Advanced
  <1>4. UNCHANGED <<stage, evidenceRounds, turn, manifest>> /\ Kept
    BY DEF AcceptReport, Goes, Kept, kept
  <1> QED
    BY <1>1, <1>2, <1>3, <1>4 DEF Accepts

LEMMA RestoreMoves ==
  ASSUME TypeOK, Placed, RestoreReport PROVE Restores
  <1>1. Advances
    <2>1. job.at = "next" /\ Goes(AfterReport(FinalReports(job.phase)))
      BY DEF RestoreReport
    <2> QED
      BY <2>1, Advanced
  <1> QED
    BY <1>1 DEF RestoreReport, Restores, Reused, Goes, Kept, kept

LEMMA CountMoves ==
  ASSUME TypeOK, SupplementBegins PROVE Counts \/ Stops
  <1>1. job.at = "answered" /\ job.at # None /\ "EVIDENCE_LIMIT" \in Reasons /\ "supplement" \in Waits
    BY Words DEF SupplementBegins, Waits, Reasons
  <1>2. CASE evidenceRounds + 1 > MaxEvidenceRounds
    <2>1. Holds("EVIDENCE_LIMIT") /\ UNCHANGED evidenceRounds
      BY <1>2 DEF SupplementBegins
    <2> QED
      BY <1>1, <2>1, Ends DEF SupplementBegins, Stops, Kept, kept
  <1>3. CASE ~(evidenceRounds + 1 > MaxEvidenceRounds)
    <2>1. /\ CountsRound /\ stage' = "EVIDENCE_SUPPLEMENT" /\ job' = [job EXCEPT !.at = "supplement"]
          /\ UNCHANGED <<reason, manifest, coordination>>
      BY <1>3 DEF SupplementBegins
    <2>2. JobIs("supplement", job.role, job.phase)
      BY <1>1, <2>1, JobMoved DEF JobIs, TypeOK
    <2>3. evidenceRounds' = evidenceRounds + 1 /\ evidenceRounds' <= MaxEvidenceRounds
      BY <1>3, <2>1, Bounds DEF CountsRound, TypeOK
    <2> QED
      BY <1>1, <2>1, <2>2, <2>3 DEF SupplementBegins, Counts, Kept, kept, NoVerdict, Stages
  <1> QED
    BY <1>2, <1>3

LEMMA SupplyMoves ==
  ASSUME TypeOK, Supplement PROVE Supplies
  <1>1. /\ job.at = "supplement"
        /\ UNCHANGED <<iteration, evidenceRounds, decisions, findings, requests, turn, order, review, recovery>>
    BY DEF Supplement, kept
  <1>2. \/ evidence' = evidence /\ passed' = passed
        \/ evidence' = evidence + 1 /\ passed' \in BOOLEAN
    BY DEF Supplement, TypeOK
  <1>3. \/ JobOver /\ NoVerdict /\ manifest' = None
        \/ JobIs("begin", None, None) /\ UNCHANGED <<stage, manifest>>
        \/ JobIs("next", job.role, job.phase) /\ ManifestWith(evidence') = manifest /\ UNCHANGED <<stage, manifest>>
    <2>1. \/ Holds("USER_DECISION_REQUIRED") \/ Fails
          \/ job' = Resumes(evidence') /\ UNCHANGED <<stage, manifest>>
      BY Zenon DEF Supplement
    <2>2. CASE Holds("USER_DECISION_REQUIRED") \/ Fails
      BY <2>2, Ends DEF Reasons
    <2>3. CASE job' = Resumes(evidence') /\ UNCHANGED <<stage, manifest>>
      <3>1. "next" \in Waits /\ "begin" \in Waits /\ job \in JobTypes
        BY DEF Waits, TypeOK
      <3>2. CASE ManifestWith(evidence') = manifest
        <4>1. job' = [job EXCEPT !.at = "next"]
          BY <2>3, <3>2 DEF Resumes
        <4>2. JobIs("next", job.role, job.phase)
          BY <3>1, <4>1, JobMoved DEF JobIs
        <4> QED
          BY <2>3, <3>2, <4>2
      <3>3. CASE ManifestWith(evidence') # manifest
        <4>1. job' = [NoJob EXCEPT !.at = "begin"]
          BY <2>3, <3>3 DEF Resumes
        <4>2. JobIs("begin", None, None)
          BY <3>1, <4>1, JobTyped DEF JobIs, Roles, Phases
        <4> QED
          BY <2>3, <4>2
      <3> QED
        BY <3>2, <3>3
    <2> QED
      BY <2>1, <2>2, <2>3
  <1> QED
    BY <1>1, <1>2, <1>3 DEF Supplies

\* The decision is one of three
LEMMA Decided == ASSUME NEW reports PROVE EvaluateCodeReview(reports) \in {"PASS", "HOLD", "REWORK"}
  BY Zenon DEF EvaluateCodeReview

LEMMA SaveMoves ==
  ASSUME TypeOK, Restorable, job.at \in Deciding, SaveVerdict(job.phase),
         EvaluateCodeReview(FinalReports(job.phase)) = "REWORK" /\ iteration < MaxIterations =>
            order' = [iteration |-> iteration, manifest |-> manifest, covers |-> Unresolved(findings')],
         order' = order \/ order' = [iteration |-> iteration, manifest |-> manifest, covers |-> Unresolved(findings')],
         UNCHANGED <<iteration, evidence, passed, evidenceRounds, decisions, requests, turn>>
  PROVE  Decides
  <1> DEFINE decision == EvaluateCodeReview(FinalReports(job.phase))
  <1>1. decision \in {"PASS", "HOLD", "REWORK"}
    BY Decided
  <1>2. /\ findings' = Findings(FinalReports(job.phase))
        /\ review' = [decision |-> decision, iteration |-> iteration, manifest |-> manifest]
        /\ stage' = CASE decision = "PASS" -> "AWAITING_APPLY"
                      [] decision = "HOLD" -> "HOLD"
                      [] OTHER -> IF iteration >= MaxIterations THEN "INCONCLUSIVE" ELSE "REWORK"
        /\ job' = IF stage' = "REWORK" THEN [NoJob EXCEPT !.at = "working"] ELSE NoJob
        /\ manifest' = None
    BY Zenon DEF SaveVerdict
  <1>3. recovery'.status \notin {"READY", "RESUMING"}
    <2>1. recovery.status # "READY"
      BY Words DEF Restorable, Deciding, Waits
    <2>2. CASE recovery.status = "RESUMING"
      <3>1. recovery' = [NoRecovery EXCEPT !.status = "COMPLETED"]
        BY <2>2 DEF SaveVerdict
      <3> QED
        BY <3>1 DEF NoRecovery
    <2>3. CASE recovery.status # "RESUMING"
      BY <2>1, <2>3 DEF SaveVerdict
    <2> QED
      BY <2>2, <2>3
  <1>4. NoJob \in JobTypes /\ NoJob.at = None /\ "working" \in Waits
    BY Bounds DEF JobTypes, NoJob, Waits
  <1>5. [NoJob EXCEPT !.at = "working"] \in JobTypes /\ [NoJob EXCEPT !.at = "working"].at = "working"
    BY <1>4, JobTyped DEF Roles, Phases
  <1>6. \/ decision = "PASS" /\ stage' = "AWAITING_APPLY" /\ JobOver
        \/ decision # "PASS" /\ NoVerdict /\ JobOver
        \/ /\ stage' = "REWORK" /\ job' \in JobTypes /\ job'.at = "working" /\ iteration < MaxIterations
           /\ order' = [iteration |-> iteration, manifest |-> manifest, covers |-> Unresolved(findings')]
    <2> HIDE DEF decision
    <2>1. CASE decision = "PASS"
      <3>1. stage' = "AWAITING_APPLY"
        BY <1>2, <2>1
      <3>2. job' = NoJob
        BY <1>2, <3>1
      <3> QED
        BY <1>4, <2>1, <3>1, <3>2 DEF JobOver
    <2>2. CASE decision # "PASS" /\ (decision = "HOLD" \/ iteration >= MaxIterations)
      <3>1. stage' \in {"HOLD", "INCONCLUSIVE"}
        BY <1>1, <1>2, <2>2
      <3>2. job' = NoJob
        BY <1>2, <3>1
      <3> QED
        BY <1>4, <2>2, <3>1, <3>2 DEF JobOver, NoVerdict, Stages
    <2>3. CASE decision = "REWORK" /\ ~(iteration >= MaxIterations)
      <3>1. stage' = "REWORK"
        BY <1>2, <2>3
      <3>2. job' = [NoJob EXCEPT !.at = "working"]
        BY <1>2, <3>1
      <3>3. iteration < MaxIterations
        BY <2>3, Bounds DEF TypeOK
      <3>4. order' = [iteration |-> iteration, manifest |-> manifest, covers |-> Unresolved(findings')]
        BY <2>3, <3>3 DEF decision
      <3> QED
        BY <1>5, <3>1, <3>2, <3>3, <3>4
    <2> QED
      BY <1>1, <2>1, <2>2, <2>3
  <1> QED
    BY <1>1, <1>2, <1>3, <1>6, Zenon DEF Decides

LEMMA ConcludeMoves ==
  ASSUME TypeOK, Placed, Restorable, Conclude PROVE Plans \/ Decides
  <1>1. job.at = "verdict" /\ job.at \in Deciding /\ job.phase \in Phases
    BY DEF Conclude, Placed, Deciding
  <1>2. CASE EvaluateCodeReview(FinalReports(job.phase)) = "REWORK" /\ iteration < MaxIterations
    <2>1. /\ Goes([job EXCEPT !.at = "proposing", !.round = 1]) /\ UNCHANGED <<findings, review, recovery>>
          /\ UNCHANGED <<evidence, passed, evidenceRounds, decisions, requests, turn, order, kept>>
      BY <1>2 DEF Conclude
    <2>2. job \in JobTypes /\ "proposing" \in Waits /\ job' = [job EXCEPT !.at = "proposing", !.round = 1]
      BY <2>1 DEF TypeOK, Waits, Goes
    <2>3. job' \in JobTypes /\ job'.at = "proposing" /\ job'.phase = job.phase
      BY <2>2, JobMoved
    <2> QED
      BY <1>1, <2>1, <2>3 DEF Plans, Deciding, Goes, Kept, kept
  <1>3. CASE ~(EvaluateCodeReview(FinalReports(job.phase)) = "REWORK" /\ iteration < MaxIterations)
    <2>1. SaveVerdict(job.phase) /\ UNCHANGED shown
      BY <1>3 DEF Conclude
    <2>2. UNCHANGED <<iteration, evidence, passed, evidenceRounds, decisions, requests, turn, order>>
      BY DEF Conclude, kept
    <2> QED
      BY <1>1, <1>3, <2>1, <2>2, SaveMoves
  <1> QED
    BY <1>2, <1>3

LEMMA RepairPlanMoves == ASSUME TypeOK, Placed, RepairPlan PROVE Plans \/ Stops
  <1>1. /\ job.at \in {"proposing", "judging"} /\ job.at \in Deciding /\ job.at \in Waits /\ job.at # None
        /\ "PLAN_REPAIR_LIMIT" \in Reasons /\ job \in JobTypes
    BY Words DEF RepairPlan, Waits, Reasons, Deciding, TypeOK
  <1>2. CASE job.repairs < MaxRepairs
    <2>1. Goes([job EXCEPT !.repairs = @ + 1])
      BY <1>2 DEF RepairPlan
    <2>2. job' = [job EXCEPT !.at = job.at, !.repairs = @ + 1]
      BY <1>1, <2>1 DEF Goes, JobTypes
    <2>3. job' \in JobTypes /\ job'.at = job.at /\ job'.phase = job.phase
      BY <1>1, <1>2, <2>2, JobMoved
    <2> QED
      BY <1>1, <2>1, <2>3 DEF RepairPlan, Plans, Kept, kept, Goes
  <1>3. CASE ~(job.repairs < MaxRepairs)
    <2>1. Holds("PLAN_REPAIR_LIMIT")
      BY <1>3 DEF RepairPlan
    <2> QED
      BY <1>1, <2>1, Ends DEF RepairPlan, Stops, Kept, kept
  <1> QED
    BY <1>2, <1>3

LEMMA ProposeMoves == ASSUME TypeOK, Propose PROVE Plans
  <1>1. job.at = "proposing" /\ job \in JobTypes /\ "judging" \in Waits /\ job' = [job EXCEPT !.at = "judging", !.repairs = 0]
    BY DEF Propose, TypeOK, Waits
  <1>2. job' \in JobTypes /\ job'.at = "judging" /\ job'.phase = job.phase
    BY <1>1, JobMoved
  <1> QED
    BY <1>1, <1>2 DEF Propose, Plans, Deciding, Kept, kept

LEMMA AcceptPlanMoves ==
  ASSUME TypeOK, Restorable, AcceptPlan PROVE Decides
  <1>1. job.at \in Deciding /\ SaveVerdict(job.phase)
        /\ UNCHANGED <<iteration, evidence, passed, evidenceRounds, decisions, requests, turn>>
    BY DEF AcceptPlan, Deciding, kept
  <1>2. findings' = Findings(FinalReports(job.phase))
    BY <1>1, Zenon DEF SaveVerdict
  <1>3. order' = [iteration |-> iteration, manifest |-> manifest, covers |-> Unresolved(findings')]
    BY <1>2, Zenon DEF AcceptPlan, Covered
  <1> QED
    BY <1>1, <1>3, SaveMoves

LEMMA RejectMoves == ASSUME TypeOK, RejectPlan PROVE Plans \/ Stops
  <1>1. /\ job.at = "judging" /\ job.at \in Deciding /\ job.at # None
        /\ "PLAN_CONSENSUS_NOT_REACHED" \in Reasons /\ "proposing" \in Waits /\ job \in JobTypes
    BY Words DEF RejectPlan, Waits, Reasons, Deciding, TypeOK
  <1>2. CASE job.round < MaxPlanRounds
    <2>1. Goes([job EXCEPT !.at = "proposing", !.round = @ + 1, !.repairs = 0])
      BY <1>2 DEF RejectPlan
    <2>2. job' = [job EXCEPT !.at = "proposing", !.round = @ + 1, !.repairs = 0]
      BY <2>1 DEF Goes
    <2>3. job' \in JobTypes /\ job'.at = "proposing" /\ job'.phase = job.phase
      BY <1>1, <1>2, <2>2, JobMoved
    <2> QED
      BY <1>1, <2>1, <2>3 DEF RejectPlan, Plans, Deciding, Kept, kept, Goes
  <1>3. CASE ~(job.round < MaxPlanRounds)
    <2>1. Holds("PLAN_CONSENSUS_NOT_REACHED")
      BY <1>3 DEF RejectPlan
    <2> QED
      BY <1>1, <2>1, Ends DEF RejectPlan, Stops, Kept, kept
  <1> QED
    BY <1>2, <1>3

LEMMA CandidateMoves == ASSUME TypeOK, NextCandidate PROVE Reworks
  <1>1. job.at = "working" /\ UNCHANGED recovery
    BY DEF NextCandidate
  <1>2. "begin" \in Waits /\ [NoJob EXCEPT !.at = "begin"] \in JobTypes /\ [NoJob EXCEPT !.at = "begin"].at = "begin"
    BY JobTyped DEF Waits, Roles, Phases
  <1>3. CASE /\ iteration' = iteration + 1
             /\ evidence' = 0 /\ passed' \in BOOLEAN /\ evidenceRounds' = 0 /\ decisions' = 0
             /\ findings' = [p \in Problems |->
                               IF p \in Unresolved(findings)
                               THEN [findings[p] EXCEPT !.status = "FIX_SUBMITTED"] ELSE findings[p]]
             /\ requests' = NoRequests /\ turn' = NoTurn /\ shown' = {}
             /\ stage' = "REVIEW_RUNNING" /\ job' = [NoJob EXCEPT !.at = "begin"]
             /\ UNCHANGED <<reason, manifest, coordination>>
    BY <1>1, <1>2, <1>3 DEF Reworks, NoVerdict, Stages
  <1>4. CASE Fails /\ UNCHANGED <<iteration, evidence, passed, evidenceRounds, decisions, findings, requests,
                                  turn, shown>>
    BY <1>1, <1>4, Ends DEF Reworks
  <1> QED
    BY <1>3, <1>4, Zenon DEF NextCandidate

LEMMA RetryMoves == ASSUME TypeOK, Retry PROVE Retries
  <1>1. /\ job = NoJob /\ (CanResume \/ Retryable) /\ turn' \in {turn, NoTurn}
        /\ decisions' = decisions + (IF reason = "USER_DECISION_REQUIRED" /\ Retryable THEN 1 ELSE 0)
        /\ stage' = "REVIEW_RUNNING" /\ job' = [NoJob EXCEPT !.at = "begin"]
        /\ UNCHANGED <<iteration, evidence, passed, evidenceRounds, findings, requests, order, review, manifest>>
    BY DEF Retry, kept
  <1>2. JobIs("begin", None, None)
    BY <1>1, JobTyped DEF JobIs, Waits, Roles, Phases
  <1>3. job.at = None /\ stage \notin {"AWAITING_APPLY", "REWORK"} /\ NoVerdict
    BY <1>1 DEF NoJob, CanResume, Retryable, NoVerdict, Stages
  <1>4. \/ recovery'.status \notin {"READY", "RESUMING"}
        \/ recovery'.status = "RESUMING" /\ recovery.status = "READY" /\ recovery'.manifest = recovery.manifest
           /\ recovery'.from = recovery.from
    <2>1. CASE recovery = NoRecovery
      <3>1. recovery' = NoRecovery
        BY <2>1 DEF Retry
      <3> QED
        BY <3>1, Words DEF NoRecovery, Recoveries
    <2>2. CASE recovery # NoRecovery /\ CanResume
      <3>1. recovery' = [recovery EXCEPT !.status = "RESUMING"] /\ recovery.status = "READY"
        BY <2>2 DEF Retry, CanResume
      <3> QED
        BY <3>1 DEF TypeOK
    <2>3. CASE recovery # NoRecovery /\ ~CanResume
      <3>1. recovery' = [NoRecovery EXCEPT !.status = "CLOSED"]
        BY <2>3 DEF Retry
      <3> QED
        BY <3>1 DEF NoRecovery
    <2> QED
      BY <2>1, <2>2, <2>3
  <1>5. decisions' \in Nat /\ decisions' >= decisions
    BY <1>1 DEF TypeOK
  <1> QED
    BY <1>1, <1>2, <1>3, <1>4, <1>5 DEF Retries

LEMMA CrashMoves ==
  ASSUME TypeOK, Placed, Staged, Crash PROVE Crashes
  <1>1. JobOver /\ manifest' = None
        /\ UNCHANGED <<iteration, evidence, passed, evidenceRounds, decisions, findings, turn, order, review>>
    BY Bounds DEF Crash, JobOver, JobTypes, NoJob
  <1>2. CASE stage \in {"HOLD", "AWAITING_APPLY", "INCONCLUSIVE"}
    BY <1>1, <1>2 DEF Crash, Crashes
  <1>3. CASE stage \notin {"HOLD", "AWAITING_APPLY", "INCONCLUSIVE"}
    <2>1. stage' = "RECOVERY_REQUIRED" /\ NoVerdict /\ AnswerRecovered
      BY <1>3 DEF Crash, NoVerdict, Stages
    <2>2. CASE UNCHANGED <<recovery, requests>>
      BY <1>1, <2>1, <2>2 DEF Crashes
    <2>3. CASE recovery' = [NoRecovery EXCEPT !.status = "REFUSED"] /\ UNCHANGED requests
      BY <1>1, <2>1, <2>3 DEF Crashes, NoRecovery
    <2>4. CASE /\ turn.answer # NoAnswer /\ Recoverable(turn.role, turn.phase)
               /\ requests' = [requests EXCEPT ![turn.role][turn.phase].report = turn.answer.report]
               /\ recovery' = [status |-> "READY", manifest |-> Manifest,
                       from |-> {k \in Roles \X Phases : requests'[k[1]][k[2]].manifest = Manifest
                                                         /\ requests'[k[1]][k[2]].report # NoReport}]
      <3>1. /\ turn.role \in Roles /\ turn.phase \in Phases /\ turn.answer.kind = "REPORT"
            /\ turn.answer.report \in Opinions /\ ValidReport(turn.answer.report)
            /\ requests[turn.role][turn.phase].manifest = Manifest
        BY <2>4 DEF Placed, Recoverable
      <3>2. /\ requests' \in [Roles -> [Phases -> RequestTypes]]
            /\ \A r \in Roles, h \in Phases : requests'[r][h].manifest = requests[r][h].manifest
            /\ requests'[turn.role][turn.phase].report = turn.answer.report
            /\ \A r \in Roles, h \in Phases : r # turn.role \/ h # turn.phase => requests'[r][h] = requests[r][h]
        <4>1. ReportedBy(turn.role, turn.phase, turn.answer.report)
          BY <2>4 DEF ReportedBy
        <4> QED
          BY <3>1, <4>1, RequestReported DEF TypeOK
      <3>3. /\ recovery'.manifest = Manifest
            /\ \A k \in recovery'.from : /\ k \in Roles \X Phases /\ requests'[k[1]][k[2]].manifest = Manifest
                                         /\ requests'[k[1]][k[2]].report # NoReport
        BY <2>4
      <3> QED
        BY <1>1, <1>3, <2>1, <2>4, <3>1, <3>2, <3>3 DEF Crashes
    <2> QED
      BY <2>1, <2>2, <2>3, <2>4, Zenon DEF AnswerRecovered
  <1> QED
    BY <1>2, <1>3

LEMMA Moved ==
  ASSUME TypeOK, Placed, Restorable, Staged, Next PROVE Moves
  BY BeginMoves, AskMoves, RefuseMoves, HearMoves, UndeliveredMoves, RepairMoves, AcceptMoves, RestoreMoves,
     CountMoves, SupplyMoves, ConcludeMoves, RepairPlanMoves, ProposeMoves, AcceptPlanMoves, RejectMoves,
     CandidateMoves, RetryMoves, CrashMoves, Zenon DEF Next, Job, Moves

-----------------------------------------------------------------------------
(* What the moves preserve.                                                *)

\* Evidence grows in a round that was counted before
LEMMA SuppliedKept ==
  ASSUME TypeOK, Supplied, Moves PROVE Supplied'
  <1>a. evidence \in Nat /\ evidenceRounds \in Nat
    BY Bounds DEF TypeOK
  <1>1. CASE Begins
    BY <1>1, <1>a, Words
      DEF Begins, JobIs, Kept, Supplied, Deciding, Waits
  <1>2. CASE Asks
    BY <1>2, <1>a, Words
      DEF Asks, JobIs, NoVerdict, Kept, Supplied, Deciding, Waits
  <1>3. CASE Hears
    BY <1>3, <1>a, Words
      DEF Hears, JobIs, Kept, Supplied, Deciding, Waits
  <1>4. CASE Stops
    BY <1>4, <1>a, Words
      DEF Stops, JobOver, NoVerdict, Kept, Supplied, Deciding, Waits
  <1>5. CASE Repeats
    BY <1>5, <1>a, Words
      DEF Repeats, JobIs, Kept, Supplied, Deciding, Waits
  <1>6. CASE Accepts
    BY <1>6, <1>a, Words
      DEF Accepts, Advances, JobIs, Kept, Supplied, Deciding, Waits
  <1>7. CASE Restores
    BY <1>7, <1>a, Words
      DEF Restores, Advances, JobIs, Kept, Supplied, Deciding, Waits
  <1>8. CASE Counts
    BY <1>8, <1>a, Words
      DEF Counts, JobIs, NoVerdict, Kept, Supplied, Deciding, Waits
  <1>9. CASE Supplies
    BY <1>9, <1>a, Words
      DEF Supplies, JobIs, JobOver, NoVerdict, Supplied, Deciding, Waits
  <1>10. CASE Plans
    BY <1>10, <1>a, Words
      DEF Plans, Kept, Supplied, Deciding, Waits
  <1>11. CASE Decides
    BY <1>11, <1>a, Words
      DEF Decides, JobOver, NoVerdict, Supplied, Deciding, Waits
  <1>12. CASE Reworks
    BY <1>12, <1>a, Words
      DEF Reworks, JobOver, NoVerdict, Supplied, Deciding, Waits
  <1>13. CASE Retries
    BY <1>13, <1>a, Words
      DEF Retries, JobIs, NoVerdict, Supplied, Deciding, Waits
  <1>14. CASE Crashes
    BY <1>14, <1>a, Words
      DEF Crashes, JobOver, NoVerdict, Supplied, Deciding, Waits
  <1> QED BY <1>1, <1>2, <1>3, <1>4, <1>5, <1>6, <1>7, <1>8, <1>9, <1>10, <1>11, <1>12, <1>13, <1>14 DEF Moves

\* What the manifest names changes only where the job leaves the audit
LEMMA OnManifestKept ==
  ASSUME TypeOK, Placed, OnManifest, Moves PROVE OnManifest'
  <1>1. CASE Begins
    BY <1>1, Words
      DEF Begins, JobIs, Kept, OnManifest, Manifest, ManifestWith, Known, Asking, Deciding, Waits
  <1>2. CASE Asks
    BY <1>2, Words
      DEF Asks, JobIs, NoVerdict, Kept, OnManifest, Manifest, ManifestWith, Known, Asking, Deciding, Waits
  <1>3. CASE Hears
    BY <1>3, Words
      DEF Hears, JobIs, Kept, OnManifest, Manifest, ManifestWith, Known, Asking, Deciding, Waits
  <1>4. CASE Stops
    BY <1>4, Words
      DEF Stops, JobOver, NoVerdict, Kept, OnManifest, Manifest, ManifestWith, Known, Asking, Deciding, Waits
  <1>5. CASE Repeats
    BY <1>5, Words
      DEF Repeats, JobIs, Kept, OnManifest, Manifest, ManifestWith, Known, Asking, Deciding, Waits
  <1>6. CASE Accepts
    BY <1>6, Words
      DEF Accepts, Advances, JobIs, Kept, OnManifest, Manifest, ManifestWith, Known, Asking, Deciding, Waits
  <1>7. CASE Restores
    BY <1>7, Words
      DEF Restores, Advances, JobIs, Kept, OnManifest, Manifest, ManifestWith, Known, Asking, Deciding, Waits
  <1>8. CASE Counts
    BY <1>8, Words
      DEF Counts, JobIs, NoVerdict, Kept, OnManifest, Manifest, ManifestWith, Known, Asking, Deciding, Waits
  <1>9. CASE Supplies
    BY <1>9, Words
      DEF Supplies, JobIs, JobOver, NoVerdict, OnManifest, Manifest, ManifestWith, Known, Asking, Deciding,
          Waits
  <1>10. CASE Plans
    BY <1>10, Words
      DEF Plans, Kept, OnManifest, Manifest, ManifestWith, Known, Asking, Deciding, Waits
  <1>11. CASE Decides
    BY <1>11, Words
      DEF Decides, JobOver, NoVerdict, OnManifest, Manifest, ManifestWith, Known, Asking, Deciding, Waits
  <1>12. CASE Reworks
    BY <1>12, Words
      DEF Reworks, JobOver, NoVerdict, OnManifest, Manifest, ManifestWith, Known, Asking, Deciding, Waits
  <1>13. CASE Retries
    BY <1>13, Words
      DEF Retries, JobIs, NoVerdict, OnManifest, Manifest, ManifestWith, Known, Asking, Deciding, Waits
  <1>14. CASE Crashes
    BY <1>14, Words
      DEF Crashes, JobOver, NoVerdict, OnManifest, Manifest, ManifestWith, Known, Asking, Deciding, Waits
  <1> QED BY <1>1, <1>2, <1>3, <1>4, <1>5, <1>6, <1>7, <1>8, <1>9, <1>10, <1>11, <1>12, <1>13, <1>14 DEF Moves

\* The job and the question that is out agree
LEMMA PlacedKept ==
  ASSUME Placed, Moves PROVE Placed'
  <1>a. NoTurn.answer = NoAnswer /\ NoAnswer.kind # "REPORT"
    BY Words DEF NoTurn, NoAnswer, Kinds
  <1>1. CASE Begins
    BY <1>1, <1>a, Words
      DEF Begins, JobIs, Kept, Placed, Asking, Deciding, Waits, Roles, Phases
  <1>2. CASE Asks
    BY <1>2, <1>a, Words
      DEF Asks, JobIs, NoVerdict, Kept, Placed, Asking, Deciding, Waits
  <1>3. CASE Hears
    BY <1>3, <1>a, Words
      DEF Hears, JobIs, Kept, Placed, Asking, Deciding, Waits
  <1>4. CASE Stops
    BY <1>4, <1>a, Words
      DEF Stops, JobOver, NoVerdict, Kept, Placed, Asking, Deciding, Waits
  <1>5. CASE Repeats
    BY <1>5, <1>a, Words
      DEF Repeats, JobIs, Kept, Placed, Asking, Deciding, Waits
  <1>6. CASE Accepts
    BY <1>6, <1>a, Words
      DEF Accepts, Advances, JobIs, Kept, Placed, Asking, Deciding, Waits, Roles, Phases
  <1>7. CASE Restores
    BY <1>7, <1>a, Words
      DEF Restores, Advances, JobIs, Kept, Placed, Asking, Deciding, Waits, Roles, Phases
  <1>8. CASE Counts
    BY <1>8, <1>a, Words
      DEF Counts, JobIs, NoVerdict, Kept, Placed, Asking, Deciding, Waits
  <1>9. CASE Supplies
    BY <1>9, <1>a, Words
      DEF Supplies, JobIs, JobOver, NoVerdict, Placed, Asking, Deciding, Waits
  <1>10. CASE Plans
    BY <1>10, <1>a, Words
      DEF Plans, Kept, Placed, Asking, Deciding, Waits
  <1>11. CASE Decides
    BY <1>11, <1>a, Words
      DEF Decides, JobOver, NoVerdict, Placed, Asking, Deciding, Waits
  <1>12. CASE Reworks
    BY <1>12, <1>a, Words
      DEF Reworks, JobOver, NoVerdict, Placed, Asking, Deciding, Waits
  <1>13. CASE Retries
    BY <1>13, <1>a, Words
      DEF Retries, JobIs, NoVerdict, Placed, Asking, Deciding, Waits
  <1>14. CASE Crashes
    BY <1>14, <1>a, Words
      DEF Crashes, JobOver, NoVerdict, Placed, Asking, Deciding, Waits
  <1> QED BY <1>1, <1>2, <1>3, <1>4, <1>5, <1>6, <1>7, <1>8, <1>9, <1>10, <1>11, <1>12, <1>13, <1>14 DEF Moves

\* Reports are collected role by role, round by round
LEMMA CollectedKept ==
  ASSUME Placed, Restorable, Collected, Moves PROVE Collected'
  <1>1. CASE Begins
    BY <1>1, Words
      DEF Begins, JobIs, Kept, Collected, Has, Asking, Deciding, Waits, Placed, Roles
  <1>2. CASE Asks
    BY <1>2, Words
      DEF Asks, JobIs, NoVerdict, Kept, Collected, Has, Asking, Deciding, Waits, Placed, Roles
  <1>3. CASE Hears
    BY <1>3, Words
      DEF Hears, JobIs, Kept, Collected, Has, Asking, Deciding, Waits, Placed, Roles
  <1>4. CASE Stops
    BY <1>4, Words
      DEF Stops, JobOver, NoVerdict, Kept, Collected, Has, Asking, Deciding, Waits, Placed, Roles
  <1>5. CASE Repeats
    BY <1>5, Words
      DEF Repeats, JobIs, Kept, Collected, Has, Asking, Deciding, Waits, Placed, Roles
  <1>6. CASE Accepts
    BY <1>6, Words
      DEF Accepts, Advances, JobIs, Kept, Collected, Has, Asking, Deciding, Waits, Placed, Roles
  <1>7. CASE Restores
    BY <1>7, Words
      DEF Restores, Advances, JobIs, Kept, Collected, Has, Asking, Deciding, Waits, Placed, Roles, Restorable
  <1>8. CASE Counts
    BY <1>8, Words
      DEF Counts, JobIs, NoVerdict, Kept, Collected, Has, Asking, Deciding, Waits, Placed, Roles
  <1>9. CASE Supplies
    BY <1>9, Words
      DEF Supplies, JobIs, JobOver, NoVerdict, Collected, Has, Asking, Deciding, Waits, Placed, Roles
  <1>10. CASE Plans
    BY <1>10, Words
      DEF Plans, Kept, Collected, Has, Asking, Deciding, Waits, Placed, Roles
  <1>11. CASE Decides
    BY <1>11, Words
      DEF Decides, JobOver, NoVerdict, Collected, Has, Asking, Deciding, Waits, Placed, Roles
  <1>12. CASE Reworks
    BY <1>12, Words
      DEF Reworks, JobOver, NoVerdict, Collected, Has, Asking, Deciding, Waits, Placed, Roles
  <1>13. CASE Retries
    BY <1>13, Words
      DEF Retries, JobIs, NoVerdict, Collected, Has, Asking, Deciding, Waits, Placed, Roles
  <1>14. CASE Crashes
    BY <1>14, Words
      DEF Crashes, JobOver, NoVerdict, Collected, Has, Asking, Deciding, Waits, Placed, Roles
  <1> QED BY <1>1, <1>2, <1>3, <1>4, <1>5, <1>6, <1>7, <1>8, <1>9, <1>10, <1>11, <1>12, <1>13, <1>14 DEF Moves

\* A report is checked against the executions it cites, and those change only with the evidence
LEMMA ValidKept ==
  ASSUME TypeOK, Placed, OnManifest, Collected, Valid, Moves PROVE Valid'
  <1>a. /\ evidence \in Nat /\ NoReport \notin Opinions
        /\ Manifest \in Manifests /\ Manifest.evidence = evidence /\ (\A m \in Manifests : m.evidence \in Nat)
    BY Words, ManifestTyped DEF TypeOK, Manifest, ManifestWith, Manifests
  <1>1. CASE Begins
    BY <1>1, <1>a
      DEF Begins, JobIs, Kept, Valid, ValidReport
  <1>2. CASE Asks
    BY <1>2, <1>a
      DEF Asks, JobIs, NoVerdict, Kept, Valid, ValidReport
  <1>3. CASE Hears
    BY <1>3, <1>a
      DEF Hears, JobIs, Kept, Valid, ValidReport
  <1>4. CASE Stops
    BY <1>4, <1>a
      DEF Stops, JobOver, NoVerdict, Kept, Valid, ValidReport
  <1>5. CASE Repeats
    BY <1>5, <1>a
      DEF Repeats, JobIs, Kept, Valid, ValidReport
  <1>6. CASE Accepts
    BY <1>6, <1>a
      DEF Accepts, Advances, JobIs, Kept, Valid, ValidReport, Placed, OnManifest, Collected, Asking
  <1>7. CASE Restores
    BY <1>7, <1>a
      DEF Restores, Advances, JobIs, Kept, Valid, ValidReport
  <1>8. CASE Counts
    BY <1>8, <1>a
      DEF Counts, JobIs, NoVerdict, Kept, Valid, ValidReport
  <1>9. CASE Supplies
    <2> SUFFICES ASSUME NEW r \in Roles, NEW h \in Phases, requests'[r][h].report \in Opinions
                 PROVE  /\ requests'[r][h].manifest \in Manifests /\ requests'[r][h].manifest.evidence <= evidence'
                        /\ requests'[r][h].manifest.evidence = evidence' =>
                             \A q \in Checked : requests'[r][h].report.verdict[q] = "SATISFIED" => passed'
      BY DEF Valid, ValidReport
    <2>1. requests'[r][h] = requests[r][h]
      BY <1>9 DEF Supplies
    <2>2. /\ requests[r][h].manifest \in Manifests /\ requests[r][h].manifest.evidence <= evidence
          /\ requests[r][h].manifest.evidence = evidence => ValidReport(requests[r][h].report)
      BY <2>1 DEF Valid
    <2>3. requests[r][h].manifest.evidence \in Nat
      BY <1>a, <2>2
    <2>4. CASE evidence' = evidence /\ passed' = passed
      BY <2>1, <2>2, <2>4 DEF ValidReport
    <2>5. CASE evidence' = evidence + 1
      BY <1>a, <2>1, <2>2, <2>3, <2>5
    <2> QED
      BY <1>9, <2>4, <2>5 DEF Supplies
  <1>10. CASE Plans
    BY <1>10, <1>a
      DEF Plans, Kept, Valid, ValidReport
  <1>11. CASE Decides
    BY <1>11, <1>a
      DEF Decides, JobOver, NoVerdict, Valid, ValidReport
  <1>12. CASE Reworks
    BY <1>12, <1>a
      DEF Reworks, JobOver, NoVerdict, Valid, ValidReport, NoRequests, NoRequest
  <1>13. CASE Retries
    BY <1>13, <1>a
      DEF Retries, JobIs, NoVerdict, Valid, ValidReport
  <1>14. CASE Crashes
    <2> SUFFICES ASSUME NEW r \in Roles, NEW h \in Phases, requests'[r][h].report \in Opinions
                 PROVE  /\ requests'[r][h].manifest \in Manifests /\ requests'[r][h].manifest.evidence <= evidence
                        /\ requests'[r][h].manifest.evidence = evidence => ValidReport(requests'[r][h].report)
      BY <1>14 DEF Valid, ValidReport, Crashes
    <2>1. CASE requests' = requests
      BY <2>1 DEF Valid
    <2>2. CASE /\ ValidReport(turn.answer.report) /\ turn.role \in Roles /\ turn.phase \in Phases
               /\ requests[turn.role][turn.phase].manifest = Manifest
               /\ \A x \in Roles, y \in Phases : requests'[x][y].manifest = requests[x][y].manifest
               /\ requests'[turn.role][turn.phase].report = turn.answer.report
               /\ \A x \in Roles, y \in Phases : x # turn.role \/ y # turn.phase => requests'[x][y] = requests[x][y]
      <3>1. CASE r = turn.role /\ h = turn.phase
        BY <1>a, <2>2, <3>1
      <3>2. CASE r # turn.role \/ h # turn.phase
        BY <2>2, <3>2 DEF Valid
      <3> QED
        BY <3>1, <3>2
    <2> QED
      BY <1>14, <2>1, <2>2, Zenon DEF Crashes, Placed
  <1> QED BY <1>1, <1>2, <1>3, <1>4, <1>5, <1>6, <1>7, <1>8, <1>9, <1>10, <1>11, <1>12, <1>13, <1>14 DEF Moves

\* What was recovered is neither asked again nor forgotten
LEMMA RestorableKept ==
  ASSUME TypeOK, Placed, Restorable, Moves PROVE Restorable'
  <1>a. /\ recovery.from \subseteq Roles \X Phases
        /\ \A k \in Roles \X Phases : k[1] \in Roles /\ k[2] \in Phases /\ k = <<k[1], k[2]>>
    BY DEF TypeOK
  <1>1. CASE Begins
    BY <1>1, <1>a, Words
      DEF Begins, JobIs, Kept, Restorable, Asking, Deciding, Waits
  <1>2. CASE Asks
    BY <1>2, <1>a, Words
      DEF Asks, JobIs, NoVerdict, Kept, Restorable, Asking, Deciding, Waits, Placed
  <1>3. CASE Hears
    <2>1. recovery' = recovery /\ (recovery.status = "READY" => job'.at = None) /\ (recovery.status = "RESUMING" => job'.at # "working")
      BY <1>3, Words DEF Hears, JobIs, Kept, Restorable, Waits
    <2>2. ASSUME recovery.status \in {"READY", "RESUMING"}, NEW k \in recovery.from
          PROVE  requests'[k[1]][k[2]].manifest = recovery.manifest /\ requests'[k[1]][k[2]].report \in Opinions
      <3>1. requests[k[1]][k[2]].manifest = recovery.manifest /\ requests[k[1]][k[2]].report \in Opinions
        BY <2>2 DEF Restorable
      <3>2. k[1] \in Roles /\ k[2] \in Phases
        BY <1>a
      <3> QED
        BY <1>3, <3>1, <3>2 DEF Hears
    <2> QED
      BY <2>1, <2>2 DEF Restorable
  <1>4. CASE Stops
    BY <1>4, <1>a, Words
      DEF Stops, JobOver, NoVerdict, Kept, Restorable, Asking, Deciding, Waits
  <1>5. CASE Repeats
    BY <1>5, <1>a, Words
      DEF Repeats, JobIs, Kept, Restorable, Asking, Deciding, Waits
  <1>6. CASE Accepts
    <2>1. recovery' = recovery /\ (recovery.status = "READY" => job'.at = None) /\ (recovery.status = "RESUMING" => job'.at # "working")
      BY <1>6, Words DEF Accepts, Advances, JobIs, Kept, Restorable, Waits
    <2>2. ASSUME recovery.status \in {"READY", "RESUMING"}, NEW k \in recovery.from
          PROVE  requests'[k[1]][k[2]].manifest = recovery.manifest /\ requests'[k[1]][k[2]].report \in Opinions
      <3>1. requests[k[1]][k[2]].manifest = recovery.manifest /\ requests[k[1]][k[2]].report \in Opinions
        BY <2>2 DEF Restorable
      <3>2. k[1] \in Roles /\ k[2] \in Phases
        BY <1>a
      <3> QED
        BY <1>6, <3>1, <3>2 DEF Accepts, Placed
    <2> QED
      BY <2>1, <2>2 DEF Restorable
  <1>7. CASE Restores
    BY <1>7, <1>a, Words
      DEF Restores, Advances, JobIs, Kept, Restorable, Asking, Deciding, Waits
  <1>8. CASE Counts
    BY <1>8, <1>a, Words
      DEF Counts, JobIs, NoVerdict, Kept, Restorable, Asking, Deciding, Waits
  <1>9. CASE Supplies
    BY <1>9, <1>a, Words
      DEF Supplies, JobIs, JobOver, NoVerdict, Restorable, Asking, Deciding, Waits
  <1>10. CASE Plans
    BY <1>10, <1>a, Words
      DEF Plans, Kept, Restorable, Asking, Deciding, Waits
  <1>11. CASE Decides
    BY <1>11, <1>a, Words
      DEF Decides, JobOver, NoVerdict, Restorable, Asking, Deciding, Waits
  <1>12. CASE Reworks
    BY <1>12, <1>a, Words
      DEF Reworks, JobOver, NoVerdict, Restorable, Asking, Deciding, Waits
  <1>13. CASE Retries
    BY <1>13, <1>a, Words
      DEF Retries, JobIs, NoVerdict, Restorable, Asking, Deciding, Waits
  <1>14. CASE Crashes
    <2>1. job'.at = None /\ None # "working"
      BY <1>14, Words DEF Crashes, JobOver, Waits
    <2>2. CASE UNCHANGED <<requests, recovery>>
      BY <2>1, <2>2 DEF Restorable
    <2>3. CASE recovery'.status = "REFUSED"
      BY <2>1, <2>3 DEF Restorable
    <2>4. CASE /\ requests' \in [Roles -> [Phases -> RequestTypes]] /\ recovery'.manifest = Manifest
               /\ \A k \in recovery'.from : /\ k \in Roles \X Phases /\ requests'[k[1]][k[2]].manifest = Manifest
                                            /\ requests'[k[1]][k[2]].report # NoReport
      <3>1. \A r \in Roles, h \in Phases : requests'[r][h].report \in Opinions \cup {NoReport}
        BY <2>4 DEF RequestTypes, Reported
      <3>2. ASSUME NEW k \in recovery'.from
            PROVE  requests'[k[1]][k[2]].manifest = recovery'.manifest /\ requests'[k[1]][k[2]].report \in Opinions
        <4>1. k[1] \in Roles /\ k[2] \in Phases
          BY <1>a, <2>4
        <4> QED
          BY <2>4, <3>1, <4>1
      <3> QED
        BY <2>1, <3>2 DEF Restorable
    <2> QED
      BY <1>14, <2>2, <2>3, <2>4, Zenon DEF Crashes
  <1> QED BY <1>1, <1>2, <1>3, <1>4, <1>5, <1>6, <1>7, <1>8, <1>9, <1>10, <1>11, <1>12, <1>13, <1>14 DEF Moves

\* A verdict ends the job or hands it to the worker
LEMMA StagedKept ==
  ASSUME Staged, Moves PROVE Staged'
  <1>1. CASE Begins
    BY <1>1, Words
      DEF Begins, JobIs, Kept, Staged, Waits, Deciding
  <1>2. CASE Asks
    BY <1>2, Words
      DEF Asks, JobIs, NoVerdict, Kept, Staged, Waits, Deciding
  <1>3. CASE Hears
    BY <1>3, Words
      DEF Hears, JobIs, Kept, Staged, Waits, Deciding
  <1>4. CASE Stops
    BY <1>4, Words
      DEF Stops, JobOver, NoVerdict, Kept, Staged, Waits, Deciding
  <1>5. CASE Repeats
    BY <1>5, Words
      DEF Repeats, JobIs, Kept, Staged, Waits, Deciding
  <1>6. CASE Accepts
    BY <1>6, Words
      DEF Accepts, Advances, JobIs, Kept, Staged, Waits, Deciding
  <1>7. CASE Restores
    BY <1>7, Words
      DEF Restores, Advances, JobIs, Kept, Staged, Waits, Deciding
  <1>8. CASE Counts
    BY <1>8, Words
      DEF Counts, JobIs, NoVerdict, Kept, Staged, Waits, Deciding
  <1>9. CASE Supplies
    BY <1>9, Words
      DEF Supplies, JobIs, JobOver, NoVerdict, Staged, Waits, Deciding
  <1>10. CASE Plans
    BY <1>10, Words
      DEF Plans, Kept, Staged, Waits, Deciding
  <1>11. CASE Decides
    BY <1>11, Words
      DEF Decides, JobOver, NoVerdict, Staged, Waits, Deciding
  <1>12. CASE Reworks
    BY <1>12, Words
      DEF Reworks, JobOver, NoVerdict, Staged, Waits, Deciding
  <1>13. CASE Retries
    BY <1>13, Words
      DEF Retries, JobIs, NoVerdict, Staged, Waits, Deciding
  <1>14. CASE Crashes
    BY <1>14, Words
      DEF Crashes, JobOver, NoVerdict, Staged, Waits, Deciding
  <1> QED BY <1>1, <1>2, <1>3, <1>4, <1>5, <1>6, <1>7, <1>8, <1>9, <1>10, <1>11, <1>12, <1>13, <1>14 DEF Moves

\* A rework starts in the step that saves its order
LEMMA WorkOrderKept ==
  ASSUME Staged, WorkOrderCoversFindings, Moves PROVE WorkOrderCoversFindings'
  <1>1. CASE Begins
    BY <1>1, Words
      DEF Begins, JobIs, Kept, WorkOrderCoversFindings, Unresolved, Staged, Waits
  <1>2. CASE Asks
    BY <1>2, Words
      DEF Asks, JobIs, NoVerdict, Kept, WorkOrderCoversFindings, Unresolved, Staged, Waits
  <1>3. CASE Hears
    BY <1>3, Words
      DEF Hears, JobIs, Kept, WorkOrderCoversFindings, Unresolved, Staged, Waits
  <1>4. CASE Stops
    BY <1>4, Words
      DEF Stops, JobOver, NoVerdict, Kept, WorkOrderCoversFindings, Unresolved, Staged, Waits
  <1>5. CASE Repeats
    BY <1>5, Words
      DEF Repeats, JobIs, Kept, WorkOrderCoversFindings, Unresolved, Staged, Waits
  <1>6. CASE Accepts
    BY <1>6, Words
      DEF Accepts, Advances, JobIs, Kept, WorkOrderCoversFindings, Unresolved, Staged, Waits
  <1>7. CASE Restores
    BY <1>7, Words
      DEF Restores, Advances, JobIs, Kept, WorkOrderCoversFindings, Unresolved, Staged, Waits
  <1>8. CASE Counts
    BY <1>8, Words
      DEF Counts, JobIs, NoVerdict, Kept, WorkOrderCoversFindings, Unresolved, Staged, Waits
  <1>9. CASE Supplies
    BY <1>9, Words
      DEF Supplies, JobIs, JobOver, NoVerdict, WorkOrderCoversFindings, Unresolved, Staged, Waits
  <1>10. CASE Plans
    BY <1>10, Words
      DEF Plans, Kept, WorkOrderCoversFindings, Unresolved, Staged, Waits
  <1>11. CASE Decides
    BY <1>11, Words
      DEF Decides, JobOver, NoVerdict, WorkOrderCoversFindings, Unresolved, Staged, Waits
  <1>12. CASE Reworks
    BY <1>12, Words
      DEF Reworks, JobOver, NoVerdict, WorkOrderCoversFindings, Unresolved, Staged, Waits
  <1>13. CASE Retries
    BY <1>13, Words
      DEF Retries, JobIs, NoVerdict, WorkOrderCoversFindings, Unresolved, Staged, Waits
  <1>14. CASE Crashes
    BY <1>14, Words
      DEF Crashes, JobOver, NoVerdict, WorkOrderCoversFindings, Unresolved, Staged, Waits
  <1> QED BY <1>1, <1>2, <1>3, <1>4, <1>5, <1>6, <1>7, <1>8, <1>9, <1>10, <1>11, <1>12, <1>13, <1>14 DEF Moves

\* What a decision to apply rests on
LEMMA PassIsJust ==
  ASSUME TypeOK, NEW reports, reports # {}, reports \subseteq Opinions, EvaluateCodeReview(reports) = "PASS"
  PROVE  /\ \A report \in reports, r \in Required : report.verdict[r] = "SATISFIED"
         /\ \A p \in Problems : Findings(reports)[p].required => \A report \in reports : report.stance[p] = "RESOLVED"
         /\ \A p \in Unresolved(Findings(reports)) : ~Findings(reports)[p].required
  <1>1. /\ "UNSATISFIED" \notin {Aggregate(reports)[r] : r \in Required}
        /\ "UNDETERMINED" \notin {Aggregate(reports)[r] : r \in Required}
        /\ \A p \in Unresolved(Findings(reports)) : ~Findings(reports)[p].required
    BY Zenon DEF EvaluateCodeReview
  <1>2. ASSUME NEW report \in reports, NEW r \in Required PROVE report.verdict[r] = "SATISFIED"
    <2>1. r \in Requirements /\ report.verdict[r] \in Verdicts
      BY AuditAssumption
    <2>2. Aggregate(reports)[r] = StrongestVerdict({q.verdict[r] : q \in reports})
      BY <2>1 DEF Aggregate
    <2>3. report.verdict[r] \in {q.verdict[r] : q \in reports}
      OBVIOUS
    <2>4. StrongestVerdict({q.verdict[r] : q \in reports}) \notin {"UNSATISFIED", "UNDETERMINED"}
      BY <1>1, <2>2
    <2>5. report.verdict[r] \notin {"UNSATISFIED", "UNDETERMINED"}
      BY <2>3, <2>4 DEF StrongestVerdict
    <2> QED
      BY <2>1, <2>5 DEF Verdicts
  <1>3. ASSUME NEW p \in Problems, Findings(reports)[p].required
        PROVE  \A report \in reports : report.stance[p] = "RESOLVED"
    <2>1. p \notin Unresolved(Findings(reports))
      BY <1>1, <1>3
    <2>2. Findings(reports)[p].status \notin {"OPEN", "FIX_SUBMITTED"}
      BY <2>1 DEF Unresolved
    <2>3. CASE p \in Known
      <3>1. Findings(reports)[p].status = IF Resolved(reports, p) THEN "RESOLVED" ELSE "OPEN"
        BY <2>3 DEF Findings
      <3> QED
        BY <2>2, <3>1 DEF Resolved
    <2>4. CASE p \notin Known
      <3>1. Findings(reports)[p] = NoFinding \/ Findings(reports)[p].status = "OPEN"
        BY <2>4 DEF Findings
      <3> QED
        BY <1>3, <2>2, <3>1 DEF NoFinding
    <2> QED
      BY <2>3, <2>4
  <1> QED
    BY <1>1, <1>2, <1>3

LEMMA FinalTyped ==
  ASSUME NEW phase \in Phases, \A role \in Roles : Has(role, phase)
  PROVE  /\ FinalReports(phase) # {} /\ FinalReports(phase) \subseteq Opinions
         /\ \A role \in Roles : requests[role][phase].report \in FinalReports(phase)
  BY DEF FinalReports, Has, Roles

\* What was accepted stays as it was
LEMMA AcceptedKept ==
  ASSUME TypeOK, Placed, OnManifest, Collected, Valid, Staged, AcceptedByBoth, Moves PROVE AcceptedByBoth'
  <1>1. CASE Begins
    BY <1>1, Words
      DEF Begins, JobIs, Kept, AcceptedByBoth, Approves, Unresolved, Staged, Waits
  <1>2. CASE Asks
    BY <1>2, Words
      DEF Asks, JobIs, NoVerdict, Kept, AcceptedByBoth, Approves, Unresolved, Staged, Waits
  <1>3. CASE Hears
    BY <1>3, Words
      DEF Hears, JobIs, Kept, AcceptedByBoth, Approves, Unresolved, Staged, Waits
  <1>4. CASE Stops
    BY <1>4, Words
      DEF Stops, JobOver, NoVerdict, Kept, AcceptedByBoth, Approves, Unresolved, Staged, Waits
  <1>5. CASE Repeats
    BY <1>5, Words
      DEF Repeats, JobIs, Kept, AcceptedByBoth, Approves, Unresolved, Staged, Waits
  <1>6. CASE Accepts
    BY <1>6, Words
      DEF Accepts, Advances, JobIs, Kept, AcceptedByBoth, Approves, Unresolved, Staged, Waits
  <1>7. CASE Restores
    BY <1>7, Words
      DEF Restores, Advances, JobIs, Kept, AcceptedByBoth, Approves, Unresolved, Staged, Waits
  <1>8. CASE Counts
    BY <1>8, Words
      DEF Counts, JobIs, NoVerdict, Kept, AcceptedByBoth, Approves, Unresolved, Staged, Waits
  <1>9. CASE Supplies
    BY <1>9, Words
      DEF Supplies, JobIs, JobOver, NoVerdict, AcceptedByBoth, Approves, Unresolved, Staged, Waits
  <1>10. CASE Plans
    BY <1>10, Words
      DEF Plans, Kept, AcceptedByBoth, Approves, Unresolved, Staged, Waits
  <1>11. CASE Decides
    <2> SUFFICES ASSUME stage' = "AWAITING_APPLY" PROVE AcceptedByBoth'
      BY DEF AcceptedByBoth
    <2>0. PICK phase \in Phases : phase = job.phase /\ job.at \in Deciding
      BY <1>11 DEF Decides, Placed
    <2> DEFINE reports == FinalReports(phase)
    <2>1. /\ EvaluateCodeReview(reports) = "PASS" /\ findings' = Findings(reports)
          /\ review' = [decision |-> EvaluateCodeReview(reports), iteration |-> iteration, manifest |-> manifest]
          /\ UNCHANGED <<iteration, evidence, passed, decisions, requests>>
      BY <1>11, <2>0 DEF Decides, NoVerdict
    <2>2. manifest = Manifest /\ \A role \in Roles : Has(role, phase)
      BY <2>0 DEF OnManifest, Collected
    <2>3. reports # {} /\ reports \subseteq Opinions /\ \A role \in Roles : requests[role][phase].report \in reports
      BY <2>2, FinalTyped
    <2>4. /\ \A report \in reports, r \in Required : report.verdict[r] = "SATISFIED"
          /\ \A p \in Problems : Findings(reports)[p].required => \A report \in reports : report.stance[p] = "RESOLVED"
          /\ \A p \in Unresolved(Findings(reports)) : ~Findings(reports)[p].required
      BY <2>1, <2>3, PassIsJust
    <2> HIDE DEF reports
    <2>5. ASSUME NEW role \in Roles PROVE Approves(role, phase)'
      <3>1. requests'[role][phase].manifest = review'.manifest
        BY <2>1, <2>2 DEF Has
      <3>2. \A r \in Required : requests'[role][phase].report.verdict[r] = "SATISFIED"
        BY <2>1, <2>3, <2>4
      <3>3. \A p \in Problems : findings'[p].required => requests'[role][phase].report.stance[p] = "RESOLVED"
        BY <2>1, <2>3, <2>4
      <3> QED
        BY <3>1, <3>2, <3>3 DEF Approves
    <2>6. review'.manifest.iteration = iteration' /\ review'.manifest.evidence = evidence'
          /\ review'.manifest.decisions = decisions'
      BY <2>1, <2>2 DEF Manifest, ManifestWith
    <2>7. \A p \in Unresolved(findings') : ~findings'[p].required
      BY <2>1, <2>4
    <2>8. Checked \cap Required # {} => passed'
      <3> SUFFICES ASSUME NEW q \in Checked \cap Required PROVE passed
        BY <2>1
      <3> DEFINE report == requests["JUDGE"][phase].report
      <3>1. "JUDGE" \in Roles /\ requests["JUDGE"][phase].manifest.evidence = evidence /\ report \in Opinions
        BY <2>2 DEF Has, Roles, Manifest, ManifestWith
      <3>2. ValidReport(report)
        BY <2>2, <3>1 DEF Valid
      <3>3. report.verdict[q] = "SATISFIED"
        BY <2>3, <2>4, <3>1
      <3> QED
        BY <3>2, <3>3 DEF ValidReport
    <2> QED
      BY <2>5, <2>6, <2>7, <2>8, Zenon DEF AcceptedByBoth, Unresolved
  <1>12. CASE Reworks
    BY <1>12, Words
      DEF Reworks, JobOver, NoVerdict, AcceptedByBoth, Approves, Unresolved, Staged, Waits
  <1>13. CASE Retries
    BY <1>13, Words
      DEF Retries, JobIs, NoVerdict, AcceptedByBoth, Approves, Unresolved, Staged, Waits
  <1>14. CASE Crashes
    BY <1>14, Words
      DEF Crashes, JobOver, NoVerdict, AcceptedByBoth, Approves, Unresolved, Staged, Waits
  <1> QED BY <1>1, <1>2, <1>3, <1>4, <1>5, <1>6, <1>7, <1>8, <1>9, <1>10, <1>11, <1>12, <1>13, <1>14 DEF Moves

\* What ResolvedTogether says of one step
Together ==
    \A p \in Known :
        /\ findings'[p] # NoFinding
        /\ findings[p].required => findings'[p].required
        /\ findings[p].status # "RESOLVED" /\ findings'[p].status = "RESOLVED" =>
            \E phase \in Phases : \A role \in Roles :
                /\ requests[role][phase].manifest = manifest
                /\ requests[role][phase].report.stance[p] = "RESOLVED"

\* Findings change in a verdict and in a rework
LEMMA StepTogether ==
  ASSUME TypeOK, Placed, Collected, Moves PROVE Together
  <1>1. CASE findings' = findings
    BY <1>1, Zenon DEF Together, Known
  <1>2. CASE Decides
    <2>1. PICK phase \in Phases : phase = job.phase /\ job.at \in Deciding
      BY <1>2 DEF Decides, Placed
    <2> DEFINE reports == FinalReports(phase)
    <2>2. findings' = Findings(reports)
      BY <1>2, <2>1 DEF Decides
    <2>3. \A role \in Roles : Has(role, phase)
      BY <2>1 DEF Collected
    <2>4. \A role \in Roles : requests[role][phase].report \in reports
      BY <2>3, FinalTyped
    <2> HIDE DEF reports
    <2>5. ASSUME NEW p \in Known
          PROVE  /\ findings'[p] # NoFinding /\ (findings[p].required => findings'[p].required)
                 /\ findings'[p].status = "RESOLVED" => \A report \in reports : report.stance[p] = "RESOLVED"
      <3>1. findings'[p] = [status |-> IF Resolved(reports, p) THEN "RESOLVED" ELSE "OPEN",
                            required |-> findings[p].required \/ About[p] \in Required]
        BY <2>2 DEF Findings, Known
      <3>2. findings'[p].status = (IF Resolved(reports, p) THEN "RESOLVED" ELSE "OPEN")
            /\ findings'[p].required = (findings[p].required \/ About[p] \in Required)
        BY <3>1
      <3>3. NoFinding.status = None /\ None # "RESOLVED" /\ None # "OPEN"
        BY Words DEF NoFinding, Statuses
      <3> QED
        BY <3>2, <3>3 DEF Resolved
    <2> QED
      BY <2>3, <2>4, <2>5, Zenon DEF Together, Has
  <1>3. CASE findings' = [p \in Problems |->
                            IF p \in Unresolved(findings)
                            THEN [findings[p] EXCEPT !.status = "FIX_SUBMITTED"] ELSE findings[p]]
    <2>1. ASSUME NEW p \in Known
          PROVE  /\ findings'[p] # NoFinding /\ (findings[p].required => findings'[p].required)
                 /\ findings'[p].status = "RESOLVED" => findings[p].status = "RESOLVED"
      <3>1. p \in Problems /\ findings[p] # NoFinding /\ findings[p] \in [status : {None} \cup Statuses, required : BOOLEAN]
        BY DEF Known, TypeOK
      <3>2. CASE p \in Unresolved(findings)
        <4>1. findings'[p] = [findings[p] EXCEPT !.status = "FIX_SUBMITTED"]
          BY <1>3, <3>1, <3>2
        <4>2. findings'[p].status = "FIX_SUBMITTED" /\ findings'[p].required = findings[p].required
          BY <3>1, <4>1
        <4> QED
          BY <4>2, Words DEF NoFinding, Statuses
      <3>3. CASE p \notin Unresolved(findings)
        BY <1>3, <3>1, <3>3
      <3> QED
        BY <3>2, <3>3
    <2> QED
      BY <2>1, Zenon DEF Together
  <1> QED
    BY <1>1, <1>2, <1>3 DEF Moves, Begins, Asks, Hears, Stops, Repeats, Accepts, Restores, Counts, Supplies, Plans,
       Reworks, Retries, Crashes, Kept

-----------------------------------------------------------------------------
(* Types.                                                                  *)

\* What the moves assign
LEMMA MovesTyped ==
  ASSUME TypeOK, Placed, Staged, Moves PROVE /\ stage' \in Stages /\ iteration' \in 1 .. MaxIterations /\ evidence' \in Nat /\ passed' \in BOOLEAN
         /\ evidenceRounds' \in 0 .. MaxEvidenceRounds
         /\ requests' \in [Roles -> [Phases -> RequestTypes]] /\ turn' \in TurnTypes
         /\ job' \in JobTypes /\ manifest' \in Manifested

  <1>a. /\ stage \in Stages /\ iteration \in 1 .. MaxIterations /\ evidence \in Nat /\ passed \in BOOLEAN
        /\ evidenceRounds \in 0 .. MaxEvidenceRounds
        /\ requests \in [Roles -> [Phases -> RequestTypes]] /\ turn \in TurnTypes
        /\ job \in JobTypes /\ manifest \in Manifested
    BY DEF TypeOK
  <1>b. NoTurn \in TurnTypes /\ NoRequests \in [Roles -> [Phases -> RequestTypes]]
    BY DEF NoTurn, NoAnswer, TurnTypes, AnswerTypes, NoRequests, NoRequest, RequestTypes, Manifested, Reported
  <1>c. Manifest \in Manifested /\ None \in Manifested
    BY <1>a, ManifestTyped DEF Manifest, Manifested
  <1>1. CASE Begins
    BY <1>1, <1>a, Bounds, <1>c
      DEF Begins, JobIs, Kept
  <1>2. CASE Asks
    BY <1>2, <1>a, Bounds
      DEF Asks, JobIs, NoVerdict, Kept
  <1>3. CASE Hears
    BY <1>3, <1>a, Bounds
      DEF Hears, JobIs, Kept
  <1>4. CASE Stops
    BY <1>4, <1>a, Bounds, <1>c
      DEF Stops, JobOver, NoVerdict, Kept
  <1>5. CASE Repeats
    BY <1>5, <1>a, Bounds
      DEF Repeats, JobIs, Kept
  <1>6. CASE Accepts
    BY <1>6, <1>a, Bounds
      DEF Accepts, Advances, JobIs, Kept
  <1>7. CASE Restores
    BY <1>7, <1>a, Bounds
      DEF Restores, Advances, JobIs, Kept
  <1>8. CASE Counts
    BY <1>8, <1>a, Bounds
      DEF Counts, JobIs, NoVerdict, Kept
  <1>9. CASE Supplies
    BY <1>9, <1>a, Bounds, <1>c
      DEF Supplies, JobIs, JobOver, NoVerdict
  <1>10. CASE Plans
    BY <1>10, <1>a, Bounds
      DEF Plans, Kept
  <1>11. CASE Decides
    BY <1>11, <1>a, Bounds, <1>c
      DEF Decides, JobOver, NoVerdict, Stages
  <1>12. CASE Reworks
    BY <1>12, <1>a, Bounds, <1>b, <1>c
      DEF Reworks, JobOver, NoVerdict, Staged
  <1>13. CASE Retries
    BY <1>13, <1>a, Bounds, <1>b
      DEF Retries, JobIs, NoVerdict
  <1>14. CASE Crashes
    BY <1>14, <1>a, Bounds, <1>c
      DEF Crashes, JobOver, NoVerdict
  <1> QED BY <1>1, <1>2, <1>3, <1>4, <1>5, <1>6, <1>7, <1>8, <1>9, <1>10, <1>11, <1>12, <1>13, <1>14 DEF Moves

\* The findings of a verdict and of a rework
LEMMA FindingsTyped ==
  ASSUME TypeOK, Moves PROVE findings' \in [Problems -> [status : {None} \cup Statuses, required : BOOLEAN]]
  <1>1. CASE findings' = findings
    BY <1>1 DEF TypeOK
  <1>2. ASSUME NEW reports, findings' = Findings(reports)
        PROVE  findings' \in [Problems -> [status : {None} \cup Statuses, required : BOOLEAN]]
    <2>1. \A p \in Problems : Findings(reports)[p] \in [status : {None} \cup Statuses, required : BOOLEAN]
      <3> TAKE p \in Problems
      <3>1. \A s \in {"RESOLVED", "OPEN"}, b \in BOOLEAN :
              [status |-> s, required |-> b] \in [status : {None} \cup Statuses, required : BOOLEAN]
        BY DEF Statuses
      <3>2. NoFinding \in [status : {None} \cup Statuses, required : BOOLEAN]
        BY DEF NoFinding
      <3>3. CASE p \in Known
        <4>1. Findings(reports)[p] = [status |-> IF Resolved(reports, p) THEN "RESOLVED" ELSE "OPEN",
                                      required |-> findings[p].required \/ About[p] \in Required]
          BY <3>3 DEF Findings
        <4>2. (findings[p].required \/ About[p] \in Required) \in BOOLEAN
          BY Zenon
        <4> QED
          BY <3>1, <4>1, <4>2
      <3>4. CASE p \notin Known
        <4>1. \/ Findings(reports)[p] = NoFinding
              \/ Findings(reports)[p] = [status |-> "OPEN",
                      required |-> About[p] \in Required \/ \E report \in reports :
                                report.stance[p] = "OPEN" /\ report.flag = "REQUIRED"]
          BY <3>4 DEF Findings
        <4>2. (About[p] \in Required \/ \E report \in reports :
                                report.stance[p] = "OPEN" /\ report.flag = "REQUIRED") \in BOOLEAN
          BY Zenon
        <4> QED
          BY <3>1, <3>2, <4>1, <4>2
      <3> QED
        BY <3>3, <3>4
    <2>2. Findings(reports) = [p \in Problems |-> Findings(reports)[p]]
      BY DEF Findings
    <2> QED
      BY <1>2, <2>1, <2>2
  <1>3. ASSUME findings' = [p \in Problems |->
                              IF p \in Unresolved(findings)
                              THEN [findings[p] EXCEPT !.status = "FIX_SUBMITTED"] ELSE findings[p]]
        PROVE  findings' \in [Problems -> [status : {None} \cup Statuses, required : BOOLEAN]]
    <2>1. \A p \in Problems : findings[p] \in [status : {None} \cup Statuses, required : BOOLEAN]
      BY DEF TypeOK
    <2>2. "FIX_SUBMITTED" \in Statuses
      BY DEF Statuses
    <2> QED
      BY <1>3, <2>1, <2>2
  <1> QED
    BY <1>1, <1>2, <1>3 DEF Moves, Begins, Asks, Hears, Stops, Repeats, Accepts, Restores, Counts, Supplies, Plans,
       Decides, Reworks, Retries, Crashes, Kept

\* Where the record says the audit is
Whereabouts == [role : Roles \cup {None}, phase : Phases \cup {None, "PLAN_REVIEW"}]
\* What the record says of the audit
LEMMA NoticesTyped ==
  ASSUME TypeOK, Placed, Next
  PROVE  reason' \in Reasons \cup {None} /\ coordination' \in Whereabouts /\ shown' \subseteq Roles
  <1>a. /\ reason \in Reasons \cup {None} /\ coordination \in Whereabouts /\ shown \subseteq Roles
    BY DEF TypeOK, Whereabouts
  <1>b. /\ Nowhere \in Whereabouts /\ [role |-> "CRITIC", phase |-> "PLAN_REVIEW"] \in Whereabouts
        /\ \A r \in Roles, h \in Phases : [role |-> r, phase |-> h] \in Whereabouts
    BY DEF Whereabouts, Nowhere, Roles
  <1>1. CASE BeginAudit
    BY <1>1, <1>a, <1>b
      DEF BeginAudit, Reasons, kept
  <1>2. CASE ReviewRole
    BY <1>2, <1>a, <1>b
      DEF ReviewRole, Reasons, kept, Placed, Asking
  <1>3. CASE RefusesRecovered
    BY <1>3, <1>a, <1>b
      DEF RefusesRecovered, Fails, Reasons, kept
  <1>4. CASE RestoreReport
    BY <1>4, <1>a, <1>b
      DEF RestoreReport, Goes, Reasons, kept
  <1>5. CASE ReviewerAnswers
    BY <1>5, <1>a, <1>b
      DEF ReviewerAnswers, Answer, Reasons, kept
  <1>6. CASE Undelivered
    BY <1>6, <1>a, <1>b
      DEF Undelivered, Holds, Fails, Reasons, kept
  <1>7. CASE RepairReport
    BY <1>7, <1>a, <1>b
      DEF RepairReport, Goes, Holds, Reasons, kept
  <1>8. CASE AcceptReport
    BY <1>8, <1>a, <1>b
      DEF AcceptReport, Goes, Reasons, kept
  <1>9. CASE SupplementBegins
    BY <1>9, <1>a, <1>b
      DEF SupplementBegins, Holds, Reasons, kept
  <1>10. CASE Supplement
    BY <1>10, <1>a, <1>b
      DEF Supplement, Holds, Fails, Reasons, kept
  <1>11. CASE Conclude
    BY <1>11, <1>a, <1>b
      DEF Conclude, Goes, SaveVerdict, Reasons, kept
  <1>12. CASE RepairPlan
    BY <1>12, <1>a, <1>b
      DEF RepairPlan, Goes, Holds, Reasons, kept
  <1>13. CASE Propose
    BY <1>13, <1>a, <1>b
      DEF Propose, Reasons, kept
  <1>14. CASE AcceptPlan
    BY <1>14, <1>a, <1>b
      DEF AcceptPlan, SaveVerdict, Reasons, kept
  <1>15. CASE RejectPlan
    BY <1>15, <1>a, <1>b
      DEF RejectPlan, Goes, Holds, Reasons, kept
  <1>16. CASE NextCandidate
    BY <1>16, <1>a, <1>b
      DEF NextCandidate, Fails, Reasons, kept
  <1>17. CASE Retry
    BY <1>17, <1>a, <1>b
      DEF Retry, Reasons, kept
  <1>18. CASE Crash
    BY <1>18, <1>a, <1>b
      DEF Crash, Reasons, kept
  <1> QED BY <1>1, <1>2, <1>3, <1>4, <1>5, <1>6, <1>7, <1>8, <1>9, <1>10, <1>11, <1>12, <1>13, <1>14, <1>15,
       <1>16, <1>17, <1>18, Zenon DEF Next, Job

Orders == [iteration : 0 .. MaxIterations, manifest : Manifested, covers : SUBSET Problems]
Reviews == [decision : {None, "PASS", "HOLD", "REWORK"}, iteration : 0 .. MaxIterations, manifest : Manifested]
Recovering == [status : Recoveries \cup {None}, manifest : Manifested, from : SUBSET (Roles \X Phases)]

LEMMA SavesTyped ==
  ASSUME TypeOK, NEW phase, SaveVerdict(phase) PROVE review' \in Reviews /\ recovery' \in Recovering
  <1>1. iteration \in 0 .. MaxIterations /\ manifest \in Manifested /\ recovery \in Recovering
    BY Bounds DEF TypeOK, Recovering
  <1>2. review' = [decision |-> EvaluateCodeReview(FinalReports(phase)), iteration |-> iteration, manifest |-> manifest]
        /\ recovery' = IF recovery.status = "RESUMING" THEN [NoRecovery EXCEPT !.status = "COMPLETED"] ELSE recovery
    BY Zenon DEF SaveVerdict
  <1>3. EvaluateCodeReview(FinalReports(phase)) \in {"PASS", "HOLD", "REWORK"}
    BY Decided
  <1>4. [NoRecovery EXCEPT !.status = "COMPLETED"] \in Recovering
    BY DEF NoRecovery, Recovering, Recoveries, Manifested
  <1> QED
    BY <1>1, <1>2, <1>3, <1>4 DEF Reviews

\* The records of a verdict and of a recovery
LEMMA RecordTyped ==
  ASSUME TypeOK, Placed, Next
  PROVE  decisions' \in 0 .. MaxDecisions /\ order' \in Orders /\ review' \in Reviews /\ recovery' \in Recovering
         /\ crashes' \in 0 .. MaxCrashes
  <1>a. /\ decisions \in 0 .. MaxDecisions /\ order \in Orders /\ review \in Reviews /\ recovery \in Recovering
        /\ crashes \in 0 .. MaxCrashes
    BY DEF TypeOK, Orders, Reviews, Recovering
  <1>1. CASE BeginAudit
    BY <1>1, <1>a
      DEF BeginAudit, kept
  <1>2. CASE ReviewRole
    BY <1>2, <1>a
      DEF ReviewRole, kept
  <1>3. CASE RefusesRecovered
    BY <1>3, <1>a
      DEF RefusesRecovered, Fails, kept
  <1>4. CASE RestoreReport
    BY <1>4, <1>a
      DEF RestoreReport, Goes, kept
  <1>5. CASE ReviewerAnswers
    BY <1>5, <1>a
      DEF ReviewerAnswers, Answer, kept
  <1>6. CASE Undelivered
    BY <1>6, <1>a
      DEF Undelivered, Holds, Fails, kept
  <1>7. CASE RepairReport
    BY <1>7, <1>a
      DEF RepairReport, Goes, Holds, kept
  <1>8. CASE AcceptReport
    BY <1>8, <1>a
      DEF AcceptReport, Goes, kept
  <1>9. CASE SupplementBegins
    BY <1>9, <1>a
      DEF SupplementBegins, Holds, kept
  <1>10. CASE Supplement
    BY <1>10, <1>a
      DEF Supplement, Holds, Fails, kept
  <1>11. CASE Conclude
    <2>1. CASE UNCHANGED <<findings, review, recovery>>
      BY <1>11, <1>a, <2>1 DEF Conclude, kept
    <2>2. CASE SaveVerdict(job.phase)
      BY <1>11, <1>a, <2>2, SavesTyped DEF Conclude, kept
    <2> QED
      BY <1>11, <2>1, <2>2, Zenon DEF Conclude
  <1>12. CASE RepairPlan
    BY <1>12, <1>a
      DEF RepairPlan, Goes, Holds, kept
  <1>13. CASE Propose
    BY <1>13, <1>a
      DEF Propose, kept
  <1>14. CASE AcceptPlan
    <2>1. order' = [iteration |-> iteration, manifest |-> manifest, covers |-> Covered]
      BY <1>14, Zenon DEF AcceptPlan
    <2>2. iteration \in 0 .. MaxIterations /\ manifest \in Manifested /\ Covered \in SUBSET Problems
      BY Bounds DEF TypeOK, Covered, Unresolved
    <2>3. order' \in Orders
      BY <2>1, <2>2 DEF Orders
    <2>4. SaveVerdict(job.phase) /\ UNCHANGED <<decisions, crashes>>
      BY <1>14 DEF AcceptPlan, kept
    <2> QED
      BY <1>a, <2>3, <2>4, SavesTyped
  <1>15. CASE RejectPlan
    BY <1>15, <1>a
      DEF RejectPlan, Goes, Holds, kept
  <1>16. CASE NextCandidate
    <2>1. NoOrder \in Orders /\ NoReview \in Reviews
      BY Bounds DEF NoOrder, NoReview, Orders, Reviews, Manifested
    <2> QED
      BY <1>16, <1>a, <2>1, Bounds DEF NextCandidate
  <1>17. CASE Retry
    <2>1. decisions' <= MaxDecisions /\ decisions' \in Nat /\ UNCHANGED <<order, review, crashes>>
      BY <1>17, <1>a DEF Retry, kept
    <2>2. recovery' \in Recovering
      <3>1. [NoRecovery EXCEPT !.status = "CLOSED"] \in Recovering
        BY DEF NoRecovery, Recovering, Recoveries, Manifested
      <3>2. [recovery EXCEPT !.status = "RESUMING"] \in Recovering
        BY <1>a DEF Recovering, Recoveries
      <3> QED
        BY <1>17, <1>a, <3>1, <3>2 DEF Retry
    <2> QED
      BY <1>a, <2>1, <2>2, Bounds
  <1>18. CASE Crash
    <2>1. UNCHANGED <<decisions, order, review>> /\ crashes' \in 0 .. MaxCrashes
      BY <1>18, <1>a, Bounds DEF Crash
    <2>2. recovery' \in Recovering
      <3>1. [NoRecovery EXCEPT !.status = "REFUSED"] \in Recovering
        BY DEF NoRecovery, Recovering, Recoveries, Manifested
      <3>2. CASE AnswerRecovered
        <4> DEFINE From == {k \in Roles \X Phases : requests'[k[1]][k[2]].manifest = Manifest
                                                  /\ requests'[k[1]][k[2]].report # NoReport}
        <4>1. \/ UNCHANGED recovery \/ recovery' = [NoRecovery EXCEPT !.status = "REFUSED"]
              \/ recovery' = [status |-> "READY", manifest |-> Manifest, from |-> From]
          BY <3>2, Zenon DEF AnswerRecovered
        <4>2. Manifest \in Manifested /\ From \in SUBSET (Roles \X Phases)
          BY ManifestTyped DEF Manifest, Manifested, TypeOK
        <4> HIDE DEF From
        <4>3. [status |-> "READY", manifest |-> Manifest, from |-> From] \in Recovering
          BY <4>2 DEF Recovering, Recoveries
        <4> QED
          BY <1>a, <3>1, <4>1, <4>3
      <3>3. CASE UNCHANGED recovery
        BY <1>a, <3>3
      <3> QED
        BY <1>18, <3>2, <3>3, Zenon DEF Crash
    <2> QED
      BY <1>a, <2>1, <2>2
  <1> QED BY <1>1, <1>2, <1>3, <1>4, <1>5, <1>6, <1>7, <1>8, <1>9, <1>10, <1>11, <1>12, <1>13, <1>14, <1>15,
       <1>16, <1>17, <1>18, Zenon DEF Next, Job

LEMMA TypeKept == ASSUME TypeOK, Placed, Restorable, Staged, Next PROVE TypeOK'
  <1>1. Moves
    BY Moved
  <1> QED
    BY <1>1, MovesTyped, FindingsTyped, NoticesTyped, RecordTyped DEF TypeOK, Whereabouts, Orders, Reviews, Recovering

-----------------------------------------------------------------------------
(* The invariant, and the theorems.                                        *)

LEMMA InitIInv == Init => IInv
  <1> SUFFICES ASSUME Init PROVE IInv
    OBVIOUS
  <1>1. /\ job = [NoJob EXCEPT !.at = "begin"] /\ "begin" \in Waits /\ stage = "REVIEW_RUNNING"
        /\ recovery = NoRecovery /\ requests = NoRequests /\ turn = NoTurn
    BY DEF Init, Waits
  <1>2. job \in JobTypes /\ job.at = "begin"
    BY <1>1, JobTyped
  <1>3. /\ requests \in [Roles -> [Phases -> RequestTypes]]
        /\ \A role \in Roles, phase \in Phases : requests[role][phase].report = NoReport
    BY <1>1 DEF NoRequests, NoRequest, RequestTypes, Manifested, Reported
  <1>4. turn \in TurnTypes /\ turn.answer = NoAnswer /\ NoAnswer.kind # "REPORT"
    BY <1>1, Words DEF NoTurn, NoAnswer, TurnTypes, AnswerTypes, Reported, Kinds
  <1>5. TypeOK
    <2>1. /\ NoOrder \in Orders /\ NoReview \in Reviews /\ NoRecovery \in Recovering /\ Nowhere \in Whereabouts
      BY Bounds DEF NoOrder, NoReview, NoRecovery, Nowhere, Orders, Reviews, Recovering, Whereabouts, Manifested
    <2>2. findings \in [Problems -> [status : {None} \cup Statuses, required : BOOLEAN]]
      BY DEF Init, NoFinding
    <2>3. /\ stage \in Stages /\ reason \in Reasons \cup {None}
          /\ iteration \in 1 .. MaxIterations /\ evidence \in Nat /\ passed \in BOOLEAN
          /\ evidenceRounds \in 0 .. MaxEvidenceRounds /\ decisions \in 0 .. MaxDecisions
          /\ shown \subseteq Roles /\ manifest \in Manifested /\ crashes \in 0 .. MaxCrashes
      BY Bounds DEF Init, Stages, Manifested
    <2>4. order \in Orders /\ review \in Reviews /\ recovery \in Recovering /\ coordination \in Whereabouts
      BY <2>1 DEF Init
    <2> QED
      BY <1>2, <1>3, <1>4, <2>2, <2>3, <2>4 DEF TypeOK, Whereabouts, Orders, Reviews, Recovering
  <1>6. Supplied
    BY <1>2 DEF Init, Supplied
  <1>7. OnManifest /\ Collected
    BY <1>2 DEF OnManifest, Collected, Asking, Deciding
  <1>8. Placed
    BY <1>2, <1>4 DEF Placed, Asking, Deciding
  <1>9. Valid
    BY <1>3, Words DEF Valid
  <1>10. Restorable
    BY <1>1, Words DEF Restorable, NoRecovery, Recoveries
  <1>11. Staged /\ AcceptedByBoth /\ WorkOrderCoversFindings
    BY <1>1, <1>2 DEF Staged, AcceptedByBoth, WorkOrderCoversFindings
  <1> QED
    BY <1>5, <1>6, <1>7, <1>8, <1>9, <1>10, <1>11 DEF IInv

LEMMA NextIInv == IInv /\ [Next]_vars => IInv'
  <1> SUFFICES ASSUME IInv, [Next]_vars PROVE IInv'
    OBVIOUS
  <1>1. CASE Next
    <2>1. TypeOK /\ Supplied /\ OnManifest /\ Placed /\ Collected /\ Valid /\ Restorable /\ Staged
          /\ AcceptedByBoth /\ WorkOrderCoversFindings
      BY DEF IInv
    <2>2. Moves
      BY <1>1, <2>1, Moved
    <2>3. TypeOK'
      BY <1>1, <2>1, TypeKept
    <2>4. Supplied' /\ OnManifest' /\ Placed' /\ Collected'
      BY <2>1, <2>2, SuppliedKept, OnManifestKept, PlacedKept, CollectedKept
    <2>5. Valid' /\ Restorable' /\ Staged' /\ WorkOrderCoversFindings' /\ AcceptedByBoth'
      BY <2>1, <2>2, ValidKept, RestorableKept, StagedKept, WorkOrderKept, AcceptedKept
    <2> QED
      BY <2>3, <2>4, <2>5 DEF IInv
  <1>2. CASE UNCHANGED vars
    BY <1>2 DEF IInv, vars, TypeOK, Supplied, OnManifest, Manifest, ManifestWith, Known, Placed, Collected, Has,
       Valid, ValidReport, Restorable, Staged, AcceptedByBoth, Approves, Unresolved, WorkOrderCoversFindings
  <1> QED
    BY <1>1, <1>2

\* The evidence of a candidate is bounded by the rounds counted for it
LEMMA IInvVerdict == IInv => VerdictHolds
  <1> SUFFICES ASSUME IInv PROVE VerdictHolds
    OBVIOUS
  <1>1. evidence \in Nat /\ evidenceRounds \in 0 .. MaxEvidenceRounds /\ evidence <= evidenceRounds
    BY DEF IInv, TypeOK, Supplied
  <1>2. EvidenceIsBounded
    BY <1>1, Bounds DEF EvidenceIsBounded
  <1> QED
    BY <1>2 DEF IInv, VerdictHolds

LEMMA AlwaysIInv == Spec => []IInv
  BY InitIInv, NextIInv, PTL DEF Spec

\* A verdict, to apply or to rework, rests on reports of both reviewers in one round about what the
\* run still holds, and comes within the evidence rounds of the policy: through supplements that
\* restart the audit, repairs, retries, rework, crashes and recovered answers.
THEOREM VerdictAlwaysHolds == Spec => []VerdictHolds
  BY AlwaysIInv, IInvVerdict, PTL

\* A finding on record never disappears, never becomes optional, and is resolved only by both
\* reviewers in one round over the same manifest.
THEOREM AlwaysResolvedTogether == Spec => ResolvedTogether
  <1>1. IInv /\ [Next]_vars => [Together]_vars
    <2> SUFFICES ASSUME IInv, Next PROVE Together
      OBVIOUS
    <2>1. TypeOK /\ Placed /\ Collected /\ Restorable /\ Staged
      BY DEF IInv
    <2> QED
      BY <2>1, Moved, StepTogether
  <1> QED
    BY AlwaysIInv, <1>1, PTL DEF Spec, ResolvedTogether, Together

=============================================================================
