--------------------------- MODULE CodeChangeRun ---------------------------
(***************************************************************************)
(* The life of one CODE_CHANGE run: src/src/orchestration/                 *)
(* code-change-service.js, with the part of audit-round.js that talks to   *)
(* the reviewer's web session, the worker of runtime/code-change-worker.js,*)
(* the interrupt protocol of runtime/web/session-adapter.js and the target *)
(* repository of repository/git-change-workspace.js.                       *)
(*                                                                         *)
(* The controller is one Node.js thread.  An action is therefore what runs *)
(* between two real waits (I/O, a timer, a user command); the microtasks   *)
(* that follow it belong to it.  `thread' names the continuation that must *)
(* run next while the thread is held between two saves of the same turn of *)
(* the event loop: nothing but a crash can come between.                   *)
(*                                                                         *)
(* What a review says is left to AuditRound: here the audit is a series of *)
(* web turns, verifications and a decision.                                *)
(***************************************************************************)
EXTENDS Integers

CONSTANTS
  MaxIterations,  \* policy.maxIterations of the project
  MaxRetries,     \* bound: run.retry and code.review.retry commands accepted
  MaxCrashes,     \* bound: process crashes and shutdowns
  MaxTalks        \* bound: reviewer discussions the user starts

ASSUME BoundsAssumption ==
  /\ MaxIterations \in Nat \ {0}
  /\ MaxRetries \in Nat /\ MaxCrashes \in Nat /\ MaxTalks \in Nat

VARIABLES
  \* the saved run record
  stage, reason, stopRequested, iteration,
  candidate,      \* run.candidate: 0 for null, else the iteration that made it
  capture,        \* run.capture: 0 for null, else the iteration it was taken in
  review,         \* run.reviews.at(-1): its candidate and decision
  auditResult,
  workOrder,      \* the candidate the last AGREED_WORK_ORDER is about, 0 if none
  application,    \* run.application: its candidate and status
  turnTimedOut,   \* the last of workerTurns failed on the wait() timeout
  recovery,       \* run.reviewRecovery.status
  acked,          \* the candidate run.reviewTurnId reviews, once its receipt is
                  \* ACKNOWLEDGED; 0 before that
  deliveries,     \* kinds of turn some binding's activeDeliveryId still names
  unconfirmed,    \* some reviewDiscussions item is UNCONFIRMED
  tabChoice,      \* coordination.bindingCandidates is not empty
  \* the controller's memory
  up, thread,
  pc,             \* where the job of `jobs' waits, "idle" when there is none
  err,            \* the worker turn failed: its finally block will rethrow
  aborted,        \* controls.get(runId).signal.aborted
  registered,     \* workers.has(runId)
  stopWait,       \* what the pending run.stop commands wait for
  stopSure,       \* the last of them found nothing else it cannot confirm
  webOp, webOwner,\* the request pending in the reviewer's web adapter
  interrupting,   \* an interrupt of that request is pending
  disc,           \* a code.review.discuss command is waiting
  \* the world outside
  proc,           \* the worker process
  orphan,         \* a worker creation nobody waits for any more
  target,         \* content of the target repository
  intact,         \* the worktree still equals the captured tree
  \* bounded counters
  retries, crashes, talks

record  == <<stage, reason, stopRequested, iteration, candidate, capture, review,
             auditResult, workOrder, application, turnTimedOut, recovery, acked,
             deliveries, unconfirmed, tabChoice>>
memory  == <<up, thread, pc, err, aborted, registered, stopWait, stopSure,
             webOp, webOwner, interrupting, disc>>
world   == <<proc, orphan, target, intact>>
bounds  == <<retries, crashes, talks>>
vars    == <<record, memory, world, bounds>>

\* groups that many actions leave alone together
product   == <<candidate, capture, review, auditResult, workOrder, application>>
webVars   == <<webOp, webOwner, interrupting>>
stopVars  == <<stopRequested, stopWait, stopSure>>
talkVars  == <<disc, unconfirmed, talks>>
fixed     == <<retries, crashes, up>>

-----------------------------------------------------------------------------
Terminal == {"APPLIED", "CANCELLED", "INCONCLUSIVE", "FAILED"}
Stopped  == Terminal \cup {"STOPPING", "RECOVERY_REQUIRED", "HOLD", "AWAITING_APPLY"}
Active   == {"CREATED", "PROVISIONING", "WORKER_RUNNING", "CANDIDATE_CAPTURE",
             "VERIFYING", "REVIEW_RUNNING", "REPORT_REPAIR", "EVIDENCE_SUPPLEMENT",
             "REWORK"}
Stages   == Stopped \cup Active \cup {"APPLYING"} \cup {"NONE", "DELETED"}

\* Coordination errors that auditCandidate turns into a HOLD with a reason
LimitReasons   == {"REPORT_REPAIR_LIMIT", "EVIDENCE_LIMIT", "USER_DECISION_REQUIRED",
                   "PLAN_REPAIR_LIMIT", "PLAN_CONSENSUS_NOT_REACHED"}
RetryableHolds == (LimitReasons \ {"EVIDENCE_LIMIT"}) \cup {"WEB_BINDING_REQUIRED"}
JobFailures    == {"EXECUTION_UNCERTAIN", "TOTAL_TIME_LIMIT"}
Reasons == {"NONE", "STOP_UNCERTAIN", "USER_STOP", "RECOVERY_ABANDONED",
            "ITERATION_LIMIT", "WEB_BINDING_REQUIRED"} \cup LimitReasons \cup JobFailures

Reviewing  == {"REVIEW_RUNNING", "REPORT_REPAIR"}
\* Stages in which run.stop cannot confirm the external state by itself
Unprovable == {"PROVISIONING", "RECOVERY_REQUIRED", "VERIFYING", "EVIDENCE_SUPPLEMENT"}

WorkerWaits == {"start", "submit", "turn"}
WebWaits    == {"resume", "answer", "ack"}
Waits       == {"create", "close", "verify", "supplement", "catch"}
               \cup WorkerWaits \cup WebWaits
Threads     == {"free", "execute", "iterate", "audit", "apply", "applied", "applyFailed"}

NoReview      == [of |-> 0, decision |-> "NONE"]
NoApplication == [of |-> 0, status |-> "NONE"]

Free    == up = "up" /\ thread = "free"
\* the process runs: a shutdown in progress still lets pending waits end
Alive   == up \in {"up", "closing"} /\ thread = "free"
HasJob  == pc # "idle"
\* assertActive(): the continuation of a wait goes on only for a live run
IsActiveWhileUp == up = "up"                \* a fault
IsActive == up = "up" /\ ~aborted /\ stage \notin Stopped
\* reviewerWebBusy(): some adapter has an activeTurnId
WebBusy == webOp = "turn"
\* the adapter has neither a turn nor any other pending request
IdleButForAck == webOp # "turn"              \* a fault
AdapterIdle == webOp = "idle"
Settled == ~HasJob /\ ~registered

Init ==
  /\ stage = "NONE" /\ reason = "NONE" /\ stopRequested = FALSE /\ iteration = 0
  /\ candidate = 0 /\ capture = 0 /\ review = NoReview /\ auditResult = "NONE"
  /\ workOrder = 0 /\ application = NoApplication /\ turnTimedOut = FALSE
  /\ recovery = "NONE" /\ acked = 0 /\ deliveries = {} /\ unconfirmed = FALSE
  /\ tabChoice = FALSE
  /\ up = "up" /\ thread = "free" /\ pc = "idle" /\ err = FALSE /\ aborted = FALSE
  /\ registered = FALSE /\ stopWait = "none" /\ stopSure = FALSE
  /\ webOp = "idle" /\ webOwner = "none" /\ interrupting = FALSE /\ disc = FALSE
  /\ proc = "none" /\ orphan = "none" /\ target = "BASE" /\ intact = TRUE
  /\ retries = 0 /\ crashes = 0 /\ talks = 0

-----------------------------------------------------------------------------
(* How a job ends *)

\* The catch of a job whose terminate() has nothing real to wait for: a run
\* that is stopped, or a service that is closing, keeps its record.
Rejected ==
  /\ pc' = "idle"
  /\ IF up = "up" /\ stage \notin Stopped
     THEN /\ stage' = "RECOVERY_REQUIRED"
          /\ reason' \in JobFailures
          /\ aborted' = TRUE
     ELSE UNCHANGED <<stage, reason, aborted>>

\* The audit ends the job in a HOLD, which is a settled stage
HoldFor(why) ==
  /\ stage' = "HOLD" /\ reason' = why /\ auditResult' = "HOLD" /\ pc' = "idle"

\* A fault: the signal is set but no wait is raced against it
AbortUnheard == aborted' = TRUE /\ UNCHANGED <<pc, err, turnTimedOut, proc, orphan>>

\* AbortController.abort(): every wait() of the job rejects.  A worker turn
\* goes through its finally block, where the worker is closed.
AbortJob ==
  /\ aborted' = TRUE
  /\ pc' = CASE pc = "create" -> "idle"
             [] pc \in WorkerWaits -> "close"
             [] pc \in WebWaits -> "idle"
             [] OTHER -> pc
  /\ err' = (err \/ pc \in WorkerWaits)
  /\ turnTimedOut' = (turnTimedOut /\ pc # "turn")
  /\ proc' = CASE pc = "create" -> "none"
               [] pc \in WorkerWaits -> "closing"
               [] OTHER -> proc
  /\ orphan' = IF pc = "create" /\ orphan # "leaked" THEN "creating" ELSE orphan

\* interrupt({turnId: reviewTurnId}) has something to wait for: the adapter
\* holds a request under that id, the prompt itself or its acknowledgement.
ReviewPending == webOwner = "review" /\ webOp \in {"turn", "ack"}

-----------------------------------------------------------------------------
(* start, execute, executeIterations *)

\* start(): the run is saved as CREATED, the job begins as a microtask
Start ==
  /\ Free /\ stage = "NONE" /\ target = "BASE"
  /\ stage' = "CREATED" /\ thread' = "execute" /\ aborted' = FALSE
  /\ UNCHANGED <<reason, iteration, product, turnTimedOut, recovery, acked, deliveries,
                 tabChoice, pc, err, registered, stopVars, webVars, talkVars, world, fixed>>

\* execute(): PROVISIONING, then the detached worktree of the accepted base.
\* A target that moved in the meantime fails the job.
Execute ==
  /\ up = "up" /\ thread = "execute"
  /\ \/ /\ stage = "CREATED" /\ stage' = "PROVISIONING"
        /\ UNCHANGED <<thread, reason, aborted, pc, intact>>
     \/ /\ stage = "PROVISIONING" /\ target = "BASE"
        /\ thread' = "iterate" /\ intact' = TRUE
        /\ UNCHANGED <<stage, reason, aborted, pc>>
     \/ /\ stage = "PROVISIONING" /\ target # "BASE"
        /\ Rejected /\ thread' = "free" /\ UNCHANGED intact
  /\ UNCHANGED <<iteration, product, turnTimedOut, recovery, acked, deliveries, tabChoice,
                 err, registered, stopVars, webVars, talkVars, proc, orphan, target, fixed>>

\* assertReworkAuthority(): an AGREED_WORK_ORDER about this very candidate
ReworkAuthorized == workOrder = candidate /\ workOrder # 0

\* One turn of the loop
BeginIteration ==
  /\ up = "up" /\ thread = "iterate" /\ thread' = "free"
  /\ IF stage = "REWORK" /\ iteration > 0 /\ ~ReworkAuthorized
     THEN /\ Rejected
          /\ UNCHANGED <<iteration, auditResult, proc>>
     ELSE /\ stage' = "WORKER_RUNNING" /\ iteration' = iteration + 1
          /\ auditResult' = "NONE" /\ pc' = "create" /\ proc' = "creating"
          /\ UNCHANGED <<reason, aborted>>
  /\ UNCHANGED <<candidate, capture, review, workOrder, application, turnTimedOut, recovery,
                 acked, deliveries, tabChoice, err, registered, stopVars, webVars, talkVars,
                 orphan, target, intact, fixed>>

\* createWorker() resolves for the job that awaits it
WorkerCreated ==
  /\ Alive /\ pc = "create"
  /\ registered' = TRUE /\ proc' = "idle" /\ pc' = "start" /\ err' = FALSE
  /\ UNCHANGED <<record, up, thread, aborted, stopWait, stopSure, webVars, disc,
                 orphan, target, intact, bounds>>

\* createWorker() rejects, or wait() gives up on it while it goes on
WorkerCreationFails ==
  /\ Alive /\ pc = "create" /\ Rejected /\ proc' = "none"
  /\ orphan' \in {orphan, IF orphan = "leaked" THEN "leaked" ELSE "creating"}
  /\ UNCHANGED <<stopVars, iteration, product, turnTimedOut, recovery, acked, deliveries,
                 tabChoice, thread, err, registered, webVars, talkVars, target, intact, fixed>>

\* A creation nobody awaits ends: the worker is closed when the run's current
\* controller is aborted or the service closed, and kept otherwise.
OrphanCreated ==
  /\ Alive /\ orphan = "creating"
  /\ orphan' = IF aborted \/ up = "closing" THEN "none" ELSE "leaked"
  /\ UNCHANGED <<record, memory, proc, target, intact, bounds>>

\* worker.start() and worker.submitTurn() resolve, each under wait() and
\* followed by assertActive()
WorkerAdvances ==
  /\ Alive /\ IsActive
  /\ \/ pc = "start" /\ pc' = "submit" /\ proc' = proc
     \/ pc = "submit" /\ pc' = "turn" /\ proc' = "turn"
  /\ UNCHANGED <<record, up, thread, err, aborted, registered, stopWait, stopSure, webVars,
                 disc, orphan, target, intact, bounds>>

\* The turn completes: its capture is saved before the result is used
WorkerCompletes ==
  /\ Alive /\ pc = "turn" /\ IsActive
  /\ stage' = "CANDIDATE_CAPTURE" /\ capture' = iteration /\ intact' = TRUE
  /\ turnTimedOut' = FALSE /\ pc' = "close" /\ proc' = "closing" /\ err' = FALSE
  /\ UNCHANGED <<reason, iteration, candidate, review, auditResult, workOrder, application,
                 recovery, acked, deliveries, tabChoice, thread, aborted, registered,
                 stopVars, webVars, talkVars, orphan, target, fixed>>

\* start, submitTurn or the turn fails, or wait() times out; a listener that
\* throws (an approval that cannot be answered) aborts the controller.
WorkerFails ==
  /\ Alive /\ pc \in WorkerWaits
  /\ pc' = "close" /\ err' = TRUE /\ proc' = "closing"
  /\ aborted' \in {aborted, TRUE}
  /\ turnTimedOut' \in IF pc # "turn" THEN {turnTimedOut}
                       ELSE IF aborted' THEN {FALSE} ELSE BOOLEAN
  /\ UNCHANGED <<stage, reason, iteration, product, recovery, acked, deliveries, tabChoice,
                 thread, registered, stopVars, webVars, talkVars, orphan, target, intact, fixed>>

StopAssumed(confirmed) == stopSure           \* a fault
StopConfirmed(confirmed) == confirmed /\ stopSure

\* What the pending run.stop commands write once their wait is over.  All of
\* them wait for the same close or interrupt and the last one writes last.
StopVerdict(confirmed) ==
  /\ stopWait' = "none"
  /\ IF stage = "DELETED" THEN UNCHANGED <<stage, reason>>
     ELSE IF StopConfirmed(confirmed)
     THEN stage' = "CANCELLED" /\ reason' = "USER_STOP"
     ELSE stage' = "RECOVERY_REQUIRED" /\ reason' = "STOP_UNCERTAIN"

\* A new candidate enters VERIFYING with the capture the worker returned; the
\* registered verifications follow, or the audit when there is none.
EnterVerification ==
  /\ stage' = "VERIFYING" /\ candidate' = capture
  /\ \/ pc' = "verify" /\ thread' = "free"
     \/ pc' = "idle" /\ thread' = "audit"
  /\ UNCHANGED <<reason, aborted>>

\* worker.close() settles for the job's finally block and for run.stop.  A
\* rejected close leaves the worker registered.
WorkerClosed ==
  /\ Alive /\ pc = "close"
  /\ \E closed \in BOOLEAN :
       /\ proc' = IF closed THEN "gone" ELSE "stuck"
       /\ registered' = ~closed
       /\ \/ /\ stopWait = "worker" /\ StopVerdict(closed)
             /\ pc' = "idle" /\ UNCHANGED <<candidate, thread, aborted>>
          \/ /\ stopWait # "worker" /\ closed /\ ~err /\ IsActive /\ target = "BASE" /\ intact
             /\ EnterVerification /\ UNCHANGED stopWait
          \/ /\ stopWait # "worker"   \* base moved, worktree changed, bad report
             /\ Rejected /\ UNCHANGED <<candidate, thread, stopWait>>
  /\ err' = FALSE
  /\ UNCHANGED <<stopRequested, iteration, capture, review, auditResult, workOrder, application,
                 turnTimedOut, recovery, acked, deliveries, tabChoice, stopSure, webVars,
                 talkVars, orphan, target, intact, fixed>>

-----------------------------------------------------------------------------
(* performVerification, auditCandidate, submitRoleTurn *)

\* executeVerification() ends.  In VERIFYING a process that would not close or
\* a changed candidate fails the job; in an evidence supplement only the
\* latter does, the former is reported to the reviewer as UNAVAILABLE.
VerificationEnds ==
  /\ Alive /\ pc \in {"verify", "supplement"}
  /\ \E same, closed \in BOOLEAN :
       /\ intact' = (intact /\ same)
       /\ IF IsActive /\ same /\ intact /\ (closed \/ pc = "supplement")
          THEN /\ \/ pc' = pc /\ thread' = "free"
                  \/ pc' = "idle" /\ thread' = "audit"
               /\ UNCHANGED <<stage, reason, aborted>>
          ELSE Rejected /\ UNCHANGED thread
  /\ UNCHANGED <<iteration, product, turnTimedOut, recovery, acked, deliveries, tabChoice,
                 err, registered, stopVars, webVars, talkVars, proc, orphan, target, fixed>>

\* The last review turn of this candidate is acknowledged and evaluated
Reviewed == stage \in Reviewing /\ acked = candidate

\* The audit needs another turn of a reviewer: a review or its repair (a new
\* reviewTurnId) or a turn of the rework plan (reviewTurnId and stage stay).
NextTurn(kind) ==
  /\ IF kind = "review" THEN stage' \in Reviewing /\ acked' = 0
     ELSE Reviewed /\ UNCHANGED <<stage, acked>>
  /\ AdapterIdle /\ kind \notin deliveries
  /\ webOp' = "resume" /\ webOwner' = kind /\ pc' = "resume" /\ thread' = "free"
  /\ UNCHANGED <<reason, aborted, review, auditResult, workOrder, recovery, tabChoice>>

\* The audit throws: the adapter is busy, the binding still owns a delivery,
\* recovered evidence differs, an artifact is gone.
AuditFails ==
  /\ Rejected /\ acked' \in {acked, 0} /\ thread' = "free"
  /\ UNCHANGED <<review, auditResult, workOrder, recovery, tabChoice, webOp, webOwner>>

\* The extension is not authenticated: resume() refuses at once
BindingRefused ==
  /\ HoldFor("WEB_BINDING_REQUIRED") /\ tabChoice' = FALSE
  /\ acked' \in {acked, 0} /\ thread' = "free"
  /\ UNCHANGED <<aborted, review, workOrder, recovery, webOp, webOwner>>

\* A reviewer asks for evidence: only a registered verification is waited for
Supplement ==
  /\ Reviewed /\ stage' = "EVIDENCE_SUPPLEMENT"
  /\ \/ pc' = "supplement" /\ thread' = "free"
     \/ UNCHANGED <<pc, thread>>
  /\ UNCHANGED <<reason, aborted, review, auditResult, workOrder, recovery, acked, tabChoice,
                 webOp, webOwner>>

\* A repair, evidence or plan limit, or a question only the user can answer
LimitReached ==
  /\ \/ Reviewed /\ \E why \in LimitReasons \ {"USER_DECISION_REQUIRED"} : HoldFor(why)
     \/ stage = "EVIDENCE_SUPPLEMENT" /\ HoldFor("USER_DECISION_REQUIRED")
  /\ thread' = "free"
  /\ UNCHANGED <<aborted, review, workOrder, recovery, acked, tabChoice, webOp, webOwner>>

\* planRework() returns once the critic accepts the judge's frozen plan
PlanAgreed == workOrder' = candidate

KeepsFirstReview(decision) ==                \* a fault
  IF review = NoReview THEN [of |-> candidate, decision |-> decision] ELSE review
NewReview(decision) == [of |-> candidate, decision |-> decision]

ExhaustedLate == iteration > MaxIterations   \* a fault
IterationsExhausted == iteration >= MaxIterations

\* The final update of auditCandidate; REWORK short of the iteration limit
\* comes with the work order planRework just agreed on.  Both roles have had
\* their turns, so no binding owns a delivery any more.
Decide(decision) ==
  /\ Reviewed /\ deliveries = {}
  /\ review' = NewReview(decision) /\ auditResult' = decision
  /\ recovery' = IF recovery = "RESUMING" THEN "COMPLETED" ELSE recovery
  /\ CASE decision = "PASS" -> stage' = "AWAITING_APPLY" /\ reason' = "NONE"
       [] decision = "HOLD" -> stage' = "HOLD" /\ reason' = "NONE"
       [] OTHER -> IF IterationsExhausted
                   THEN stage' = "INCONCLUSIVE" /\ reason' = "ITERATION_LIMIT"
                   ELSE stage' = "REWORK" /\ reason' = "NONE"
  /\ IF decision = "REWORK" /\ ~IterationsExhausted
     THEN PlanAgreed /\ thread' = "iterate"
     ELSE UNCHANGED workOrder /\ thread' = "free"
  /\ pc' = "idle"
  /\ UNCHANGED <<aborted, acked, tabChoice, webOp, webOwner>>

\* auditCandidate() between two waits
AuditContinues ==
  /\ up = "up" /\ thread = "audit"
  /\ \/ \E kind \in {"review", "plan"} : NextTurn(kind)
     \/ AuditFails \/ BindingRefused \/ Supplement \/ LimitReached
     \/ \E decision \in {"PASS", "HOLD", "REWORK"} : Decide(decision)
  /\ UNCHANGED <<iteration, candidate, capture, application, turnTimedOut, deliveries, err,
                 registered, stopVars, interrupting, talkVars, world, fixed>>

\* activateRole(): resume() ends while the job waits for it.  The delivery is
\* saved as owned before web.submitTurn() sends the prompt.
RoleActivated ==
  /\ Alive /\ pc = "resume" /\ webOp = "resume"
  /\ \/ /\ IsActive
        /\ deliveries' = deliveries \cup {webOwner}
        /\ webOp' = "turn" /\ webOwner' = webOwner /\ pc' = "answer"
        /\ UNCHANGED <<stage, reason, auditResult, aborted, tabChoice>>
     \/ /\ HoldFor("WEB_BINDING_REQUIRED") /\ tabChoice' \in BOOLEAN
        /\ webOp' = "idle" /\ webOwner' = "none"
        /\ UNCHANGED <<deliveries, aborted>>
     \/ /\ Rejected /\ webOp' = "idle" /\ webOwner' = "none"
        /\ UNCHANGED <<deliveries, auditResult, tabChoice>>
  /\ UNCHANGED <<iteration, candidate, capture, review, workOrder, application, turnTimedOut,
                 recovery, acked, thread, err, registered, stopVars, interrupting, talkVars,
                 world, fixed>>

\* The answer arrives while the job waits: the receipt is saved ACK_PENDING
\* and acknowledged, unless the answer names another turn or conversation.
AnswerArrives ==
  /\ Alive /\ pc = "answer" /\ webOp = "turn"
  /\ \/ /\ IsActive /\ webOp' = "ack" /\ pc' = "ack" /\ webOwner' = webOwner
        /\ UNCHANGED <<stage, reason, aborted>>
     \/ /\ webOp' = "idle" /\ webOwner' = "none" /\ Rejected
  /\ UNCHANGED <<iteration, product, turnTimedOut, recovery, acked, deliveries, tabChoice, thread,
                 err, registered, stopVars, interrupting, talkVars, world, fixed>>

\* The acknowledgement: ownership and receipt settle in one save
AckArrives ==
  /\ Alive /\ pc = "ack" /\ webOp = "ack" /\ webOp' = "idle" /\ webOwner' = "none"
  /\ \/ /\ IsActive
        /\ deliveries' = deliveries \ {webOwner} /\ acked' = IF webOwner = "review" THEN candidate ELSE acked
        /\ pc' = "idle" /\ thread' = "audit" /\ UNCHANGED <<stage, reason, aborted>>
     \/ /\ Rejected /\ UNCHANGED <<deliveries, acked, thread>>
  /\ UNCHANGED <<iteration, product, turnTimedOut, recovery, tabChoice, err, registered,
                 stopVars, interrupting, talkVars, world, fixed>>

\* wait() gives up on a turn or an acknowledgement.  The catch interrupts a
\* review turn and waits for the outcome; a plan turn is not its reviewTurnId.
AnswerTimesOut ==
  /\ Alive /\ pc \in {"answer", "ack"}
  /\ IF ReviewPending /\ up = "up" /\ stage \in Reviewing
     THEN /\ pc' = "catch" /\ aborted' = TRUE /\ interrupting' = TRUE
          /\ UNCHANGED <<stage, reason>>
     ELSE Rejected /\ UNCHANGED interrupting
  /\ UNCHANGED <<iteration, product, turnTimedOut, recovery, acked, deliveries, tabChoice,
                 thread, err, registered, stopVars, webOp, webOwner, talkVars, world, fixed>>

-----------------------------------------------------------------------------
(* The adapter's pending request when no continuation of the job awaits it *)

\* A fault: the timer only forgets the interrupt
InterruptForgotten(confirmed) ==
  interrupting' = FALSE /\ UNCHANGED <<pc, stopWait, stage, reason>>

\* The continuations an interrupt resumes: first the job's catch, then the
\* pending run.stop commands, which therefore have the last word.
InterruptSettles(confirmed) ==
  /\ interrupting' = FALSE
  /\ IF pc = "catch" THEN pc' = "idle" ELSE UNCHANGED pc
  /\ IF stopWait = "web" THEN StopVerdict(confirmed)
     ELSE /\ UNCHANGED stopWait
          /\ IF pc = "catch" /\ stage # "DELETED"
             THEN stage' = "RECOVERY_REQUIRED" /\ reason' \in JobFailures
             ELSE UNCHANGED <<stage, reason>>

NobodyAwaits == pc \notin WebWaits /\ ~disc /\ webOwner # "rebind"

\* A late answer, acknowledgement, resume or disconnection: the adapter
\* forgets the request, an interrupt that was pending is not confirmed.
LateAnswer ==
  /\ Alive /\ webOp # "idle" /\ NobodyAwaits
  /\ webOp' = "idle" /\ webOwner' = "none"
  /\ IF interrupting THEN InterruptSettles(FALSE)
     ELSE UNCHANGED <<interrupting, pc, stopWait, stage, reason>>
  /\ UNCHANGED <<stopRequested, stopSure, iteration, product, turnTimedOut, recovery, acked,
                 deliveries, tabChoice, thread, err, aborted, registered, talkVars, world, fixed>>

\* web.prompt.cancelled confirms the interrupt; an acknowledgement cannot
InterruptConfirmed ==
  /\ Alive /\ interrupting /\ webOp = "turn" /\ NobodyAwaits
  /\ webOp' = "idle" /\ webOwner' = "none" /\ InterruptSettles(TRUE)
  /\ UNCHANGED <<stopRequested, stopSure, iteration, product, turnTimedOut, recovery, acked,
                 deliveries, tabChoice, thread, err, aborted, registered, talkVars, world, fixed>>

\* INTERRUPT_NOT_CONFIRMED after 15 s; the request itself stays pending
InterruptTimesOut ==
  /\ Alive /\ interrupting /\ InterruptSettles(FALSE)
  /\ UNCHANGED <<stopRequested, stopSure, iteration, product, turnTimedOut, recovery, acked,
                 deliveries, tabChoice, thread, err, aborted, registered, webOp, webOwner,
                 talkVars, world, fixed>>

-----------------------------------------------------------------------------
(* Commands of the user, and the total timer *)

\* run.stop.  STOPPING is saved, then terminate() aborts the job and waits for
\* the worker or for the interrupt of the review turn.
Stop ==
  /\ Free /\ stage \notin Terminal \cup {"APPLYING", "NONE", "DELETED"}
  /\ stopRequested' = TRUE /\ AbortJob
  /\ LET worker == registered /\ proc # "stuck"
         web    == ReviewPending /\ (webOp = "turn" \/ stage \in Reviewing)
     IN IF worker \/ web
        THEN /\ stage' = "STOPPING" /\ UNCHANGED reason
             /\ stopWait' = IF worker THEN "worker" ELSE "web"
             /\ stopSure' \in IF stage \in Unprovable THEN {FALSE}
                              ELSE IF stage = "WORKER_RUNNING" THEN BOOLEAN ELSE {TRUE}
             /\ interrupting' = (interrupting \/ (web /\ ~worker))
        ELSE /\ IF stage \in Unprovable \cup Reviewing \cup {"WORKER_RUNNING"} \/ registered
                THEN stage' = "RECOVERY_REQUIRED" /\ reason' = "STOP_UNCERTAIN"
                ELSE stage' = "CANCELLED" /\ reason' = "USER_STOP"
             /\ UNCHANGED <<stopWait, stopSure, interrupting>>
  /\ UNCHANGED <<iteration, product, recovery, acked, deliveries, tabChoice, thread, registered,
                 webOp, webOwner, talkVars, target, intact, fixed>>

\* The total timer aborts the job and saves RECOVERY_REQUIRED at once
TotalTimeLimit ==
  /\ Alive /\ HasJob /\ stage \notin Stopped
  /\ AbortJob /\ stage' = "RECOVERY_REQUIRED" /\ reason' = "TOTAL_TIME_LIMIT"
  /\ interrupting' = (interrupting \/ ReviewPending)
  /\ UNCHANGED <<stopVars, iteration, product, recovery, acked, deliveries, tabChoice, thread,
                 registered, webOp, webOwner, talkVars, target, intact, fixed>>

\* run.abandon: the operator attests external termination
Abandon ==
  /\ Free /\ stage = "RECOVERY_REQUIRED" /\ Settled
  /\ stage' = "CANCELLED" /\ reason' = "RECOVERY_ABANDONED" /\ stopRequested' = TRUE
  /\ UNCHANGED <<iteration, product, turnTimedOut, recovery, acked, deliveries, tabChoice,
                 thread, pc, err, aborted, registered, stopWait, stopSure, webVars, talkVars,
                 world, fixed>>

RetryableWorkerTimeout ==
  /\ stage = "RECOVERY_REQUIRED" /\ reason = "EXECUTION_UNCERTAIN" /\ turnTimedOut
  /\ candidate = 0 /\ capture = 0 /\ application = NoApplication /\ review = NoReview

\* run.retry: a fresh worktree and a fresh controller
RunRetry ==
  /\ Free /\ RetryableWorkerTimeout /\ Settled /\ target = "BASE" /\ retries < MaxRetries
  /\ stage' = "CREATED" /\ reason' = "NONE" /\ stopRequested' = FALSE
  /\ aborted' = FALSE /\ thread' = "execute" /\ retries' = retries + 1
  \* a worker that never closed is forgotten, not ended
  /\ proc' = "none" /\ orphan' = IF proc \in {"stuck", "stray"} THEN "leaked" ELSE orphan
  /\ UNCHANGED <<iteration, product, turnTimedOut, recovery, acked, deliveries, tabChoice, pc,
                 err, registered, stopWait, stopSure, webVars, talkVars, target, intact,
                 crashes, up>>

RetryableAuditReview ==
  /\ stage = "HOLD" /\ reason \in RetryableHolds /\ auditResult = "HOLD"
  /\ ~(reason = "WEB_BINDING_REQUIRED" /\ tabChoice)
  /\ application = NoApplication /\ ~stopRequested
  /\ candidate # 0 /\ candidate = capture

ResumesStopped ==                            \* a fault
  /\ stage = "RECOVERY_REQUIRED" /\ recovery = "READY" /\ acked = candidate
  /\ application = NoApplication /\ deliveries = {}

CanResumeAcknowledgedReview ==
  /\ stage = "RECOVERY_REQUIRED" /\ recovery = "READY" /\ acked = candidate
  /\ application = NoApplication /\ ~stopRequested /\ deliveries = {}

\* code.review.retry and code.decision.reply
ReviewRetry ==
  /\ Free /\ (RetryableAuditReview \/ CanResumeAcknowledgedReview)
  /\ Settled /\ ~WebBusy /\ target = "BASE" /\ intact /\ retries < MaxRetries
  /\ stage' = "REVIEW_RUNNING" /\ reason' = "NONE" /\ auditResult' = "NONE"
  /\ recovery' = IF stage = "RECOVERY_REQUIRED" THEN "RESUMING"
                 ELSE IF recovery = "NONE" THEN "NONE" ELSE "CLOSED"
  /\ acked' = IF stage = "RECOVERY_REQUIRED" THEN acked ELSE 0
  /\ stopRequested' = FALSE /\ aborted' = FALSE /\ thread' = "audit" /\ retries' = retries + 1
  /\ UNCHANGED <<stopWait, stopSure, iteration, candidate, capture, review, workOrder, application,
                 turnTimedOut, deliveries, tabChoice, pc, err, registered, webVars, talkVars,
                 world, crashes, up>>

\* code.review.rebind: the user picks one of the recorded tabs
Rebind ==
  /\ Free /\ stage = "HOLD" /\ reason = "WEB_BINDING_REQUIRED" /\ tabChoice
  /\ Settled /\ AdapterIdle /\ webOp' = "resume" /\ webOwner' = "rebind"
  /\ UNCHANGED <<record, up, thread, pc, err, aborted, registered, stopWait, stopSure,
                 interrupting, disc, world, bounds>>

\* The extension answers; the record is written whatever became of the run
RebindEnds ==
  /\ Alive /\ webOwner = "rebind" /\ webOp' = "idle" /\ webOwner' = "none"
  /\ tabChoice' \in IF stage = "DELETED" THEN {tabChoice} ELSE {tabChoice, FALSE}
  /\ UNCHANGED <<stage, reason, stopVars, iteration, product, turnTimedOut, recovery, acked,
                 deliveries, unconfirmed, up, thread, pc, err, aborted, registered, interrupting,
                 disc, world, bounds>>

\* assertApprovalCandidate()
ApprovalCandidate ==
  /\ review = [of |-> candidate, decision |-> "PASS"] /\ auditResult = "PASS"
  /\ candidate # 0 /\ capture = candidate

\* code.apply: APPLYING is saved before the target is touched
Apply ==
  /\ Free /\ stage = "AWAITING_APPLY" /\ ~HasJob /\ ~stopRequested /\ ApprovalCandidate
  /\ stage' = "APPLYING" /\ application' = [of |-> candidate, status |-> "APPLYING"]
  /\ thread' = "apply"
  /\ UNCHANGED <<reason, stopVars, iteration, candidate, capture, review, auditResult, workOrder,
                 turnTimedOut, recovery, acked, deliveries, tabChoice, pc, err, aborted,
                 registered, webVars, talkVars, world, fixed>>

\* GitChangeWorkspace.apply(): refused on a moved or dirty target, else the
\* stored patch goes in whole, or git fails before or in the middle of it.
ApplyPatch ==
  /\ up = "up" /\ thread = "apply"
  /\ \/ target = "BASE" /\ target' = "CANDIDATE" /\ thread' = "applied"
     \/ target = "BASE" /\ target' \in {"BASE", "PARTIAL"} /\ thread' = "applyFailed"
     \/ target # "BASE" /\ thread' = "applyFailed" /\ UNCHANGED target
  /\ UNCHANGED <<record, up, pc, err, aborted, registered, stopWait, stopSure, webVars, disc,
                 proc, orphan, intact, bounds>>

ApplySaved ==
  /\ up = "up" /\ thread \in {"applied", "applyFailed"} /\ thread' = "free"
  /\ IF thread = "applied"
     THEN stage' = "APPLIED" /\ application' = [application EXCEPT !.status = "APPLIED"]
     ELSE stage' = "RECOVERY_REQUIRED" /\ application' = [application EXCEPT !.status = "UNCERTAIN"]
  /\ UNCHANGED <<reason, stopVars, iteration, candidate, capture, review, auditResult, workOrder,
                 turnTimedOut, recovery, acked, deliveries, tabChoice, pc, err, aborted,
                 registered, webVars, talkVars, world, fixed>>

\* run.delete: a settled finished run disappears
Delete ==
  /\ Free /\ stage \in Terminal /\ Settled /\ ~(WebBusy /\ webOwner = "review")
  /\ stage' = "DELETED"
  /\ UNCHANGED <<reason, stopVars, iteration, product, turnTimedOut, recovery, acked, deliveries,
                 tabChoice, unconfirmed, memory, world, bounds>>

-----------------------------------------------------------------------------
(* code.review.discuss and its discard *)

\* The command is accepted for a settled run and resumes the conversation
Discuss ==
  /\ Free /\ stage \in {"HOLD", "AWAITING_APPLY"} /\ candidate # 0 /\ Settled /\ AdapterIdle
  /\ ~unconfirmed /\ "discuss" \notin deliveries /\ talks < MaxTalks
  /\ disc' = TRUE /\ webOp' = "resume" /\ webOwner' = "discuss" /\ talks' = talks + 1
  /\ UNCHANGED <<record, up, thread, pc, err, aborted, registered, stopWait, stopSure,
                 interrupting, world, retries, crashes>>

\* discussReviewRole() after each of its waits.  It checks the delivery, not
\* the stage of the run.
DiscussionAdvances ==
  /\ Alive /\ disc /\ webOwner = "discuss" /\ stage # "DELETED"
  /\ \/ /\ webOp = "resume" /\ webOp' = "turn"
        /\ deliveries' = deliveries \cup {"discuss"} /\ UNCHANGED <<disc, webOwner>>
     \/ /\ webOp = "turn" /\ webOp' = "ack" /\ UNCHANGED <<disc, webOwner, deliveries>>
     \/ /\ webOp = "ack" /\ webOp' = "idle" /\ webOwner' = "none" /\ disc' = FALSE
        /\ deliveries' = deliveries \ {"discuss"}
  /\ UNCHANGED <<stage, reason, stopVars, iteration, product, turnTimedOut, recovery, acked,
                 unconfirmed, tabChoice, up, thread, pc, err, aborted, registered, interrupting,
                 world, bounds>>

\* A failed resume sends nothing (FAILED); after the dispatch it is UNCONFIRMED
DiscussionFails ==
  /\ Alive /\ disc /\ webOwner = "discuss"
  /\ disc' = FALSE
  /\ unconfirmed' = (unconfirmed \/ (webOp # "resume" /\ stage # "DELETED"))
  /\ \/ webOp' = "idle" /\ webOwner' = "none"
     \/ UNCHANGED <<webOp, webOwner>>        \* the user's wait ends, the turn goes on
  /\ UNCHANGED <<stage, reason, stopVars, iteration, product, turnTimedOut, recovery, acked,
                 deliveries, tabChoice, up, thread, pc, err, aborted, registered, interrupting,
                 world, bounds>>

\* code.review.discuss.discard, confirmed by the extension
Discard ==
  /\ Free /\ unconfirmed /\ stage \in {"HOLD", "AWAITING_APPLY"} /\ Settled /\ AdapterIdle
  /\ "discuss" \in deliveries
  /\ unconfirmed' = FALSE /\ deliveries' = deliveries \ {"discuss"}
  /\ UNCHANGED <<stage, reason, stopVars, iteration, product, turnTimedOut, recovery, acked,
                 tabChoice, up, thread, pc, err, aborted, registered, webVars, disc, world,
                 bounds>>

-----------------------------------------------------------------------------
(* Shutdown, crash, restart and the developer's own edits *)

\* close(): closed is set, every job and worker is terminated
Shutdown ==
  /\ Free /\ crashes < MaxCrashes /\ up' = "closing" /\ AbortJob
  /\ interrupting' = (interrupting \/ (ReviewPending /\ (webOp = "turn" \/ stage \in Reviewing)))
  /\ UNCHANGED <<stage, reason, stopVars, iteration, product, recovery, acked, deliveries,
                 tabChoice, thread, registered, webOp, webOwner, talkVars, target, intact,
                 retries, crashes>>

\* The process ends, at any point or after close(); what it knew is lost
Crash ==
  /\ up # "down" /\ crashes < MaxCrashes /\ crashes' = crashes + 1
  /\ up' = "down" /\ thread' = "free" /\ pc' = "idle" /\ err' = FALSE /\ aborted' = FALSE
  /\ registered' = FALSE /\ stopWait' = "none" /\ stopSure' = FALSE
  /\ webOp' = "idle" /\ webOwner' = "none" /\ interrupting' = FALSE /\ disc' = FALSE
  /\ proc' = IF proc \in {"none", "gone"} THEN proc ELSE "stray"
  /\ orphan' = IF orphan = "leaked" THEN "leaked" ELSE "none"
  /\ target' \in IF thread = "apply" /\ target = "BASE" THEN {"BASE", "PARTIAL"} ELSE {target}
  /\ UNCHANGED <<record, intact, retries, talks>>

PartialCountsAsBase ==                       \* a fault
  IF target = "CANDIDATE" THEN "APPLIED"
  ELSE IF target \in {"BASE", "PARTIAL"} THEN "NOT_APPLIED" ELSE "AMBIGUOUS"

\* targetApplicationState()
ApplicationState ==
  CASE target = "CANDIDATE" -> "APPLIED"
    [] target = "BASE" -> "NOT_APPLIED"
    [] OTHER -> "AMBIGUOUS"

\* recoverAcknowledgedReviews(): local evidence only, nothing is sent
RecoveredReview ==
  IF acked = 0 THEN {recovery}
  ELSE IF /\ deliveries = {} /\ application = NoApplication /\ ~stopRequested
          /\ acked = candidate /\ candidate = capture /\ workOrder # candidate
       THEN {"READY", "REFUSED"}
       ELSE {"REFUSED"}

\* recover(): an interrupted application is classified from the target, never
\* repeated; every other unfinished run waits for the operator.
Restart ==
  /\ up = "down" /\ up' = "up"
  /\ \/ /\ stage \in Terminal \cup {"NONE", "DELETED", "HOLD"}
        /\ UNCHANGED <<stage, application, recovery>>
     \/ /\ stage = "AWAITING_APPLY" /\ UNCHANGED <<application, recovery>>
        /\ stage' = IF ApprovalCandidate THEN stage ELSE "RECOVERY_REQUIRED"
     \/ /\ stage = "APPLYING" /\ UNCHANGED recovery
        /\ stage' = CASE ApplicationState = "APPLIED" -> "APPLIED"
                      [] ApplicationState = "NOT_APPLIED" -> "AWAITING_APPLY"
                      [] OTHER -> "RECOVERY_REQUIRED"
        /\ application' = [application EXCEPT !.status = ApplicationState]
     \/ /\ stage \in Active \cup {"STOPPING", "RECOVERY_REQUIRED"} /\ UNCHANGED application
        /\ stage' = "RECOVERY_REQUIRED" /\ recovery' \in RecoveredReview
  /\ UNCHANGED <<reason, stopVars, iteration, candidate, capture, review, auditResult, workOrder,
                 turnTimedOut, acked, deliveries, tabChoice, thread, pc, err, aborted, registered,
                 webVars, talkVars, world, retries, crashes>>

\* Someone edits or moves the target repository, or puts it back
ExternalEdit ==
  /\ \/ target = "BASE" /\ target' = "FOREIGN"
     \/ target = "FOREIGN" /\ target' = "BASE"
  /\ UNCHANGED <<record, memory, proc, orphan, intact, bounds>>

-----------------------------------------------------------------------------
JobStep ==
  \/ Execute \/ BeginIteration \/ WorkerCreated \/ WorkerCreationFails \/ OrphanCreated
  \/ WorkerAdvances \/ WorkerCompletes \/ WorkerFails \/ WorkerClosed \/ VerificationEnds
  \/ AuditContinues \/ RoleActivated \/ AnswerArrives \/ AckArrives \/ AnswerTimesOut
  \/ LateAnswer \/ InterruptConfirmed \/ InterruptTimesOut \/ TotalTimeLimit
  \/ ApplyPatch \/ ApplySaved \/ DiscussionAdvances \/ DiscussionFails \/ RebindEnds

Command ==
  \/ Start \/ Stop \/ Abandon \/ RunRetry \/ ReviewRetry \/ Rebind \/ Apply \/ Delete
  \/ Discuss \/ Discard

Next == JobStep \/ Command \/ Shutdown \/ Crash \/ Restart \/ ExternalEdit

Spec == Init /\ [][Next]_vars

\* The event loop runs its continuations, and what the service waits for is
\* bounded by timers: wait() and the total timer, the verification's and the
\* worker close's kill timers, the 15 s of an interrupt.  Nothing obliges the
\* extension, the worker, the user or a restarted process to do anything.
Fairness ==
  /\ WF_vars(Execute) /\ WF_vars(BeginIteration) /\ WF_vars(AuditContinues)
  /\ WF_vars(ApplyPatch) /\ WF_vars(ApplySaved)
  /\ WF_vars(WorkerClosed) /\ WF_vars(VerificationEnds) /\ WF_vars(InterruptTimesOut)
  /\ SF_vars(TotalTimeLimit)

FairSpec == Spec /\ Fairness

-----------------------------------------------------------------------------
(* Properties *)

FlagTypes ==
  /\ stopRequested \in BOOLEAN /\ turnTimedOut \in BOOLEAN /\ unconfirmed \in BOOLEAN
  /\ tabChoice \in BOOLEAN /\ err \in BOOLEAN /\ aborted \in BOOLEAN /\ registered \in BOOLEAN
  /\ stopSure \in BOOLEAN /\ interrupting \in BOOLEAN /\ disc \in BOOLEAN /\ intact \in BOOLEAN

ValueTypes ==
  /\ stage \in Stages /\ reason \in Reasons
  /\ iteration \in Nat /\ candidate \in Nat /\ capture \in Nat
  /\ review \in [of : Nat, decision : {"NONE", "PASS", "HOLD", "REWORK"}]
  /\ auditResult \in {"NONE", "PASS", "HOLD", "REWORK"}
  /\ workOrder \in Nat /\ acked \in Nat
  /\ application \in [of : Nat, status : {"NONE", "APPLYING", "APPLIED", "UNCERTAIN",
                                              "NOT_APPLIED", "AMBIGUOUS"}]
  /\ recovery \in {"NONE", "READY", "REFUSED", "RESUMING", "COMPLETED", "CLOSED"}
  /\ deliveries \subseteq {"review", "plan", "discuss"}
  /\ up \in {"up", "closing", "down"} /\ thread \in Threads /\ pc \in Waits \cup {"idle"}
  /\ stopWait \in {"none", "worker", "web"}
  /\ webOp \in {"idle", "resume", "turn", "ack"}
  /\ webOwner \in {"none", "review", "plan", "discuss", "rebind"}
  /\ proc \in {"none", "creating", "idle", "turn", "closing", "gone", "stuck", "stray"}
  /\ orphan \in {"none", "creating", "leaked"}
  /\ target \in {"BASE", "CANDIDATE", "PARTIAL", "FOREIGN"}
  /\ retries \in 0..MaxRetries /\ crashes \in 0..MaxCrashes /\ talks \in 0..MaxTalks

\* Every variable keeps its type
TypeOK == FlagTypes /\ ValueTypes


\* From the moment a run may be applied, through any crash and restart, its
\* last review is a PASS of the very candidate it holds; APPLIED is recorded
\* only of a target that has the whole patch; and a target the service touched
\* is explained by an application of a candidate that passed.
ApprovalHolds ==
  /\ stage \in {"AWAITING_APPLY", "APPLYING", "APPLIED"} => ApprovalCandidate
  /\ stage = "APPLIED" => target = "CANDIDATE"
  /\ target \in {"CANDIDATE", "PARTIAL"} =>
       ApprovalCandidate /\ application.of = candidate

\* After a crash in the middle of an application the run is offered for
\* application again only if the target was not touched.
NoSecondApplication == stage = "AWAITING_APPLY" => target \in {"BASE", "FOREIGN"}

\* No late answer, verification, close or timer of an earlier job brings a
\* stopped run back to work, nor a deleted one back to existence: only an
\* accepted command does, on a run with no job and no worker left.
NoRevival ==
  [][/\ stage \in Stopped /\ stage' \notin Stopped \cup {"DELETED"}
          => \/ Settled /\ thread = "free" /\ thread' \in {"execute", "audit", "apply"}
             \/ stage = "AWAITING_APPLY" /\ thread' = "apply"
     /\ stage = "DELETED" => stage' = "DELETED"]_vars

\* run.stop is for good: the run's job starts no worker, submits no worker turn
\* and sends no review or plan prompt, and no retry or recovery withdraws it.
StopIsForGood ==
  [][stopRequested =>
       /\ stopRequested'
       /\ proc' \in {"creating", "turn"} => proc' = proc
       /\ webOp' = "turn" /\ webOwner' \in {"review", "plan"} => webOp = "turn"]_vars

\* A stop ends a run for good: nothing late revives it, and nothing new starts under it.
StopIsFinal == NoRevival /\ StopIsForGood

\* The worker gets at most maxIterations turns, or one more than were lost to a
\* timeout and retried: run.retry keeps the counter of the lost turn.
IterationsBounded == iteration <= MaxIterations \/ iteration <= retries + 1

\* CANCELLED on the user's stop is written only when the worker of the run is
\* known to be gone and no review prompt of it is being answered.
CancelledMeansGone ==
  stage = "CANCELLED" /\ reason = "USER_STOP" =>
    /\ proc \in {"none", "gone"} /\ ~registered
    /\ ~(webOp = "turn" /\ webOwner = "review")

\* A job that outlives its run's stop waits only for a worker to close, a
\* verification to be killed or an interrupt to be answered, under an aborted
\* signal: whatever comes then is not used.
StoppedJobOnlyCleansUp ==
  stage \in Stopped /\ HasJob => aborted /\ pc \in {"close", "verify", "supplement", "catch"}

\* A prompt the browser may be answering or acknowledging is always named by
\* the saved record, so that a restart knows it is unresolved.
DispatchIsRecorded == webOp \in {"turn", "ack"} /\ stage # "DELETED" => webOwner \in deliveries

\* What the record says of the target, the worker and the browser is so, and the work
\* it counts is bounded.
RecordIsTrue ==
    /\ IterationsBounded
    /\ NoSecondApplication
    /\ CancelledMeansGone
    /\ StoppedJobOnlyCleansUp
    /\ DispatchIsRecorded

\* No job lasts for ever, whatever the worker, the extension and the user do
JobEnds == (HasJob \/ thread # "free") ~> (~HasJob /\ thread = "free")

\* Every accepted run.stop gets its verdict
StopAnswered == (stage = "STOPPING") ~> (stage # "STOPPING" \/ up = "down")

\* Neither a job nor a stop is left without its end.
EverythingEnds == JobEnds /\ StopAnswered
=============================================================================
