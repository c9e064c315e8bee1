------------------------- MODULE CodeChangeRunProofs -------------------------
(***************************************************************************)
(* Proofs about CodeChangeRun, for every value of its bounds.              *)
(*                                                                         *)
(* Type correctness needs one fact beside the types: the turn a job waits  *)
(* for is a review or a plan turn, never a discussion or a rebind, so that *)
(* the delivery it saves as owned has one of the three names of            *)
(* `deliveries'.  The flags and the other variables are proved apart: they *)
(* are independent, and the provers are at ease with one kind at a time.   *)
(*                                                                         *)
(* ApprovalHolds is not inductive: it speaks of stages and of the target,  *)
(* and is kept because of where the job and the event loop's continuation  *)
(* are when a run may be applied (nowhere), and because the capture and    *)
(* the candidate do not part between the worker's close and the decision.  *)
(* ApprovalInv says so.  IterationsBounded is kept because a lost turn     *)
(* leaves no capture, so that only a run.retry can follow it.              *)
(*                                                                         *)
(* The rest of RecordIsTrue and StopIsFinal rest on StopInv: which stage   *)
(* each continuation and each wait belongs to, that the worker process and *)
(* the table of workers agree, that worker turns and audit turns exclude   *)
(* each other, and what a pending run.stop waits for.                      *)
(***************************************************************************)
EXTENDS CodeChangeRun, TLAPS

USE DEF vars, record, memory, world, bounds, product, webVars, stopVars, talkVars, fixed
-----------------------------------------------------------------------------
(* Type correctness *)

\* A job that fails leaves the abort signal, or raises it
LEMMA RejectedKeepsFlag == Rejected => aborted' = aborted \/ aborted' = TRUE
  BY DEF Rejected

\* Every step keeps the flags Boolean
LEMMA FlagsStep == FlagTypes /\ [Next]_vars => FlagTypes'
  <1> SUFFICES ASSUME FlagTypes, [Next]_vars PROVE FlagTypes'
    OBVIOUS
  <1> USE DEF FlagTypes
  <1>1. CASE Start
    BY <1>1 DEF Start, Free
  <1>2. CASE Execute
    <2>1. aborted' \in BOOLEAN
      BY <1>2, RejectedKeepsFlag DEF Execute
    <2>2. intact' \in BOOLEAN
      BY <1>2 DEF Execute
    <2> QED
      BY <1>2, <2>1, <2>2 DEF Execute
  <1>3. CASE BeginIteration
    <2>1. aborted' \in BOOLEAN
      BY <1>3, RejectedKeepsFlag DEF BeginIteration
    <2> QED
      BY <1>3, <2>1 DEF BeginIteration
  <1>4. CASE WorkerCreated
    BY <1>4 DEF WorkerCreated, Alive
  <1>5. CASE WorkerCreationFails
    <2>1. aborted' \in BOOLEAN
      BY <1>5, RejectedKeepsFlag DEF WorkerCreationFails
    <2> QED
      BY <1>5, <2>1 DEF WorkerCreationFails
  <1>6. CASE OrphanCreated
    BY <1>6 DEF OrphanCreated, Alive
  <1>7. CASE WorkerAdvances
    BY <1>7 DEF WorkerAdvances, IsActive, Alive
  <1>8. CASE WorkerCompletes
    BY <1>8 DEF WorkerCompletes, IsActive, Alive
  <1>9. CASE WorkerFails
    BY <1>9 DEF WorkerFails, Alive
  <1>10. CASE WorkerClosed
    <2>1. aborted' \in BOOLEAN
      BY <1>10, RejectedKeepsFlag DEF WorkerClosed, EnterVerification
    <2>2. registered' \in BOOLEAN
      BY <1>10 DEF WorkerClosed
    <2> QED
      BY <1>10, <2>1, <2>2 DEF WorkerClosed
  <1>11. CASE VerificationEnds
    <2>1. /\ UNCHANGED <<stopRequested, turnTimedOut, unconfirmed, tabChoice, err, registered,
                         stopSure, interrupting, disc>>
          /\ \E same \in BOOLEAN : intact' = (intact /\ same)
          /\ UNCHANGED aborted \/ Rejected
      BY <1>11 DEF VerificationEnds
    <2>2. aborted' \in BOOLEAN
      BY <2>1 DEF Rejected
    <2> QED
      BY <2>1, <2>2
  <1>12. CASE AuditContinues
    <2>1. /\ UNCHANGED <<stopRequested, turnTimedOut, unconfirmed, err, registered, stopSure,
                         interrupting, disc, intact>>
          /\ \/ \E kind \in {"review", "plan"} : NextTurn(kind)
             \/ AuditFails \/ BindingRefused \/ Supplement \/ LimitReached
             \/ \E decision \in {"PASS", "HOLD", "REWORK"} : Decide(decision)
      BY <1>12 DEF AuditContinues
    <2>2. tabChoice' \in BOOLEAN /\ aborted' \in BOOLEAN
      <3>1. ASSUME NEW kind \in {"review", "plan"}, NextTurn(kind)
            PROVE  tabChoice' \in BOOLEAN /\ aborted' \in BOOLEAN
        BY <3>1 DEF NextTurn
      <3>2. CASE AuditFails
        BY <3>2 DEF AuditFails, Rejected
      <3>3. CASE BindingRefused
        BY <3>3 DEF BindingRefused
      <3>4. CASE Supplement
        BY <3>4 DEF Supplement
      <3>5. CASE LimitReached
        BY <3>5 DEF LimitReached
      <3>6. ASSUME NEW decision \in {"PASS", "HOLD", "REWORK"}, Decide(decision)
            PROVE  tabChoice' \in BOOLEAN /\ aborted' \in BOOLEAN
        BY <3>6 DEF Decide
      <3> QED
        BY <2>1, <3>1, <3>2, <3>3, <3>4, <3>5, <3>6
    <2> QED
      BY <2>1, <2>2
  <1>13. CASE RoleActivated
    <2>1. aborted' \in BOOLEAN
      BY <1>13, RejectedKeepsFlag DEF RoleActivated
    <2>2. tabChoice' \in BOOLEAN
      BY <1>13 DEF RoleActivated
    <2> QED
      BY <1>13, <2>1, <2>2 DEF RoleActivated
  <1>14. CASE AnswerArrives
    <2>1. aborted' \in BOOLEAN
      BY <1>14, RejectedKeepsFlag DEF AnswerArrives
    <2> QED
      BY <1>14, <2>1 DEF AnswerArrives
  <1>15. CASE AckArrives
    <2>1. aborted' \in BOOLEAN
      BY <1>15, RejectedKeepsFlag DEF AckArrives
    <2> QED
      BY <1>15, <2>1 DEF AckArrives
  <1>16. CASE AnswerTimesOut
    <2>1. aborted' \in BOOLEAN
      BY <1>16, RejectedKeepsFlag DEF AnswerTimesOut
    <2>2. interrupting' \in BOOLEAN
      BY <1>16 DEF AnswerTimesOut
    <2> QED
      BY <1>16, <2>1, <2>2 DEF AnswerTimesOut
  <1>17. CASE LateAnswer
    BY <1>17 DEF LateAnswer, InterruptSettles, StopVerdict, StopConfirmed, NobodyAwaits, Alive
  <1>18. CASE InterruptConfirmed
    BY <1>18 DEF InterruptConfirmed, InterruptSettles, StopVerdict, StopConfirmed,
      NobodyAwaits, Alive
  <1>19. CASE InterruptTimesOut
    BY <1>19 DEF InterruptTimesOut, InterruptSettles, StopVerdict, StopConfirmed, Alive
  <1>20. CASE TotalTimeLimit
    BY <1>20 DEF TotalTimeLimit, ReviewPending, AbortJob, HasJob, Alive
  <1>21. CASE ApplyPatch
    BY <1>21 DEF ApplyPatch
  <1>22. CASE ApplySaved
    BY <1>22 DEF ApplySaved
  <1>23. CASE DiscussionAdvances
    BY <1>23 DEF DiscussionAdvances, Alive
  <1>24. CASE DiscussionFails
    BY <1>24 DEF DiscussionFails, Alive
  <1>25. CASE RebindEnds
    BY <1>25 DEF RebindEnds, Alive
  <1>26. CASE Stop
    BY <1>26 DEF Stop, ReviewPending, AbortJob, Free
  <1>27. CASE Abandon
    BY <1>27 DEF Abandon, Settled, HasJob, Free
  <1>28. CASE RunRetry
    BY <1>28 DEF RunRetry, Settled, HasJob, RetryableWorkerTimeout, Free
  <1>29. CASE ReviewRetry
    BY <1>29 DEF ReviewRetry, WebBusy, Settled, HasJob, CanResumeAcknowledgedReview,
      RetryableAuditReview, Free
  <1>30. CASE Rebind
    BY <1>30 DEF Rebind, AdapterIdle, Settled, HasJob, Free
  <1>31. CASE Apply
    BY <1>31 DEF Apply, ApprovalCandidate, HasJob, Free
  <1>32. CASE Delete
    BY <1>32 DEF Delete, WebBusy, Settled, HasJob, Free
  <1>33. CASE Discuss
    BY <1>33 DEF Discuss, AdapterIdle, Settled, HasJob, Free
  <1>34. CASE Discard
    BY <1>34 DEF Discard, AdapterIdle, Settled, HasJob, Free
  <1>35. CASE Shutdown
    BY <1>35 DEF Shutdown, ReviewPending, AbortJob, Free
  <1>36. CASE Crash
    BY <1>36 DEF Crash
  <1>37. CASE Restart
    BY <1>37 DEF Restart, RecoveredReview, ApplicationState, ApprovalCandidate
  <1>38. CASE ExternalEdit
    BY <1>38 DEF ExternalEdit
  <1>39. CASE UNCHANGED vars
    BY <1>39
  <1> QED
    BY <1>1, <1>2, <1>3, <1>4, <1>5, <1>6, <1>7, <1>8, <1>9, <1>10, <1>11, <1>12, <1>13,
      <1>14, <1>15, <1>16, <1>17, <1>18, <1>19, <1>20, <1>21, <1>22, <1>23, <1>24, <1>25,
      <1>26, <1>27, <1>28, <1>29, <1>30, <1>31, <1>32, <1>33, <1>34, <1>35, <1>36, <1>37,
      <1>38, <1>39 DEF Next, JobStep, Command

USE DEF Terminal, Stopped, Active, Stages, LimitReasons, RetryableHolds, JobFailures, Reasons,
        Reviewing, Unprovable, WorkerWaits, WebWaits, Waits, Threads, NoReview, NoApplication

\* The turn a job waits for is its own
JobOwnsTurn == pc \in WebWaits => webOwner \in {"review", "plan"}

TypeInv == FlagTypes /\ ValueTypes /\ JobOwnsTurn

\* The initial record, memory and world are well typed and no job waits
LEMMA TypeInit == Init => TypeInv
  <1>1. Init => FlagTypes
    BY DEF Init, FlagTypes
  <1>2. Init => ValueTypes
    BY BoundsAssumption DEF Init, ValueTypes
  <1>3. Init => JobOwnsTurn
    BY DEF Init, JobOwnsTurn
  <1> QED
    BY <1>1, <1>2, <1>3 DEF TypeInv

\* A job's wait and the request it waits for begin and end together
LEMMA OwnerStep == JobOwnsTurn /\ [Next]_vars => JobOwnsTurn'
  <1> SUFFICES ASSUME JobOwnsTurn, [Next]_vars PROVE JobOwnsTurn'
    OBVIOUS
  <1> USE DEF JobOwnsTurn
  <1>1. CASE Start
    BY <1>1 DEF Start, Free
  <1>2. CASE Execute
    BY <1>2 DEF Execute, Rejected
  <1>3. CASE BeginIteration
    BY <1>3 DEF BeginIteration, Rejected, ReworkAuthorized
  <1>4. CASE WorkerCreated
    BY <1>4 DEF WorkerCreated, Alive
  <1>5. CASE WorkerCreationFails
    BY <1>5 DEF WorkerCreationFails, Rejected, Alive
  <1>6. CASE OrphanCreated
    BY <1>6 DEF OrphanCreated, Alive
  <1>7. CASE WorkerAdvances
    BY <1>7 DEF WorkerAdvances, IsActive, Alive
  <1>8. CASE WorkerCompletes
    BY <1>8 DEF WorkerCompletes, IsActive, Alive
  <1>9. CASE WorkerFails
    BY <1>9 DEF WorkerFails, Alive
  <1>10. CASE WorkerClosed
    BY <1>10 DEF WorkerClosed, Rejected, EnterVerification, IsActive, StopVerdict,
      StopConfirmed, Alive
  <1>11. CASE VerificationEnds
    BY <1>11 DEF VerificationEnds, Rejected, IsActive, Alive
  <1>12. CASE AuditContinues
    BY <1>12 DEF AuditContinues, Decide, PlanAgreed, IterationsExhausted, NewReview, Reviewed,
      LimitReached, HoldFor, Supplement, BindingRefused, AuditFails, Rejected, NextTurn,
      AdapterIdle
  <1>13. CASE RoleActivated
    BY <1>13 DEF RoleActivated, Rejected, HoldFor, IsActive, Alive
  <1>14. CASE AnswerArrives
    BY <1>14 DEF AnswerArrives, Rejected, IsActive, Alive
  <1>15. CASE AckArrives
    BY <1>15 DEF AckArrives, Rejected, IsActive, Alive
  <1>16. CASE AnswerTimesOut
    BY <1>16 DEF AnswerTimesOut, Rejected, ReviewPending, Alive
  <1>17. CASE LateAnswer
    BY <1>17 DEF LateAnswer, InterruptSettles, StopVerdict, StopConfirmed, NobodyAwaits, Alive
  <1>18. CASE InterruptConfirmed
    BY <1>18 DEF InterruptConfirmed, InterruptSettles, StopVerdict, StopConfirmed,
      NobodyAwaits, Alive
  <1>19. CASE InterruptTimesOut
    BY <1>19 DEF InterruptTimesOut, InterruptSettles, StopVerdict, StopConfirmed, Alive
  <1>20. CASE TotalTimeLimit
    BY <1>20 DEF TotalTimeLimit, ReviewPending, AbortJob, HasJob, Alive
  <1>21. CASE ApplyPatch
    BY <1>21 DEF ApplyPatch
  <1>22. CASE ApplySaved
    BY <1>22 DEF ApplySaved
  <1>23. CASE DiscussionAdvances
    BY <1>23 DEF DiscussionAdvances, Alive
  <1>24. CASE DiscussionFails
    BY <1>24 DEF DiscussionFails, Alive
  <1>25. CASE RebindEnds
    BY <1>25 DEF RebindEnds, Alive
  <1>26. CASE Stop
    BY <1>26 DEF Stop, ReviewPending, AbortJob, Free
  <1>27. CASE Abandon
    BY <1>27 DEF Abandon, Settled, HasJob, Free
  <1>28. CASE RunRetry
    BY <1>28 DEF RunRetry, Settled, HasJob, RetryableWorkerTimeout, Free
  <1>29. CASE ReviewRetry
    BY <1>29 DEF ReviewRetry, WebBusy, Settled, HasJob, CanResumeAcknowledgedReview,
      RetryableAuditReview, Free
  <1>30. CASE Rebind
    BY <1>30 DEF Rebind, AdapterIdle, Settled, HasJob, Free
  <1>31. CASE Apply
    BY <1>31 DEF Apply, ApprovalCandidate, HasJob, Free
  <1>32. CASE Delete
    BY <1>32 DEF Delete, WebBusy, Settled, HasJob, Free
  <1>33. CASE Discuss
    BY <1>33 DEF Discuss, AdapterIdle, Settled, HasJob, Free
  <1>34. CASE Discard
    BY <1>34 DEF Discard, AdapterIdle, Settled, HasJob, Free
  <1>35. CASE Shutdown
    BY <1>35 DEF Shutdown, ReviewPending, AbortJob, Free
  <1>36. CASE Crash
    BY <1>36 DEF Crash
  <1>37. CASE Restart
    BY <1>37 DEF Restart, RecoveredReview, ApplicationState, ApprovalCandidate
  <1>38. CASE ExternalEdit
    BY <1>38 DEF ExternalEdit
  <1>39. CASE UNCHANGED vars
    BY <1>39
  <1> QED
    BY <1>1, <1>2, <1>3, <1>4, <1>5, <1>6, <1>7, <1>8, <1>9, <1>10, <1>11, <1>12, <1>13,
      <1>14, <1>15, <1>16, <1>17, <1>18, <1>19, <1>20, <1>21, <1>22, <1>23, <1>24, <1>25,
      <1>26, <1>27, <1>28, <1>29, <1>30, <1>31, <1>32, <1>33, <1>34, <1>35, <1>36, <1>37,
      <1>38, <1>39 DEF Next, JobStep, Command

\* Every step keeps the types of the other variables
LEMMA ValuesStep == ValueTypes /\ JobOwnsTurn /\ [Next]_vars => ValueTypes'
  <1> SUFFICES ASSUME ValueTypes, JobOwnsTurn, [Next]_vars PROVE ValueTypes'
    OBVIOUS
  <1> USE BoundsAssumption DEF ValueTypes, JobOwnsTurn
  <1>1. CASE Start
    BY <1>1 DEF Start, Free
  <1>2. CASE Execute
    BY <1>2 DEF Execute, Rejected
  <1>3. CASE BeginIteration
    BY <1>3 DEF BeginIteration, Rejected, ReworkAuthorized
  <1>4. CASE WorkerCreated
    BY <1>4 DEF WorkerCreated, Alive
  <1>5. CASE WorkerCreationFails
    BY <1>5 DEF WorkerCreationFails, Rejected, Alive
  <1>6. CASE OrphanCreated
    BY <1>6 DEF OrphanCreated, Alive
  <1>7. CASE WorkerAdvances
    BY <1>7 DEF WorkerAdvances, IsActive, Alive
  <1>8. CASE WorkerCompletes
    BY <1>8 DEF WorkerCompletes, IsActive, Alive
  <1>9. CASE WorkerFails
    BY <1>9 DEF WorkerFails, Alive
  <1>10. CASE WorkerClosed
    BY <1>10 DEF WorkerClosed, Rejected, EnterVerification, IsActive, StopVerdict,
      StopConfirmed, Alive
  <1>11. CASE VerificationEnds
    BY <1>11 DEF VerificationEnds, Rejected, IsActive, Alive
  <1>12. CASE AuditContinues
    BY <1>12 DEF AuditContinues, Decide, PlanAgreed, IterationsExhausted, NewReview, Reviewed,
      LimitReached, HoldFor, Supplement, BindingRefused, AuditFails, Rejected, NextTurn,
      AdapterIdle
  <1>13. CASE RoleActivated
    <2>1. deliveries' \subseteq deliveries \cup {webOwner}
      BY <1>13 DEF RoleActivated
    <2>2. deliveries' \subseteq {"review", "plan", "discuss"}
      BY <2>1, <1>13 DEF RoleActivated
    <2> QED
      BY <1>13, <2>2 DEF RoleActivated, Rejected, HoldFor
  <1>14. CASE AnswerArrives
    BY <1>14 DEF AnswerArrives, Rejected, IsActive, Alive
  <1>15. CASE AckArrives
    <2>1. deliveries' \subseteq deliveries
      BY <1>15 DEF AckArrives
    <2> QED
      BY <1>15, <2>1 DEF AckArrives, Rejected
  <1>16. CASE AnswerTimesOut
    BY <1>16 DEF AnswerTimesOut, Rejected, ReviewPending, Alive
  <1>17. CASE LateAnswer
    BY <1>17 DEF LateAnswer, InterruptSettles, StopVerdict, StopConfirmed, NobodyAwaits, Alive
  <1>18. CASE InterruptConfirmed
    BY <1>18 DEF InterruptConfirmed, InterruptSettles, StopVerdict, StopConfirmed,
      NobodyAwaits, Alive
  <1>19. CASE InterruptTimesOut
    BY <1>19 DEF InterruptTimesOut, InterruptSettles, StopVerdict, StopConfirmed, Alive
  <1>20. CASE TotalTimeLimit
    BY <1>20 DEF TotalTimeLimit, ReviewPending, AbortJob, HasJob, Alive
  <1>21. CASE ApplyPatch
    BY <1>21 DEF ApplyPatch
  <1>22. CASE ApplySaved
    BY <1>22 DEF ApplySaved
  <1>23. CASE DiscussionAdvances
    <2>1. deliveries' \subseteq deliveries \cup {"discuss"}
      BY <1>23 DEF DiscussionAdvances
    <2>2. webOp' \in {"idle", "resume", "turn", "ack"} /\ webOwner' \in {webOwner, "none"}
      BY <1>23 DEF DiscussionAdvances
    <2>3. UNCHANGED <<stage, reason, stopWait, iteration, product, recovery, acked, up, thread,
                      pc, world, bounds>>
      BY <1>23 DEF DiscussionAdvances
    <2> QED
      BY <2>1, <2>2, <2>3
  <1>24. CASE DiscussionFails
    BY <1>24 DEF DiscussionFails, Alive
  <1>25. CASE RebindEnds
    BY <1>25 DEF RebindEnds, Alive
  <1>26. CASE Stop
    <2>1. stage' \in Stages /\ reason' \in Reasons /\ stopWait' \in {"none", "worker", "web"}
      BY <1>26 DEF Stop
    <2>2. AbortJob
      BY <1>26 DEF Stop
    <2>3. /\ pc' \in Waits \cup {"idle"} /\ orphan' \in {"none", "creating", "leaked"}
          /\ proc' \in {"none", "creating", "idle", "turn", "closing", "gone", "stuck", "stray"}
      BY <2>2 DEF AbortJob
    <2>4. UNCHANGED <<iteration, product, recovery, acked, deliveries, thread, webOp, webOwner,
                      target, fixed, talks>>
      BY <1>26 DEF Stop
    <2> QED
      BY <2>1, <2>3, <2>4
  <1>27. CASE Abandon
    BY <1>27 DEF Abandon, Settled, HasJob, Free
  <1>28. CASE RunRetry
    BY <1>28 DEF RunRetry, Settled, HasJob, RetryableWorkerTimeout, Free
  <1>29. CASE ReviewRetry
    BY <1>29 DEF ReviewRetry, WebBusy, Settled, HasJob, CanResumeAcknowledgedReview,
      RetryableAuditReview, Free
  <1>30. CASE Rebind
    BY <1>30 DEF Rebind, AdapterIdle, Settled, HasJob, Free
  <1>31. CASE Apply
    BY <1>31 DEF Apply, ApprovalCandidate, HasJob, Free
  <1>32. CASE Delete
    BY <1>32 DEF Delete, WebBusy, Settled, HasJob, Free
  <1>33. CASE Discuss
    BY <1>33 DEF Discuss, AdapterIdle, Settled, HasJob, Free
  <1>34. CASE Discard
    BY <1>34 DEF Discard, AdapterIdle, Settled, HasJob, Free
  <1>35. CASE Shutdown
    BY <1>35 DEF Shutdown, ReviewPending, AbortJob, Free
  <1>36. CASE Crash
    BY <1>36 DEF Crash
  <1>37. CASE Restart
    BY <1>37 DEF Restart, RecoveredReview, ApplicationState, ApprovalCandidate
  <1>38. CASE ExternalEdit
    BY <1>38 DEF ExternalEdit
  <1>39. CASE UNCHANGED vars
    BY <1>39
  <1> QED
    BY <1>1, <1>2, <1>3, <1>4, <1>5, <1>6, <1>7, <1>8, <1>9, <1>10, <1>11, <1>12, <1>13,
      <1>14, <1>15, <1>16, <1>17, <1>18, <1>19, <1>20, <1>21, <1>22, <1>23, <1>24, <1>25,
      <1>26, <1>27, <1>28, <1>29, <1>30, <1>31, <1>32, <1>33, <1>34, <1>35, <1>36, <1>37,
      <1>38, <1>39 DEF Next, JobStep, Command

\* Every variable of a CODE_CHANGE run keeps its type
THEOREM TypeCorrect == Spec => []TypeOK
  <1>1. TypeInv /\ [Next]_vars => TypeInv'
    BY FlagsStep, OwnerStep, ValuesStep DEF TypeInv
  <1>2. TypeInv => TypeOK
    BY DEF TypeInv, TypeOK
  <1> QED
    BY TypeInit, <1>1, <1>2, PTL DEF Spec

\* What the other theorems use of it
LEMMA ValuesCorrect == Spec => []ValueTypes
  <1>1. TypeOK => ValueTypes
    BY DEF TypeOK
  <1> QED
    BY TypeCorrect, <1>1, PTL

-----------------------------------------------------------------------------
(* A run that may be applied *)

\* At most one continuation is due: the job's wait, or the rest of a turn of
\* the event loop.  An application is under way exactly while it is due.
SingleContinuation ==
  /\ thread # "free" => pc = "idle"
  /\ up = "down" => thread = "free" /\ pc = "idle"
  /\ thread \in {"apply", "applied", "applyFailed"} <=> stage = "APPLYING" /\ up # "down"

\* What is verified and reviewed is what the worker left: from the close of
\* the worker to the decision the candidate is the last capture.
AuditsCapture ==
  /\ pc \in WorkerWaits \cup {"create"} => iteration # 0
  /\ pc = "close" /\ ~err => capture # 0
  /\ thread = "audit" \/ pc \in {"verify", "supplement"} \cup WebWaits =>
       candidate # 0 /\ capture = candidate
  /\ recovery = "READY" => candidate # 0 /\ capture = candidate

\* Nothing of the run's work is under way or due
Quiescent == pc = "idle" /\ thread \notin {"execute", "iterate", "audit"}

\* A run that may be applied, has been, or may resume an acknowledged review
\* is at rest
QuietWhenApproved ==
  /\ stage \in {"NONE", "AWAITING_APPLY", "APPLYING", "APPLIED"} => Quiescent
  /\ recovery = "READY" => Quiescent
  /\ application # NoApplication => Quiescent
  /\ stage = "NONE" => application = NoApplication /\ recovery = "NONE"

\* The recorded application is of the approved candidate, and precedes every
\* change of the target
ApplicationExplained ==
  /\ application # NoApplication => application.of = candidate /\ ApprovalCandidate
  /\ stage = "APPLYING" => application # NoApplication
  /\ thread = "applied" => target = "CANDIDATE"
  /\ target \in {"CANDIDATE", "PARTIAL"} => application # NoApplication

\* The part of ApprovalHolds that is about the stage
StageApproved ==
  /\ stage \in {"AWAITING_APPLY", "APPLYING", "APPLIED"} => ApprovalCandidate
  /\ stage = "APPLIED" => target = "CANDIDATE"

ApprovalInv == SingleContinuation /\ AuditsCapture /\ QuietWhenApproved /\ ApplicationExplained
                 /\ StageApproved

\* Nothing is captured, reviewed or applied at first
LEMMA ApprovalInit == Init => ApprovalInv
  BY DEF Init, ApprovalInv, SingleContinuation, AuditsCapture, QuietWhenApproved, Quiescent,
         ApplicationExplained, StageApproved

\* Every step leaves at most one continuation due
LEMMA ContinuationStep == SingleContinuation /\ QuietWhenApproved /\ ApplicationExplained /\ [Next]_vars => SingleContinuation'
  <1> SUFFICES ASSUME SingleContinuation, QuietWhenApproved, ApplicationExplained, [Next]_vars PROVE SingleContinuation'
    OBVIOUS
  <1> USE DEF SingleContinuation, QuietWhenApproved, Quiescent, ApplicationExplained
  <1>1. CASE Start
    BY <1>1 DEF Start, Free
  <1>2. CASE Execute
    BY <1>2 DEF Execute, Rejected
  <1>3. CASE BeginIteration
    BY <1>3 DEF BeginIteration, Rejected, ReworkAuthorized
  <1>4. CASE WorkerCreated
    BY <1>4 DEF WorkerCreated, Alive
  <1>5. CASE WorkerCreationFails
    BY <1>5 DEF WorkerCreationFails, Rejected, Alive
  <1>6. CASE OrphanCreated
    BY <1>6 DEF OrphanCreated, Alive
  <1>7. CASE WorkerAdvances
    BY <1>7 DEF WorkerAdvances, IsActive, Alive
  <1>8. CASE WorkerCompletes
    BY <1>8 DEF WorkerCompletes, IsActive, Alive
  <1>9. CASE WorkerFails
    BY <1>9 DEF WorkerFails, Alive
  <1>10. CASE WorkerClosed
    BY <1>10 DEF WorkerClosed, Rejected, EnterVerification, IsActive, StopVerdict,
      StopConfirmed, Alive
  <1>11. CASE VerificationEnds
    BY <1>11 DEF VerificationEnds, Rejected, IsActive, Alive
  <1>12. CASE AuditContinues
    BY <1>12 DEF AuditContinues, Decide, PlanAgreed, IterationsExhausted, NewReview, Reviewed,
      LimitReached, HoldFor, Supplement, BindingRefused, AuditFails, Rejected, NextTurn,
      AdapterIdle
  <1>13. CASE RoleActivated
    BY <1>13 DEF RoleActivated, Rejected, HoldFor, IsActive, Alive
  <1>14. CASE AnswerArrives
    BY <1>14 DEF AnswerArrives, Rejected, IsActive, Alive
  <1>15. CASE AckArrives
    BY <1>15 DEF AckArrives, Rejected, IsActive, Alive
  <1>16. CASE AnswerTimesOut
    BY <1>16 DEF AnswerTimesOut, Rejected, ReviewPending, Alive
  <1>17. CASE LateAnswer
    BY <1>17 DEF LateAnswer, InterruptSettles, StopVerdict, StopConfirmed, NobodyAwaits, Alive
  <1>18. CASE InterruptConfirmed
    BY <1>18 DEF InterruptConfirmed, InterruptSettles, StopVerdict, StopConfirmed,
      NobodyAwaits, Alive
  <1>19. CASE InterruptTimesOut
    BY <1>19 DEF InterruptTimesOut, InterruptSettles, StopVerdict, StopConfirmed, Alive
  <1>20. CASE TotalTimeLimit
    BY <1>20 DEF TotalTimeLimit, ReviewPending, AbortJob, HasJob, Alive
  <1>21. CASE ApplyPatch
    BY <1>21 DEF ApplyPatch
  <1>22. CASE ApplySaved
    BY <1>22 DEF ApplySaved
  <1>23. CASE DiscussionAdvances
    BY <1>23 DEF DiscussionAdvances, Alive
  <1>24. CASE DiscussionFails
    BY <1>24 DEF DiscussionFails, Alive
  <1>25. CASE RebindEnds
    BY <1>25 DEF RebindEnds, Alive
  <1>26. CASE Stop
    BY <1>26 DEF Stop, ReviewPending, AbortJob, Free
  <1>27. CASE Abandon
    BY <1>27 DEF Abandon, Settled, HasJob, Free
  <1>28. CASE RunRetry
    BY <1>28 DEF RunRetry, Settled, HasJob, RetryableWorkerTimeout, Free
  <1>29. CASE ReviewRetry
    BY <1>29 DEF ReviewRetry, WebBusy, Settled, HasJob, CanResumeAcknowledgedReview,
      RetryableAuditReview, Free
  <1>30. CASE Rebind
    BY <1>30 DEF Rebind, AdapterIdle, Settled, HasJob, Free
  <1>31. CASE Apply
    BY <1>31 DEF Apply, ApprovalCandidate, HasJob, Free
  <1>32. CASE Delete
    BY <1>32 DEF Delete, WebBusy, Settled, HasJob, Free
  <1>33. CASE Discuss
    BY <1>33 DEF Discuss, AdapterIdle, Settled, HasJob, Free
  <1>34. CASE Discard
    BY <1>34 DEF Discard, AdapterIdle, Settled, HasJob, Free
  <1>35. CASE Shutdown
    BY <1>35 DEF Shutdown, ReviewPending, AbortJob, Free
  <1>36. CASE Crash
    BY <1>36 DEF Crash
  <1>37. CASE Restart
    BY <1>37 DEF Restart, RecoveredReview, ApplicationState, ApprovalCandidate
  <1>38. CASE ExternalEdit
    BY <1>38 DEF ExternalEdit
  <1>39. CASE UNCHANGED vars
    BY <1>39
  <1> QED
    BY <1>1, <1>2, <1>3, <1>4, <1>5, <1>6, <1>7, <1>8, <1>9, <1>10, <1>11, <1>12, <1>13,
      <1>14, <1>15, <1>16, <1>17, <1>18, <1>19, <1>20, <1>21, <1>22, <1>23, <1>24, <1>25,
      <1>26, <1>27, <1>28, <1>29, <1>30, <1>31, <1>32, <1>33, <1>34, <1>35, <1>36, <1>37,
      <1>38, <1>39 DEF Next, JobStep, Command

\* The candidate and the capture part only where a worker turn ends
LEMMA CaptureStep == ApprovalInv /\ ValueTypes /\ [Next]_vars => AuditsCapture'
  <1> SUFFICES ASSUME ApprovalInv, ValueTypes, [Next]_vars PROVE AuditsCapture'
    OBVIOUS
  <1> USE DEF ApprovalInv, SingleContinuation, AuditsCapture, QuietWhenApproved, ApplicationExplained,
             StageApproved, Quiescent, ApprovalCandidate, ValueTypes
  <1>1. CASE Start
    BY <1>1 DEF Start, Free
  <1>2. CASE Execute
    BY <1>2 DEF Execute, Rejected
  <1>3. CASE BeginIteration
    BY <1>3 DEF BeginIteration, Rejected, ReworkAuthorized
  <1>4. CASE WorkerCreated
    BY <1>4 DEF WorkerCreated, Alive
  <1>5. CASE WorkerCreationFails
    BY <1>5 DEF WorkerCreationFails, Rejected, Alive
  <1>6. CASE OrphanCreated
    BY <1>6 DEF OrphanCreated, Alive
  <1>7. CASE WorkerAdvances
    BY <1>7 DEF WorkerAdvances, IsActive, Alive
  <1>8. CASE WorkerCompletes
    BY <1>8 DEF WorkerCompletes, IsActive, Alive
  <1>9. CASE WorkerFails
    BY <1>9 DEF WorkerFails, Alive
  <1>10. CASE WorkerClosed
    BY <1>10 DEF WorkerClosed, Rejected, EnterVerification, IsActive, StopVerdict,
      StopConfirmed, Alive
  <1>11. CASE VerificationEnds
    BY <1>11 DEF VerificationEnds, Rejected, IsActive, Alive
  <1>12. CASE AuditContinues
    BY <1>12 DEF AuditContinues, Decide, PlanAgreed, IterationsExhausted, NewReview, Reviewed,
      LimitReached, HoldFor, Supplement, BindingRefused, AuditFails, Rejected, NextTurn,
      AdapterIdle
  <1>13. CASE RoleActivated
    BY <1>13 DEF RoleActivated, Rejected, HoldFor, IsActive, Alive
  <1>14. CASE AnswerArrives
    BY <1>14 DEF AnswerArrives, Rejected, IsActive, Alive
  <1>15. CASE AckArrives
    BY <1>15 DEF AckArrives, Rejected, IsActive, Alive
  <1>16. CASE AnswerTimesOut
    BY <1>16 DEF AnswerTimesOut, Rejected, ReviewPending, Alive
  <1>17. CASE LateAnswer
    BY <1>17 DEF LateAnswer, InterruptSettles, StopVerdict, StopConfirmed, NobodyAwaits, Alive
  <1>18. CASE InterruptConfirmed
    BY <1>18 DEF InterruptConfirmed, InterruptSettles, StopVerdict, StopConfirmed,
      NobodyAwaits, Alive
  <1>19. CASE InterruptTimesOut
    BY <1>19 DEF InterruptTimesOut, InterruptSettles, StopVerdict, StopConfirmed, Alive
  <1>20. CASE TotalTimeLimit
    BY <1>20 DEF TotalTimeLimit, ReviewPending, AbortJob, HasJob, Alive
  <1>21. CASE ApplyPatch
    BY <1>21 DEF ApplyPatch
  <1>22. CASE ApplySaved
    BY <1>22 DEF ApplySaved
  <1>23. CASE DiscussionAdvances
    BY <1>23 DEF DiscussionAdvances, Alive
  <1>24. CASE DiscussionFails
    BY <1>24 DEF DiscussionFails, Alive
  <1>25. CASE RebindEnds
    BY <1>25 DEF RebindEnds, Alive
  <1>26. CASE Stop
    <2>1. UNCHANGED <<iteration, candidate, capture, thread, recovery>>
      BY <1>26 DEF Stop
    <2>2. /\ pc' \in {"idle", "close", pc}
          /\ pc' \notin WorkerWaits \cup {"create"}
          /\ pc' = "close" /\ ~err' => pc = "close" /\ ~err
      BY <1>26 DEF Stop, AbortJob
    <2> QED
      BY <2>1, <2>2
  <1>27. CASE Abandon
    BY <1>27 DEF Abandon, Settled, HasJob, Free
  <1>28. CASE RunRetry
    BY <1>28 DEF RunRetry, Settled, HasJob, RetryableWorkerTimeout, Free
  <1>29. CASE ReviewRetry
    BY <1>29 DEF ReviewRetry, WebBusy, Settled, HasJob, CanResumeAcknowledgedReview,
      RetryableAuditReview, Free
  <1>30. CASE Rebind
    BY <1>30 DEF Rebind, AdapterIdle, Settled, HasJob, Free
  <1>31. CASE Apply
    BY <1>31 DEF Apply, ApprovalCandidate, HasJob, Free
  <1>32. CASE Delete
    BY <1>32 DEF Delete, WebBusy, Settled, HasJob, Free
  <1>33. CASE Discuss
    BY <1>33 DEF Discuss, AdapterIdle, Settled, HasJob, Free
  <1>34. CASE Discard
    BY <1>34 DEF Discard, AdapterIdle, Settled, HasJob, Free
  <1>35. CASE Shutdown
    BY <1>35 DEF Shutdown, ReviewPending, AbortJob, Free
  <1>36. CASE Crash
    BY <1>36 DEF Crash
  <1>37. CASE Restart
    BY <1>37 DEF Restart, RecoveredReview, ApplicationState, ApprovalCandidate
  <1>38. CASE ExternalEdit
    BY <1>38 DEF ExternalEdit
  <1>39. CASE UNCHANGED vars
    BY <1>39
  <1> QED
    BY <1>1, <1>2, <1>3, <1>4, <1>5, <1>6, <1>7, <1>8, <1>9, <1>10, <1>11, <1>12, <1>13,
      <1>14, <1>15, <1>16, <1>17, <1>18, <1>19, <1>20, <1>21, <1>22, <1>23, <1>24, <1>25,
      <1>26, <1>27, <1>28, <1>29, <1>30, <1>31, <1>32, <1>33, <1>34, <1>35, <1>36, <1>37,
      <1>38, <1>39 DEF Next, JobStep, Command

\* Work begins only from stages in which the run may not be applied
LEMMA QuietStep == ApprovalInv /\ ValueTypes /\ [Next]_vars => QuietWhenApproved'
  <1> SUFFICES ASSUME ApprovalInv, ValueTypes, [Next]_vars PROVE QuietWhenApproved'
    OBVIOUS
  <1> USE DEF ApprovalInv, SingleContinuation, AuditsCapture, QuietWhenApproved, ApplicationExplained,
             StageApproved, Quiescent, ApprovalCandidate, ValueTypes
  <1>1. CASE Start
    BY <1>1 DEF Start, Free
  <1>2. CASE Execute
    BY <1>2 DEF Execute, Rejected
  <1>3. CASE BeginIteration
    BY <1>3 DEF BeginIteration, Rejected, ReworkAuthorized
  <1>4. CASE WorkerCreated
    BY <1>4 DEF WorkerCreated, Alive
  <1>5. CASE WorkerCreationFails
    BY <1>5 DEF WorkerCreationFails, Rejected, Alive
  <1>6. CASE OrphanCreated
    BY <1>6 DEF OrphanCreated, Alive
  <1>7. CASE WorkerAdvances
    BY <1>7 DEF WorkerAdvances, IsActive, Alive
  <1>8. CASE WorkerCompletes
    BY <1>8 DEF WorkerCompletes, IsActive, Alive
  <1>9. CASE WorkerFails
    BY <1>9 DEF WorkerFails, Alive
  <1>10. CASE WorkerClosed
    BY <1>10 DEF WorkerClosed, Rejected, EnterVerification, IsActive, StopVerdict,
      StopConfirmed, Alive
  <1>11. CASE VerificationEnds
    BY <1>11 DEF VerificationEnds, Rejected, IsActive, Alive
  <1>12. CASE AuditContinues
    BY <1>12 DEF AuditContinues, Decide, PlanAgreed, IterationsExhausted, NewReview, Reviewed,
      LimitReached, HoldFor, Supplement, BindingRefused, AuditFails, Rejected, NextTurn,
      AdapterIdle
  <1>13. CASE RoleActivated
    BY <1>13 DEF RoleActivated, Rejected, HoldFor, IsActive, Alive
  <1>14. CASE AnswerArrives
    BY <1>14 DEF AnswerArrives, Rejected, IsActive, Alive
  <1>15. CASE AckArrives
    BY <1>15 DEF AckArrives, Rejected, IsActive, Alive
  <1>16. CASE AnswerTimesOut
    BY <1>16 DEF AnswerTimesOut, Rejected, ReviewPending, Alive
  <1>17. CASE LateAnswer
    BY <1>17 DEF LateAnswer, InterruptSettles, StopVerdict, StopConfirmed, NobodyAwaits, Alive
  <1>18. CASE InterruptConfirmed
    BY <1>18 DEF InterruptConfirmed, InterruptSettles, StopVerdict, StopConfirmed,
      NobodyAwaits, Alive
  <1>19. CASE InterruptTimesOut
    BY <1>19 DEF InterruptTimesOut, InterruptSettles, StopVerdict, StopConfirmed, Alive
  <1>20. CASE TotalTimeLimit
    BY <1>20 DEF TotalTimeLimit, ReviewPending, AbortJob, HasJob, Alive
  <1>21. CASE ApplyPatch
    BY <1>21 DEF ApplyPatch
  <1>22. CASE ApplySaved
    BY <1>22 DEF ApplySaved
  <1>23. CASE DiscussionAdvances
    BY <1>23 DEF DiscussionAdvances, Alive
  <1>24. CASE DiscussionFails
    BY <1>24 DEF DiscussionFails, Alive
  <1>25. CASE RebindEnds
    BY <1>25 DEF RebindEnds, Alive
  <1>26. CASE Stop
    BY <1>26 DEF Stop, ReviewPending, AbortJob, Free
  <1>27. CASE Abandon
    BY <1>27 DEF Abandon, Settled, HasJob, Free
  <1>28. CASE RunRetry
    BY <1>28 DEF RunRetry, Settled, HasJob, RetryableWorkerTimeout, Free
  <1>29. CASE ReviewRetry
    BY <1>29 DEF ReviewRetry, WebBusy, Settled, HasJob, CanResumeAcknowledgedReview,
      RetryableAuditReview, Free
  <1>30. CASE Rebind
    BY <1>30 DEF Rebind, AdapterIdle, Settled, HasJob, Free
  <1>31. CASE Apply
    BY <1>31 DEF Apply, ApprovalCandidate, HasJob, Free
  <1>32. CASE Delete
    BY <1>32 DEF Delete, WebBusy, Settled, HasJob, Free
  <1>33. CASE Discuss
    BY <1>33 DEF Discuss, AdapterIdle, Settled, HasJob, Free
  <1>34. CASE Discard
    BY <1>34 DEF Discard, AdapterIdle, Settled, HasJob, Free
  <1>35. CASE Shutdown
    BY <1>35 DEF Shutdown, ReviewPending, AbortJob, Free
  <1>36. CASE Crash
    BY <1>36 DEF Crash
  <1>37. CASE Restart
    BY <1>37 DEF Restart, RecoveredReview, ApplicationState, ApprovalCandidate
  <1>38. CASE ExternalEdit
    BY <1>38 DEF ExternalEdit
  <1>39. CASE UNCHANGED vars
    BY <1>39
  <1> QED
    BY <1>1, <1>2, <1>3, <1>4, <1>5, <1>6, <1>7, <1>8, <1>9, <1>10, <1>11, <1>12, <1>13,
      <1>14, <1>15, <1>16, <1>17, <1>18, <1>19, <1>20, <1>21, <1>22, <1>23, <1>24, <1>25,
      <1>26, <1>27, <1>28, <1>29, <1>30, <1>31, <1>32, <1>33, <1>34, <1>35, <1>36, <1>37,
      <1>38, <1>39 DEF Next, JobStep, Command

\* The target changes only under a recorded application of what was approved
LEMMA ApplicationStep == ApprovalInv /\ ValueTypes /\ [Next]_vars => ApplicationExplained'
  <1> SUFFICES ASSUME ApprovalInv, ValueTypes, [Next]_vars PROVE ApplicationExplained'
    OBVIOUS
  <1> USE DEF ApprovalInv, SingleContinuation, AuditsCapture, QuietWhenApproved, ApplicationExplained,
             StageApproved, Quiescent, ApprovalCandidate, ValueTypes
  <1>1. CASE Start
    BY <1>1 DEF Start, Free
  <1>2. CASE Execute
    BY <1>2 DEF Execute, Rejected
  <1>3. CASE BeginIteration
    BY <1>3 DEF BeginIteration, Rejected, ReworkAuthorized
  <1>4. CASE WorkerCreated
    BY <1>4 DEF WorkerCreated, Alive
  <1>5. CASE WorkerCreationFails
    BY <1>5 DEF WorkerCreationFails, Rejected, Alive
  <1>6. CASE OrphanCreated
    BY <1>6 DEF OrphanCreated, Alive
  <1>7. CASE WorkerAdvances
    BY <1>7 DEF WorkerAdvances, IsActive, Alive
  <1>8. CASE WorkerCompletes
    BY <1>8 DEF WorkerCompletes, IsActive, Alive
  <1>9. CASE WorkerFails
    BY <1>9 DEF WorkerFails, Alive
  <1>10. CASE WorkerClosed
    BY <1>10 DEF WorkerClosed, Rejected, EnterVerification, IsActive, StopVerdict,
      StopConfirmed, Alive
  <1>11. CASE VerificationEnds
    BY <1>11 DEF VerificationEnds, Rejected, IsActive, Alive
  <1>12. CASE AuditContinues
    BY <1>12 DEF AuditContinues, Decide, PlanAgreed, IterationsExhausted, NewReview, Reviewed,
      LimitReached, HoldFor, Supplement, BindingRefused, AuditFails, Rejected, NextTurn,
      AdapterIdle
  <1>13. CASE RoleActivated
    BY <1>13 DEF RoleActivated, Rejected, HoldFor, IsActive, Alive
  <1>14. CASE AnswerArrives
    BY <1>14 DEF AnswerArrives, Rejected, IsActive, Alive
  <1>15. CASE AckArrives
    BY <1>15 DEF AckArrives, Rejected, IsActive, Alive
  <1>16. CASE AnswerTimesOut
    BY <1>16 DEF AnswerTimesOut, Rejected, ReviewPending, Alive
  <1>17. CASE LateAnswer
    BY <1>17 DEF LateAnswer, InterruptSettles, StopVerdict, StopConfirmed, NobodyAwaits, Alive
  <1>18. CASE InterruptConfirmed
    BY <1>18 DEF InterruptConfirmed, InterruptSettles, StopVerdict, StopConfirmed,
      NobodyAwaits, Alive
  <1>19. CASE InterruptTimesOut
    BY <1>19 DEF InterruptTimesOut, InterruptSettles, StopVerdict, StopConfirmed, Alive
  <1>20. CASE TotalTimeLimit
    BY <1>20 DEF TotalTimeLimit, ReviewPending, AbortJob, HasJob, Alive
  <1>21. CASE ApplyPatch
    BY <1>21 DEF ApplyPatch
  <1>22. CASE ApplySaved
    BY <1>22 DEF ApplySaved
  <1>23. CASE DiscussionAdvances
    BY <1>23 DEF DiscussionAdvances, Alive
  <1>24. CASE DiscussionFails
    BY <1>24 DEF DiscussionFails, Alive
  <1>25. CASE RebindEnds
    BY <1>25 DEF RebindEnds, Alive
  <1>26. CASE Stop
    BY <1>26 DEF Stop, ReviewPending, AbortJob, Free
  <1>27. CASE Abandon
    BY <1>27 DEF Abandon, Settled, HasJob, Free
  <1>28. CASE RunRetry
    BY <1>28 DEF RunRetry, Settled, HasJob, RetryableWorkerTimeout, Free
  <1>29. CASE ReviewRetry
    BY <1>29 DEF ReviewRetry, WebBusy, Settled, HasJob, CanResumeAcknowledgedReview,
      RetryableAuditReview, Free
  <1>30. CASE Rebind
    BY <1>30 DEF Rebind, AdapterIdle, Settled, HasJob, Free
  <1>31. CASE Apply
    BY <1>31 DEF Apply, ApprovalCandidate, HasJob, Free
  <1>32. CASE Delete
    BY <1>32 DEF Delete, WebBusy, Settled, HasJob, Free
  <1>33. CASE Discuss
    BY <1>33 DEF Discuss, AdapterIdle, Settled, HasJob, Free
  <1>34. CASE Discard
    BY <1>34 DEF Discard, AdapterIdle, Settled, HasJob, Free
  <1>35. CASE Shutdown
    BY <1>35 DEF Shutdown, ReviewPending, AbortJob, Free
  <1>36. CASE Crash
    BY <1>36 DEF Crash
  <1>37. CASE Restart
    BY <1>37 DEF Restart, RecoveredReview, ApplicationState, ApprovalCandidate
  <1>38. CASE ExternalEdit
    BY <1>38 DEF ExternalEdit
  <1>39. CASE UNCHANGED vars
    BY <1>39
  <1> QED
    BY <1>1, <1>2, <1>3, <1>4, <1>5, <1>6, <1>7, <1>8, <1>9, <1>10, <1>11, <1>12, <1>13,
      <1>14, <1>15, <1>16, <1>17, <1>18, <1>19, <1>20, <1>21, <1>22, <1>23, <1>24, <1>25,
      <1>26, <1>27, <1>28, <1>29, <1>30, <1>31, <1>32, <1>33, <1>34, <1>35, <1>36, <1>37,
      <1>38, <1>39 DEF Next, JobStep, Command

\* A run becomes applicable only by a PASS of its candidate
LEMMA StageStep == ApprovalInv /\ ValueTypes /\ [Next]_vars => StageApproved'
  <1> SUFFICES ASSUME ApprovalInv, ValueTypes, [Next]_vars PROVE StageApproved'
    OBVIOUS
  <1> USE DEF ApprovalInv, SingleContinuation, AuditsCapture, QuietWhenApproved, ApplicationExplained,
             StageApproved, Quiescent, ApprovalCandidate, ValueTypes
  <1>1. CASE Start
    BY <1>1 DEF Start, Free
  <1>2. CASE Execute
    BY <1>2 DEF Execute, Rejected
  <1>3. CASE BeginIteration
    BY <1>3 DEF BeginIteration, Rejected, ReworkAuthorized
  <1>4. CASE WorkerCreated
    BY <1>4 DEF WorkerCreated, Alive
  <1>5. CASE WorkerCreationFails
    BY <1>5 DEF WorkerCreationFails, Rejected, Alive
  <1>6. CASE OrphanCreated
    BY <1>6 DEF OrphanCreated, Alive
  <1>7. CASE WorkerAdvances
    BY <1>7 DEF WorkerAdvances, IsActive, Alive
  <1>8. CASE WorkerCompletes
    BY <1>8 DEF WorkerCompletes, IsActive, Alive
  <1>9. CASE WorkerFails
    BY <1>9 DEF WorkerFails, Alive
  <1>10. CASE WorkerClosed
    BY <1>10 DEF WorkerClosed, Rejected, EnterVerification, IsActive, StopVerdict,
      StopConfirmed, Alive
  <1>11. CASE VerificationEnds
    BY <1>11 DEF VerificationEnds, Rejected, IsActive, Alive
  <1>12. CASE AuditContinues
    BY <1>12 DEF AuditContinues, Decide, PlanAgreed, IterationsExhausted, NewReview, Reviewed,
      LimitReached, HoldFor, Supplement, BindingRefused, AuditFails, Rejected, NextTurn,
      AdapterIdle
  <1>13. CASE RoleActivated
    BY <1>13 DEF RoleActivated, Rejected, HoldFor, IsActive, Alive
  <1>14. CASE AnswerArrives
    BY <1>14 DEF AnswerArrives, Rejected, IsActive, Alive
  <1>15. CASE AckArrives
    BY <1>15 DEF AckArrives, Rejected, IsActive, Alive
  <1>16. CASE AnswerTimesOut
    BY <1>16 DEF AnswerTimesOut, Rejected, ReviewPending, Alive
  <1>17. CASE LateAnswer
    BY <1>17 DEF LateAnswer, InterruptSettles, StopVerdict, StopConfirmed, NobodyAwaits, Alive
  <1>18. CASE InterruptConfirmed
    BY <1>18 DEF InterruptConfirmed, InterruptSettles, StopVerdict, StopConfirmed,
      NobodyAwaits, Alive
  <1>19. CASE InterruptTimesOut
    BY <1>19 DEF InterruptTimesOut, InterruptSettles, StopVerdict, StopConfirmed, Alive
  <1>20. CASE TotalTimeLimit
    BY <1>20 DEF TotalTimeLimit, ReviewPending, AbortJob, HasJob, Alive
  <1>21. CASE ApplyPatch
    BY <1>21 DEF ApplyPatch
  <1>22. CASE ApplySaved
    BY <1>22 DEF ApplySaved
  <1>23. CASE DiscussionAdvances
    BY <1>23 DEF DiscussionAdvances, Alive
  <1>24. CASE DiscussionFails
    BY <1>24 DEF DiscussionFails, Alive
  <1>25. CASE RebindEnds
    BY <1>25 DEF RebindEnds, Alive
  <1>26. CASE Stop
    BY <1>26 DEF Stop, ReviewPending, AbortJob, Free
  <1>27. CASE Abandon
    BY <1>27 DEF Abandon, Settled, HasJob, Free
  <1>28. CASE RunRetry
    BY <1>28 DEF RunRetry, Settled, HasJob, RetryableWorkerTimeout, Free
  <1>29. CASE ReviewRetry
    BY <1>29 DEF ReviewRetry, WebBusy, Settled, HasJob, CanResumeAcknowledgedReview,
      RetryableAuditReview, Free
  <1>30. CASE Rebind
    BY <1>30 DEF Rebind, AdapterIdle, Settled, HasJob, Free
  <1>31. CASE Apply
    BY <1>31 DEF Apply, ApprovalCandidate, HasJob, Free
  <1>32. CASE Delete
    BY <1>32 DEF Delete, WebBusy, Settled, HasJob, Free
  <1>33. CASE Discuss
    BY <1>33 DEF Discuss, AdapterIdle, Settled, HasJob, Free
  <1>34. CASE Discard
    BY <1>34 DEF Discard, AdapterIdle, Settled, HasJob, Free
  <1>35. CASE Shutdown
    BY <1>35 DEF Shutdown, ReviewPending, AbortJob, Free
  <1>36. CASE Crash
    BY <1>36 DEF Crash
  <1>37. CASE Restart
    BY <1>37 DEF Restart, RecoveredReview, ApplicationState, ApprovalCandidate
  <1>38. CASE ExternalEdit
    BY <1>38 DEF ExternalEdit
  <1>39. CASE UNCHANGED vars
    BY <1>39
  <1> QED
    BY <1>1, <1>2, <1>3, <1>4, <1>5, <1>6, <1>7, <1>8, <1>9, <1>10, <1>11, <1>12, <1>13,
      <1>14, <1>15, <1>16, <1>17, <1>18, <1>19, <1>20, <1>21, <1>22, <1>23, <1>24, <1>25,
      <1>26, <1>27, <1>28, <1>29, <1>30, <1>31, <1>32, <1>33, <1>34, <1>35, <1>36, <1>37,
      <1>38, <1>39 DEF Next, JobStep, Command

\* The parts of ApprovalInv carry one another through every step
LEMMA ApprovalInvHolds == Spec => []ApprovalInv
  <1>1. ApprovalInv /\ ValueTypes /\ [Next]_vars => ApprovalInv'
    <2> SUFFICES ASSUME ApprovalInv, ValueTypes, [Next]_vars PROVE ApprovalInv'
      OBVIOUS
    <2>1. SingleContinuation'
      BY ContinuationStep DEF ApprovalInv
    <2> QED
      BY <2>1, CaptureStep, QuietStep, ApplicationStep, StageStep DEF ApprovalInv
  <1> QED
    BY ApprovalInit, ValuesCorrect, <1>1, PTL DEF Spec

\* From the moment a run may be applied, through any crash and restart, its
\* last review is a PASS of the very candidate it holds, APPLIED is recorded
\* only of a target with the whole patch, and every target the service touched
\* is explained by an application of the approved candidate: Decide, Apply,
\* ApplyPatch and Restart keep the chain whatever else happens.
THEOREM ApprovalAlwaysHolds == Spec => []ApprovalHolds
  <1>1. ApprovalInv => ApprovalHolds
    BY DEF ApprovalInv, StageApproved, ApplicationExplained, ApprovalHolds
  <1> QED
    BY ApprovalInvHolds, <1>1, PTL

-----------------------------------------------------------------------------
(* The number of worker turns *)

\* Until a turn is captured, every turn beyond the first answers a run.retry;
\* once one is, only a REWORK short of maxIterations leads to another.
IterationsCounted ==
  /\ capture = 0 => iteration <= retries + 1
  /\ stage = "NONE" => capture = 0 /\ iteration = 0
  /\ thread = "execute" => capture = 0 /\ iteration <= retries
  /\ thread = "iterate" => \/ capture # 0 /\ iteration < MaxIterations
                           \/ capture = 0 /\ iteration <= retries
  /\ IterationsBounded

\* A step that starts a turn has a retry or a REWORK behind it
LEMMA IterationsStep == AuditsCapture /\ QuietWhenApproved /\ ValueTypes /\ IterationsCounted /\ [Next]_vars => IterationsCounted'
  <1> SUFFICES ASSUME AuditsCapture, QuietWhenApproved, ValueTypes, IterationsCounted, [Next]_vars PROVE IterationsCounted'
    OBVIOUS
  <1> USE BoundsAssumption DEF AuditsCapture, QuietWhenApproved, ValueTypes, IterationsCounted,
             IterationsBounded
  <1>1. CASE Start
    BY <1>1 DEF Start, Free
  <1>2. CASE Execute
    BY <1>2 DEF Execute, Rejected
  <1>3. CASE BeginIteration
    BY <1>3 DEF BeginIteration, Rejected, ReworkAuthorized
  <1>4. CASE WorkerCreated
    BY <1>4 DEF WorkerCreated, Alive
  <1>5. CASE WorkerCreationFails
    BY <1>5 DEF WorkerCreationFails, Rejected, Alive
  <1>6. CASE OrphanCreated
    BY <1>6 DEF OrphanCreated, Alive
  <1>7. CASE WorkerAdvances
    BY <1>7 DEF WorkerAdvances, IsActive, Alive
  <1>8. CASE WorkerCompletes
    BY <1>8 DEF WorkerCompletes, IsActive, Alive
  <1>9. CASE WorkerFails
    BY <1>9 DEF WorkerFails, Alive
  <1>10. CASE WorkerClosed
    BY <1>10 DEF WorkerClosed, Rejected, EnterVerification, IsActive, StopVerdict,
      StopConfirmed, Alive
  <1>11. CASE VerificationEnds
    BY <1>11 DEF VerificationEnds, Rejected, IsActive, Alive
  <1>12. CASE AuditContinues
    <2>1. /\ thread = "audit" /\ UNCHANGED <<iteration, capture, retries>>
          /\ \/ \E kind \in {"review", "plan"} : NextTurn(kind)
             \/ AuditFails \/ BindingRefused \/ Supplement \/ LimitReached
             \/ \E decision \in {"PASS", "HOLD", "REWORK"} : Decide(decision)
      BY <1>12 DEF AuditContinues
    <2>2. capture # 0 /\ stage # "NONE"
      BY <2>1
    <2>3. /\ stage' # "NONE" /\ thread' # "execute"
          /\ thread' = "iterate" => iteration < MaxIterations
      <3>1. ASSUME NEW kind \in {"review", "plan"}, NextTurn(kind)
            PROVE  stage' # "NONE" /\ thread' = "free"
        BY <2>2, <3>1 DEF NextTurn
      <3>2. CASE AuditFails
        BY <2>2, <3>2 DEF AuditFails, Rejected
      <3>3. CASE BindingRefused
        BY <3>3 DEF BindingRefused, HoldFor
      <3>4. CASE Supplement
        BY <2>1, <3>4 DEF Supplement
      <3>5. CASE LimitReached
        <4>1. stage' = "HOLD" /\ thread' = "free"
          BY <3>5 DEF LimitReached, HoldFor
        <4> QED
          BY <4>1
      <3>6. ASSUME NEW decision \in {"PASS", "HOLD", "REWORK"}, Decide(decision)
            PROVE  /\ stage' # "NONE" /\ thread' # "execute"
                   /\ thread' = "iterate" => iteration < MaxIterations
        BY <3>6 DEF Decide, IterationsExhausted
      <3> QED
        BY <2>1, <3>1, <3>2, <3>3, <3>4, <3>5, <3>6
    <2> QED
      BY <2>1, <2>2, <2>3
  <1>13. CASE RoleActivated
    BY <1>13 DEF RoleActivated, Rejected, HoldFor, IsActive, Alive
  <1>14. CASE AnswerArrives
    BY <1>14 DEF AnswerArrives, Rejected, IsActive, Alive
  <1>15. CASE AckArrives
    BY <1>15 DEF AckArrives, Rejected, IsActive, Alive
  <1>16. CASE AnswerTimesOut
    BY <1>16 DEF AnswerTimesOut, Rejected, ReviewPending, Alive
  <1>17. CASE LateAnswer
    BY <1>17 DEF LateAnswer, InterruptSettles, StopVerdict, StopConfirmed, NobodyAwaits, Alive
  <1>18. CASE InterruptConfirmed
    BY <1>18 DEF InterruptConfirmed, InterruptSettles, StopVerdict, StopConfirmed,
      NobodyAwaits, Alive
  <1>19. CASE InterruptTimesOut
    BY <1>19 DEF InterruptTimesOut, InterruptSettles, StopVerdict, StopConfirmed, Alive
  <1>20. CASE TotalTimeLimit
    BY <1>20 DEF TotalTimeLimit, ReviewPending, AbortJob, HasJob, Alive
  <1>21. CASE ApplyPatch
    BY <1>21 DEF ApplyPatch
  <1>22. CASE ApplySaved
    BY <1>22 DEF ApplySaved
  <1>23. CASE DiscussionAdvances
    BY <1>23 DEF DiscussionAdvances, Alive
  <1>24. CASE DiscussionFails
    BY <1>24 DEF DiscussionFails, Alive
  <1>25. CASE RebindEnds
    BY <1>25 DEF RebindEnds, Alive
  <1>26. CASE Stop
    BY <1>26 DEF Stop, ReviewPending, AbortJob, Free
  <1>27. CASE Abandon
    BY <1>27 DEF Abandon, Settled, HasJob, Free
  <1>28. CASE RunRetry
    BY <1>28 DEF RunRetry, Settled, HasJob, RetryableWorkerTimeout, Free
  <1>29. CASE ReviewRetry
    BY <1>29 DEF ReviewRetry, WebBusy, Settled, HasJob, CanResumeAcknowledgedReview,
      RetryableAuditReview, Free
  <1>30. CASE Rebind
    BY <1>30 DEF Rebind, AdapterIdle, Settled, HasJob, Free
  <1>31. CASE Apply
    BY <1>31 DEF Apply, ApprovalCandidate, HasJob, Free
  <1>32. CASE Delete
    BY <1>32 DEF Delete, WebBusy, Settled, HasJob, Free
  <1>33. CASE Discuss
    BY <1>33 DEF Discuss, AdapterIdle, Settled, HasJob, Free
  <1>34. CASE Discard
    BY <1>34 DEF Discard, AdapterIdle, Settled, HasJob, Free
  <1>35. CASE Shutdown
    BY <1>35 DEF Shutdown, ReviewPending, AbortJob, Free
  <1>36. CASE Crash
    BY <1>36 DEF Crash
  <1>37. CASE Restart
    BY <1>37 DEF Restart, RecoveredReview, ApplicationState, ApprovalCandidate
  <1>38. CASE ExternalEdit
    BY <1>38 DEF ExternalEdit
  <1>39. CASE UNCHANGED vars
    BY <1>39
  <1> QED
    BY <1>1, <1>2, <1>3, <1>4, <1>5, <1>6, <1>7, <1>8, <1>9, <1>10, <1>11, <1>12, <1>13,
      <1>14, <1>15, <1>16, <1>17, <1>18, <1>19, <1>20, <1>21, <1>22, <1>23, <1>24, <1>25,
      <1>26, <1>27, <1>28, <1>29, <1>30, <1>31, <1>32, <1>33, <1>34, <1>35, <1>36, <1>37,
      <1>38, <1>39 DEF Next, JobStep, Command

\* The worker gets at most maxIterations turns, or one more than were lost to a
\* timeout and retried: run.retry of code-change-service.js keeps the counter.
THEOREM IterationsAlwaysBounded == Spec => []IterationsBounded
  <1>1. Init => IterationsCounted
    BY BoundsAssumption DEF Init, IterationsCounted, IterationsBounded
  <1>2. ApprovalInv => AuditsCapture /\ QuietWhenApproved
    BY DEF ApprovalInv
  <1>3. IterationsCounted => IterationsBounded
    BY DEF IterationsCounted
  <1> QED
    BY <1>1, <1>2, <1>3, ValuesCorrect, ApprovalInvHolds, IterationsStep, PTL DEF Spec

-----------------------------------------------------------------------------
(* What the record says of the worker, the browser and the target, and what a stop means. *)
(* Each part below is kept by every step as long as all of them, the types and            *)
(* ApprovalInv hold.                                                                      *)

\* No process of the run's worker is left, nor on its way
NoWorker == proc \in {"none", "gone"}

\* The turns of the audit job
Audits == {"review", "plan"}

\* The stage tells which continuation is due or which wait is under way: a stage of the
\* job without one is what a crash left, or a stage that a stop has replaced
ContinuationStage ==
  /\ thread = "execute" => stage \in {"CREATED", "PROVISIONING"} /\ candidate = 0 /\ NoWorker
  /\ thread = "iterate" => stage \in {"PROVISIONING", "REWORK"} /\ (candidate = 0 \/ workOrder = candidate) /\ NoWorker
  /\ thread = "audit" => stage \in Reviewing \cup {"VERIFYING", "EVIDENCE_SUPPLEMENT"}
  /\ up = "up" /\ stage \in {"CREATED", "PROVISIONING", "REWORK"} => thread \in {"execute", "iterate"}
  /\ up = "up" /\ stage = "CANDIDATE_CAPTURE" => pc = "close"
  /\ pc \in WorkerWaits => stage \in {"WORKER_RUNNING"} \cup Stopped
  /\ pc = "close" => stage \in {"WORKER_RUNNING", "CANDIDATE_CAPTURE"} \cup Stopped
  /\ pc = "verify" => stage \in {"VERIFYING"} \cup Stopped
  /\ pc = "supplement" => stage \in {"EVIDENCE_SUPPLEMENT"} \cup Stopped
  /\ pc \in WebWaits \cup {"catch"} => stage \in Reviewing \cup Stopped
  /\ stage \in {"NONE", "DELETED"} => pc = "idle" /\ thread = "free"
  /\ stage = "NONE" => candidate = 0 /\ webOwner = "none" /\ ~stopRequested /\ NoWorker /\ stopWait = "none" /\ reason = "NONE"

\* The worker process, the table of workers and the wait of the job agree, and a worker is
\* there only before the first candidate or for an agreed rework of it
WorkerKnown ==
  /\ proc = "creating" <=> pc = "create"
  /\ pc = "create" => stage = "WORKER_RUNNING"
  /\ pc \in WorkerWaits => proc \in {"idle", "turn"}
  /\ pc = "close" <=> proc = "closing"
  /\ proc \in {"idle", "turn"} => pc \in WorkerWaits
  /\ registered <=> proc \in {"idle", "turn", "closing", "stuck"}
  /\ ~NoWorker => candidate = 0 \/ workOrder = candidate
  /\ stage \in {"HOLD", "AWAITING_APPLY", "APPLYING", "APPLIED", "INCONCLUSIVE"} => NoWorker
  /\ thread = "audit" \/ pc \in {"verify", "supplement", "catch"} \cup WebWaits => NoWorker
  /\ recovery = "READY" => NoWorker

\* The request of an audit turn that nobody waits for any more ends before the next worker
\* starts: its candidate is there, the worker gone
WebKnown ==
  /\ webOwner \in Audits => NoWorker /\ candidate # 0 /\ recovery # "READY" /\ thread \notin {"execute", "iterate"}
  /\ thread = "audit" /\ stage \in Reviewing /\ acked = candidate => webOwner \notin Audits
  /\ up = "down" => webOwner = "none" /\ stopWait = "none"
  /\ pc = "catch" => ReviewPending /\ interrupting

\* A stop that waits has been saved, for a worker being closed or a review turn; a stopped
\* run has no reason that run.retry accepts
StopKnown ==
  /\ stopWait # "none" => stage \in Stopped \cup {"DELETED"}
  /\ stopWait = "worker" => pc = "close"
  /\ stopWait = "web" => NoWorker /\ candidate # 0
  /\ stopWait # "none" => stopRequested
  /\ up = "up" /\ stage = "STOPPING" => stopWait # "none"
  /\ stopRequested => stage \in Stopped \cup {"DELETED"}
  /\ stopRequested \/ pc # "idle" => candidate # 0 \/ reason # "EXECUTION_UNCERTAIN"
  /\ stage \in Active => reason = "NONE"

\* What the four facts say together
StopInv == ContinuationStage /\ WorkerKnown /\ WebKnown /\ StopKnown

\* Which stage a continuation is due in
LEMMA StageOfContinuation ==
  ASSUME ApprovalInv, ValueTypes, ContinuationStage, WorkerKnown, WebKnown, StopKnown, [Next]_vars
         PROVE ContinuationStage'
  <1> USE BoundsAssumption DEF ApprovalInv, SingleContinuation, AuditsCapture, QuietWhenApproved,
        Quiescent, ContinuationStage, WorkerKnown, WebKnown, StopKnown, NoWorker, ReviewPending, HasJob,
        Stopped, Terminal, Active, Reviewing, WorkerWaits, WebWaits, Audits
  <1>1. CASE Start
    BY <1>1 DEF Start, Free
  <1>2. CASE Execute
    BY <1>2 DEF Execute, Rejected
  <1>3. CASE BeginIteration
    BY <1>3 DEF BeginIteration, Rejected, ReworkAuthorized
  <1>4. CASE WorkerCreated
    BY <1>4 DEF WorkerCreated, Alive
  <1>5. CASE WorkerCreationFails
    BY <1>5 DEF WorkerCreationFails, Rejected, Alive
  <1>6. CASE OrphanCreated
    BY <1>6 DEF OrphanCreated, Alive
  <1>7. CASE WorkerAdvances
    BY <1>7 DEF WorkerAdvances, IsActive, Alive
  <1>8. CASE WorkerCompletes
    BY <1>8 DEF WorkerCompletes, IsActive, Alive
  <1>9. CASE WorkerFails
    BY <1>9 DEF WorkerFails, Alive
  <1>10. CASE WorkerClosed
    BY <1>10 DEF WorkerClosed, Rejected, EnterVerification, IsActive, StopVerdict, StopConfirmed, Alive
  <1>11. CASE VerificationEnds
    BY <1>11 DEF VerificationEnds, Rejected, IsActive, Alive
  <1>12. CASE AuditContinues
    <2>1. /\ up = "up" /\ thread = "audit"
          /\ UNCHANGED <<iteration, candidate, capture, application, turnTimedOut, deliveries, err,
                         registered, stopVars, interrupting, talkVars, world, fixed>>
          /\ \/ \E kind \in {"review", "plan"} : NextTurn(kind)
             \/ AuditFails \/ BindingRefused \/ Supplement \/ LimitReached
             \/ \E decision \in {"PASS", "HOLD", "REWORK"} : Decide(decision)
      BY <1>12 DEF AuditContinues
    <2>2. ASSUME NEW kind \in {"review", "plan"}, NextTurn(kind)
          PROVE  ContinuationStage'
      BY <2>1, <2>2 DEF NextTurn, AdapterIdle, Reviewed
    <2>3. CASE AuditFails
      BY <2>1, <2>3 DEF AuditFails, Rejected
    <2>4. CASE BindingRefused
      BY <2>1, <2>4 DEF BindingRefused, HoldFor
    <2>5. CASE Supplement
      BY <2>1, <2>5 DEF Supplement, Reviewed
    <2>6. CASE LimitReached
      BY <2>1, <2>6 DEF LimitReached, HoldFor, Reviewed
    <2>7. ASSUME NEW decision \in {"PASS", "HOLD", "REWORK"}, Decide(decision)
          PROVE  ContinuationStage'
      BY <2>1, <2>7 DEF Decide, IterationsExhausted, PlanAgreed, Reviewed
    <2> QED
      BY <2>1, <2>2, <2>3, <2>4, <2>5, <2>6, <2>7
  <1>13. CASE RoleActivated
    BY <1>13 DEF RoleActivated, Rejected, HoldFor, IsActive, Alive
  <1>14. CASE AnswerArrives
    BY <1>14 DEF AnswerArrives, Rejected, IsActive, Alive
  <1>15. CASE AckArrives
    BY <1>15 DEF AckArrives, Rejected, IsActive, Alive
  <1>16. CASE AnswerTimesOut
    BY <1>16 DEF AnswerTimesOut, Rejected, ReviewPending, Alive
  <1>17. CASE LateAnswer
    BY <1>17 DEF LateAnswer, InterruptSettles, StopVerdict, StopConfirmed, NobodyAwaits, Alive
  <1>18. CASE InterruptConfirmed
    BY <1>18 DEF InterruptConfirmed, InterruptSettles, StopVerdict, StopConfirmed, NobodyAwaits, Alive
  <1>19. CASE InterruptTimesOut
    BY <1>19 DEF InterruptTimesOut, InterruptSettles, StopVerdict, StopConfirmed, Alive
  <1>20. CASE TotalTimeLimit
    BY <1>20 DEF TotalTimeLimit, ReviewPending, AbortJob, HasJob, Alive
  <1>21. CASE ApplyPatch
    BY <1>21 DEF ApplyPatch
  <1>22. CASE ApplySaved
    BY <1>22 DEF ApplySaved
  <1>23. CASE DiscussionAdvances
    BY <1>23 DEF DiscussionAdvances, Alive
  <1>24. CASE DiscussionFails
    BY <1>24 DEF DiscussionFails, Alive
  <1>25. CASE RebindEnds
    BY <1>25 DEF RebindEnds, Alive
  <1>26. CASE Stop
    BY <1>26 DEF Stop, ReviewPending, AbortJob, Free
  <1>27. CASE Abandon
    BY <1>27 DEF Abandon, Settled, HasJob, Free
  <1>28. CASE RunRetry
    BY <1>28 DEF RunRetry, Settled, HasJob, RetryableWorkerTimeout, Free
  <1>29. CASE ReviewRetry
    BY <1>29 DEF ReviewRetry, WebBusy, Settled, HasJob, CanResumeAcknowledgedReview,
          RetryableAuditReview, Free
  <1>30. CASE Rebind
    BY <1>30 DEF Rebind, AdapterIdle, Settled, HasJob, Free
  <1>31. CASE Apply
    BY <1>31 DEF Apply, ApprovalCandidate, HasJob, Free
  <1>32. CASE Delete
    BY <1>32 DEF Delete, WebBusy, Settled, HasJob, Free
  <1>33. CASE Discuss
    BY <1>33 DEF Discuss, AdapterIdle, Settled, HasJob, Free, NoWorker
  <1>34. CASE Discard
    BY <1>34 DEF Discard, AdapterIdle, Settled, HasJob, Free
  <1>35. CASE Shutdown
    BY <1>35 DEF Shutdown, ReviewPending, AbortJob, Free
  <1>36. CASE Crash
    BY <1>36 DEF Crash
  <1>37. CASE Restart
    BY <1>37 DEF Restart, RecoveredReview, ApplicationState, ApprovalCandidate
  <1>38. CASE ExternalEdit
    BY <1>38 DEF ExternalEdit
  <1>39. CASE UNCHANGED vars
    BY <1>39
  <1> QED
    BY <1>1, <1>2, <1>3, <1>4, <1>5, <1>6, <1>7, <1>8, <1>9, <1>10, <1>11, <1>12, <1>13, <1>14,
          <1>15, <1>16, <1>17, <1>18, <1>19, <1>20, <1>21, <1>22, <1>23, <1>24, <1>25, <1>26, <1>27,
          <1>28, <1>29, <1>30, <1>31, <1>32, <1>33, <1>34, <1>35, <1>36, <1>37, <1>38, <1>39 DEF Next,
          JobStep, Command

\* What is known of the worker process
LEMMA WorkerStep ==
  ASSUME ApprovalInv, ValueTypes, ContinuationStage, WorkerKnown, WebKnown, StopKnown, [Next]_vars
         PROVE WorkerKnown'
  <1> USE BoundsAssumption DEF ApprovalInv, SingleContinuation, AuditsCapture, QuietWhenApproved,
        Quiescent, ContinuationStage, WorkerKnown, WebKnown, StopKnown, NoWorker, ReviewPending, HasJob,
        Stopped, Terminal, Active, Reviewing, WorkerWaits, WebWaits, Audits
  <1>1. CASE Start
    BY <1>1 DEF Start, Free
  <1>2. CASE Execute
    BY <1>2 DEF Execute, Rejected
  <1>3. CASE BeginIteration
    BY <1>3 DEF BeginIteration, Rejected, ReworkAuthorized
  <1>4. CASE WorkerCreated
    BY <1>4 DEF WorkerCreated, Alive
  <1>5. CASE WorkerCreationFails
    BY <1>5 DEF WorkerCreationFails, Rejected, Alive
  <1>6. CASE OrphanCreated
    BY <1>6 DEF OrphanCreated, Alive
  <1>7. CASE WorkerAdvances
    BY <1>7 DEF WorkerAdvances, IsActive, Alive
  <1>8. CASE WorkerCompletes
    BY <1>8 DEF WorkerCompletes, IsActive, Alive
  <1>9. CASE WorkerFails
    BY <1>9 DEF WorkerFails, Alive
  <1>10. CASE WorkerClosed
    BY <1>10 DEF WorkerClosed, Rejected, EnterVerification, IsActive, StopVerdict, StopConfirmed, Alive
  <1>11. CASE VerificationEnds
    BY <1>11 DEF VerificationEnds, Rejected, IsActive, Alive
  <1>12. CASE AuditContinues
    <2>1. /\ up = "up" /\ thread = "audit"
          /\ UNCHANGED <<iteration, candidate, capture, application, turnTimedOut, deliveries, err,
                         registered, stopVars, interrupting, talkVars, world, fixed>>
          /\ \/ \E kind \in {"review", "plan"} : NextTurn(kind)
             \/ AuditFails \/ BindingRefused \/ Supplement \/ LimitReached
             \/ \E decision \in {"PASS", "HOLD", "REWORK"} : Decide(decision)
      BY <1>12 DEF AuditContinues
    <2>2. ASSUME NEW kind \in {"review", "plan"}, NextTurn(kind)
          PROVE  WorkerKnown'
      BY <2>1, <2>2 DEF NextTurn, AdapterIdle, Reviewed
    <2>3. CASE AuditFails
      BY <2>1, <2>3 DEF AuditFails, Rejected
    <2>4. CASE BindingRefused
      BY <2>1, <2>4 DEF BindingRefused, HoldFor
    <2>5. CASE Supplement
      BY <2>1, <2>5 DEF Supplement, Reviewed
    <2>6. CASE LimitReached
      BY <2>1, <2>6 DEF LimitReached, HoldFor, Reviewed
    <2>7. ASSUME NEW decision \in {"PASS", "HOLD", "REWORK"}, Decide(decision)
          PROVE  WorkerKnown'
      BY <2>1, <2>7 DEF Decide, IterationsExhausted, PlanAgreed, Reviewed
    <2> QED
      BY <2>1, <2>2, <2>3, <2>4, <2>5, <2>6, <2>7
  <1>13. CASE RoleActivated
    BY <1>13 DEF RoleActivated, Rejected, HoldFor, IsActive, Alive
  <1>14. CASE AnswerArrives
    BY <1>14 DEF AnswerArrives, Rejected, IsActive, Alive
  <1>15. CASE AckArrives
    BY <1>15 DEF AckArrives, Rejected, IsActive, Alive
  <1>16. CASE AnswerTimesOut
    BY <1>16 DEF AnswerTimesOut, Rejected, ReviewPending, Alive
  <1>17. CASE LateAnswer
    BY <1>17 DEF LateAnswer, InterruptSettles, StopVerdict, StopConfirmed, NobodyAwaits, Alive
  <1>18. CASE InterruptConfirmed
    BY <1>18 DEF InterruptConfirmed, InterruptSettles, StopVerdict, StopConfirmed, NobodyAwaits, Alive
  <1>19. CASE InterruptTimesOut
    BY <1>19 DEF InterruptTimesOut, InterruptSettles, StopVerdict, StopConfirmed, Alive
  <1>20. CASE TotalTimeLimit
    BY <1>20 DEF TotalTimeLimit, ReviewPending, AbortJob, HasJob, Alive
  <1>21. CASE ApplyPatch
    BY <1>21 DEF ApplyPatch
  <1>22. CASE ApplySaved
    BY <1>22 DEF ApplySaved
  <1>23. CASE DiscussionAdvances
    BY <1>23 DEF DiscussionAdvances, Alive
  <1>24. CASE DiscussionFails
    BY <1>24 DEF DiscussionFails, Alive
  <1>25. CASE RebindEnds
    BY <1>25 DEF RebindEnds, Alive
  <1>26. CASE Stop
    BY <1>26 DEF Stop, ReviewPending, AbortJob, Free
  <1>27. CASE Abandon
    BY <1>27 DEF Abandon, Settled, HasJob, Free
  <1>28. CASE RunRetry
    BY <1>28 DEF RunRetry, Settled, HasJob, RetryableWorkerTimeout, Free
  <1>29. CASE ReviewRetry
    BY <1>29 DEF ReviewRetry, WebBusy, Settled, HasJob, CanResumeAcknowledgedReview,
          RetryableAuditReview, Free
  <1>30. CASE Rebind
    BY <1>30 DEF Rebind, AdapterIdle, Settled, HasJob, Free
  <1>31. CASE Apply
    BY <1>31 DEF Apply, ApprovalCandidate, HasJob, Free
  <1>32. CASE Delete
    BY <1>32 DEF Delete, WebBusy, Settled, HasJob, Free
  <1>33. CASE Discuss
    BY <1>33 DEF Discuss, AdapterIdle, Settled, HasJob, Free, NoWorker
  <1>34. CASE Discard
    BY <1>34 DEF Discard, AdapterIdle, Settled, HasJob, Free
  <1>35. CASE Shutdown
    BY <1>35 DEF Shutdown, ReviewPending, AbortJob, Free
  <1>36. CASE Crash
    BY <1>36 DEF Crash
  <1>37. CASE Restart
    BY <1>37 DEF Restart, RecoveredReview, ApplicationState, ApprovalCandidate
  <1>38. CASE ExternalEdit
    BY <1>38 DEF ExternalEdit
  <1>39. CASE UNCHANGED vars
    BY <1>39
  <1> QED
    BY <1>1, <1>2, <1>3, <1>4, <1>5, <1>6, <1>7, <1>8, <1>9, <1>10, <1>11, <1>12, <1>13, <1>14,
          <1>15, <1>16, <1>17, <1>18, <1>19, <1>20, <1>21, <1>22, <1>23, <1>24, <1>25, <1>26, <1>27,
          <1>28, <1>29, <1>30, <1>31, <1>32, <1>33, <1>34, <1>35, <1>36, <1>37, <1>38, <1>39 DEF Next,
          JobStep, Command

\* What is known of the requests
LEMMA WebStep ==
  ASSUME ApprovalInv, ValueTypes, ContinuationStage, WorkerKnown, WebKnown, StopKnown, [Next]_vars
         PROVE WebKnown'
  <1> USE BoundsAssumption DEF ApprovalInv, SingleContinuation, AuditsCapture, QuietWhenApproved,
        Quiescent, ContinuationStage, WorkerKnown, WebKnown, StopKnown, NoWorker, ReviewPending, HasJob,
        Stopped, Terminal, Active, Reviewing, WorkerWaits, WebWaits, Audits
  <1>1. CASE Start
    BY <1>1 DEF Start, Free
  <1>2. CASE Execute
    BY <1>2 DEF Execute, Rejected
  <1>3. CASE BeginIteration
    BY <1>3 DEF BeginIteration, Rejected, ReworkAuthorized
  <1>4. CASE WorkerCreated
    BY <1>4 DEF WorkerCreated, Alive
  <1>5. CASE WorkerCreationFails
    BY <1>5 DEF WorkerCreationFails, Rejected, Alive
  <1>6. CASE OrphanCreated
    BY <1>6 DEF OrphanCreated, Alive
  <1>7. CASE WorkerAdvances
    BY <1>7 DEF WorkerAdvances, IsActive, Alive
  <1>8. CASE WorkerCompletes
    BY <1>8 DEF WorkerCompletes, IsActive, Alive
  <1>9. CASE WorkerFails
    BY <1>9 DEF WorkerFails, Alive
  <1>10. CASE WorkerClosed
    BY <1>10 DEF WorkerClosed, Rejected, EnterVerification, IsActive, StopVerdict, StopConfirmed, Alive
  <1>11. CASE VerificationEnds
    BY <1>11 DEF VerificationEnds, Rejected, IsActive, Alive
  <1>12. CASE AuditContinues
    <2>1. /\ up = "up" /\ thread = "audit"
          /\ UNCHANGED <<iteration, candidate, capture, application, turnTimedOut, deliveries, err,
                         registered, stopVars, interrupting, talkVars, world, fixed>>
          /\ \/ \E kind \in {"review", "plan"} : NextTurn(kind)
             \/ AuditFails \/ BindingRefused \/ Supplement \/ LimitReached
             \/ \E decision \in {"PASS", "HOLD", "REWORK"} : Decide(decision)
      BY <1>12 DEF AuditContinues
    <2>2. ASSUME NEW kind \in {"review", "plan"}, NextTurn(kind)
          PROVE  WebKnown'
      BY <2>1, <2>2 DEF NextTurn, AdapterIdle, Reviewed
    <2>3. CASE AuditFails
      BY <2>1, <2>3 DEF AuditFails, Rejected
    <2>4. CASE BindingRefused
      BY <2>1, <2>4 DEF BindingRefused, HoldFor
    <2>5. CASE Supplement
      BY <2>1, <2>5 DEF Supplement, Reviewed
    <2>6. CASE LimitReached
      BY <2>1, <2>6 DEF LimitReached, HoldFor, Reviewed
    <2>7. ASSUME NEW decision \in {"PASS", "HOLD", "REWORK"}, Decide(decision)
          PROVE  WebKnown'
      BY <2>1, <2>7 DEF Decide, IterationsExhausted, PlanAgreed, Reviewed
    <2> QED
      BY <2>1, <2>2, <2>3, <2>4, <2>5, <2>6, <2>7
  <1>13. CASE RoleActivated
    BY <1>13 DEF RoleActivated, Rejected, HoldFor, IsActive, Alive
  <1>14. CASE AnswerArrives
    BY <1>14 DEF AnswerArrives, Rejected, IsActive, Alive
  <1>15. CASE AckArrives
    BY <1>15 DEF AckArrives, Rejected, IsActive, Alive
  <1>16. CASE AnswerTimesOut
    BY <1>16 DEF AnswerTimesOut, Rejected, ReviewPending, Alive
  <1>17. CASE LateAnswer
    BY <1>17 DEF LateAnswer, InterruptSettles, StopVerdict, StopConfirmed, NobodyAwaits, Alive
  <1>18. CASE InterruptConfirmed
    BY <1>18 DEF InterruptConfirmed, InterruptSettles, StopVerdict, StopConfirmed, NobodyAwaits, Alive
  <1>19. CASE InterruptTimesOut
    BY <1>19 DEF InterruptTimesOut, InterruptSettles, StopVerdict, StopConfirmed, Alive
  <1>20. CASE TotalTimeLimit
    BY <1>20 DEF TotalTimeLimit, ReviewPending, AbortJob, HasJob, Alive
  <1>21. CASE ApplyPatch
    BY <1>21 DEF ApplyPatch
  <1>22. CASE ApplySaved
    BY <1>22 DEF ApplySaved
  <1>23. CASE DiscussionAdvances
    BY <1>23 DEF DiscussionAdvances, Alive
  <1>24. CASE DiscussionFails
    BY <1>24 DEF DiscussionFails, Alive
  <1>25. CASE RebindEnds
    BY <1>25 DEF RebindEnds, Alive
  <1>26. CASE Stop
    BY <1>26 DEF Stop, ReviewPending, AbortJob, Free
  <1>27. CASE Abandon
    BY <1>27 DEF Abandon, Settled, HasJob, Free
  <1>28. CASE RunRetry
    BY <1>28 DEF RunRetry, Settled, HasJob, RetryableWorkerTimeout, Free
  <1>29. CASE ReviewRetry
    BY <1>29 DEF ReviewRetry, WebBusy, Settled, HasJob, CanResumeAcknowledgedReview,
          RetryableAuditReview, Free
  <1>30. CASE Rebind
    BY <1>30 DEF Rebind, AdapterIdle, Settled, HasJob, Free
  <1>31. CASE Apply
    BY <1>31 DEF Apply, ApprovalCandidate, HasJob, Free
  <1>32. CASE Delete
    BY <1>32 DEF Delete, WebBusy, Settled, HasJob, Free
  <1>33. CASE Discuss
    BY <1>33 DEF Discuss, AdapterIdle, Settled, HasJob, Free, NoWorker
  <1>34. CASE Discard
    BY <1>34 DEF Discard, AdapterIdle, Settled, HasJob, Free
  <1>35. CASE Shutdown
    BY <1>35 DEF Shutdown, ReviewPending, AbortJob, Free
  <1>36. CASE Crash
    BY <1>36 DEF Crash
  <1>37. CASE Restart
    BY <1>37 DEF Restart, RecoveredReview, ApplicationState, ApprovalCandidate
  <1>38. CASE ExternalEdit
    BY <1>38 DEF ExternalEdit
  <1>39. CASE UNCHANGED vars
    BY <1>39
  <1> QED
    BY <1>1, <1>2, <1>3, <1>4, <1>5, <1>6, <1>7, <1>8, <1>9, <1>10, <1>11, <1>12, <1>13, <1>14,
          <1>15, <1>16, <1>17, <1>18, <1>19, <1>20, <1>21, <1>22, <1>23, <1>24, <1>25, <1>26, <1>27,
          <1>28, <1>29, <1>30, <1>31, <1>32, <1>33, <1>34, <1>35, <1>36, <1>37, <1>38, <1>39 DEF Next,
          JobStep, Command

\* What is known of a stop
LEMMA StopStep ==
  ASSUME ApprovalInv, ValueTypes, ContinuationStage, WorkerKnown, WebKnown, StopKnown, [Next]_vars
         PROVE StopKnown'
  <1> USE BoundsAssumption DEF ApprovalInv, SingleContinuation, AuditsCapture, QuietWhenApproved,
        Quiescent, ContinuationStage, WorkerKnown, WebKnown, StopKnown, NoWorker, ReviewPending, HasJob,
        Stopped, Terminal, Active, Reviewing, WorkerWaits, WebWaits, Audits
  <1>1. CASE Start
    BY <1>1 DEF Start, Free
  <1>2. CASE Execute
    BY <1>2 DEF Execute, Rejected
  <1>3. CASE BeginIteration
    BY <1>3 DEF BeginIteration, Rejected, ReworkAuthorized
  <1>4. CASE WorkerCreated
    BY <1>4 DEF WorkerCreated, Alive
  <1>5. CASE WorkerCreationFails
    BY <1>5 DEF WorkerCreationFails, Rejected, Alive
  <1>6. CASE OrphanCreated
    BY <1>6 DEF OrphanCreated, Alive
  <1>7. CASE WorkerAdvances
    BY <1>7 DEF WorkerAdvances, IsActive, Alive
  <1>8. CASE WorkerCompletes
    BY <1>8 DEF WorkerCompletes, IsActive, Alive
  <1>9. CASE WorkerFails
    BY <1>9 DEF WorkerFails, Alive
  <1>10. CASE WorkerClosed
    BY <1>10 DEF WorkerClosed, Rejected, EnterVerification, IsActive, StopVerdict, StopConfirmed, Alive
  <1>11. CASE VerificationEnds
    BY <1>11 DEF VerificationEnds, Rejected, IsActive, Alive
  <1>12. CASE AuditContinues
    <2>1. /\ up = "up" /\ thread = "audit"
          /\ UNCHANGED <<iteration, candidate, capture, application, turnTimedOut, deliveries, err,
                         registered, stopVars, interrupting, talkVars, world, fixed>>
          /\ \/ \E kind \in {"review", "plan"} : NextTurn(kind)
             \/ AuditFails \/ BindingRefused \/ Supplement \/ LimitReached
             \/ \E decision \in {"PASS", "HOLD", "REWORK"} : Decide(decision)
      BY <1>12 DEF AuditContinues
    <2>2. ASSUME NEW kind \in {"review", "plan"}, NextTurn(kind)
          PROVE  StopKnown'
      BY <2>1, <2>2 DEF NextTurn, AdapterIdle, Reviewed
    <2>3. CASE AuditFails
      BY <2>1, <2>3 DEF AuditFails, Rejected
    <2>4. CASE BindingRefused
      BY <2>1, <2>4 DEF BindingRefused, HoldFor
    <2>5. CASE Supplement
      BY <2>1, <2>5 DEF Supplement, Reviewed
    <2>6. CASE LimitReached
      BY <2>1, <2>6 DEF LimitReached, HoldFor, Reviewed
    <2>7. ASSUME NEW decision \in {"PASS", "HOLD", "REWORK"}, Decide(decision)
          PROVE  StopKnown'
      BY <2>1, <2>7 DEF Decide, IterationsExhausted, PlanAgreed, Reviewed
    <2> QED
      BY <2>1, <2>2, <2>3, <2>4, <2>5, <2>6, <2>7
  <1>13. CASE RoleActivated
    BY <1>13 DEF RoleActivated, Rejected, HoldFor, IsActive, Alive
  <1>14. CASE AnswerArrives
    BY <1>14 DEF AnswerArrives, Rejected, IsActive, Alive
  <1>15. CASE AckArrives
    BY <1>15 DEF AckArrives, Rejected, IsActive, Alive
  <1>16. CASE AnswerTimesOut
    BY <1>16 DEF AnswerTimesOut, Rejected, ReviewPending, Alive
  <1>17. CASE LateAnswer
    BY <1>17 DEF LateAnswer, InterruptSettles, StopVerdict, StopConfirmed, NobodyAwaits, Alive
  <1>18. CASE InterruptConfirmed
    BY <1>18 DEF InterruptConfirmed, InterruptSettles, StopVerdict, StopConfirmed, NobodyAwaits, Alive
  <1>19. CASE InterruptTimesOut
    BY <1>19 DEF InterruptTimesOut, InterruptSettles, StopVerdict, StopConfirmed, Alive
  <1>20. CASE TotalTimeLimit
    BY <1>20 DEF TotalTimeLimit, ReviewPending, AbortJob, HasJob, Alive
  <1>21. CASE ApplyPatch
    BY <1>21 DEF ApplyPatch
  <1>22. CASE ApplySaved
    BY <1>22 DEF ApplySaved
  <1>23. CASE DiscussionAdvances
    BY <1>23 DEF DiscussionAdvances, Alive
  <1>24. CASE DiscussionFails
    BY <1>24 DEF DiscussionFails, Alive
  <1>25. CASE RebindEnds
    BY <1>25 DEF RebindEnds, Alive
  <1>26. CASE Stop
    BY <1>26 DEF Stop, ReviewPending, AbortJob, Free
  <1>27. CASE Abandon
    BY <1>27 DEF Abandon, Settled, HasJob, Free
  <1>28. CASE RunRetry
    BY <1>28 DEF RunRetry, Settled, HasJob, RetryableWorkerTimeout, Free
  <1>29. CASE ReviewRetry
    BY <1>29 DEF ReviewRetry, WebBusy, Settled, HasJob, CanResumeAcknowledgedReview,
          RetryableAuditReview, Free
  <1>30. CASE Rebind
    BY <1>30 DEF Rebind, AdapterIdle, Settled, HasJob, Free
  <1>31. CASE Apply
    BY <1>31 DEF Apply, ApprovalCandidate, HasJob, Free
  <1>32. CASE Delete
    BY <1>32 DEF Delete, WebBusy, Settled, HasJob, Free
  <1>33. CASE Discuss
    BY <1>33 DEF Discuss, AdapterIdle, Settled, HasJob, Free, NoWorker
  <1>34. CASE Discard
    BY <1>34 DEF Discard, AdapterIdle, Settled, HasJob, Free
  <1>35. CASE Shutdown
    BY <1>35 DEF Shutdown, ReviewPending, AbortJob, Free
  <1>36. CASE Crash
    BY <1>36 DEF Crash
  <1>37. CASE Restart
    BY <1>37 DEF Restart, RecoveredReview, ApplicationState, ApprovalCandidate
  <1>38. CASE ExternalEdit
    BY <1>38 DEF ExternalEdit
  <1>39. CASE UNCHANGED vars
    BY <1>39
  <1> QED
    BY <1>1, <1>2, <1>3, <1>4, <1>5, <1>6, <1>7, <1>8, <1>9, <1>10, <1>11, <1>12, <1>13, <1>14,
          <1>15, <1>16, <1>17, <1>18, <1>19, <1>20, <1>21, <1>22, <1>23, <1>24, <1>25, <1>26, <1>27,
          <1>28, <1>29, <1>30, <1>31, <1>32, <1>33, <1>34, <1>35, <1>36, <1>37, <1>38, <1>39 DEF Next,
          JobStep, Command

\* The facts hold at first
LEMMA StopInit == Init => StopInv
  BY DEF Init, StopInv, ContinuationStage, WorkerKnown, WebKnown, StopKnown, NoWorker, Audits,
        Stopped, Terminal,
         Active, Reviewing, WorkerWaits, WebWaits, NoReview

\* And in every reachable state
LEMMA StopInvHolds == Spec => []StopInv
  <1>1. ApprovalInv /\ ValueTypes /\ StopInv /\ [Next]_vars => StopInv'
    BY StageOfContinuation, WorkerStep, WebStep, StopStep DEF StopInv
  <1> QED
    BY StopInit, <1>1, ApprovalInvHolds, ValuesCorrect, PTL DEF Spec

\* A run is offered again only with the target untouched
LEMMA SecondStep ==
  ASSUME ApprovalInv, ValueTypes, ContinuationStage, NoSecondApplication, [Next]_vars PROVE
         NoSecondApplication'
  <1> USE DEF ApprovalInv, SingleContinuation, QuietWhenApproved, Quiescent, ApplicationExplained,
        NoSecondApplication, ContinuationStage, Reviewing, ValueTypes
  <1>1. CASE Start
    BY <1>1 DEF Start, Free
  <1>2. CASE Execute
    BY <1>2 DEF Execute, Rejected
  <1>3. CASE BeginIteration
    BY <1>3 DEF BeginIteration, Rejected, ReworkAuthorized
  <1>4. CASE WorkerCreated
    BY <1>4 DEF WorkerCreated, Alive
  <1>5. CASE WorkerCreationFails
    BY <1>5 DEF WorkerCreationFails, Rejected, Alive
  <1>6. CASE OrphanCreated
    BY <1>6 DEF OrphanCreated, Alive
  <1>7. CASE WorkerAdvances
    BY <1>7 DEF WorkerAdvances, IsActive, Alive
  <1>8. CASE WorkerCompletes
    BY <1>8 DEF WorkerCompletes, IsActive, Alive
  <1>9. CASE WorkerFails
    BY <1>9 DEF WorkerFails, Alive
  <1>10. CASE WorkerClosed
    BY <1>10 DEF WorkerClosed, Rejected, EnterVerification, IsActive, StopVerdict, StopConfirmed, Alive
  <1>11. CASE VerificationEnds
    BY <1>11 DEF VerificationEnds, Rejected, IsActive, Alive
  <1>12. CASE AuditContinues
    <2>1. /\ up = "up" /\ thread = "audit"
          /\ UNCHANGED <<iteration, candidate, capture, application, turnTimedOut, deliveries, err,
                         registered, stopVars, interrupting, talkVars, world, fixed>>
          /\ \/ \E kind \in {"review", "plan"} : NextTurn(kind)
             \/ AuditFails \/ BindingRefused \/ Supplement \/ LimitReached
             \/ \E decision \in {"PASS", "HOLD", "REWORK"} : Decide(decision)
      BY <1>12 DEF AuditContinues
    <2>2. ASSUME NEW kind \in {"review", "plan"}, NextTurn(kind)
          PROVE  NoSecondApplication'
      BY <2>1, <2>2 DEF NextTurn, AdapterIdle, Reviewed
    <2>3. CASE AuditFails
      BY <2>1, <2>3 DEF AuditFails, Rejected
    <2>4. CASE BindingRefused
      BY <2>1, <2>4 DEF BindingRefused, HoldFor
    <2>5. CASE Supplement
      BY <2>1, <2>5 DEF Supplement, Reviewed
    <2>6. CASE LimitReached
      BY <2>1, <2>6 DEF LimitReached, HoldFor, Reviewed
    <2>7. ASSUME NEW decision \in {"PASS", "HOLD", "REWORK"}, Decide(decision)
          PROVE  NoSecondApplication'
      BY <2>1, <2>7 DEF Decide, IterationsExhausted, PlanAgreed, Reviewed
    <2> QED
      BY <2>1, <2>2, <2>3, <2>4, <2>5, <2>6, <2>7
  <1>13. CASE RoleActivated
    BY <1>13 DEF RoleActivated, Rejected, HoldFor, IsActive, Alive
  <1>14. CASE AnswerArrives
    BY <1>14 DEF AnswerArrives, Rejected, IsActive, Alive
  <1>15. CASE AckArrives
    BY <1>15 DEF AckArrives, Rejected, IsActive, Alive
  <1>16. CASE AnswerTimesOut
    BY <1>16 DEF AnswerTimesOut, Rejected, ReviewPending, Alive
  <1>17. CASE LateAnswer
    BY <1>17 DEF LateAnswer, InterruptSettles, StopVerdict, StopConfirmed, NobodyAwaits, Alive
  <1>18. CASE InterruptConfirmed
    BY <1>18 DEF InterruptConfirmed, InterruptSettles, StopVerdict, StopConfirmed, NobodyAwaits, Alive
  <1>19. CASE InterruptTimesOut
    BY <1>19 DEF InterruptTimesOut, InterruptSettles, StopVerdict, StopConfirmed, Alive
  <1>20. CASE TotalTimeLimit
    BY <1>20 DEF TotalTimeLimit, ReviewPending, AbortJob, HasJob, Alive
  <1>21. CASE ApplyPatch
    BY <1>21 DEF ApplyPatch
  <1>22. CASE ApplySaved
    BY <1>22 DEF ApplySaved
  <1>23. CASE DiscussionAdvances
    BY <1>23 DEF DiscussionAdvances, Alive
  <1>24. CASE DiscussionFails
    BY <1>24 DEF DiscussionFails, Alive
  <1>25. CASE RebindEnds
    BY <1>25 DEF RebindEnds, Alive
  <1>26. CASE Stop
    BY <1>26 DEF Stop, ReviewPending, AbortJob, Free
  <1>27. CASE Abandon
    BY <1>27 DEF Abandon, Settled, HasJob, Free
  <1>28. CASE RunRetry
    BY <1>28 DEF RunRetry, Settled, HasJob, RetryableWorkerTimeout, Free
  <1>29. CASE ReviewRetry
    BY <1>29 DEF ReviewRetry, WebBusy, Settled, HasJob, CanResumeAcknowledgedReview,
          RetryableAuditReview, Free
  <1>30. CASE Rebind
    BY <1>30 DEF Rebind, AdapterIdle, Settled, HasJob, Free
  <1>31. CASE Apply
    BY <1>31 DEF Apply, ApprovalCandidate, HasJob, Free
  <1>32. CASE Delete
    BY <1>32 DEF Delete, WebBusy, Settled, HasJob, Free
  <1>33. CASE Discuss
    BY <1>33 DEF Discuss, AdapterIdle, Settled, HasJob, Free, NoWorker
  <1>34. CASE Discard
    BY <1>34 DEF Discard, AdapterIdle, Settled, HasJob, Free
  <1>35. CASE Shutdown
    BY <1>35 DEF Shutdown, ReviewPending, AbortJob, Free
  <1>36. CASE Crash
    BY <1>36 DEF Crash
  <1>37. CASE Restart
    BY <1>37 DEF Restart, RecoveredReview, ApplicationState, ApprovalCandidate
  <1>38. CASE ExternalEdit
    BY <1>38 DEF ExternalEdit
  <1>39. CASE UNCHANGED vars
    BY <1>39
  <1> QED
    BY <1>1, <1>2, <1>3, <1>4, <1>5, <1>6, <1>7, <1>8, <1>9, <1>10, <1>11, <1>12, <1>13, <1>14,
          <1>15, <1>16, <1>17, <1>18, <1>19, <1>20, <1>21, <1>22, <1>23, <1>24, <1>25, <1>26, <1>27,
          <1>28, <1>29, <1>30, <1>31, <1>32, <1>33, <1>34, <1>35, <1>36, <1>37, <1>38, <1>39 DEF Next,
          JobStep, Command

\* Who writes CANCELLED knows that the worker is gone
LEMMA CancelledStep ==
  ASSUME ApprovalInv, ValueTypes, ContinuationStage, WorkerKnown, WebKnown, StopKnown,
         CancelledMeansGone, [Next]_vars PROVE CancelledMeansGone'
  <1> USE BoundsAssumption DEF ApprovalInv, SingleContinuation, QuietWhenApproved, Quiescent,
        ContinuationStage, WorkerKnown, WebKnown, StopKnown, ReviewPending, HasJob, NoWorker, Stopped,
        Terminal, Active, Reviewing, WorkerWaits, WebWaits, Audits, CancelledMeansGone
  <1>1. CASE Start
    BY <1>1 DEF Start, Free
  <1>2. CASE Execute
    BY <1>2 DEF Execute, Rejected
  <1>3. CASE BeginIteration
    BY <1>3 DEF BeginIteration, Rejected, ReworkAuthorized
  <1>4. CASE WorkerCreated
    BY <1>4 DEF WorkerCreated, Alive
  <1>5. CASE WorkerCreationFails
    BY <1>5 DEF WorkerCreationFails, Rejected, Alive
  <1>6. CASE OrphanCreated
    BY <1>6 DEF OrphanCreated, Alive
  <1>7. CASE WorkerAdvances
    BY <1>7 DEF WorkerAdvances, IsActive, Alive
  <1>8. CASE WorkerCompletes
    BY <1>8 DEF WorkerCompletes, IsActive, Alive
  <1>9. CASE WorkerFails
    BY <1>9 DEF WorkerFails, Alive
  <1>10. CASE WorkerClosed
    BY <1>10 DEF WorkerClosed, Rejected, EnterVerification, IsActive, StopVerdict, StopConfirmed, Alive
  <1>11. CASE VerificationEnds
    BY <1>11 DEF VerificationEnds, Rejected, IsActive, Alive
  <1>12. CASE AuditContinues
    <2>1. /\ up = "up" /\ thread = "audit"
          /\ UNCHANGED <<iteration, candidate, capture, application, turnTimedOut, deliveries, err,
                         registered, stopVars, interrupting, talkVars, world, fixed>>
          /\ \/ \E kind \in {"review", "plan"} : NextTurn(kind)
             \/ AuditFails \/ BindingRefused \/ Supplement \/ LimitReached
             \/ \E decision \in {"PASS", "HOLD", "REWORK"} : Decide(decision)
      BY <1>12 DEF AuditContinues
    <2>2. ASSUME NEW kind \in {"review", "plan"}, NextTurn(kind)
          PROVE  CancelledMeansGone'
      BY <2>1, <2>2 DEF NextTurn, AdapterIdle, Reviewed
    <2>3. CASE AuditFails
      BY <2>1, <2>3 DEF AuditFails, Rejected
    <2>4. CASE BindingRefused
      BY <2>1, <2>4 DEF BindingRefused, HoldFor
    <2>5. CASE Supplement
      BY <2>1, <2>5 DEF Supplement, Reviewed
    <2>6. CASE LimitReached
      BY <2>1, <2>6 DEF LimitReached, HoldFor, Reviewed
    <2>7. ASSUME NEW decision \in {"PASS", "HOLD", "REWORK"}, Decide(decision)
          PROVE  CancelledMeansGone'
      BY <2>1, <2>7 DEF Decide, IterationsExhausted, PlanAgreed, Reviewed
    <2> QED
      BY <2>1, <2>2, <2>3, <2>4, <2>5, <2>6, <2>7
  <1>13. CASE RoleActivated
    BY <1>13 DEF RoleActivated, Rejected, HoldFor, IsActive, Alive
  <1>14. CASE AnswerArrives
    BY <1>14 DEF AnswerArrives, Rejected, IsActive, Alive
  <1>15. CASE AckArrives
    BY <1>15 DEF AckArrives, Rejected, IsActive, Alive
  <1>16. CASE AnswerTimesOut
    BY <1>16 DEF AnswerTimesOut, Rejected, ReviewPending, Alive
  <1>17. CASE LateAnswer
    BY <1>17 DEF LateAnswer, InterruptSettles, StopVerdict, StopConfirmed, NobodyAwaits, Alive
  <1>18. CASE InterruptConfirmed
    BY <1>18 DEF InterruptConfirmed, InterruptSettles, StopVerdict, StopConfirmed, NobodyAwaits, Alive
  <1>19. CASE InterruptTimesOut
    BY <1>19 DEF InterruptTimesOut, InterruptSettles, StopVerdict, StopConfirmed, Alive
  <1>20. CASE TotalTimeLimit
    <2>1. pc \in Waits \cup {"idle"}
      BY DEF ValueTypes
    <2> QED
      BY <1>20, <2>1 DEF TotalTimeLimit, ReviewPending, AbortJob, HasJob, Alive, Waits
  <1>21. CASE ApplyPatch
    BY <1>21 DEF ApplyPatch
  <1>22. CASE ApplySaved
    BY <1>22 DEF ApplySaved
  <1>23. CASE DiscussionAdvances
    BY <1>23 DEF DiscussionAdvances, Alive
  <1>24. CASE DiscussionFails
    BY <1>24 DEF DiscussionFails, Alive
  <1>25. CASE RebindEnds
    BY <1>25 DEF RebindEnds, Alive
  <1>26. CASE Stop
    <2>1. pc \in Waits \cup {"idle"} /\ proc \in {"none", "creating", "idle", "turn", "closing", "gone", "stuck", "stray"} /\ stage \in Stages
      BY DEF ValueTypes
    <2>2. SUFFICES ASSUME stage' = "CANCELLED" PROVE CancelledMeansGone'
      OBVIOUS
    <2>3. /\ up = "up" /\ thread = "free" /\ ~registered /\ ~(webOp = "turn" /\ webOwner = "review")
          /\ UNCHANGED <<registered, webOp, webOwner>>
      BY <1>26, <2>2 DEF Stop, Free
    <2>7. /\ stage \notin Unprovable \cup Reviewing \cup {"WORKER_RUNNING"}
          /\ stage \notin Terminal \cup {"APPLYING", "NONE", "DELETED"}
      BY <1>26, <2>2 DEF Stop
    <2>8. stage \in {"CREATED", "CANDIDATE_CAPTURE", "REWORK", "STOPPING", "HOLD", "AWAITING_APPLY"}
      BY <2>1, <2>7 DEF Stages, Unprovable
    <2>9. pc \notin {"close", "create"}
      BY <2>3, <2>8
    <2>4. NoWorker
      <3>1. CASE stage \in {"HOLD", "AWAITING_APPLY"}
        BY <3>1
      <3>2. CASE stage = "STOPPING"
        BY <2>3, <2>9, <3>2, <2>1 DEF ValueTypes
      <3>3. CASE stage \in {"CREATED", "CANDIDATE_CAPTURE", "REWORK"}
        BY <2>3, <2>9, <3>3
      <3> QED
        BY <2>8, <3>1, <3>2, <3>3
    <2>5. pc \notin WorkerWaits \cup {"create"}
      BY <2>3, <2>4
    <2>6. proc' = proc
      BY <1>26, <2>1, <2>5 DEF Stop, AbortJob
    <2> QED
      BY <2>3, <2>4, <2>6
  <1>27. CASE Abandon
    BY <1>27 DEF Abandon, Settled, HasJob, Free
  <1>28. CASE RunRetry
    BY <1>28 DEF RunRetry, Settled, HasJob, RetryableWorkerTimeout, Free
  <1>29. CASE ReviewRetry
    BY <1>29 DEF ReviewRetry, WebBusy, Settled, HasJob, CanResumeAcknowledgedReview,
          RetryableAuditReview, Free
  <1>30. CASE Rebind
    BY <1>30 DEF Rebind, AdapterIdle, Settled, HasJob, Free
  <1>31. CASE Apply
    BY <1>31 DEF Apply, ApprovalCandidate, HasJob, Free
  <1>32. CASE Delete
    BY <1>32 DEF Delete, WebBusy, Settled, HasJob, Free
  <1>33. CASE Discuss
    BY <1>33 DEF Discuss, AdapterIdle, Settled, HasJob, Free, NoWorker
  <1>34. CASE Discard
    BY <1>34 DEF Discard, AdapterIdle, Settled, HasJob, Free
  <1>35. CASE Shutdown
    BY <1>35 DEF Shutdown, ReviewPending, AbortJob, Free
  <1>36. CASE Crash
    BY <1>36 DEF Crash
  <1>37. CASE Restart
    BY <1>37 DEF Restart, RecoveredReview, ApplicationState, ApprovalCandidate
  <1>38. CASE ExternalEdit
    BY <1>38 DEF ExternalEdit
  <1>39. CASE UNCHANGED vars
    BY <1>39
  <1> QED
    BY <1>1, <1>2, <1>3, <1>4, <1>5, <1>6, <1>7, <1>8, <1>9, <1>10, <1>11, <1>12, <1>13, <1>14,
          <1>15, <1>16, <1>17, <1>18, <1>19, <1>20, <1>21, <1>22, <1>23, <1>24, <1>25, <1>26, <1>27,
          <1>28, <1>29, <1>30, <1>31, <1>32, <1>33, <1>34, <1>35, <1>36, <1>37, <1>38, <1>39 DEF Next,
          JobStep, Command

\* A job of a stopped run only cleans up
LEMMA CleansUpStep ==
  ASSUME ApprovalInv, ValueTypes, ContinuationStage, WorkerKnown, WebKnown, StopKnown,
         StoppedJobOnlyCleansUp, [Next]_vars PROVE StoppedJobOnlyCleansUp'
  <1> USE BoundsAssumption DEF ApprovalInv, SingleContinuation, QuietWhenApproved, Quiescent,
        ContinuationStage, WorkerKnown, WebKnown, StopKnown, ReviewPending, HasJob, NoWorker, Stopped,
        Terminal, Active, Reviewing, WorkerWaits, WebWaits, Audits, StoppedJobOnlyCleansUp
  <1>1. CASE Start
    BY <1>1 DEF Start, Free
  <1>2. CASE Execute
    BY <1>2 DEF Execute, Rejected
  <1>3. CASE BeginIteration
    BY <1>3 DEF BeginIteration, Rejected, ReworkAuthorized
  <1>4. CASE WorkerCreated
    BY <1>4 DEF WorkerCreated, Alive
  <1>5. CASE WorkerCreationFails
    BY <1>5 DEF WorkerCreationFails, Rejected, Alive
  <1>6. CASE OrphanCreated
    BY <1>6 DEF OrphanCreated, Alive
  <1>7. CASE WorkerAdvances
    BY <1>7 DEF WorkerAdvances, IsActive, Alive
  <1>8. CASE WorkerCompletes
    BY <1>8 DEF WorkerCompletes, IsActive, Alive
  <1>9. CASE WorkerFails
    BY <1>9 DEF WorkerFails, Alive
  <1>10. CASE WorkerClosed
    BY <1>10 DEF WorkerClosed, Rejected, EnterVerification, IsActive, StopVerdict, StopConfirmed, Alive
  <1>11. CASE VerificationEnds
    BY <1>11 DEF VerificationEnds, Rejected, IsActive, Alive
  <1>12. CASE AuditContinues
    <2>1. /\ up = "up" /\ thread = "audit"
          /\ UNCHANGED <<iteration, candidate, capture, application, turnTimedOut, deliveries, err,
                         registered, stopVars, interrupting, talkVars, world, fixed>>
          /\ \/ \E kind \in {"review", "plan"} : NextTurn(kind)
             \/ AuditFails \/ BindingRefused \/ Supplement \/ LimitReached
             \/ \E decision \in {"PASS", "HOLD", "REWORK"} : Decide(decision)
      BY <1>12 DEF AuditContinues
    <2>2. ASSUME NEW kind \in {"review", "plan"}, NextTurn(kind)
          PROVE  StoppedJobOnlyCleansUp'
      BY <2>1, <2>2 DEF NextTurn, AdapterIdle, Reviewed
    <2>3. CASE AuditFails
      BY <2>1, <2>3 DEF AuditFails, Rejected
    <2>4. CASE BindingRefused
      BY <2>1, <2>4 DEF BindingRefused, HoldFor
    <2>5. CASE Supplement
      BY <2>1, <2>5 DEF Supplement, Reviewed
    <2>6. CASE LimitReached
      BY <2>1, <2>6 DEF LimitReached, HoldFor, Reviewed
    <2>7. ASSUME NEW decision \in {"PASS", "HOLD", "REWORK"}, Decide(decision)
          PROVE  StoppedJobOnlyCleansUp'
      BY <2>1, <2>7 DEF Decide, IterationsExhausted, PlanAgreed, Reviewed
    <2> QED
      BY <2>1, <2>2, <2>3, <2>4, <2>5, <2>6, <2>7
  <1>13. CASE RoleActivated
    BY <1>13 DEF RoleActivated, Rejected, HoldFor, IsActive, Alive
  <1>14. CASE AnswerArrives
    BY <1>14 DEF AnswerArrives, Rejected, IsActive, Alive
  <1>15. CASE AckArrives
    BY <1>15 DEF AckArrives, Rejected, IsActive, Alive
  <1>16. CASE AnswerTimesOut
    BY <1>16 DEF AnswerTimesOut, Rejected, ReviewPending, Alive
  <1>17. CASE LateAnswer
    BY <1>17 DEF LateAnswer, InterruptSettles, StopVerdict, StopConfirmed, NobodyAwaits, Alive
  <1>18. CASE InterruptConfirmed
    BY <1>18 DEF InterruptConfirmed, InterruptSettles, StopVerdict, StopConfirmed, NobodyAwaits, Alive
  <1>19. CASE InterruptTimesOut
    BY <1>19 DEF InterruptTimesOut, InterruptSettles, StopVerdict, StopConfirmed, Alive
  <1>20. CASE TotalTimeLimit
    <2>1. pc \in Waits \cup {"idle"}
      BY DEF ValueTypes
    <2> QED
      BY <1>20, <2>1 DEF TotalTimeLimit, ReviewPending, AbortJob, HasJob, Alive, Waits
  <1>21. CASE ApplyPatch
    BY <1>21 DEF ApplyPatch
  <1>22. CASE ApplySaved
    BY <1>22 DEF ApplySaved
  <1>23. CASE DiscussionAdvances
    BY <1>23 DEF DiscussionAdvances, Alive
  <1>24. CASE DiscussionFails
    BY <1>24 DEF DiscussionFails, Alive
  <1>25. CASE RebindEnds
    BY <1>25 DEF RebindEnds, Alive
  <1>26. CASE Stop
    <2>1. pc \in Waits \cup {"idle"}
      BY DEF ValueTypes
    <2> QED
      BY <1>26, <2>1 DEF Stop, ReviewPending, AbortJob, Free, Waits
  <1>27. CASE Abandon
    BY <1>27 DEF Abandon, Settled, HasJob, Free
  <1>28. CASE RunRetry
    BY <1>28 DEF RunRetry, Settled, HasJob, RetryableWorkerTimeout, Free
  <1>29. CASE ReviewRetry
    BY <1>29 DEF ReviewRetry, WebBusy, Settled, HasJob, CanResumeAcknowledgedReview,
          RetryableAuditReview, Free
  <1>30. CASE Rebind
    BY <1>30 DEF Rebind, AdapterIdle, Settled, HasJob, Free
  <1>31. CASE Apply
    BY <1>31 DEF Apply, ApprovalCandidate, HasJob, Free
  <1>32. CASE Delete
    BY <1>32 DEF Delete, WebBusy, Settled, HasJob, Free
  <1>33. CASE Discuss
    BY <1>33 DEF Discuss, AdapterIdle, Settled, HasJob, Free, NoWorker
  <1>34. CASE Discard
    BY <1>34 DEF Discard, AdapterIdle, Settled, HasJob, Free
  <1>35. CASE Shutdown
    BY <1>35 DEF Shutdown, ReviewPending, AbortJob, Free
  <1>36. CASE Crash
    BY <1>36 DEF Crash
  <1>37. CASE Restart
    BY <1>37 DEF Restart, RecoveredReview, ApplicationState, ApprovalCandidate
  <1>38. CASE ExternalEdit
    BY <1>38 DEF ExternalEdit
  <1>39. CASE UNCHANGED vars
    BY <1>39
  <1> QED
    BY <1>1, <1>2, <1>3, <1>4, <1>5, <1>6, <1>7, <1>8, <1>9, <1>10, <1>11, <1>12, <1>13, <1>14,
          <1>15, <1>16, <1>17, <1>18, <1>19, <1>20, <1>21, <1>22, <1>23, <1>24, <1>25, <1>26, <1>27,
          <1>28, <1>29, <1>30, <1>31, <1>32, <1>33, <1>34, <1>35, <1>36, <1>37, <1>38, <1>39 DEF Next,
          JobStep, Command

\* What is dispatched is saved first
LEMMA DispatchStep ==
  ASSUME ValueTypes, ContinuationStage, DispatchIsRecorded, [Next]_vars PROVE DispatchIsRecorded'
  <1> USE DEF ContinuationStage, DispatchIsRecorded, HasJob, Stopped, Terminal, Active
  <1>1. CASE Start
    BY <1>1 DEF Start, Free
  <1>2. CASE Execute
    BY <1>2 DEF Execute, Rejected
  <1>3. CASE BeginIteration
    BY <1>3 DEF BeginIteration, Rejected, ReworkAuthorized
  <1>4. CASE WorkerCreated
    BY <1>4 DEF WorkerCreated, Alive
  <1>5. CASE WorkerCreationFails
    BY <1>5 DEF WorkerCreationFails, Rejected, Alive
  <1>6. CASE OrphanCreated
    BY <1>6 DEF OrphanCreated, Alive
  <1>7. CASE WorkerAdvances
    BY <1>7 DEF WorkerAdvances, IsActive, Alive
  <1>8. CASE WorkerCompletes
    BY <1>8 DEF WorkerCompletes, IsActive, Alive
  <1>9. CASE WorkerFails
    BY <1>9 DEF WorkerFails, Alive
  <1>10. CASE WorkerClosed
    BY <1>10 DEF WorkerClosed, Rejected, EnterVerification, IsActive, StopVerdict, StopConfirmed, Alive
  <1>11. CASE VerificationEnds
    BY <1>11 DEF VerificationEnds, Rejected, IsActive, Alive
  <1>12. CASE AuditContinues
    <2>1. /\ up = "up" /\ thread = "audit"
          /\ UNCHANGED <<iteration, candidate, capture, application, turnTimedOut, deliveries, err,
                         registered, stopVars, interrupting, talkVars, world, fixed>>
          /\ \/ \E kind \in {"review", "plan"} : NextTurn(kind)
             \/ AuditFails \/ BindingRefused \/ Supplement \/ LimitReached
             \/ \E decision \in {"PASS", "HOLD", "REWORK"} : Decide(decision)
      BY <1>12 DEF AuditContinues
    <2>2. ASSUME NEW kind \in {"review", "plan"}, NextTurn(kind)
          PROVE  DispatchIsRecorded'
      BY <2>1, <2>2 DEF NextTurn, AdapterIdle, Reviewed
    <2>3. CASE AuditFails
      BY <2>1, <2>3 DEF AuditFails, Rejected
    <2>4. CASE BindingRefused
      BY <2>1, <2>4 DEF BindingRefused, HoldFor
    <2>5. CASE Supplement
      BY <2>1, <2>5 DEF Supplement, Reviewed
    <2>6. CASE LimitReached
      BY <2>1, <2>6 DEF LimitReached, HoldFor, Reviewed
    <2>7. ASSUME NEW decision \in {"PASS", "HOLD", "REWORK"}, Decide(decision)
          PROVE  DispatchIsRecorded'
      BY <2>1, <2>7 DEF Decide, IterationsExhausted, PlanAgreed, Reviewed
    <2> QED
      BY <2>1, <2>2, <2>3, <2>4, <2>5, <2>6, <2>7
  <1>13. CASE RoleActivated
    BY <1>13 DEF RoleActivated, Rejected, HoldFor, IsActive, Alive
  <1>14. CASE AnswerArrives
    BY <1>14 DEF AnswerArrives, Rejected, IsActive, Alive
  <1>15. CASE AckArrives
    BY <1>15 DEF AckArrives, Rejected, IsActive, Alive
  <1>16. CASE AnswerTimesOut
    BY <1>16 DEF AnswerTimesOut, Rejected, ReviewPending, Alive
  <1>17. CASE LateAnswer
    BY <1>17 DEF LateAnswer, InterruptSettles, StopVerdict, StopConfirmed, NobodyAwaits, Alive
  <1>18. CASE InterruptConfirmed
    BY <1>18 DEF InterruptConfirmed, InterruptSettles, StopVerdict, StopConfirmed, NobodyAwaits, Alive
  <1>19. CASE InterruptTimesOut
    BY <1>19 DEF InterruptTimesOut, InterruptSettles, StopVerdict, StopConfirmed, Alive
  <1>20. CASE TotalTimeLimit
    BY <1>20 DEF TotalTimeLimit, ReviewPending, AbortJob, HasJob, Alive
  <1>21. CASE ApplyPatch
    BY <1>21 DEF ApplyPatch
  <1>22. CASE ApplySaved
    BY <1>22 DEF ApplySaved
  <1>23. CASE DiscussionAdvances
    BY <1>23 DEF DiscussionAdvances, Alive
  <1>24. CASE DiscussionFails
    BY <1>24 DEF DiscussionFails, Alive
  <1>25. CASE RebindEnds
    BY <1>25 DEF RebindEnds, Alive
  <1>26. CASE Stop
    BY <1>26 DEF Stop, ReviewPending, AbortJob, Free
  <1>27. CASE Abandon
    BY <1>27 DEF Abandon, Settled, HasJob, Free
  <1>28. CASE RunRetry
    BY <1>28 DEF RunRetry, Settled, HasJob, RetryableWorkerTimeout, Free
  <1>29. CASE ReviewRetry
    BY <1>29 DEF ReviewRetry, WebBusy, Settled, HasJob, CanResumeAcknowledgedReview,
          RetryableAuditReview, Free
  <1>30. CASE Rebind
    BY <1>30 DEF Rebind, AdapterIdle, Settled, HasJob, Free
  <1>31. CASE Apply
    BY <1>31 DEF Apply, ApprovalCandidate, HasJob, Free
  <1>32. CASE Delete
    BY <1>32 DEF Delete, WebBusy, Settled, HasJob, Free
  <1>33. CASE Discuss
    BY <1>33 DEF Discuss, AdapterIdle, Settled, HasJob, Free, NoWorker
  <1>34. CASE Discard
    BY <1>34 DEF Discard, AdapterIdle, Settled, HasJob, Free
  <1>35. CASE Shutdown
    BY <1>35 DEF Shutdown, ReviewPending, AbortJob, Free
  <1>36. CASE Crash
    BY <1>36 DEF Crash
  <1>37. CASE Restart
    BY <1>37 DEF Restart, RecoveredReview, ApplicationState, ApprovalCandidate
  <1>38. CASE ExternalEdit
    BY <1>38 DEF ExternalEdit
  <1>39. CASE UNCHANGED vars
    BY <1>39
  <1> QED
    BY <1>1, <1>2, <1>3, <1>4, <1>5, <1>6, <1>7, <1>8, <1>9, <1>10, <1>11, <1>12, <1>13, <1>14,
          <1>15, <1>16, <1>17, <1>18, <1>19, <1>20, <1>21, <1>22, <1>23, <1>24, <1>25, <1>26, <1>27,
          <1>28, <1>29, <1>30, <1>31, <1>32, <1>33, <1>34, <1>35, <1>36, <1>37, <1>38, <1>39 DEF Next,
          JobStep, Command

\* The last part of what the record tells
RecordInv == NoSecondApplication /\ CancelledMeansGone /\ StoppedJobOnlyCleansUp /\ DispatchIsRecorded

\* The record never lies: at most maxIterations worker turns but for retried timeouts; a run
\* is offered for application again only with its target untouched; CANCELLED on a user's stop
\* means no worker and no review prompt; a stopped run's job only cleans up; and whatever the
\* browser may be answering is a saved activeDeliveryId.
THEOREM RecordIsAlwaysTrue == Spec => []RecordIsTrue
  <1>1. Init => RecordInv
    BY DEF Init, RecordInv, NoSecondApplication, CancelledMeansGone, StoppedJobOnlyCleansUp,
          DispatchIsRecorded,
           Stopped, Terminal
  <1>2. ApprovalInv /\ ValueTypes /\ StopInv /\ RecordInv /\ [Next]_vars => RecordInv'
    BY SecondStep, CancelledStep, CleansUpStep, DispatchStep DEF RecordInv, StopInv
  <1>3. RecordInv /\ IterationsBounded => RecordIsTrue
    BY DEF RecordInv, RecordIsTrue
  <1> QED
    BY <1>1, <1>2, <1>3, ApprovalInvHolds, ValuesCorrect, StopInvHolds, IterationsAlwaysBounded, PTL
          DEF Spec

\* What every step does to a stopped run (NoRevival) ...
Revives ==
  /\ stage \in Stopped /\ stage' \notin Stopped \cup {"DELETED"}
          => \/ Settled /\ thread = "free" /\ thread' \in {"execute", "audit", "apply"}
             \/ stage = "AWAITING_APPLY" /\ thread' = "apply"
  /\ stage = "DELETED" => stage' = "DELETED"
\* ... and to one the user stopped (StopIsForGood)
Restarts == stopRequested =>
  /\ stopRequested'
  /\ proc' \in {"creating", "turn"} => proc' = proc
  /\ webOp' = "turn" /\ webOwner' \in {"review", "plan"} => webOp = "turn"

\* What a step may do to a stopped run
LEMMA RevivalStep ==
  ASSUME ApprovalInv, ValueTypes, ContinuationStage, WorkerKnown, WebKnown, StopKnown, [Next]_vars
         PROVE Revives
  <1> USE BoundsAssumption DEF ApprovalInv, SingleContinuation, QuietWhenApproved, Quiescent,
        ContinuationStage, WorkerKnown, WebKnown, StopKnown, ReviewPending, HasJob, NoWorker, Stopped,
        Terminal, Active, Reviewing, WorkerWaits, WebWaits, Audits, Revives
  <1>1. CASE Start
    BY <1>1 DEF Start, Free
  <1>2. CASE Execute
    BY <1>2 DEF Execute, Rejected
  <1>3. CASE BeginIteration
    BY <1>3 DEF BeginIteration, Rejected, ReworkAuthorized
  <1>4. CASE WorkerCreated
    BY <1>4 DEF WorkerCreated, Alive
  <1>5. CASE WorkerCreationFails
    BY <1>5 DEF WorkerCreationFails, Rejected, Alive
  <1>6. CASE OrphanCreated
    BY <1>6 DEF OrphanCreated, Alive
  <1>7. CASE WorkerAdvances
    BY <1>7 DEF WorkerAdvances, IsActive, Alive
  <1>8. CASE WorkerCompletes
    BY <1>8 DEF WorkerCompletes, IsActive, Alive
  <1>9. CASE WorkerFails
    BY <1>9 DEF WorkerFails, Alive
  <1>10. CASE WorkerClosed
    BY <1>10 DEF WorkerClosed, Rejected, EnterVerification, IsActive, StopVerdict, StopConfirmed, Alive
  <1>11. CASE VerificationEnds
    BY <1>11 DEF VerificationEnds, Rejected, IsActive, Alive
  <1>12. CASE AuditContinues
    <2>1. /\ up = "up" /\ thread = "audit"
          /\ UNCHANGED <<iteration, candidate, capture, application, turnTimedOut, deliveries, err,
                         registered, stopVars, interrupting, talkVars, world, fixed>>
          /\ \/ \E kind \in {"review", "plan"} : NextTurn(kind)
             \/ AuditFails \/ BindingRefused \/ Supplement \/ LimitReached
             \/ \E decision \in {"PASS", "HOLD", "REWORK"} : Decide(decision)
      BY <1>12 DEF AuditContinues
    <2>2. ASSUME NEW kind \in {"review", "plan"}, NextTurn(kind)
          PROVE  Revives
      BY <2>1, <2>2 DEF NextTurn, AdapterIdle, Reviewed
    <2>3. CASE AuditFails
      BY <2>1, <2>3 DEF AuditFails, Rejected
    <2>4. CASE BindingRefused
      BY <2>1, <2>4 DEF BindingRefused, HoldFor
    <2>5. CASE Supplement
      BY <2>1, <2>5 DEF Supplement, Reviewed
    <2>6. CASE LimitReached
      BY <2>1, <2>6 DEF LimitReached, HoldFor, Reviewed
    <2>7. ASSUME NEW decision \in {"PASS", "HOLD", "REWORK"}, Decide(decision)
          PROVE  Revives
      BY <2>1, <2>7 DEF Decide, IterationsExhausted, PlanAgreed, Reviewed
    <2> QED
      BY <2>1, <2>2, <2>3, <2>4, <2>5, <2>6, <2>7
  <1>13. CASE RoleActivated
    BY <1>13 DEF RoleActivated, Rejected, HoldFor, IsActive, Alive
  <1>14. CASE AnswerArrives
    BY <1>14 DEF AnswerArrives, Rejected, IsActive, Alive
  <1>15. CASE AckArrives
    BY <1>15 DEF AckArrives, Rejected, IsActive, Alive
  <1>16. CASE AnswerTimesOut
    BY <1>16 DEF AnswerTimesOut, Rejected, ReviewPending, Alive
  <1>17. CASE LateAnswer
    BY <1>17 DEF LateAnswer, InterruptSettles, StopVerdict, StopConfirmed, NobodyAwaits, Alive
  <1>18. CASE InterruptConfirmed
    BY <1>18 DEF InterruptConfirmed, InterruptSettles, StopVerdict, StopConfirmed, NobodyAwaits, Alive
  <1>19. CASE InterruptTimesOut
    BY <1>19 DEF InterruptTimesOut, InterruptSettles, StopVerdict, StopConfirmed, Alive
  <1>20. CASE TotalTimeLimit
    BY <1>20 DEF TotalTimeLimit, ReviewPending, AbortJob, HasJob, Alive
  <1>21. CASE ApplyPatch
    BY <1>21 DEF ApplyPatch
  <1>22. CASE ApplySaved
    BY <1>22 DEF ApplySaved
  <1>23. CASE DiscussionAdvances
    BY <1>23 DEF DiscussionAdvances, Alive
  <1>24. CASE DiscussionFails
    BY <1>24 DEF DiscussionFails, Alive
  <1>25. CASE RebindEnds
    BY <1>25 DEF RebindEnds, Alive
  <1>26. CASE Stop
    BY <1>26 DEF Stop, ReviewPending, AbortJob, Free
  <1>27. CASE Abandon
    BY <1>27 DEF Abandon, Settled, HasJob, Free
  <1>28. CASE RunRetry
    BY <1>28 DEF RunRetry, Settled, HasJob, RetryableWorkerTimeout, Free
  <1>29. CASE ReviewRetry
    BY <1>29 DEF ReviewRetry, WebBusy, Settled, HasJob, CanResumeAcknowledgedReview,
          RetryableAuditReview, Free
  <1>30. CASE Rebind
    BY <1>30 DEF Rebind, AdapterIdle, Settled, HasJob, Free
  <1>31. CASE Apply
    BY <1>31 DEF Apply, ApprovalCandidate, HasJob, Free
  <1>32. CASE Delete
    BY <1>32 DEF Delete, WebBusy, Settled, HasJob, Free
  <1>33. CASE Discuss
    BY <1>33 DEF Discuss, AdapterIdle, Settled, HasJob, Free, NoWorker
  <1>34. CASE Discard
    BY <1>34 DEF Discard, AdapterIdle, Settled, HasJob, Free
  <1>35. CASE Shutdown
    BY <1>35 DEF Shutdown, ReviewPending, AbortJob, Free
  <1>36. CASE Crash
    BY <1>36 DEF Crash
  <1>37. CASE Restart
    BY <1>37 DEF Restart, RecoveredReview, ApplicationState, ApprovalCandidate
  <1>38. CASE ExternalEdit
    BY <1>38 DEF ExternalEdit
  <1>39. CASE UNCHANGED vars
    BY <1>39
  <1> QED
    BY <1>1, <1>2, <1>3, <1>4, <1>5, <1>6, <1>7, <1>8, <1>9, <1>10, <1>11, <1>12, <1>13, <1>14,
          <1>15, <1>16, <1>17, <1>18, <1>19, <1>20, <1>21, <1>22, <1>23, <1>24, <1>25, <1>26, <1>27,
          <1>28, <1>29, <1>30, <1>31, <1>32, <1>33, <1>34, <1>35, <1>36, <1>37, <1>38, <1>39 DEF Next,
          JobStep, Command

\* What a step may do to a run the user stopped
LEMMA ForGoodStep ==
  ASSUME ApprovalInv, ValueTypes, ContinuationStage, WorkerKnown, WebKnown, StopKnown, [Next]_vars
         PROVE Restarts
  <1> USE BoundsAssumption DEF ApprovalInv, SingleContinuation, QuietWhenApproved, Quiescent,
        ContinuationStage, WorkerKnown, WebKnown, StopKnown, ReviewPending, HasJob, NoWorker, Stopped,
        Terminal, Active, Reviewing, WorkerWaits, WebWaits, Audits, Restarts
  <1>1. CASE Start
    BY <1>1 DEF Start, Free
  <1>2. CASE Execute
    BY <1>2 DEF Execute, Rejected
  <1>3. CASE BeginIteration
    BY <1>3 DEF BeginIteration, Rejected, ReworkAuthorized
  <1>4. CASE WorkerCreated
    BY <1>4 DEF WorkerCreated, Alive
  <1>5. CASE WorkerCreationFails
    BY <1>5 DEF WorkerCreationFails, Rejected, Alive
  <1>6. CASE OrphanCreated
    BY <1>6 DEF OrphanCreated, Alive
  <1>7. CASE WorkerAdvances
    BY <1>7 DEF WorkerAdvances, IsActive, Alive
  <1>8. CASE WorkerCompletes
    BY <1>8 DEF WorkerCompletes, IsActive, Alive
  <1>9. CASE WorkerFails
    BY <1>9 DEF WorkerFails, Alive
  <1>10. CASE WorkerClosed
    BY <1>10 DEF WorkerClosed, Rejected, EnterVerification, IsActive, StopVerdict, StopConfirmed, Alive
  <1>11. CASE VerificationEnds
    BY <1>11 DEF VerificationEnds, Rejected, IsActive, Alive
  <1>12. CASE AuditContinues
    <2>1. /\ up = "up" /\ thread = "audit"
          /\ UNCHANGED <<iteration, candidate, capture, application, turnTimedOut, deliveries, err,
                         registered, stopVars, interrupting, talkVars, world, fixed>>
          /\ \/ \E kind \in {"review", "plan"} : NextTurn(kind)
             \/ AuditFails \/ BindingRefused \/ Supplement \/ LimitReached
             \/ \E decision \in {"PASS", "HOLD", "REWORK"} : Decide(decision)
      BY <1>12 DEF AuditContinues
    <2>2. ASSUME NEW kind \in {"review", "plan"}, NextTurn(kind)
          PROVE  Restarts
      BY <2>1, <2>2 DEF NextTurn, AdapterIdle, Reviewed
    <2>3. CASE AuditFails
      BY <2>1, <2>3 DEF AuditFails, Rejected
    <2>4. CASE BindingRefused
      BY <2>1, <2>4 DEF BindingRefused, HoldFor
    <2>5. CASE Supplement
      BY <2>1, <2>5 DEF Supplement, Reviewed
    <2>6. CASE LimitReached
      BY <2>1, <2>6 DEF LimitReached, HoldFor, Reviewed
    <2>7. ASSUME NEW decision \in {"PASS", "HOLD", "REWORK"}, Decide(decision)
          PROVE  Restarts
      BY <2>1, <2>7 DEF Decide, IterationsExhausted, PlanAgreed, Reviewed
    <2> QED
      BY <2>1, <2>2, <2>3, <2>4, <2>5, <2>6, <2>7
  <1>13. CASE RoleActivated
    BY <1>13 DEF RoleActivated, Rejected, HoldFor, IsActive, Alive
  <1>14. CASE AnswerArrives
    BY <1>14 DEF AnswerArrives, Rejected, IsActive, Alive
  <1>15. CASE AckArrives
    BY <1>15 DEF AckArrives, Rejected, IsActive, Alive
  <1>16. CASE AnswerTimesOut
    BY <1>16 DEF AnswerTimesOut, Rejected, ReviewPending, Alive
  <1>17. CASE LateAnswer
    BY <1>17 DEF LateAnswer, InterruptSettles, StopVerdict, StopConfirmed, NobodyAwaits, Alive
  <1>18. CASE InterruptConfirmed
    BY <1>18 DEF InterruptConfirmed, InterruptSettles, StopVerdict, StopConfirmed, NobodyAwaits, Alive
  <1>19. CASE InterruptTimesOut
    BY <1>19 DEF InterruptTimesOut, InterruptSettles, StopVerdict, StopConfirmed, Alive
  <1>20. CASE TotalTimeLimit
    BY <1>20 DEF TotalTimeLimit, ReviewPending, AbortJob, HasJob, Alive
  <1>21. CASE ApplyPatch
    BY <1>21 DEF ApplyPatch
  <1>22. CASE ApplySaved
    BY <1>22 DEF ApplySaved
  <1>23. CASE DiscussionAdvances
    BY <1>23 DEF DiscussionAdvances, Alive
  <1>24. CASE DiscussionFails
    BY <1>24 DEF DiscussionFails, Alive
  <1>25. CASE RebindEnds
    BY <1>25 DEF RebindEnds, Alive
  <1>26. CASE Stop
    BY <1>26 DEF Stop, ReviewPending, AbortJob, Free
  <1>27. CASE Abandon
    BY <1>27 DEF Abandon, Settled, HasJob, Free
  <1>28. CASE RunRetry
    BY <1>28 DEF RunRetry, Settled, HasJob, RetryableWorkerTimeout, Free
  <1>29. CASE ReviewRetry
    BY <1>29 DEF ReviewRetry, WebBusy, Settled, HasJob, CanResumeAcknowledgedReview,
          RetryableAuditReview, Free
  <1>30. CASE Rebind
    BY <1>30 DEF Rebind, AdapterIdle, Settled, HasJob, Free
  <1>31. CASE Apply
    BY <1>31 DEF Apply, ApprovalCandidate, HasJob, Free
  <1>32. CASE Delete
    BY <1>32 DEF Delete, WebBusy, Settled, HasJob, Free
  <1>33. CASE Discuss
    BY <1>33 DEF Discuss, AdapterIdle, Settled, HasJob, Free, NoWorker
  <1>34. CASE Discard
    BY <1>34 DEF Discard, AdapterIdle, Settled, HasJob, Free
  <1>35. CASE Shutdown
    BY <1>35 DEF Shutdown, ReviewPending, AbortJob, Free
  <1>36. CASE Crash
    BY <1>36 DEF Crash
  <1>37. CASE Restart
    BY <1>37 DEF Restart, RecoveredReview, ApplicationState, ApprovalCandidate
  <1>38. CASE ExternalEdit
    BY <1>38 DEF ExternalEdit
  <1>39. CASE UNCHANGED vars
    BY <1>39
  <1> QED
    BY <1>1, <1>2, <1>3, <1>4, <1>5, <1>6, <1>7, <1>8, <1>9, <1>10, <1>11, <1>12, <1>13, <1>14,
          <1>15, <1>16, <1>17, <1>18, <1>19, <1>20, <1>21, <1>22, <1>23, <1>24, <1>25, <1>26, <1>27,
          <1>28, <1>29, <1>30, <1>31, <1>32, <1>33, <1>34, <1>35, <1>36, <1>37, <1>38, <1>39 DEF Next,
          JobStep, Command

\* A stop ends a run for good: no late answer, close, verification or timer brings it back to
\* work, and under run.stop nothing new starts and no retry or recovery withdraws it.
THEOREM StopsAreFinal == Spec => StopIsFinal
  <1>1. ApprovalInv /\ ValueTypes /\ StopInv /\ [Next]_vars => [Revives]_vars /\ [Restarts]_vars
    BY RevivalStep, ForGoodStep DEF StopInv
  <1>2. Spec => [][Revives]_vars
    BY <1>1, ApprovalInvHolds, ValuesCorrect, StopInvHolds, PTL DEF Spec
  <1>3. Spec => [][Restarts]_vars
    BY <1>1, ApprovalInvHolds, ValuesCorrect, StopInvHolds, PTL DEF Spec
  <1> QED
    BY <1>2, <1>3 DEF StopIsFinal, NoRevival, StopIsForGood, Revives, Restarts
=============================================================================
