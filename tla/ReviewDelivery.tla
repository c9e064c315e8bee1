---------------------------- MODULE ReviewDelivery ----------------------------
(***************************************************************************)
(* Delivery of reviewer prompts by a CODE_CHANGE run whose candidate is    *)
(* frozen: the audit job asks JUDGE and CRITIC in turn, an operator        *)
(* discusses the candidate with either of them, and the operator settles   *)
(* the deliveries whose outcome nobody knows                               *)
(* (src/src/orchestration/audit-round.js, delivery-recovery-actions.js,    *)
(* review-response-recovery.js and code-change-service.js).                *)
(*                                                                         *)
(* A step is what runs between two awaits.  What every adapter call does   *)
(* on the wire is WebSession's matter; here a call is taken when the       *)
(* adapter takes it, and answered, lost or given up later.  The extension  *)
(* is external: it keeps one slot per session and answers for the session  *)
(* it is bound to.                                                         *)
(***************************************************************************)
EXTENDS FiniteSets, Naturals

CONSTANTS
    Deliveries,  \* fresh delivery ids (bound); an id is used once
    MaxRepairs,  \* policy.maxFormatRepairs
    MaxCrashes,  \* crashes of the controller (bound)
    None         \* null

Roles == {"JUDGE", "CRITIC"}
Providers == {"chatgpt", "claude"}
DeliveryKinds == {"REVIEW", "TALK"}
Statuses == {"INTENT", "RECEIVED", "PROCESSED",
             "PENDING", "DELIVERED", "UNCONFIRMED", "FAILED", "DISCARDED"}
Receipts == {"ACK_PENDING", "ACKNOWLEDGED", "DISCARDED"}
Recoveries == {"READY", "REFUSED", "RESUMING", "CLOSED", "COMPLETED"}
Waits == {"resuming", "answering", "acknowledging", "settled"}
Actions == {"DISCARD", "ACKNOWLEDGE"}
Steps == {"inspected", "resuming", "discarding", "acknowledging"}
Slots == {"held", "answered", "acknowledged", "discarded"}

ASSUME DeliveryAssumption == MaxRepairs \in Nat /\ MaxCrashes \in Nat
ASSUME NoneAssumption ==
    None \notin UNION {Deliveries, Roles, DeliveryKinds, Statuses, Receipts, Recoveries, Waits,
                       Actions, Steps, Slots}

Other(role) == IF role = "JUDGE" THEN "CRITIC" ELSE "JUDGE"

VARIABLES
    \* the run's record in the store
    stage, reason,   \* stage and terminationReason
    waiting,         \* the role whose tab the operator must select (coordination)
    owner,           \* conversationBindings: role -> activeDeliveryId
    delivery,        \* request or discussion, with its receipt
    reviewTurn,      \* reviewTurnId
    recovery,        \* reviewRecovery
    \* the process
    job,             \* the audit job: the role it reviews and its repairs
    thread,          \* where the coroutine of each delivery waits
    snapshot,        \* conversationBindings that coroutine read
    rebinding,       \* code.review.rebind: the role and the bindings it read
    operator,        \* the recovery action holding the mutation lock
    \* the adapters and their transport
    operation,       \* #sessionOperation and what it is for
    turn,            \* #activeTurnId
    lost,            \* #ambiguousTurnId
    acking,          \* the acknowledgement that awaits its answer
    binding,         \* the transport's binding: whose session it names
    \* the extension
    slot,            \* what it knows of each delivery
    bound,           \* the session it is bound to
    \* chosen once
    shared,          \* both roles are configured with the same provider
    crashes

record == <<stage, reason, waiting, owner, delivery, reviewTurn, recovery>>
adapter == <<operation, turn, lost, acking, binding>>
vars == <<record, job, thread, snapshot, rebinding, operator, adapter, slot, bound, shared, crashes>>

Idle == [kind |-> "NONE", for |-> None]
NoDelivery == [kind |-> None, role |-> None, status |-> None, receipt |-> None]
NoJob == [role |-> None, repairs |-> 0]
NoRecovery == [status |-> None, ids |-> {}]
NoOperator == [kind |-> None, for |-> None, at |-> None]
NoOwner == [r \in Roles |-> None]
NoRebind == [role |-> None, owner |-> NoOwner]

Used == {d \in Deliveries : delivery[d].kind # None}
RoleOf(d) == delivery[d].role
AdapterOf(role) == IF shared \/ role = "JUDGE" THEN "chatgpt" ELSE "claude"

Owners == [Roles -> Deliveries \cup {None}]
Records == [kind : DeliveryKinds \cup {None}, role : Roles \cup {None},
            status : Statuses \cup {None}, receipt : Receipts \cup {None}]
Operations == [kind : {"NONE", "RESUME", "DISCARD", "TALK_DISCARD", "REBIND"},
               for : Deliveries \cup Roles \cup {None}]
Operators == [kind : Actions \cup {None}, for : Deliveries \cup {None}, at : Steps \cup {None}]

RunOK ==
    /\ stage \in {"REVIEW_RUNNING", "HOLD", "AWAITING_APPLY", "RECOVERY_REQUIRED"}
    /\ reason \in {None, "WEB_BINDING_REQUIRED", "REPORT_REPAIR_LIMIT", "WEB_DELIVERY_DISCARDED",
                   "WEB_DELIVERY_ACK_RECOVERED", "EXECUTION_UNCERTAIN"}
    /\ waiting \in Roles \cup {None}
    /\ reviewTurn \in Deliveries \cup {None}
    /\ recovery \in [status : Recoveries \cup {None}, ids : SUBSET Deliveries]
    /\ job \in [role : Roles \cup {None}, repairs : 0 .. MaxRepairs]
DeliveryOK ==
    /\ owner \in Owners
    /\ delivery \in [Deliveries -> Records]
    /\ thread \in [Deliveries -> Waits \cup {None}]
    /\ snapshot \in [Deliveries -> Owners]
    /\ slot \in [Deliveries -> Slots \cup {None}]
AdapterOK ==
    /\ rebinding \in [role : Roles \cup {None}, owner : Owners]
    /\ operator \in Operators
    /\ operation \in [Providers -> Operations]
    /\ turn \in [Providers -> Deliveries \cup {None}]
    /\ lost \in [Providers -> Deliveries \cup {None}]
    /\ acking \in [Providers -> Deliveries \cup {None}]
    /\ binding \in Roles \cup {None} /\ bound \in Roles \cup {None}
    /\ shared \in BOOLEAN
    /\ crashes \in 0 .. MaxCrashes
TypeOK == RunOK /\ DeliveryOK /\ AdapterOK

Init ==
    /\ stage = "REVIEW_RUNNING" /\ reason = None /\ waiting = None
    /\ owner = NoOwner
    /\ delivery = [d \in Deliveries |-> NoDelivery]
    /\ reviewTurn = None /\ recovery = NoRecovery
    /\ job = [role |-> "JUDGE", repairs |-> 0]
    /\ thread = [d \in Deliveries |-> None]
    /\ snapshot = [d \in Deliveries |-> NoOwner]
    /\ rebinding = NoRebind /\ operator = NoOperator
    /\ operation = [p \in Providers |-> Idle]
    /\ turn = [p \in Providers |-> None]
    /\ lost = [p \in Providers |-> None]
    /\ acking = [p \in Providers |-> None]
    /\ binding = None
    /\ slot = [d \in Deliveries |-> None] /\ bound = None
    /\ shared \in BOOLEAN
    /\ crashes = 0

-----------------------------------------------------------------------------
(* The adapter's own refusals, and the run's.                              *)

NothingPending(p) == turn[p] = None /\ acking[p] = None /\ operation[p] = Idle
MayBegin(p) == NothingPending(p) /\ lost[p] = None
MayDiscard(p, d) == NothingPending(p) /\ lost[p] \in {None, d}
ReviewerWebBusy == \E p \in Providers : turn[p] # None
Quiet == job = NoJob /\ ~ReviewerWebBusy
Fresh(d) == delivery[d] = NoDelivery
BetweenReviews == \A d \in Used : thread[d] # None => delivery[d].kind = "TALK"

\* the slots of the extension: the current one is that of the session it is bound to
Unsettled(d) == slot[d] \in {"held", "answered"}
InSlot(role) == {d \in Used : RoleOf(d) = role /\ Unsettled(d)}

Begin(p, kind, for) == operation' = [operation EXCEPT ![p] = [kind |-> kind, for |-> for]]
End(p) == operation' = [operation EXCEPT ![p] = Idle]

Open(d, kind, role, status) ==
    delivery' = [delivery EXCEPT ![d] = [kind |-> kind, role |-> role, status |-> status, receipt |-> None]]
SetStatus(d, status) == delivery' = [delivery EXCEPT ![d].status = status]

\* the job's last update, unless the run has already stopped
JobEnds(newStage, newReason) ==
    /\ job' = NoJob
    /\ stage' = newStage
    /\ reason' = newReason
JobFails ==
    /\ job' = NoJob
    /\ IF stage \in {"HOLD", "AWAITING_APPLY", "RECOVERY_REQUIRED"}
       THEN UNCHANGED <<stage, reason>>
       ELSE stage' = "RECOVERY_REQUIRED" /\ reason' = "EXECUTION_UNCERTAIN"

\* a delivery whose outcome is not known ends the coroutine that waits for it
GivesUp(d) ==
    IF delivery[d].kind = "TALK"
    THEN SetStatus(d, "UNCONFIRMED") /\ UNCHANGED <<job, stage, reason>>
    ELSE JobFails /\ UNCHANGED delivery
\* one that was certainly not sent
NotSent(d) ==
    IF delivery[d].kind = "TALK"
    THEN SetStatus(d, "FAILED") /\ UNCHANGED <<job, stage, reason>>
    ELSE JobFails /\ UNCHANGED delivery

-----------------------------------------------------------------------------
(* The audit job and the discussion: resume the role's conversation.       *)

Resumes(d, role) ==
    /\ Begin(AdapterOf(role), "RESUME", d)
    /\ thread' = [thread EXCEPT ![d] = "resuming"]
    /\ snapshot' = [snapshot EXCEPT ![d] = owner]

\* an acknowledged review that was not recovered is not asked for again
OmittedByRecovery(role) ==
    /\ recovery.status = "RESUMING"
    /\ \E e \in Used : delivery[e].kind = "REVIEW" /\ RoleOf(e) = role /\ delivery[e].receipt = "ACKNOWLEDGED"

Review(d) ==
    LET role == job.role IN
    /\ role # None /\ Fresh(d) /\ BetweenReviews /\ stage = "REVIEW_RUNNING"
    /\ ~(recovery.status = "RESUMING" /\ \E e \in recovery.ids : RoleOf(e) = role)
    /\ Open(d, "REVIEW", role, "INTENT")
    /\ reviewTurn' = d
    /\ IF owner[role] = None /\ MayBegin(AdapterOf(role)) /\ ~OmittedByRecovery(role)
       THEN /\ Resumes(d, role)
            /\ stage' = "REVIEW_RUNNING"
            /\ UNCHANGED <<job, reason>>
       ELSE /\ job' = NoJob
            /\ stage' = "RECOVERY_REQUIRED" /\ reason' = "EXECUTION_UNCERTAIN"
            /\ UNCHANGED <<operation, thread, snapshot>>
    /\ UNCHANGED <<waiting, owner, recovery, rebinding, operator, turn, lost, acking, binding,
                   slot, bound, shared, crashes>>

\* a mutant: code.review.discuss without the check of the binding's activeDeliveryId
OwnerIgnored(d, role) ==
    /\ Fresh(d)
    /\ stage \in {"HOLD", "AWAITING_APPLY"} /\ Quiet
    /\ MayBegin(AdapterOf(role))
    /\ Open(d, "TALK", role, "PENDING") /\ Resumes(d, role)
    /\ UNCHANGED <<stage, reason, waiting, owner, reviewTurn, recovery, job, rebinding, operator,
                   turn, lost, acking, binding, slot, bound, shared, crashes>>

\* code.review.discuss
Discuss(d, role) ==
    /\ Fresh(d)
    /\ stage \in {"HOLD", "AWAITING_APPLY"} /\ Quiet
    /\ \A e \in Used : delivery[e].status # "UNCONFIRMED"
    /\ owner[role] = None
    /\ IF MayBegin(AdapterOf(role))
       THEN Open(d, "TALK", role, "PENDING") /\ Resumes(d, role)
       ELSE Open(d, "TALK", role, "FAILED") /\ UNCHANGED <<operation, thread, snapshot>>
    /\ UNCHANGED <<stage, reason, waiting, owner, reviewTurn, recovery, job, rebinding, operator,
                   turn, lost, acking, binding, slot, bound, shared, crashes>>

\* web.session.prepare: the extension binds itself, parking the other session's slot
ExtensionBinds(p) ==
    /\ \/ operation[p].kind = "RESUME" /\ bound' = RoleOf(operation[p].for)
       \/ operation[p].kind = "REBIND" /\ bound' = operation[p].for
    /\ bound' # bound
    /\ UNCHANGED <<record, job, thread, snapshot, rebinding, operator, adapter, slot, shared, crashes>>

\* reserveDelivery: one delivery per slot; a prompt may also be lost or refused
ReachesExtension(d) ==
    {slot} \cup (IF InSlot(RoleOf(d)) = {} THEN {[slot EXCEPT ![d] = "held"]} ELSE {})

\* a mutant: the prompt is sent before the reservation is saved
Unreserved(d) == snapshot[d]

\* the bindings written back are the ones read before the await
Reserved(d) == [snapshot[d] EXCEPT ![RoleOf(d)] = d]

Submitted(d) ==
    LET p == AdapterOf(RoleOf(d)) IN
    /\ thread[d] = "resuming" /\ operation[p] = [kind |-> "RESUME", for |-> d]
    /\ bound = RoleOf(d)
    /\ End(p)
    /\ binding' = RoleOf(d)
    /\ owner' = Reserved(d)
    /\ turn' = [turn EXCEPT ![p] = d]
    /\ snapshot' = [snapshot EXCEPT ![d] = NoOwner]
    /\ thread' = [thread EXCEPT ![d] = "answering"]
    /\ slot' \in ReachesExtension(d)
    /\ UNCHANGED <<stage, reason, waiting, delivery, reviewTurn, recovery, job,
                   rebinding, operator, lost, acking, bound, shared, crashes>>

\* the prompt did not leave: known not to have (the reservation is taken back) or not known
SubmitFails(d) ==
    LET p == AdapterOf(RoleOf(d)) IN
    /\ thread[d] = "resuming" /\ operation[p] = [kind |-> "RESUME", for |-> d]
    /\ bound = RoleOf(d)
    /\ End(p)
    /\ binding' = RoleOf(d)
    /\ snapshot' = [snapshot EXCEPT ![d] = NoOwner]
    /\ thread' = [thread EXCEPT ![d] = None]
    /\ \/ owner' = snapshot[d] /\ NotSent(d) /\ UNCHANGED slot
       \/ owner' = Reserved(d) /\ GivesUp(d) /\ slot' \in ReachesExtension(d)
    /\ UNCHANGED <<waiting, reviewTurn, recovery, rebinding, operator, turn, lost, acking,
                   bound, shared, crashes>>

\* the conversation needs another tab (the review waits for the operator), or anything else
ResumeFails(d) ==
    LET p == AdapterOf(RoleOf(d)) IN
    /\ thread[d] = "resuming" /\ operation[p] = [kind |-> "RESUME", for |-> d]
    /\ End(p)
    /\ snapshot' = [snapshot EXCEPT ![d] = NoOwner]
    /\ thread' = [thread EXCEPT ![d] = None]
    /\ IF delivery[d].kind = "TALK"
       THEN owner' = snapshot[d] /\ NotSent(d) /\ UNCHANGED waiting
       ELSE \/ /\ owner' = snapshot[d]
               /\ JobEnds("HOLD", "WEB_BINDING_REQUIRED")
               /\ waiting' \in {RoleOf(d), None}
               /\ UNCHANGED delivery
            \/ NotSent(d) /\ UNCHANGED <<owner, waiting>>
    /\ UNCHANGED <<reviewTurn, recovery, rebinding, operator, turn, lost, acking, binding,
                   slot, bound, shared, crashes>>

-----------------------------------------------------------------------------
(* The answer, its receipt and its acknowledgement.                        *)

PageAnswers(d) ==
    /\ slot[d] = "held"
    /\ slot' = [slot EXCEPT ![d] = "answered"]
    /\ UNCHANGED <<record, job, thread, snapshot, rebinding, operator, adapter, bound, shared, crashes>>

\* a mutant: submitRoleTurn acknowledges before it persists the receipt
AnsweredUnstored(d) ==
    LET p == AdapterOf(RoleOf(d)) IN
    /\ thread[d] = "answering" /\ turn[p] = d
    /\ slot[d] = "answered" /\ bound = RoleOf(d) /\ owner[RoleOf(d)] = d
    /\ turn' = [turn EXCEPT ![p] = None]
    /\ binding' = RoleOf(d)
    /\ thread' = [thread EXCEPT ![d] = "acknowledging"]
    /\ acking' = [acking EXCEPT ![p] = d]
    /\ UNCHANGED <<stage, reason, waiting, owner, delivery, reviewTurn, recovery, job, snapshot,
                   rebinding, operator, operation, lost, slot, bound, shared, crashes>>

Answered(d) ==
    LET p == AdapterOf(RoleOf(d)) IN
    /\ thread[d] = "answering" /\ turn[p] = d
    /\ slot[d] = "answered" /\ bound = RoleOf(d)
    /\ turn' = [turn EXCEPT ![p] = None]
    /\ binding' = RoleOf(d)
    /\ IF owner[RoleOf(d)] = d
       THEN /\ delivery' = [delivery EXCEPT ![d].receipt = "ACK_PENDING"]
            /\ thread' = [thread EXCEPT ![d] = "acknowledging"]
            /\ acking' = [acking EXCEPT ![p] = d]
            /\ UNCHANGED <<job, stage, reason>>
       ELSE /\ thread' = [thread EXCEPT ![d] = None]
            /\ GivesUp(d)
            /\ UNCHANGED acking
    /\ UNCHANGED <<waiting, owner, reviewTurn, recovery, snapshot, rebinding, operator, operation,
                   lost, slot, bound, shared, crashes>>

\* an error, a lost connection, or the caller's deadline, which the adapter's own outlives
NoAnswer(d) ==
    LET p == AdapterOf(RoleOf(d)) IN
    /\ thread[d] = "answering"
    /\ thread' = [thread EXCEPT ![d] = None]
    /\ \/ turn[p] = d /\ turn' = [turn EXCEPT ![p] = None] /\ lost' \in {lost, [lost EXCEPT ![p] = d]}
       \/ UNCHANGED <<turn, lost>>
    /\ GivesUp(d)
    /\ UNCHANGED <<waiting, owner, reviewTurn, recovery, snapshot, rebinding, operator, operation,
                   acking, binding, slot, bound, shared, crashes>>

\* delivery.ack: the extension clears the slot of the session it is bound to
CanAcknowledge(d) ==
    /\ binding = RoleOf(d) /\ bound = RoleOf(d)
    /\ slot[d] \in {"answered", "acknowledged"}
AckedSlot(d) == [slot EXCEPT ![d] = "acknowledged"]

Settles(d) ==
    /\ owner' = [owner EXCEPT ![RoleOf(d)] = None]
    /\ delivery' = [delivery EXCEPT ![d].receipt = "ACKNOWLEDGED"]

Acknowledged(d) ==
    LET p == AdapterOf(RoleOf(d)) IN
    /\ thread[d] = "acknowledging" /\ acking[p] = d /\ CanAcknowledge(d)
    /\ acking' = [acking EXCEPT ![p] = None]
    /\ slot' = AckedSlot(d)
    /\ IF owner[RoleOf(d)] = d
       THEN /\ Settles(d)
            /\ thread' = [thread EXCEPT ![d] = "settled"]
            /\ UNCHANGED <<job, stage, reason>>
       ELSE /\ thread' = [thread EXCEPT ![d] = None]
            /\ GivesUp(d)
            /\ UNCHANGED owner
    /\ UNCHANGED <<waiting, reviewTurn, recovery, snapshot, rebinding, operator, operation, turn,
                   lost, binding, bound, shared, crashes>>

\* the answer is late or lost: the extension may have cleared the slot
AckFails(d) ==
    LET p == AdapterOf(RoleOf(d)) IN
    /\ thread[d] = "acknowledging"
    /\ acking' = [acking EXCEPT ![p] = IF @ = d THEN None ELSE @]
    /\ thread' = [thread EXCEPT ![d] = None]
    /\ slot' \in {slot} \cup (IF CanAcknowledge(d) THEN {AckedSlot(d)} ELSE {})
    /\ GivesUp(d)
    /\ UNCHANGED <<waiting, owner, reviewTurn, recovery, snapshot, rebinding, operator, operation,
                   turn, lost, binding, bound, shared, crashes>>

Delivered(d) ==
    /\ thread[d] = "settled" /\ delivery[d].kind = "TALK"
    /\ thread' = [thread EXCEPT ![d] = None]
    /\ SetStatus(d, "DELIVERED")
    /\ UNCHANGED <<stage, reason, waiting, owner, reviewTurn, recovery, job, snapshot,
                   rebinding, operator, adapter, slot, bound, shared, crashes>>

\* after CRITIC's report the verdict is saved; both reports are accepted here
Reported(role) ==
    IF role = "JUDGE"
    THEN job' = [role |-> "CRITIC", repairs |-> 0] /\ UNCHANGED <<stage, reason, recovery>>
    ELSE /\ JobEnds("AWAITING_APPLY", None)
         /\ recovery' = IF recovery.status = "RESUMING" THEN [recovery EXCEPT !.status = "COMPLETED"]
                        ELSE recovery

RepairsExhausted == job.repairs >= MaxRepairs

\* persistReviewResponse, then persistProcessedReview or another request for the same role
Reviewed(d) ==
    /\ thread[d] = "settled" /\ delivery[d].kind = "REVIEW"
    /\ thread' = [thread EXCEPT ![d] = None]
    /\ IF stage # "REVIEW_RUNNING" THEN JobFails /\ UNCHANGED <<delivery, recovery>>
       ELSE \/ SetStatus(d, "PROCESSED") /\ Reported(RoleOf(d))
            \/ /\ SetStatus(d, "RECEIVED")
               /\ IF RepairsExhausted THEN JobEnds("HOLD", "REPORT_REPAIR_LIMIT")
                  ELSE job' = [job EXCEPT !.repairs = job.repairs + 1] /\ UNCHANGED <<stage, reason>>
               /\ UNCHANGED recovery
    /\ UNCHANGED <<waiting, owner, reviewTurn, snapshot, rebinding, operator, adapter,
                   slot, bound, shared, crashes>>

\* restoredReviewForRole: a recovered report is used again instead of being asked for
Restored ==
    /\ job.role # None /\ BetweenReviews
    /\ recovery.status = "RESUMING" /\ \E e \in recovery.ids : RoleOf(e) = job.role
    /\ Reported(job.role)
    /\ UNCHANGED <<waiting, owner, delivery, reviewTurn, thread, snapshot, rebinding, operator,
                   adapter, slot, bound, shared, crashes>>

\* assertActive at the next request, when the operator settled a delivery meanwhile
StoppedJobEnds ==
    /\ job # NoJob /\ BetweenReviews /\ stage # "REVIEW_RUNNING"
    /\ JobFails
    /\ UNCHANGED <<waiting, owner, delivery, reviewTurn, recovery, thread, snapshot,
                   rebinding, operator, adapter, slot, bound, shared, crashes>>

\* run.stop and the total deadline abort the job's wait, not the request behind it
JobIsAborted ==
    /\ job # NoJob
    /\ JobFails
    /\ thread' = [d \in Deliveries |-> IF delivery[d].kind = "REVIEW" THEN None ELSE thread[d]]
    /\ snapshot' = [d \in Deliveries |-> IF delivery[d].kind = "REVIEW" THEN NoOwner ELSE snapshot[d]]
    /\ UNCHANGED <<waiting, owner, delivery, reviewTurn, recovery, rebinding, operator,
                   adapter, slot, bound, shared, crashes>>

\* what nobody waits for any more still ends: by a late answer or by the adapter's deadline
AdapterGivesUp(p) ==
    /\ \/ /\ operation[p].kind = "RESUME" /\ thread[operation[p].for] # "resuming"
          /\ operator.at # "resuming"
          /\ End(p)
          /\ UNCHANGED <<turn, lost, acking, slot>>
       \/ /\ turn[p] # None /\ thread[turn[p]] # "answering"
          /\ turn' = [turn EXCEPT ![p] = None]
          /\ lost' \in {lost, [lost EXCEPT ![p] = turn[p]]}
          /\ UNCHANGED <<operation, acking, slot>>
       \/ /\ acking[p] # None /\ thread[acking[p]] # "acknowledging" /\ operator.at # "acknowledging"
          /\ acking' = [acking EXCEPT ![p] = None]
          /\ slot' \in {slot} \cup (IF CanAcknowledge(acking[p]) THEN {AckedSlot(acking[p])} ELSE {})
          /\ UNCHANGED <<operation, turn, lost>>
    /\ UNCHANGED <<record, job, thread, snapshot, rebinding, operator, binding, bound, shared, crashes>>

-----------------------------------------------------------------------------
(* The operator: retry, rebind, and the two ways to settle a delivery.     *)

CanResume ==
    /\ stage = "RECOVERY_REQUIRED" /\ recovery.status = "READY"
    /\ reviewTurn \in recovery.ids /\ owner = NoOwner
Retryable ==
    /\ stage = "HOLD"
    /\ reason \in {"REPORT_REPAIR_LIMIT", "WEB_BINDING_REQUIRED"}
    /\ ~(reason = "WEB_BINDING_REQUIRED" /\ waiting # None)

\* code.review.retry
Retry ==
    /\ Quiet
    /\ Retryable \/ CanResume
    /\ stage' = "REVIEW_RUNNING" /\ reason' = None
    /\ job' = [role |-> "JUDGE", repairs |-> 0]
    /\ reviewTurn' = IF CanResume THEN reviewTurn ELSE None
    /\ recovery' = IF recovery.status = None THEN recovery
                   ELSE [recovery EXCEPT !.status = IF CanResume THEN "RESUMING" ELSE "CLOSED"]
    /\ UNCHANGED <<waiting, owner, delivery, thread, snapshot, rebinding, operator,
                   adapter, slot, bound, shared, crashes>>

\* code.review.rebind
Rebind(role) ==
    /\ stage = "HOLD" /\ reason = "WEB_BINDING_REQUIRED" /\ waiting = role
    /\ Quiet /\ rebinding = NoRebind
    /\ MayBegin(AdapterOf(role))
    /\ Begin(AdapterOf(role), "REBIND", role)
    /\ rebinding' = [role |-> role, owner |-> owner]
    /\ UNCHANGED <<record, job, thread, snapshot, operator, turn, lost, acking, binding,
                   slot, bound, shared, crashes>>

Rebound ==
    /\ rebinding # NoRebind
    /\ End(AdapterOf(rebinding.role))
    /\ rebinding' = NoRebind
    /\ \/ /\ bound = rebinding.role
          /\ binding' = rebinding.role
          /\ owner' = rebinding.owner
          /\ waiting' = None
       \/ UNCHANGED <<binding, owner, waiting>>
    /\ UNCHANGED <<stage, reason, delivery, reviewTurn, recovery, job, thread, snapshot,
                   operator, turn, lost, acking, slot, bound, shared, crashes>>

\* code.review.discuss.discard
DiscardTalk(d) ==
    /\ delivery[d].kind = "TALK" /\ delivery[d].status = "UNCONFIRMED"
    /\ stage \in {"HOLD", "AWAITING_APPLY"} /\ Quiet
    /\ owner[RoleOf(d)] = d
    /\ MayDiscard(AdapterOf(RoleOf(d)), d)
    /\ Begin(AdapterOf(RoleOf(d)), "TALK_DISCARD", d)
    /\ UNCHANGED <<record, job, thread, snapshot, rebinding, operator, turn, lost, acking, binding,
                   slot, bound, shared, crashes>>

\* a mutant: discardExactDelivery without its check for a completed response
CanDiscardResponse(d) == bound = RoleOf(d) /\ Unsettled(d) /\ InSlot(Other(RoleOf(d))) = {}

\* discardExactDelivery: no response is held, no other session's delivery is parked
CanDiscard(d) ==
    /\ bound = RoleOf(d)
    /\ InSlot(Other(RoleOf(d))) = {}
    /\ \/ slot[d] = "held"
       \/ slot[d] = "discarded" /\ InSlot(RoleOf(d)) = {}
MissingConfirmed(d) == bound = RoleOf(d) /\ slot[d] = None /\ InSlot("JUDGE") \cup InSlot("CRITIC") = {}
DiscardedSlot(d) == [slot EXCEPT ![d] = "discarded"]
Forget(p, d) == lost' = [lost EXCEPT ![p] = IF @ = d THEN None ELSE @]

\* a mutant: discuss.discard releases the owner although the discard was not confirmed
ReleasedUnconfirmed(p) ==
    LET d == operation[p].for IN
    /\ operation[p].kind = "TALK_DISCARD"
    /\ End(p)
    /\ owner' = [owner EXCEPT ![RoleOf(d)] = None]
    /\ SetStatus(d, "DISCARDED")
    /\ UNCHANGED <<stage, reason, waiting, reviewTurn, recovery, job, thread, snapshot, rebinding,
                   operator, turn, lost, acking, binding, slot, bound, shared, crashes>>

TalkDiscarded(p) ==
    LET d == operation[p].for  role == RoleOf(d) IN
    /\ operation[p].kind = "TALK_DISCARD"
    /\ End(p)
    /\ \/ /\ CanDiscard(d)
          /\ slot' = DiscardedSlot(d)
          /\ Forget(p, d)
          /\ owner' = [owner EXCEPT ![role] = None]
          /\ SetStatus(d, "DISCARDED")
       \/ /\ slot' \in {slot} \cup (IF CanDiscard(d) THEN {DiscardedSlot(d)} ELSE {})
          /\ UNCHANGED <<lost, owner, delivery>>
    /\ UNCHANGED <<stage, reason, waiting, reviewTurn, recovery, job, thread, snapshot,
                   rebinding, operator, turn, acking, binding, bound, shared, crashes>>

\* createDeliveryRecoveryActions.inspect and the refusals that follow it
OtherActive(d) == owner[Other(RoleOf(d))] # None \/ InSlot(Other(RoleOf(d))) # {}
Matched(d) == d \in Used /\ owner[RoleOf(d)] = d /\ bound = RoleOf(d) /\ ~OtherActive(d)

InspectToDiscard(d) ==
    /\ operator = NoOperator
    /\ Matched(d)
    /\ delivery[d].receipt = None
    /\ slot[d] \in {"held", "discarded", None}
    /\ \A e \in InSlot(RoleOf(d)) : slot[e] # "answered"
    /\ operator' = [kind |-> "DISCARD", for |-> d, at |-> "inspected"]
    /\ UNCHANGED <<record, job, thread, snapshot, rebinding, adapter, slot, bound, shared, crashes>>

\* the web session of this action is always the primary one
Discard ==
    LET d == operator.for IN
    /\ operator.kind = "DISCARD" /\ operator.at = "inspected"
    /\ IF Quiet /\ owner[RoleOf(d)] = d
       THEN IF MayDiscard("chatgpt", d)
            THEN /\ Begin("chatgpt", "DISCARD", d)
                 /\ operator' = [operator EXCEPT !.at = "discarding"]
            ELSE operator' = NoOperator /\ UNCHANGED operation
       ELSE operator' = NoOperator /\ UNCHANGED operation
    /\ UNCHANGED <<stage, reason, waiting, owner, delivery, reviewTurn, recovery, job, thread,
                   snapshot, rebinding, turn, lost, acking, binding, slot, bound, shared, crashes>>

Discarded ==
    LET d == operator.for IN
    /\ operator.at = "discarding"
    /\ End("chatgpt")
    /\ operator' = NoOperator
    /\ CanDiscard(d) \/ MissingConfirmed(d)
    /\ slot' = DiscardedSlot(d)
    /\ Forget("chatgpt", d)
    /\ IF owner[RoleOf(d)] = d
       THEN /\ stage' = "HOLD" /\ reason' = "WEB_DELIVERY_DISCARDED"
            /\ owner' = [owner EXCEPT ![RoleOf(d)] = None]
            /\ delivery' = IF delivery[d].receipt = None THEN delivery
                           ELSE [delivery EXCEPT ![d].receipt = "DISCARDED"]
       ELSE UNCHANGED <<stage, reason, owner, delivery>>
    /\ UNCHANGED <<waiting, reviewTurn, recovery, job, thread, snapshot, rebinding, turn, acking,
                   binding, bound, shared, crashes>>

\* refused by the extension, or its answer was lost after it discarded
DiscardFails ==
    LET d == operator.for IN
    /\ operator.at = "discarding"
    /\ End("chatgpt")
    /\ operator' = NoOperator
    /\ slot' \in {slot} \cup (IF CanDiscard(d) \/ MissingConfirmed(d) THEN {DiscardedSlot(d)} ELSE {})
    /\ UNCHANGED <<stage, reason, waiting, owner, delivery, reviewTurn, recovery, job, thread,
                   snapshot, rebinding, turn, lost, acking, binding, bound, shared, crashes>>

\* acknowledge: only a stored response; an adapter that lost its binding is resumed first
Acknowledge(d) ==
    LET p == AdapterOf(RoleOf(d)) IN
    /\ operator = NoOperator
    /\ Matched(d) /\ Quiet
    /\ delivery[d].receipt = "ACK_PENDING" /\ slot[d] \in {"answered", "acknowledged"}
    /\ \/ /\ binding = RoleOf(d) /\ acking[p] = None
          /\ acking' = [acking EXCEPT ![p] = d]
          /\ operator' = [kind |-> "ACKNOWLEDGE", for |-> d, at |-> "acknowledging"]
          /\ UNCHANGED operation
       \/ /\ binding = None /\ MayBegin(p)
          /\ Begin(p, "RESUME", d)
          /\ operator' = [kind |-> "ACKNOWLEDGE", for |-> d, at |-> "resuming"]
          /\ UNCHANGED acking
    /\ UNCHANGED <<record, job, thread, snapshot, rebinding, turn, lost, binding, slot, bound,
                   shared, crashes>>

AckResumed ==
    LET d == operator.for  p == AdapterOf(RoleOf(d)) IN
    /\ operator.at = "resuming"
    /\ End(p)
    /\ \/ /\ bound = RoleOf(d) /\ owner[RoleOf(d)] = d /\ ~OtherActive(d) /\ acking[p] = None
          /\ binding' = RoleOf(d)
          /\ acking' = [acking EXCEPT ![p] = d]
          /\ operator' = [operator EXCEPT !.at = "acknowledging"]
       \/ /\ operator' = NoOperator
          /\ UNCHANGED <<binding, acking>>
    /\ UNCHANGED <<record, job, thread, snapshot, rebinding, turn, lost, slot, bound, shared, crashes>>

AckRecovered ==
    LET d == operator.for  p == AdapterOf(RoleOf(d)) IN
    /\ operator.at = "acknowledging" /\ CanAcknowledge(d)
    /\ operator' = NoOperator
    /\ acking' = [acking EXCEPT ![p] = None]
    /\ slot' = AckedSlot(d)
    /\ IF owner[RoleOf(d)] = d /\ turn[p] = None /\ lost[p] \in {None, d}
       THEN /\ Settles(d)
            /\ Forget(p, d)
            /\ stage' = "HOLD" /\ reason' = "WEB_DELIVERY_ACK_RECOVERED"
       ELSE UNCHANGED <<owner, delivery, lost, stage, reason>>
    /\ UNCHANGED <<waiting, reviewTurn, recovery, job, thread, snapshot, rebinding,
                   operation, turn, binding, bound, shared, crashes>>

AckNotRecovered ==
    LET d == operator.for  p == AdapterOf(RoleOf(d)) IN
    /\ operator.at = "acknowledging"
    /\ operator' = NoOperator
    /\ acking' = [acking EXCEPT ![p] = None]
    /\ slot' \in {slot} \cup (IF CanAcknowledge(d) THEN {AckedSlot(d)} ELSE {})
    /\ UNCHANGED <<record, job, thread, snapshot, rebinding, operation, turn, lost, binding, bound,
                   shared, crashes>>

\* the popup discards what only the extension still holds
DiscardOrphan(d) ==
    /\ slot[d] = "held" /\ bound = RoleOf(d)
    /\ owner = NoOwner /\ InSlot(Other(RoleOf(d))) = {}
    /\ delivery[d].receipt = None
    /\ slot' = DiscardedSlot(d)
    /\ UNCHANGED <<record, job, thread, snapshot, rebinding, operator, adapter, bound, shared, crashes>>

-----------------------------------------------------------------------------
(* A crash loses everything but the store and the extension.               *)

\* recoverAcknowledgedReviews: evidence is processed locally, nothing is sent
ProcessedWith(target) ==
    {d \in Used : d = target \/ (delivery[d].kind = "REVIEW" /\ delivery[d].status = "PROCESSED")}

RecoverReviews ==
    IF reviewTurn = None \/ delivery[reviewTurn].receipt # "ACKNOWLEDGED"
    THEN UNCHANGED <<recovery, delivery>>
    ELSE IF owner # NoOwner
    THEN recovery' = [status |-> "REFUSED", ids |-> {}] /\ UNCHANGED delivery
    ELSE \/ /\ recovery' = [status |-> "READY", ids |-> ProcessedWith(reviewTurn)]
            /\ SetStatus(reviewTurn, "PROCESSED")
         \/ /\ delivery[reviewTurn].status # "PROCESSED"
            /\ recovery' = [status |-> "REFUSED", ids |-> {}]
            /\ SetStatus(reviewTurn, "RECEIVED")

Crash ==
    /\ crashes < MaxCrashes
    /\ crashes' = crashes + 1
    /\ IF stage \in {"REVIEW_RUNNING", "RECOVERY_REQUIRED"}
       THEN /\ stage' = "RECOVERY_REQUIRED"
            /\ RecoverReviews
       ELSE UNCHANGED <<stage, recovery, delivery>>
    /\ job' = NoJob
    /\ thread' = [d \in Deliveries |-> None]
    /\ snapshot' = [d \in Deliveries |-> NoOwner]
    /\ rebinding' = NoRebind /\ operator' = NoOperator
    /\ operation' = [p \in Providers |-> Idle]
    /\ turn' = [p \in Providers |-> None]
    /\ lost' = [p \in Providers |-> None]
    /\ acking' = [p \in Providers |-> None]
    /\ binding' = None
    /\ UNCHANGED <<reason, waiting, owner, reviewTurn, slot, bound, shared>>

Next ==
    \/ \E d \in Deliveries :
        \/ Review(d) \/ Submitted(d) \/ SubmitFails(d) \/ ResumeFails(d)
        \/ PageAnswers(d) \/ Answered(d) \/ NoAnswer(d)
        \/ Acknowledged(d) \/ AckFails(d) \/ Delivered(d) \/ Reviewed(d)
        \/ DiscardTalk(d) \/ InspectToDiscard(d) \/ Acknowledge(d) \/ DiscardOrphan(d)
        \/ \E role \in Roles : Discuss(d, role)
    \/ \E p \in Providers : ExtensionBinds(p) \/ AdapterGivesUp(p) \/ TalkDiscarded(p)
    \/ \E role \in Roles : Rebind(role)
    \/ Restored \/ StoppedJobEnds \/ JobIsAborted \/ Retry \/ Rebound
    \/ Discard \/ Discarded \/ DiscardFails
    \/ AckResumed \/ AckRecovered \/ AckNotRecovered
    \/ Crash

Spec == Init /\ [][Next]_vars

-----------------------------------------------------------------------------
(* Properties.                                                             *)

\* The extension drops a response only after the store holds its receipt: an acknowledgement
\* is sent by submitRoleTurn, discussReviewRole or the operator's recovery, each after
\* persistWebDeliveryReceipt, whatever crashes and lost answers come between.
StoredBeforeAcknowledged ==
    \A d \in Used : slot[d] = "acknowledged" => delivery[d].receipt \in {"ACK_PENDING", "ACKNOWLEDGED"}

\* Discarding a delivery (either command, or the popup) never costs a response the run has
\* stored, though the check for one and the discard are separated by awaits.
StoredIsNeverDiscarded ==
    \A d \in Used : delivery[d].receipt # None => slot[d] # "discarded" /\ delivery[d].receipt # "DISCARDED"

\* Of the two copies of a response, the extension's and the store's, one always remains.
ResponsesAreSafe == StoredBeforeAcknowledged /\ StoredIsNeverDiscarded

\* As long as both roles use one adapter, a prompt the extension still holds is known to the
\* run as its role's activeDeliveryId, although several writers put back bindings they read
\* before an await: the adapter admits one session operation at a time.
UnresolvedIsOwned == shared =>
    \A d \in Used : Unsettled(d) => owner[RoleOf(d)] = d

\* A role's conversation is asked for something new only when the extension holds nothing
\* unresolved of it: no command resends into a conversation whose last outcome is unknown.
AsksOnlyWhenSettled == [][shared => \A d \in Deliveries :
    (d \in Used /\ thread'[d] = "answering" /\ thread[d] # "answering") =>
        \A e \in Used \ {d} : RoleOf(e) = RoleOf(d) => ~Unsettled(e)]_vars

\* With one adapter, ownership is given up only for a reason that holds at that moment: the
\* response is stored and acknowledged, the extension confirmed the discard, or the prompt
\* never left.
ReleasedOnlyWhenSettled == [][shared => \A d \in Used :
    (owner[RoleOf(d)] = d /\ owner'[RoleOf(d)] # d) =>
        \/ delivery'[d].receipt = "ACKNOWLEDGED"
        \/ slot'[d] = "discarded"]_vars

\* Neither a new question nor a release comes before the last delivery is settled.
OnlyWhenSettled == AsksOnlyWhenSettled /\ ReleasedOnlyWhenSettled

=============================================================================
