------------------------ MODULE ReviewDeliveryProofs ------------------------
(***************************************************************************)
(* Proofs about ReviewDelivery, for any number of deliveries, repairs and  *)
(* crashes.                                                                *)
(*                                                                         *)
(* The commands that write conversationBindings back do so after an await, *)
(* with the copy they read before it.  Covered is why no owner is lost by  *)
(* that when both roles share an adapter: every copy that may still be     *)
(* written holds each prompt the extension holds, and lacks nothing the    *)
(* bindings have.  It rests on Locked: who holds such a copy is inside the *)
(* adapter's session operation, so there is only one of them, and nobody   *)
(* can open, discard or submit a delivery meanwhile.  Receipted gives the  *)
(* order of the receipt and the acknowledgement, Named says that whatever  *)
(* refers to a delivery refers to one that was begun.                      *)
(*                                                                         *)
(* MovesStep reduces the thirty-odd actions to the few moves that matter   *)
(* for ownership; Covered is then proved move by move.                     *)
(***************************************************************************)
EXTENDS ReviewDelivery, TLAPS

\* A delivery that was never begun left no trace, and what concerns one names it
Named ==
    /\ \A d \in Deliveries :
         IF delivery[d].kind = None THEN delivery[d].receipt = None /\ thread[d] = None /\ slot[d] = None
         ELSE delivery[d].role \in Roles
    /\ \A p \in Providers : operation[p].kind \in {"RESUME", "DISCARD", "TALK_DISCARD"} => operation[p].for \in Used
    /\ \A p \in Providers : operation[p].kind = "REBIND" => operation[p].for \in Roles
    /\ operator.at # None => operator.for \in Used
    /\ rebinding # NoRebind => rebinding.role \in Roles

\* A receipt is stored before the extension may forget the response
Stored(d) == delivery[d].receipt \in {"ACK_PENDING", "ACKNOWLEDGED"}
Receipted ==
    /\ \A d \in Deliveries :
         /\ delivery[d].receipt # None => Stored(d) /\ slot[d] \in {"answered", "acknowledged"}
         /\ slot[d] = "acknowledged" => Stored(d)
         /\ thread[d] = "resuming" => ~Stored(d) /\ slot[d] \in {None, "discarded"}
         /\ thread[d] = "acknowledging" => Stored(d)
    /\ \A p \in Providers : acking[p] # None => Stored(acking[p])
    /\ operator.at \in {"resuming", "acknowledging"} => Stored(operator.for)

\* Whoever waits in a session operation holds its adapter
Resume(d) == [kind |-> "RESUME", for |-> d]
Holds(d) == operation[AdapterOf(RoleOf(d))] = Resume(d)
HoldsRebind(role) == operation[AdapterOf(role)] = [kind |-> "REBIND", for |-> role]
Waiting(d) == thread[d] = "resuming" \/ (operator.at = "resuming" /\ operator.for = d)
Locked ==
    /\ \A d \in Deliveries : Waiting(d) => Holds(d)
    /\ operator.at = "discarding" => operation["chatgpt"] = [kind |-> "DISCARD", for |-> operator.for]
    /\ \A role \in Roles : rebinding.role = role => HoldsRebind(role)

\* With one adapter: every prompt the extension still holds is in the bindings, and so in
\* every copy of them that may be put back, which lacks nothing the bindings have
Known == \A e \in Used : Unsettled(e) => owner[RoleOf(e)] = e
Restores(d) ==
    /\ \A e \in Used : Unsettled(e) => snapshot[d][RoleOf(e)] = e
    /\ \A role \in Roles : owner[role] \in {None, snapshot[d][role]}
RebindRestores ==
    /\ \A e \in Used : Unsettled(e) => rebinding.owner[RoleOf(e)] = e
    /\ \A role \in Roles : owner[role] \in {None, rebinding.owner[role]}
Covered == shared =>
    /\ Known
    /\ \A d \in Deliveries : thread[d] = "resuming" => snapshot[d][RoleOf(d)] = None /\ Restores(d)
    /\ rebinding.role \in Roles => RebindRestores
    /\ \A d \in Deliveries :
         operation["chatgpt"] = [kind |-> "TALK_DISCARD", for |-> d] => owner[RoleOf(d)] \in {None, d}

Puts(f, g, S, x, v) == g[x] = v /\ \A y \in S \ {x} : g[y] = f[y]

\* What a step may do to the deliveries: nothing but statuses, a new one, a receipt
Same(e) ==
    delivery'[e].kind = delivery[e].kind /\ delivery'[e].role = delivery[e].role /\ delivery'[e].receipt = delivery[e].receipt
Typed == delivery' \in [Deliveries -> Records]
Keeps == Typed /\ \A e \in Deliveries : Same(e)
Opens(d, kind, role) ==
    /\ Typed /\ \A e \in Deliveries \ {d} : Same(e)
    /\ delivery'[d].kind = kind /\ delivery'[d].role = role /\ delivery'[d].receipt = None
Marks(d, receipt) ==
    /\ Typed /\ \A e \in Deliveries \ {d} : Same(e)
    /\ delivery'[d].kind = delivery[d].kind /\ delivery'[d].role = delivery[d].role /\ delivery'[d].receipt = receipt

SameRoles == \A e \in Deliveries : delivery'[e].kind = delivery[e].kind /\ delivery'[e].role = delivery[e].role
NoneResumes ==
    \A e \in Deliveries :
        /\ thread'[e] = "resuming" => thread[e] = "resuming" /\ snapshot'[e] = snapshot[e]
        /\ thread'[e] = "answering" => thread[e] = "answering"
NoneHeld == \A e \in Deliveries : slot'[e] \in {"held", "answered"} => slot[e] \in {"held", "answered"}

\* Nothing that matters to ownership happens
Calm == SameRoles /\ NoneResumes /\ NoneHeld /\ UNCHANGED << owner, operation, operator, rebinding >>

\* A review or a discussion opens a delivery, and resumes the role's conversation if it may
Begins(d, role) ==
    /\ delivery[d].kind = None /\ \E kind \in DeliveryKinds : Opens(d, kind, role)
    /\ UNCHANGED << owner, slot, acking, operator, rebinding >>
    /\ \/ UNCHANGED << thread, snapshot, operation >>
       \/ /\ owner[role] = None /\ operation[AdapterOf(role)] = Idle
          /\ Puts(thread, thread', Deliveries, d, "resuming") /\ Puts(snapshot, snapshot', Deliveries, d, owner)
          /\ Puts(operation, operation', Providers, AdapterOf(role), Resume(d))

\* It ends: with a reservation, and perhaps a prompt in the extension, or without
Prompts(d) ==
    /\ SameRoles /\ thread[d] = "resuming" /\ operation[AdapterOf(RoleOf(d))] = Resume(d)
    /\ Puts(operation, operation', Providers, AdapterOf(RoleOf(d)), Idle)
    /\ thread'[d] # "resuming" /\ (\A e \in Deliveries \ {d} : thread'[e] = thread[e] /\ snapshot'[e] = snapshot[e])
    /\ UNCHANGED << acking, operator, rebinding >>
    /\ \/ UNCHANGED slot /\ (UNCHANGED owner \/ owner' = snapshot[d]) /\ thread'[d] # "answering"
       \/ owner' = Reserved(d) /\ (UNCHANGED slot \/ (InSlot(RoleOf(d)) = {} /\ Puts(slot, slot', Deliveries, d, "held")))

\* An acknowledged response releases its conversation
Releases(d) ==
    /\ d \in Used /\ SameRoles /\ NoneResumes /\ UNCHANGED << operation, rebinding >>
    /\ operator' = operator \/ (operator.at = "acknowledging" /\ operator' = NoOperator)
    /\ delivery'[d].receipt = "ACKNOWLEDGED" /\ owner[RoleOf(d)] = d /\ Puts(owner, owner', Roles, RoleOf(d), None)
    /\ Puts(slot, slot', Deliveries, d, "acknowledged")

\* What else takes or frees an adapter, or puts bindings back
Others ==
    \/ \E d \in Deliveries : DiscardTalk(d) \/ InspectToDiscard(d) \/ Acknowledge(d)
    \/ \E p \in Providers : AdapterGivesUp(p) \/ TalkDiscarded(p)
    \/ \E role \in Roles : Rebind(role)
    \/ Rebound \/ Discard \/ Discarded \/ DiscardFails \/ AckResumed \/ AckNotRecovered \/ Crash
    \/ AckRecovered /\ SameRoles /\ UNCHANGED owner

Moves ==
    \/ Calm \/ Others
    \/ \E d \in Deliveries, role \in Roles : Begins(d, role)
    \/ \E d \in Deliveries : Prompts(d) \/ Releases(d)

Going ==
    /\ job' \in [role : Roles \cup {None}, repairs : 0 .. MaxRepairs]
    /\ stage' \in {"REVIEW_RUNNING", "HOLD", "AWAITING_APPLY", "RECOVERY_REQUIRED"}
    /\ reason' \in {None, "WEB_BINDING_REQUIRED", "REPORT_REPAIR_LIMIT", "WEB_DELIVERY_DISCARDED",
                    "WEB_DELIVERY_ACK_RECOVERED", "EXECUTION_UNCERTAIN"}

\* With one adapter the other is never called
Single == shared => operation["claude"] = Idle

Inv == TypeOK /\ Named /\ Receipted /\ Locked /\ Covered /\ Single

\* The adapter of a role is one of the two
LEMMA Adapters == \A role : AdapterOf(role) \in Providers
  BY DEF AdapterOf, Providers

\* The updates of the deliveries, by what they leave of a record
LEMMA StatusKeeps ==
  ASSUME DeliveryOK, NEW d \in Deliveries, NEW s \in Statuses, SetStatus(d, s) PROVE Keeps
  <1>1. delivery' = [delivery EXCEPT ![d] = [delivery[d] EXCEPT !.status = s]]
    BY DEF SetStatus
  <1>2. delivery[d] \in Records
    BY DEF DeliveryOK
  <1>3. [delivery[d] EXCEPT !.status = s] \in Records
    BY <1>2 DEF Records
  <1>4. Typed
    BY <1>1, <1>3 DEF DeliveryOK, Typed
  <1>5. \A e \in Deliveries \ {d} : Same(e)
    BY <1>1 DEF DeliveryOK, Same
  <1>6. Same(d)
    BY <1>1, <1>2 DEF DeliveryOK, Same, Records
  <1> QED
    BY <1>4, <1>5, <1>6 DEF Keeps

\* So does a step that leaves them alone
LEMMA NothingKeeps == ASSUME DeliveryOK, UNCHANGED delivery PROVE Keeps
  BY DEF DeliveryOK, Keeps, Typed, Same

\* A new delivery has no receipt
LEMMA OpenOpens ==
  ASSUME DeliveryOK, NEW d \in Deliveries, NEW kind \in DeliveryKinds, NEW role \in Roles, NEW s \in Statuses,
         Open(d, kind, role, s)
  PROVE  Opens(d, kind, role)
  <1> DEFINE new == [kind |-> kind, role |-> role, status |-> s, receipt |-> None]
  <1>1. delivery' = [delivery EXCEPT ![d] = new]
    BY DEF Open
  <1>2. new \in Records
    BY DEF Records
  <1>3. delivery'[d] = new /\ Typed /\ \A e \in Deliveries \ {d} : delivery'[e] = delivery[e]
    BY <1>1, <1>2 DEF DeliveryOK, Typed
  <1> QED
    BY <1>3 DEF Opens, Same

\* A receipt changes nothing else of its delivery
LEMMA ReceiptMarks ==
  ASSUME DeliveryOK, NEW d \in Deliveries, NEW r \in Receipts, delivery' = [delivery EXCEPT ![d].receipt = r]
  PROVE  Marks(d, r)
  <1>1. delivery' = [delivery EXCEPT ![d] = [delivery[d] EXCEPT !.receipt = r]]
    OBVIOUS
  <1>2. delivery[d] \in Records
    BY DEF DeliveryOK
  <1>3. [delivery[d] EXCEPT !.receipt = r] \in Records
    BY <1>2 DEF Records
  <1>4. delivery'[d] = [delivery[d] EXCEPT !.receipt = r] /\ Typed /\ \A e \in Deliveries \ {d} : delivery'[e] = delivery[e]
    BY <1>1, <1>3 DEF DeliveryOK, Typed
  <1> QED
    BY <1>2, <1>4 DEF Marks, Same, Records

\* What the job's end and a failed delivery leave
LEMMA JobFailsOK == ASSUME RunOK, JobFails PROVE Going
  BY DeliveryAssumption DEF RunOK, JobFails, NoJob, Going

\* A delivery given up, or known not to be sent, keeps its receipt
LEMMA GivesUpKeeps ==
  ASSUME RunOK, DeliveryOK, NEW d \in Deliveries, GivesUp(d) \/ NotSent(d)
  PROVE  /\ Keeps
         /\ Going
  <1>1. CASE delivery[d].kind = "TALK"
    <2>1. (SetStatus(d, "UNCONFIRMED") \/ SetStatus(d, "FAILED")) /\ UNCHANGED << job, stage, reason >>
      BY <1>1 DEF GivesUp, NotSent
    <2>2. "UNCONFIRMED" \in Statuses /\ "FAILED" \in Statuses
      BY DEF Statuses
    <2> QED
      BY <2>1, <2>2, StatusKeeps DEF RunOK, Going
  <1>2. CASE delivery[d].kind # "TALK"
    <2>1. JobFails /\ UNCHANGED delivery
      BY <1>2 DEF GivesUp, NotSent
    <2> QED
      BY <2>1, JobFailsOK, NothingKeeps
  <1> QED
    BY <1>1, <1>2

\* A reported review goes on to the other role, or ends the job
LEMMA Ends == ASSUME RunOK, NEW role, Reported(role), UNCHANGED << waiting, reviewTurn >> PROVE RunOK'
  <1>1. recovery' = recovery \/ recovery' = [recovery EXCEPT !.status = "COMPLETED"]
    BY DEF Reported
  <1>2. recovery' \in [status : Recoveries \cup {None}, ids : SUBSET Deliveries]
    BY <1>1 DEF RunOK, Recoveries
  <1>3. /\ job' \in {[role |-> "CRITIC", repairs |-> 0], [role |-> None, repairs |-> 0]}
        /\ stage' \in {stage, "AWAITING_APPLY"} /\ reason' \in {reason, None}
    BY DEF Reported, JobEnds, NoJob
  <1>4. job' \in [role : Roles \cup {None}, repairs : 0 .. MaxRepairs]
    BY <1>3, DeliveryAssumption DEF Roles
  <1> QED
    BY <1>2, <1>3, <1>4 DEF RunOK

\* Bindings without an owner are bindings
LEMMA NoOwnerOK == NoOwner \in Owners
  BY DEF NoOwner, Owners

\* The types, step by step
LEMMA RunStep == Inv /\ [Next]_vars => RunOK'
  <1> SUFFICES ASSUME RunOK, DeliveryOK, AdapterOK, Named, Receipted, [Next]_vars PROVE RunOK'
    BY DEF Inv, TypeOK
  <1> USE DeliveryAssumption
  <1>1. ASSUME NEW d \in Deliveries, Review(d) PROVE RunOK'
    BY <1>1 DEF Review, Fresh, BetweenReviews, Open, Resumes, Begin, MayBegin, NothingPending, OmittedByRecovery,
       NoDelivery, NoJob, RoleOf, record, adapter, RunOK
  <1>2. ASSUME NEW d \in Deliveries, Submitted(d) PROVE RunOK'
    BY <1>2 DEF Submitted, End, Reserved, ReachesExtension, Idle, NoOwner, RoleOf, InSlot, Unsettled, record,
       adapter, RunOK
  <1>3. ASSUME NEW d \in Deliveries, SubmitFails(d) PROVE RunOK'
    BY <1>3 DEF SubmitFails, End, Reserved, ReachesExtension, Idle, NoOwner, NotSent, GivesUp, SetStatus,
       JobFails, NoJob, RoleOf, InSlot, Unsettled, record, adapter, RunOK
  <1>4. ASSUME NEW d \in Deliveries, ResumeFails(d) PROVE RunOK'
    <2>3. waiting' = waiting \/ waiting' \in {RoleOf(d), None}
      BY <1>4 DEF ResumeFails
    <2>4. RoleOf(d) \in Roles \cup {None}
      BY DEF DeliveryOK, Records, RoleOf
    <2>1. CASE GivesUp(d) \/ NotSent(d)
      <3>1. Going
        BY <2>1, GivesUpKeeps
      <3> QED
        BY <1>4, <2>3, <2>4, <3>1 DEF ResumeFails, Going, RunOK
    <2>2. CASE JobEnds("HOLD", "WEB_BINDING_REQUIRED")
      BY <1>4, <2>2, <2>3, <2>4 DEF ResumeFails, JobEnds, NoJob, RunOK
    <2> QED
      BY <1>4, <2>1, <2>2 DEF ResumeFails
  <1>5. ASSUME NEW d \in Deliveries, PageAnswers(d) PROVE RunOK'
    BY <1>5 DEF PageAnswers, record, adapter, RunOK
  <1>6. ASSUME NEW d \in Deliveries, Answered(d) PROVE RunOK'
    BY <1>6 DEF Answered, GivesUp, SetStatus, JobFails, NoJob, RoleOf, record, adapter, RunOK
  <1>7. ASSUME NEW d \in Deliveries, NoAnswer(d) PROVE RunOK'
    BY <1>7 DEF NoAnswer, GivesUp, SetStatus, JobFails, NoJob, RoleOf, record, adapter, RunOK
  <1>8. ASSUME NEW d \in Deliveries, Acknowledged(d) PROVE RunOK'
    BY <1>8 DEF Acknowledged, CanAcknowledge, AckedSlot, Settles, GivesUp, SetStatus, JobFails, NoJob, RoleOf,
       record, adapter, RunOK
  <1>9. ASSUME NEW d \in Deliveries, AckFails(d) PROVE RunOK'
    BY <1>9 DEF AckFails, CanAcknowledge, AckedSlot, GivesUp, SetStatus, JobFails, NoJob, RoleOf, record,
       adapter, RunOK
  <1>10. ASSUME NEW d \in Deliveries, Delivered(d) PROVE RunOK'
    BY <1>10 DEF Delivered, SetStatus, RoleOf, record, adapter, RunOK
  <1>11. ASSUME NEW d \in Deliveries, Reviewed(d) PROVE RunOK'
    <2>0. UNCHANGED << waiting, reviewTurn >>
      BY <1>11 DEF Reviewed
    <2>1. CASE JobFails /\ UNCHANGED recovery
      BY <2>0, <2>1, JobFailsOK DEF Going, RunOK
    <2>2. CASE Reported(RoleOf(d))
      <3>1. RunOK'
        BY <2>0, <2>2, Ends
      <3> QED
        BY <3>1
    <2>3. CASE JobEnds("HOLD", "REPORT_REPAIR_LIMIT") /\ UNCHANGED recovery
      BY <2>0, <2>3 DEF JobEnds, NoJob, RunOK
    <2>4. ASSUME ~RepairsExhausted, job' = [job EXCEPT !.repairs = job.repairs + 1], UNCHANGED << stage, reason, recovery >> PROVE RunOK'
      <3>1. job \in [role : Roles \cup {None}, repairs : 0 .. MaxRepairs]
        BY DEF RunOK
      <3>2. job.repairs + 1 \in 0 .. MaxRepairs
        BY <2>4, <3>1 DEF RepairsExhausted
      <3>3. job' \in [role : Roles \cup {None}, repairs : 0 .. MaxRepairs]
        <4>1. job' = [job EXCEPT !.repairs = job.repairs + 1]
          BY <2>4
        <4> QED
          BY <3>1, <3>2, <4>1
      <3> QED
        BY <2>0, <2>4, <3>3 DEF RunOK
    <2> QED
      <3>1. \/ JobFails /\ UNCHANGED << delivery, recovery >>
            \/ Reported(RoleOf(d))
            \/ JobEnds("HOLD", "REPORT_REPAIR_LIMIT") /\ UNCHANGED recovery
            \/ ~RepairsExhausted /\ job' = [job EXCEPT !.repairs = job.repairs + 1] /\ UNCHANGED << stage, reason >> /\ UNCHANGED recovery
        BY <1>11, Zenon DEF Reviewed
      <3> QED
        BY <2>1, <2>2, <2>3, <2>4, <3>1
  <1>12. ASSUME NEW d \in Deliveries, DiscardTalk(d) PROVE RunOK'
    BY <1>12 DEF DiscardTalk, Begin, MayDiscard, NothingPending, RoleOf, Quiet, record, adapter, RunOK
  <1>13. ASSUME NEW d \in Deliveries, InspectToDiscard(d) PROVE RunOK'
    BY <1>13 DEF InspectToDiscard, NoOperator, Matched, OtherActive, RoleOf, record, adapter, RunOK
  <1>14. ASSUME NEW d \in Deliveries, Acknowledge(d) PROVE RunOK'
    BY <1>14 DEF Acknowledge, NoOperator, Matched, OtherActive, MayBegin, NothingPending, Begin, RoleOf, record,
       adapter, RunOK
  <1>15. ASSUME NEW d \in Deliveries, DiscardOrphan(d) PROVE RunOK'
    BY <1>15 DEF DiscardOrphan, DiscardedSlot, RoleOf, record, adapter, RunOK
  <1>16. ASSUME NEW d \in Deliveries, NEW role \in Roles, Discuss(d, role) PROVE RunOK'
    BY <1>16 DEF Discuss, Fresh, MayBegin, NothingPending, Open, Resumes, Begin, NoDelivery, RoleOf, record,
       adapter, RunOK
  <1>17. ASSUME NEW p \in Providers, ExtensionBinds(p) PROVE RunOK'
    BY <1>17 DEF ExtensionBinds, RoleOf, record, adapter, RunOK
  <1>18. ASSUME NEW p \in Providers, AdapterGivesUp(p) PROVE RunOK'
    BY <1>18 DEF AdapterGivesUp, End, Idle, AckedSlot, CanAcknowledge, record, adapter, RunOK
  <1>19. ASSUME NEW p \in Providers, TalkDiscarded(p) PROVE RunOK'
    BY <1>19 DEF TalkDiscarded, End, Idle, CanDiscard, DiscardedSlot, Forget, SetStatus, RoleOf, record, adapter,
       RunOK
  <1>20. ASSUME NEW role \in Roles, Rebind(role) PROVE RunOK'
    BY <1>20 DEF Rebind, NoRebind, MayBegin, NothingPending, Begin, record, adapter, RunOK
  <1>21. CASE Restored
    <2>1. UNCHANGED << waiting, reviewTurn >> /\ Reported(job.role)
      BY <1>21 DEF Restored
    <2> QED
      BY <2>1, Ends
  <1>22. CASE StoppedJobEnds
    BY <1>22 DEF StoppedJobEnds, JobFails, NoJob, record, adapter, RunOK
  <1>23. CASE JobIsAborted
    BY <1>23 DEF JobIsAborted, JobFails, NoJob, NoOwner, record, adapter, RunOK
  <1>24. CASE Retry
    <2>1. UNCHANGED waiting /\ stage' = "REVIEW_RUNNING" /\ reason' = None /\ job' = [role |-> "JUDGE", repairs |-> 0]
          /\ (reviewTurn' = reviewTurn \/ reviewTurn' = None)
      BY <1>24 DEF Retry
    <2>2. recovery' = recovery \/ recovery' = [recovery EXCEPT !.status = IF CanResume THEN "RESUMING" ELSE "CLOSED"]
      BY <1>24, Zenon DEF Retry
    <2>3. recovery' \in [status : Recoveries \cup {None}, ids : SUBSET Deliveries]
      <3>1. CASE CanResume
        BY <2>2, <3>1 DEF RunOK, Recoveries
      <3>2. CASE ~CanResume
        BY <2>2, <3>2 DEF RunOK, Recoveries
      <3> QED
        BY <3>1, <3>2
    <2> QED
      BY <2>1, <2>3 DEF RunOK, Roles
  <1>25. CASE Rebound
    BY <1>25 DEF Rebound, End, Idle, NoRebind, NoOwner, record, adapter, RunOK
  <1>26. CASE Discard
    BY <1>26 DEF Discard, MayDiscard, NothingPending, Begin, NoOperator, RoleOf, record, adapter, RunOK
  <1>27. CASE Discarded
    BY <1>27 DEF Discarded, End, Idle, NoOperator, CanDiscard, MissingConfirmed, DiscardedSlot, Forget, RoleOf,
       record, adapter, RunOK
  <1>28. CASE DiscardFails
    BY <1>28 DEF DiscardFails, End, Idle, NoOperator, CanDiscard, MissingConfirmed, DiscardedSlot, RoleOf,
       record, adapter, RunOK
  <1>29. CASE AckResumed
    BY <1>29 DEF AckResumed, End, Idle, NoOperator, RoleOf, record, adapter, RunOK
  <1>30. CASE AckRecovered
    BY <1>30 DEF AckRecovered, NoOperator, CanAcknowledge, AckedSlot, Settles, Forget, RoleOf, record, adapter, RunOK
  <1>31. CASE AckNotRecovered
    BY <1>31 DEF AckNotRecovered, NoOperator, CanAcknowledge, AckedSlot, RoleOf, record, adapter, RunOK
  <1>32. CASE Crash
    <2>1. UNCHANGED << waiting, reason, reviewTurn >> /\ job' = NoJob /\ stage' \in {stage, "RECOVERY_REQUIRED"}
      BY <1>32 DEF Crash
    <2>2. UNCHANGED recovery \/ RecoverReviews
      BY <1>32 DEF Crash
    <2>3. recovery' \in [status : Recoveries \cup {None}, ids : SUBSET Deliveries]
      <3>1. ProcessedWith(reviewTurn) \subseteq Deliveries
        BY DEF ProcessedWith, Used
      <3> QED
        BY <2>2, <3>1 DEF RecoverReviews, RunOK, Recoveries
    <2> QED
      BY <2>1, <2>3 DEF RunOK, NoJob
  <1>33. CASE UNCHANGED vars
    BY <1>33 DEF vars, record, adapter, RunOK
  <1> QED
    BY <1>1, <1>2, <1>3, <1>4, <1>5, <1>6, <1>7, <1>8, <1>9, <1>10, <1>11, <1>12, <1>13, <1>14, <1>15, <1>16,
       <1>17, <1>18, <1>19, <1>20, <1>21, <1>22, <1>23, <1>24, <1>25, <1>26, <1>27, <1>28, <1>29, <1>30, <1>31,
       <1>32, <1>33 DEF Next

\* The types of what is kept of each delivery
LEMMA DeliveryStep == Inv /\ [Next]_vars => DeliveryOK'
  <1> SUFFICES ASSUME RunOK, DeliveryOK, AdapterOK, Named, Receipted, [Next]_vars PROVE DeliveryOK'
    BY DEF Inv, TypeOK
  <1>1. ASSUME NEW d \in Deliveries, Review(d) PROVE DeliveryOK'
    <2>1. Open(d, "REVIEW", job.role, "INTENT") /\ job.role \in Roles
      BY <1>1 DEF Review, RunOK
    <2>2. Typed
      BY <2>1, OpenOpens DEF Opens, DeliveryKinds, Statuses
    <2> QED
      BY <1>1, <2>2 DEF Review, Resumes, Typed, DeliveryOK, Waits
  <1>2. ASSUME NEW d \in Deliveries, Submitted(d) PROVE DeliveryOK'
    BY <1>2 DEF Submitted, End, Reserved, ReachesExtension, Idle, NoOwner, RoleOf, InSlot, Unsettled, record,
       adapter, DeliveryOK, Records, Owners, Statuses, Receipts, Waits, Slots, DeliveryKinds
  <1>3. ASSUME NEW d \in Deliveries, SubmitFails(d) PROVE DeliveryOK'
    <2>1. Keeps
      BY <1>3, GivesUpKeeps DEF SubmitFails
    <2>2. owner' \in Owners
      <3>1. snapshot[d] \in Owners
        BY DEF DeliveryOK
      <3>2. owner' = snapshot[d] \/ owner' = [snapshot[d] EXCEPT ![RoleOf(d)] = d]
        BY <1>3 DEF SubmitFails, Reserved
      <3> QED
        BY <3>1, <3>2 DEF Owners
    <2>3. snapshot' = [snapshot EXCEPT ![d] = NoOwner] /\ thread' = [thread EXCEPT ![d] = None]
          /\ (slot' = slot \/ slot' = [slot EXCEPT ![d] = "held"])
      BY <1>3 DEF SubmitFails, ReachesExtension
    <2> QED
      BY <2>1, <2>2, <2>3, NoOwnerOK DEF Keeps, Typed, DeliveryOK, Waits, Slots
  <1>4. ASSUME NEW d \in Deliveries, ResumeFails(d) PROVE DeliveryOK'
    <2>1. GivesUp(d) \/ NotSent(d) \/ UNCHANGED delivery
      BY <1>4 DEF ResumeFails
    <2>2. Keeps
      BY <2>1, GivesUpKeeps, NothingKeeps
    <2>3. snapshot' = [snapshot EXCEPT ![d] = NoOwner] /\ thread' = [thread EXCEPT ![d] = None]
          /\ UNCHANGED slot /\ (owner' = owner \/ owner' = snapshot[d])
      BY <1>4 DEF ResumeFails
    <2> QED
      BY <2>2, <2>3, NoOwnerOK DEF Keeps, Typed, DeliveryOK, Waits, Slots
  <1>5. ASSUME NEW d \in Deliveries, PageAnswers(d) PROVE DeliveryOK'
    BY <1>5 DEF PageAnswers, record, adapter, DeliveryOK, Records, Owners, Statuses, Receipts, Waits, Slots,
       DeliveryKinds
  <1>6. ASSUME NEW d \in Deliveries, Answered(d) PROVE DeliveryOK'
    <2>1. CASE GivesUp(d)
      BY <1>6, <2>1, GivesUpKeeps DEF Answered, Keeps, Typed, DeliveryOK, Owners, Waits, Slots
    <2>2. ASSUME delivery' = [delivery EXCEPT ![d].receipt = "ACK_PENDING"] PROVE DeliveryOK'
      <3>1. Typed
        BY <2>2, ReceiptMarks DEF Receipts, Marks
      <3> QED
        BY <1>6, <3>1 DEF Answered, Keeps, Typed, DeliveryOK, Owners, Waits, Slots
    <2> QED
      BY <1>6, <2>1, <2>2 DEF Answered
  <1>7. ASSUME NEW d \in Deliveries, NoAnswer(d) PROVE DeliveryOK'
    <2>1. Keeps
      BY <1>7, GivesUpKeeps DEF NoAnswer
    <2> QED
      BY <1>7, <2>1 DEF NoAnswer, Keeps, Typed, DeliveryOK, Owners, Waits, Slots
  <1>8. ASSUME NEW d \in Deliveries, Acknowledged(d) PROVE DeliveryOK'
    <2>1. CASE GivesUp(d) /\ UNCHANGED owner
      BY <1>8, <2>1, GivesUpKeeps DEF Acknowledged, AckedSlot, Keeps, Typed, DeliveryOK, Owners, Waits, Slots
    <2>2. ASSUME Settles(d) PROVE DeliveryOK'
      <3>1. Typed
        BY <2>2, ReceiptMarks DEF Receipts, Marks, Settles
      <3> QED
        BY <1>8, <2>2, <3>1 DEF Acknowledged, AckedSlot, Settles, RoleOf, Keeps, Typed, DeliveryOK, Owners,
           Waits, Slots
    <2> QED
      BY <1>8, <2>1, <2>2 DEF Acknowledged
  <1>9. ASSUME NEW d \in Deliveries, AckFails(d) PROVE DeliveryOK'
    <2>1. Keeps
      BY <1>9, GivesUpKeeps DEF AckFails
    <2> QED
      BY <1>9, <2>1 DEF AckFails, CanAcknowledge, AckedSlot, Keeps, Typed, DeliveryOK, Owners, Waits, Slots
  <1>10. ASSUME NEW d \in Deliveries, Delivered(d) PROVE DeliveryOK'
    <2>1. Keeps
      BY <1>10, StatusKeeps DEF Delivered, Statuses
    <2> QED
      BY <1>10, <2>1 DEF Delivered, Keeps, Typed, DeliveryOK, Owners, Waits, Slots
  <1>11. ASSUME NEW d \in Deliveries, Reviewed(d) PROVE DeliveryOK'
    <2>1. SetStatus(d, "PROCESSED") \/ SetStatus(d, "RECEIVED") \/ UNCHANGED delivery
      BY <1>11 DEF Reviewed
    <2>2. Keeps
      BY <2>1, StatusKeeps, NothingKeeps DEF Statuses
    <2> QED
      BY <1>11, <2>2 DEF Reviewed, Keeps, Typed, DeliveryOK, Owners, Waits, Slots
  <1>12. ASSUME NEW d \in Deliveries, DiscardTalk(d) PROVE DeliveryOK'
    BY <1>12 DEF DiscardTalk, Begin, MayDiscard, NothingPending, RoleOf, Quiet, record, adapter, DeliveryOK,
       Records, Owners, Statuses, Receipts, Waits, Slots, DeliveryKinds
  <1>13. ASSUME NEW d \in Deliveries, InspectToDiscard(d) PROVE DeliveryOK'
    BY <1>13 DEF InspectToDiscard, NoOperator, Matched, OtherActive, RoleOf, record, adapter, DeliveryOK,
       Records, Owners, Statuses, Receipts, Waits, Slots, DeliveryKinds
  <1>14. ASSUME NEW d \in Deliveries, Acknowledge(d) PROVE DeliveryOK'
    BY <1>14 DEF Acknowledge, NoOperator, Matched, OtherActive, MayBegin, NothingPending, Begin, RoleOf, record,
       adapter, DeliveryOK, Records, Owners, Statuses, Receipts, Waits, Slots, DeliveryKinds
  <1>15. ASSUME NEW d \in Deliveries, DiscardOrphan(d) PROVE DeliveryOK'
    BY <1>15 DEF DiscardOrphan, DiscardedSlot, RoleOf, record, adapter, DeliveryOK, Records, Owners, Statuses,
       Receipts, Waits, Slots, DeliveryKinds
  <1>16. ASSUME NEW d \in Deliveries, NEW role \in Roles, Discuss(d, role) PROVE DeliveryOK'
    <2>1. Open(d, "TALK", role, "PENDING") \/ Open(d, "TALK", role, "FAILED")
      BY <1>16 DEF Discuss
    <2>2. Typed
      BY <2>1, OpenOpens DEF Opens, DeliveryKinds, Statuses
    <2> QED
      BY <1>16, <2>2 DEF Discuss, Resumes, Typed, DeliveryOK, Waits
  <1>17. ASSUME NEW p \in Providers, ExtensionBinds(p) PROVE DeliveryOK'
    BY <1>17 DEF ExtensionBinds, RoleOf, record, adapter, DeliveryOK, Records, Owners, Statuses, Receipts, Waits,
       Slots, DeliveryKinds
  <1>18. ASSUME NEW p \in Providers, AdapterGivesUp(p) PROVE DeliveryOK'
    BY <1>18 DEF AdapterGivesUp, End, Idle, AckedSlot, CanAcknowledge, record, adapter, DeliveryOK, Records,
       Owners, Statuses, Receipts, Waits, Slots, DeliveryKinds
  <1>19. ASSUME NEW p \in Providers, TalkDiscarded(p) PROVE DeliveryOK'
    <2>0. operation[p].for \in Deliveries
      BY <1>19 DEF TalkDiscarded, Named, Used
    <2>1. SetStatus(operation[p].for, "DISCARDED") \/ UNCHANGED delivery
      BY <1>19 DEF TalkDiscarded
    <2>2. Keeps
      BY <2>0, <2>1, StatusKeeps, NothingKeeps DEF Statuses
    <2> QED
      BY <1>19, <2>0, <2>2 DEF TalkDiscarded, DiscardedSlot, Keeps, Typed, DeliveryOK, Owners, Waits, Slots
  <1>20. ASSUME NEW role \in Roles, Rebind(role) PROVE DeliveryOK'
    BY <1>20 DEF Rebind, NoRebind, MayBegin, NothingPending, Begin, record, adapter, DeliveryOK, Records, Owners,
       Statuses, Receipts, Waits, Slots, DeliveryKinds
  <1>21. CASE Restored
    BY <1>21 DEF Restored, Reported, JobEnds, NoJob, record, adapter, DeliveryOK, Records, Owners, Statuses,
       Receipts, Waits, Slots, DeliveryKinds
  <1>22. CASE StoppedJobEnds
    BY <1>22 DEF StoppedJobEnds, JobFails, NoJob, record, adapter, DeliveryOK, Records, Owners, Statuses,
       Receipts, Waits, Slots, DeliveryKinds
  <1>23. CASE JobIsAborted
    BY <1>23 DEF JobIsAborted, JobFails, NoJob, NoOwner, record, adapter, DeliveryOK, Records, Owners, Statuses,
       Receipts, Waits, Slots, DeliveryKinds
  <1>24. CASE Retry
    BY <1>24 DEF Retry, CanResume, record, adapter, DeliveryOK, Records, Owners, Statuses, Receipts, Waits,
       Slots, DeliveryKinds
  <1>25. CASE Rebound
    <2>1. owner' = owner \/ owner' = rebinding.owner
      BY <1>25 DEF Rebound
    <2> QED
      BY <1>25, <2>1 DEF Rebound, AdapterOK, DeliveryOK
  <1>26. CASE Discard
    BY <1>26 DEF Discard, MayDiscard, NothingPending, Begin, NoOperator, RoleOf, record, adapter, DeliveryOK,
       Records, Owners, Statuses, Receipts, Waits, Slots, DeliveryKinds
  <1>27. CASE Discarded
    <2>0. operator.for \in Deliveries
      BY <1>27, NoneAssumption DEF Discarded, Named, Used, Steps
    <2>1. UNCHANGED delivery \/ delivery' = [delivery EXCEPT ![operator.for].receipt = "DISCARDED"]
      BY <1>27 DEF Discarded
    <2>2. Typed
      BY <2>0, <2>1, ReceiptMarks, NothingKeeps DEF Receipts, Marks, Keeps
    <2> QED
      BY <1>27, <2>0, <2>2 DEF Discarded, DiscardedSlot, Keeps, Typed, DeliveryOK, Owners, Waits, Slots
  <1>28. CASE DiscardFails
    BY <1>28 DEF DiscardFails, End, Idle, NoOperator, CanDiscard, MissingConfirmed, DiscardedSlot, RoleOf,
       record, adapter, DeliveryOK, Records, Owners, Statuses, Receipts, Waits, Slots, DeliveryKinds
  <1>29. CASE AckResumed
    BY <1>29 DEF AckResumed, End, Idle, NoOperator, RoleOf, record, adapter, DeliveryOK, Records, Owners,
       Statuses, Receipts, Waits, Slots, DeliveryKinds
  <1>30. CASE AckRecovered
    <2>0. operator.for \in Deliveries
      BY <1>30, NoneAssumption DEF AckRecovered, Named, Used, Steps
    <2>1. CASE UNCHANGED << owner, delivery >>
      BY <1>30, <2>0, <2>1 DEF AckRecovered, AckedSlot, Keeps, Typed, DeliveryOK, Owners, Waits, Slots
    <2>2. ASSUME Settles(operator.for) PROVE DeliveryOK'
      <3>1. Typed
        BY <2>0, <2>2, ReceiptMarks DEF Receipts, Marks, Settles
      <3> QED
        BY <1>30, <2>0, <2>2, <3>1 DEF AckRecovered, AckedSlot, Settles, RoleOf, Keeps, Typed, DeliveryOK,
           Owners, Waits, Slots
    <2> QED
      BY <1>30, <2>1, <2>2 DEF AckRecovered
  <1>31. CASE AckNotRecovered
    BY <1>31 DEF AckNotRecovered, NoOperator, CanAcknowledge, AckedSlot, RoleOf, record, adapter, DeliveryOK,
       Records, Owners, Statuses, Receipts, Waits, Slots, DeliveryKinds
  <1>32. CASE Crash
    <2>1. reviewTurn # None => reviewTurn \in Deliveries
      BY DEF RunOK
    <2>2. UNCHANGED delivery \/ (reviewTurn \in Deliveries /\ (SetStatus(reviewTurn, "PROCESSED") \/ SetStatus(reviewTurn, "RECEIVED")))
      BY <1>32, <2>1 DEF Crash, RecoverReviews
    <2>3. Keeps
      BY <2>2, StatusKeeps, NothingKeeps DEF Statuses
    <2> QED
      BY <1>32, <2>3 DEF Crash, NoOwner, Keeps, Typed, DeliveryOK, Owners, Waits, Slots
  <1>33. CASE UNCHANGED vars
    BY <1>33 DEF vars, record, adapter, DeliveryOK, Records, Owners, Statuses, Receipts, Waits, Slots, DeliveryKinds
  <1> QED
    BY <1>1, <1>2, <1>3, <1>4, <1>5, <1>6, <1>7, <1>8, <1>9, <1>10, <1>11, <1>12, <1>13, <1>14, <1>15, <1>16,
       <1>17, <1>18, <1>19, <1>20, <1>21, <1>22, <1>23, <1>24, <1>25, <1>26, <1>27, <1>28, <1>29, <1>30, <1>31,
       <1>32, <1>33 DEF Next

\* The types of the adapters and the commands that use them
LEMMA AdapterStep == Inv /\ [Next]_vars => AdapterOK'
  <1> SUFFICES ASSUME RunOK, DeliveryOK, AdapterOK, Named, Receipted, [Next]_vars PROVE AdapterOK'
    BY DEF Inv, TypeOK
  <1> USE Adapters, DeliveryAssumption
  <1>1. ASSUME NEW d \in Deliveries, Review(d) PROVE AdapterOK'
    BY <1>1 DEF Review, Fresh, BetweenReviews, Open, Resumes, Begin, MayBegin, NothingPending, OmittedByRecovery,
       NoDelivery, NoJob, RoleOf, record, adapter, AdapterOK, Operations, Operators, Owners, Actions, Steps, Used
  <1>2. ASSUME NEW d \in Deliveries, Submitted(d) PROVE AdapterOK'
    BY <1>2 DEF Submitted, End, Reserved, ReachesExtension, Idle, NoOwner, RoleOf, InSlot, Unsettled, record,
       adapter, AdapterOK, Operations, Operators, Owners, Actions, Steps, Used
  <1>3. ASSUME NEW d \in Deliveries, SubmitFails(d) PROVE AdapterOK'
    BY <1>3 DEF SubmitFails, End, Reserved, ReachesExtension, Idle, NoOwner, NotSent, GivesUp, SetStatus,
       JobFails, NoJob, RoleOf, InSlot, Unsettled, record, adapter, AdapterOK, Operations, Operators, Owners,
       Actions, Steps, Used
  <1>4. ASSUME NEW d \in Deliveries, ResumeFails(d) PROVE AdapterOK'
    BY <1>4 DEF ResumeFails, End, Idle, NoOwner, NotSent, SetStatus, JobFails, JobEnds, NoJob, RoleOf, record,
       adapter, AdapterOK, Operations, Operators, Owners, Actions, Steps, Used
  <1>5. ASSUME NEW d \in Deliveries, PageAnswers(d) PROVE AdapterOK'
    BY <1>5 DEF PageAnswers, record, adapter, AdapterOK, Operations, Operators, Owners, Actions, Steps, Used
  <1>6. ASSUME NEW d \in Deliveries, Answered(d) PROVE AdapterOK'
    BY <1>6 DEF Answered, GivesUp, SetStatus, JobFails, NoJob, RoleOf, record, adapter, AdapterOK, Operations,
       Operators, Owners, Actions, Steps, Used
  <1>7. ASSUME NEW d \in Deliveries, NoAnswer(d) PROVE AdapterOK'
    BY <1>7 DEF NoAnswer, GivesUp, SetStatus, JobFails, NoJob, RoleOf, record, adapter, AdapterOK, Operations,
       Operators, Owners, Actions, Steps, Used
  <1>8. ASSUME NEW d \in Deliveries, Acknowledged(d) PROVE AdapterOK'
    BY <1>8 DEF Acknowledged, CanAcknowledge, AckedSlot, Settles, GivesUp, SetStatus, JobFails, NoJob, RoleOf,
       record, adapter, AdapterOK, Operations, Operators, Owners, Actions, Steps, Used
  <1>9. ASSUME NEW d \in Deliveries, AckFails(d) PROVE AdapterOK'
    BY <1>9 DEF AckFails, CanAcknowledge, AckedSlot, GivesUp, SetStatus, JobFails, NoJob, RoleOf, record,
       adapter, AdapterOK, Operations, Operators, Owners, Actions, Steps, Used
  <1>10. ASSUME NEW d \in Deliveries, Delivered(d) PROVE AdapterOK'
    BY <1>10 DEF Delivered, SetStatus, RoleOf, record, adapter, AdapterOK, Operations, Operators, Owners,
       Actions, Steps, Used
  <1>11. ASSUME NEW d \in Deliveries, Reviewed(d) PROVE AdapterOK'
    BY <1>11 DEF Reviewed, SetStatus, JobFails, JobEnds, NoJob, Reported, RepairsExhausted, RoleOf, record,
       adapter, AdapterOK, Operations, Operators, Owners, Actions, Steps, Used
  <1>12. ASSUME NEW d \in Deliveries, DiscardTalk(d) PROVE AdapterOK'
    BY <1>12 DEF DiscardTalk, Begin, MayDiscard, NothingPending, RoleOf, Quiet, record, adapter, AdapterOK,
       Operations, Operators, Owners, Actions, Steps, Used
  <1>13. ASSUME NEW d \in Deliveries, InspectToDiscard(d) PROVE AdapterOK'
    BY <1>13 DEF InspectToDiscard, NoOperator, Matched, OtherActive, RoleOf, record, adapter, AdapterOK,
       Operations, Operators, Owners, Actions, Steps, Used
  <1>14. ASSUME NEW d \in Deliveries, Acknowledge(d) PROVE AdapterOK'
    BY <1>14 DEF Acknowledge, NoOperator, Matched, OtherActive, MayBegin, NothingPending, Begin, RoleOf, record,
       adapter, AdapterOK, Operations, Operators, Owners, Actions, Steps, Used
  <1>15. ASSUME NEW d \in Deliveries, DiscardOrphan(d) PROVE AdapterOK'
    BY <1>15 DEF DiscardOrphan, DiscardedSlot, RoleOf, record, adapter, AdapterOK, Operations, Operators, Owners,
       Actions, Steps, Used
  <1>16. ASSUME NEW d \in Deliveries, NEW role \in Roles, Discuss(d, role) PROVE AdapterOK'
    BY <1>16 DEF Discuss, Fresh, MayBegin, NothingPending, Open, Resumes, Begin, NoDelivery, RoleOf, record,
       adapter, AdapterOK, Operations, Operators, Owners, Actions, Steps, Used
  <1>17. ASSUME NEW p \in Providers, ExtensionBinds(p) PROVE AdapterOK'
    <2>1. bound' \in Roles \cup {None}
      <3>1. CASE operation[p].kind = "RESUME" /\ bound' = RoleOf(operation[p].for)
        BY <3>1 DEF Named, Used, DeliveryOK, Records, RoleOf
      <3>2. CASE operation[p].kind = "REBIND" /\ bound' = operation[p].for
        BY <3>2 DEF Named
      <3> QED
        BY <1>17, <3>1, <3>2 DEF ExtensionBinds
    <2> QED
      BY <1>17, <2>1 DEF ExtensionBinds, record, adapter, AdapterOK
  <1>18. ASSUME NEW p \in Providers, AdapterGivesUp(p) PROVE AdapterOK'
    BY <1>18 DEF AdapterGivesUp, End, Idle, AckedSlot, CanAcknowledge, record, adapter, AdapterOK, Operations,
       Operators, Owners, Actions, Steps, Used
  <1>19. ASSUME NEW p \in Providers, TalkDiscarded(p) PROVE AdapterOK'
    BY <1>19 DEF TalkDiscarded, End, Idle, CanDiscard, DiscardedSlot, Forget, SetStatus, RoleOf, record, adapter,
       AdapterOK, Operations, Operators, Owners, Actions, Steps, Used
  <1>20. ASSUME NEW role \in Roles, Rebind(role) PROVE AdapterOK'
    <2>1. operation' = [operation EXCEPT ![AdapterOf(role)] = [kind |-> "REBIND", for |-> role]]
      BY <1>20 DEF Rebind, Begin
    <2>2. operation' \in [Providers -> Operations]
      BY <2>1 DEF AdapterOK, Operations
    <2>3. rebinding' \in [role : Roles \cup {None}, owner : Owners]
      BY <1>20 DEF Rebind, DeliveryOK
    <2> QED
      BY <1>20, <2>2, <2>3 DEF Rebind, record, AdapterOK
  <1>21. CASE Restored
    BY <1>21 DEF Restored, Reported, JobEnds, NoJob, record, adapter, AdapterOK, Operations, Operators, Owners,
       Actions, Steps, Used
  <1>22. CASE StoppedJobEnds
    BY <1>22 DEF StoppedJobEnds, JobFails, NoJob, record, adapter, AdapterOK, Operations, Operators, Owners,
       Actions, Steps, Used
  <1>23. CASE JobIsAborted
    BY <1>23 DEF JobIsAborted, JobFails, NoJob, NoOwner, record, adapter, AdapterOK, Operations, Operators,
       Owners, Actions, Steps, Used
  <1>24. CASE Retry
    BY <1>24 DEF Retry, CanResume, record, adapter, AdapterOK, Operations, Operators, Owners, Actions, Steps, Used
  <1>25. CASE Rebound
    BY <1>25 DEF Rebound, End, Idle, NoRebind, NoOwner, record, adapter, AdapterOK, Operations, Operators,
       Owners, Actions, Steps, Used
  <1>26. CASE Discard
    <2>0. operator.for \in Deliveries
      BY <1>26, NoneAssumption DEF Discard, Named, Used, Steps
    <2>1. operation' = operation \/ operation' = [operation EXCEPT !["chatgpt"] = [kind |-> "DISCARD", for |-> operator.for]]
      BY <1>26 DEF Discard, Begin
    <2>2. operation' \in [Providers -> Operations]
      BY <2>0, <2>1 DEF AdapterOK, Operations, Providers
    <2>3. operator' = NoOperator \/ operator' = [operator EXCEPT !.at = "discarding"]
      BY <1>26 DEF Discard
    <2>4. operator' \in Operators
      BY <2>3 DEF AdapterOK, Operators, Actions, Steps, NoOperator
    <2> QED
      BY <1>26, <2>2, <2>4 DEF Discard, AdapterOK
  <1>27. CASE Discarded
    BY <1>27 DEF Discarded, End, Idle, NoOperator, CanDiscard, MissingConfirmed, DiscardedSlot, Forget, RoleOf,
       record, adapter, AdapterOK, Operations, Operators, Owners, Actions, Steps, Used
  <1>28. CASE DiscardFails
    BY <1>28 DEF DiscardFails, End, Idle, NoOperator, CanDiscard, MissingConfirmed, DiscardedSlot, RoleOf,
       record, adapter, AdapterOK, Operations, Operators, Owners, Actions, Steps, Used
  <1>29. CASE AckResumed
    BY <1>29 DEF AckResumed, End, Idle, NoOperator, RoleOf, record, adapter, AdapterOK, Operations, Operators,
       Owners, Actions, Steps, Used
  <1>30. CASE AckRecovered
    BY <1>30 DEF AckRecovered, NoOperator, CanAcknowledge, AckedSlot, Settles, Forget, RoleOf, record, adapter,
       AdapterOK, Operations, Operators, Owners, Actions, Steps, Used
  <1>31. CASE AckNotRecovered
    BY <1>31 DEF AckNotRecovered, NoOperator, CanAcknowledge, AckedSlot, RoleOf, record, adapter, AdapterOK,
       Operations, Operators, Owners, Actions, Steps, Used
  <1>32. CASE Crash
    BY <1>32 DEF Crash, RecoverReviews, ProcessedWith, SetStatus, NoJob, NoOwner, NoRebind, NoOperator, Idle,
       record, adapter, AdapterOK, Operations, Operators, Owners, Actions, Steps, Used
  <1>33. CASE UNCHANGED vars
    BY <1>33 DEF vars, record, adapter, AdapterOK, Operations, Operators, Owners, Actions, Steps, Used
  <1> QED
    BY <1>1, <1>2, <1>3, <1>4, <1>5, <1>6, <1>7, <1>8, <1>9, <1>10, <1>11, <1>12, <1>13, <1>14, <1>15, <1>16,
       <1>17, <1>18, <1>19, <1>20, <1>21, <1>22, <1>23, <1>24, <1>25, <1>26, <1>27, <1>28, <1>29, <1>30, <1>31,
       <1>32, <1>33 DEF Next

\* Named, Receipted and Locked are kept by every step
LEMMA NamedStep == Inv /\ [Next]_vars => Named'
  <1> SUFFICES ASSUME RunOK, DeliveryOK, AdapterOK, Named, Receipted, [Next]_vars PROVE Named'
    BY DEF Inv, TypeOK
  <1> USE NoneAssumption
  <1>1. ASSUME NEW d \in Deliveries, Review(d) PROVE Named'
    <2>0. job.role \in Roles
      BY <1>1 DEF Review, RunOK
    <2>1. Opens(d, "REVIEW", job.role) /\ "REVIEW" \in DeliveryKinds
      BY <1>1, <2>0, OpenOpens DEF Review, DeliveryKinds, Statuses
    <2>2. delivery[d].kind = None /\ UNCHANGED << owner, slot, acking, operator, rebinding >>
      BY <1>1 DEF Review, Fresh, NoDelivery
    <2>3. \/ UNCHANGED << thread, snapshot, operation >>
          \/ /\ owner[job.role] = None /\ operation[AdapterOf(job.role)] = Idle
             /\ thread' = [thread EXCEPT ![d] = "resuming"] /\ snapshot' = [snapshot EXCEPT ![d] = owner]
             /\ operation' = [operation EXCEPT ![AdapterOf(job.role)] = Resume(d)]
      BY <1>1, Zenon DEF Review, Resumes, Begin, MayBegin, NothingPending, Resume
    <2>4. \/ UNCHANGED << thread, snapshot, operation >>
          \/ /\ owner[job.role] = None /\ operation[AdapterOf(job.role)] = Idle
             /\ Puts(thread, thread', Deliveries, d, "resuming") /\ Puts(snapshot, snapshot', Deliveries, d, owner)
             /\ Puts(operation, operation', Providers, AdapterOf(job.role), Resume(d))
      BY <2>3, Adapters DEF Puts, DeliveryOK, AdapterOK
    <2>5. Begins(d, job.role)
      BY <2>1, <2>2, <2>4 DEF Begins
    <2>6. d \in Used' /\ \A e \in Used : e \in Used'
      BY <2>1 DEF Opens, Same, Used, DeliveryKinds
    <2>7. \A q \in Providers : operation'[q] = operation[q] \/ operation'[q] = Resume(d)
      BY <2>4 DEF Puts
    <2> QED
      BY <2>0, <2>1, <2>2, <2>4, <2>6, <2>7 DEF Named, Opens, Same, Puts, Resume, Used, DeliveryKinds
  <1>2. ASSUME NEW d \in Deliveries, Submitted(d) PROVE Named'
    BY <1>2 DEF Submitted, End, Reserved, ReachesExtension, Idle, NoOwner, RoleOf, InSlot, Unsettled, record,
       adapter, Named, Used, DeliveryKinds, Slots, Waits, Steps, DeliveryOK, AdapterOK, Operators, Providers
  <1>3. ASSUME NEW d \in Deliveries, SubmitFails(d) PROVE Named'
    <2>1. Keeps
      BY <1>3, GivesUpKeeps DEF SubmitFails
    <2> QED
      BY <1>3, <2>1 DEF SubmitFails, End, Reserved, ReachesExtension, Idle, NoOwner, RoleOf, InSlot, Unsettled,
         record, adapter, Keeps, Typed, Same, Opens, Marks, Named, Used, DeliveryKinds, Slots, Waits, Steps,
         DeliveryOK, AdapterOK, Operators, Providers
  <1>4. ASSUME NEW d \in Deliveries, ResumeFails(d) PROVE Named'
    <2>0. GivesUp(d) \/ NotSent(d) \/ UNCHANGED delivery
      BY <1>4 DEF ResumeFails
    <2>1. Keeps
      BY <2>0, GivesUpKeeps, NothingKeeps
    <2>2. UNCHANGED << slot, operator, rebinding >> /\ operation' = [operation EXCEPT ![AdapterOf(RoleOf(d))] = Idle]
      BY <1>4 DEF ResumeFails, End
    <2>3. \A e \in Deliveries : thread'[e] = thread[e] \/ thread'[e] = None
      BY <1>4 DEF ResumeFails, DeliveryOK
    <2>4. \A q \in Providers : operation'[q] = operation[q] \/ operation'[q] = Idle
      BY <2>2, Adapters DEF AdapterOK
    <2> QED
      BY <2>1, <2>2, <2>3, <2>4 DEF Named, Used, Keeps, Same, Idle
  <1>5. ASSUME NEW d \in Deliveries, PageAnswers(d) PROVE Named'
    BY <1>5 DEF PageAnswers, record, adapter, Named, Used, DeliveryKinds, Slots, Waits, Steps, DeliveryOK,
       AdapterOK, Operators, Providers
  <1>6. ASSUME NEW d \in Deliveries, Answered(d) PROVE Named'
    <2>1. Keeps \/ Marks(d, "ACK_PENDING")
      BY <1>6, GivesUpKeeps, ReceiptMarks DEF Answered, Receipts
    <2>2. delivery[d].kind # None
      BY <1>6 DEF Answered, Named, Waits
    <2>3. UNCHANGED << operation, operator, rebinding, slot >> /\ \A e \in Deliveries \ {d} : thread'[e] = thread[e]
      BY <1>6 DEF Answered, DeliveryOK
    <2> QED
      BY <2>1, <2>2, <2>3 DEF Named, Used, Keeps, Marks, Same
  <1>7. ASSUME NEW d \in Deliveries, NoAnswer(d) PROVE Named'
    <2>1. Keeps
      BY <1>7, GivesUpKeeps DEF NoAnswer
    <2> QED
      BY <1>7, <2>1 DEF NoAnswer, RoleOf, record, adapter, Keeps, Typed, Same, Opens, Marks, Named, Used,
         DeliveryKinds, Slots, Waits, Steps, DeliveryOK, AdapterOK, Operators, Providers
  <1>8. ASSUME NEW d \in Deliveries, Acknowledged(d) PROVE Named'
    <2>1. Keeps \/ Marks(d, "ACKNOWLEDGED")
      BY <1>8, GivesUpKeeps, ReceiptMarks DEF Acknowledged, Settles, Receipts
    <2>2. delivery[d].kind # None
      BY <1>8 DEF Acknowledged, Named, Waits
    <2>3. UNCHANGED << operation, operator, rebinding >> /\ \A e \in Deliveries \ {d} : thread'[e] = thread[e] /\ slot'[e] = slot[e]
      BY <1>8 DEF Acknowledged, AckedSlot, DeliveryOK
    <2> QED
      BY <2>1, <2>2, <2>3 DEF Named, Used, Keeps, Marks, Same
  <1>9. ASSUME NEW d \in Deliveries, AckFails(d) PROVE Named'
    <2>1. Keeps
      BY <1>9, GivesUpKeeps DEF AckFails
    <2> QED
      BY <1>9, <2>1 DEF AckFails, CanAcknowledge, AckedSlot, RoleOf, record, adapter, Keeps, Typed, Same, Opens,
         Marks, Named, Used, DeliveryKinds, Slots, Waits, Steps, DeliveryOK, AdapterOK, Operators, Providers
  <1>10. ASSUME NEW d \in Deliveries, Delivered(d) PROVE Named'
    <2>1. Keeps
      BY <1>10, StatusKeeps DEF Delivered, Statuses
    <2> QED
      BY <1>10, <2>1 DEF Delivered, RoleOf, record, adapter, Keeps, Typed, Same, Opens, Marks, Named, Used,
         DeliveryKinds, Slots, Waits, Steps, DeliveryOK, AdapterOK, Operators, Providers
  <1>11. ASSUME NEW d \in Deliveries, Reviewed(d) PROVE Named'
    <2>0. SetStatus(d, "PROCESSED") \/ SetStatus(d, "RECEIVED") \/ UNCHANGED delivery
      BY <1>11 DEF Reviewed
    <2>1. Keeps
      BY <2>0, StatusKeeps, NothingKeeps DEF Statuses
    <2> QED
      BY <1>11, <2>0, <2>1 DEF Reviewed, RoleOf, record, adapter, Keeps, Typed, Same, Opens, Marks, Named, Used,
         DeliveryKinds, Slots, Waits, Steps, DeliveryOK, AdapterOK, Operators, Providers
  <1>12. ASSUME NEW d \in Deliveries, DiscardTalk(d) PROVE Named'
    BY <1>12 DEF DiscardTalk, Begin, MayDiscard, NothingPending, RoleOf, Quiet, record, adapter, Named, Used,
       DeliveryKinds, Slots, Waits, Steps, DeliveryOK, AdapterOK, Operators, Providers
  <1>13. ASSUME NEW d \in Deliveries, InspectToDiscard(d) PROVE Named'
    BY <1>13 DEF InspectToDiscard, NoOperator, Matched, OtherActive, RoleOf, record, adapter, Named, Used,
       DeliveryKinds, Slots, Waits, Steps, DeliveryOK, AdapterOK, Operators, Providers
  <1>14. ASSUME NEW d \in Deliveries, Acknowledge(d) PROVE Named'
    BY <1>14 DEF Acknowledge, NoOperator, Matched, OtherActive, MayBegin, NothingPending, Begin, RoleOf, record,
       adapter, Named, Used, DeliveryKinds, Slots, Waits, Steps, DeliveryOK, AdapterOK, Operators, Providers
  <1>15. ASSUME NEW d \in Deliveries, DiscardOrphan(d) PROVE Named'
    BY <1>15 DEF DiscardOrphan, DiscardedSlot, RoleOf, record, adapter, Named, Used, DeliveryKinds, Slots, Waits,
       Steps, DeliveryOK, AdapterOK, Operators, Providers
  <1>16. ASSUME NEW d \in Deliveries, NEW role \in Roles, Discuss(d, role) PROVE Named'
    <2>0. role \in Roles
      OBVIOUS
    <2>1. Opens(d, "TALK", role) /\ "TALK" \in DeliveryKinds
      BY <1>16, <2>0, OpenOpens DEF Discuss, DeliveryKinds, Statuses
    <2>2. delivery[d].kind = None /\ UNCHANGED << owner, slot, acking, operator, rebinding >>
      BY <1>16 DEF Discuss, Fresh, NoDelivery
    <2>3. \/ UNCHANGED << thread, snapshot, operation >>
          \/ /\ owner[role] = None /\ operation[AdapterOf(role)] = Idle
             /\ thread' = [thread EXCEPT ![d] = "resuming"] /\ snapshot' = [snapshot EXCEPT ![d] = owner]
             /\ operation' = [operation EXCEPT ![AdapterOf(role)] = Resume(d)]
      BY <1>16, Zenon DEF Discuss, Resumes, Begin, MayBegin, NothingPending, Resume
    <2>4. \/ UNCHANGED << thread, snapshot, operation >>
          \/ /\ owner[role] = None /\ operation[AdapterOf(role)] = Idle
             /\ Puts(thread, thread', Deliveries, d, "resuming") /\ Puts(snapshot, snapshot', Deliveries, d, owner)
             /\ Puts(operation, operation', Providers, AdapterOf(role), Resume(d))
      BY <2>3, Adapters DEF Puts, DeliveryOK, AdapterOK
    <2>5. Begins(d, role)
      BY <2>1, <2>2, <2>4 DEF Begins
    <2>6. d \in Used' /\ \A e \in Used : e \in Used'
      BY <2>1 DEF Opens, Same, Used, DeliveryKinds
    <2>7. \A q \in Providers : operation'[q] = operation[q] \/ operation'[q] = Resume(d)
      BY <2>4 DEF Puts
    <2> QED
      BY <2>0, <2>1, <2>2, <2>4, <2>6, <2>7 DEF Named, Opens, Same, Puts, Resume, Used, DeliveryKinds
  <1>17. ASSUME NEW p \in Providers, ExtensionBinds(p) PROVE Named'
    BY <1>17 DEF ExtensionBinds, RoleOf, record, adapter, Named, Used, DeliveryKinds, Slots, Waits, Steps,
       DeliveryOK, AdapterOK, Operators, Providers
  <1>18. ASSUME NEW p \in Providers, AdapterGivesUp(p) PROVE Named'
    BY <1>18 DEF AdapterGivesUp, End, Idle, AckedSlot, CanAcknowledge, record, adapter, Named, Used,
       DeliveryKinds, Slots, Waits, Steps, DeliveryOK, AdapterOK, Operators, Providers
  <1>19. ASSUME NEW p \in Providers, TalkDiscarded(p) PROVE Named'
    <2>0. operation[p].for \in Deliveries /\ delivery[operation[p].for].kind # None
      BY <1>19 DEF TalkDiscarded, Named, Used
    <2>1. Keeps
      BY <1>19, <2>0, StatusKeeps, NothingKeeps DEF TalkDiscarded, Statuses
    <2>2. UNCHANGED << thread, operator, rebinding >> /\ operation' = [operation EXCEPT ![p] = Idle]
      BY <1>19 DEF TalkDiscarded, End
    <2>3. \A e \in Deliveries \ {operation[p].for} : slot'[e] = slot[e]
      BY <1>19 DEF TalkDiscarded, DiscardedSlot, DeliveryOK
    <2>4. \A q \in Providers : operation'[q] = operation[q] \/ operation'[q] = Idle
      BY <2>2 DEF AdapterOK
    <2> QED
      BY <2>0, <2>1, <2>2, <2>3, <2>4 DEF Named, Used, Keeps, Same, Idle
  <1>20. ASSUME NEW role \in Roles, Rebind(role) PROVE Named'
    BY <1>20 DEF Rebind, NoRebind, MayBegin, NothingPending, Begin, record, adapter, Named, Used, DeliveryKinds,
       Slots, Waits, Steps, DeliveryOK, AdapterOK, Operators, Providers
  <1>21. CASE Restored
    BY <1>21 DEF Restored, Reported, JobEnds, NoJob, record, adapter, Named, Used, DeliveryKinds, Slots, Waits,
       Steps, DeliveryOK, AdapterOK, Operators, Providers
  <1>22. CASE StoppedJobEnds
    BY <1>22 DEF StoppedJobEnds, JobFails, NoJob, record, adapter, Named, Used, DeliveryKinds, Slots, Waits,
       Steps, DeliveryOK, AdapterOK, Operators, Providers
  <1>23. CASE JobIsAborted
    BY <1>23 DEF JobIsAborted, JobFails, NoJob, NoOwner, record, adapter, Named, Used, DeliveryKinds, Slots,
       Waits, Steps, DeliveryOK, AdapterOK, Operators, Providers
  <1>24. CASE Retry
    BY <1>24 DEF Retry, CanResume, record, adapter, Named, Used, DeliveryKinds, Slots, Waits, Steps, DeliveryOK,
       AdapterOK, Operators, Providers
  <1>25. CASE Rebound
    <2>0. rebinding.role \in Roles
      BY <1>25 DEF Rebound, Named
    <2> QED
      BY <1>25, <2>0 DEF Rebound, End, Idle, NoRebind, NoOwner, record, adapter, Keeps, Typed, Same, Opens,
         Marks, Named, Used, DeliveryKinds, Slots, Waits, Steps, DeliveryOK, AdapterOK, Operators, Providers
  <1>26. CASE Discard
    <2>0. operator.for \in Deliveries /\ delivery[operator.for].kind # None
      BY <1>26, NoneAssumption DEF Discard, Named, Used, Steps
    <2> QED
      BY <1>26, <2>0 DEF Discard, MayDiscard, NothingPending, Begin, NoOperator, RoleOf, record, adapter, Keeps,
         Typed, Same, Opens, Marks, Named, Used, DeliveryKinds, Slots, Waits, Steps, DeliveryOK, AdapterOK,
         Operators, Providers
  <1>27. CASE Discarded
    <2>0. operator.for \in Deliveries /\ delivery[operator.for].kind # None
      BY <1>27, NoneAssumption DEF Discarded, Named, Used, Steps
    <2>1. Keeps
      <3>1. delivery[operator.for].receipt = None
        BY <1>27, <2>0, NoneAssumption DEF Discarded, CanDiscard, MissingConfirmed, Receipted, Slots
      <3> QED
        BY <1>27, <3>1, NothingKeeps DEF Discarded
    <2> QED
      BY <1>27, <2>0, <2>1 DEF Discarded, End, Idle, NoOperator, CanDiscard, MissingConfirmed, DiscardedSlot,
         Forget, RoleOf, record, adapter, Keeps, Typed, Same, Opens, Marks, Named, Used, DeliveryKinds, Slots,
         Waits, Steps, DeliveryOK, AdapterOK, Operators, Providers
  <1>28. CASE DiscardFails
    <2>0. operator.for \in Deliveries /\ delivery[operator.for].kind # None
      BY <1>28, NoneAssumption DEF DiscardFails, Named, Used, Steps
    <2> QED
      BY <1>28, <2>0 DEF DiscardFails, End, Idle, NoOperator, CanDiscard, MissingConfirmed, DiscardedSlot,
         RoleOf, record, adapter, Keeps, Typed, Same, Opens, Marks, Named, Used, DeliveryKinds, Slots, Waits, Steps,
         DeliveryOK, AdapterOK, Operators, Providers
  <1>29. CASE AckResumed
    <2>0. operator.for \in Deliveries /\ delivery[operator.for].kind # None
      BY <1>29, NoneAssumption DEF AckResumed, Named, Used, Steps
    <2> QED
      BY <1>29, <2>0 DEF AckResumed, End, Idle, NoOperator, RoleOf, record, adapter, Keeps, Typed, Same, Opens,
         Marks, Named, Used, DeliveryKinds, Slots, Waits, Steps, DeliveryOK, AdapterOK, Operators, Providers
  <1>30. CASE AckRecovered
    <2>0. operator.for \in Deliveries /\ delivery[operator.for].kind # None
      BY <1>30, NoneAssumption DEF AckRecovered, Named, Used, Steps
    <2>1. Keeps \/ Marks(operator.for, "ACKNOWLEDGED")
      BY <1>30, <2>0, NothingKeeps, ReceiptMarks DEF AckRecovered, Settles, Receipts
    <2>2. UNCHANGED << thread, operation, rebinding >> /\ operator' = NoOperator
      BY <1>30 DEF AckRecovered
    <2>3. \A e \in Deliveries \ {operator.for} : slot'[e] = slot[e]
      BY <1>30 DEF AckRecovered, AckedSlot, DeliveryOK
    <2> QED
      BY <2>0, <2>1, <2>2, <2>3 DEF NoOperator, Named, Used, Keeps, Marks, Same
  <1>31. CASE AckNotRecovered
    <2>0. operator.for \in Deliveries /\ delivery[operator.for].kind # None
      BY <1>31, NoneAssumption DEF AckNotRecovered, Named, Used, Steps
    <2> QED
      BY <1>31, <2>0 DEF AckNotRecovered, NoOperator, CanAcknowledge, AckedSlot, RoleOf, record, adapter, Keeps,
         Typed, Same, Opens, Marks, Named, Used, DeliveryKinds, Slots, Waits, Steps, DeliveryOK, AdapterOK,
         Operators, Providers
  <1>32. CASE Crash
    <2>0. UNCHANGED delivery \/ (reviewTurn \in Deliveries /\ (SetStatus(reviewTurn, "PROCESSED") \/ SetStatus(reviewTurn, "RECEIVED")))
      BY <1>32 DEF Crash, RecoverReviews, RunOK
    <2>1. Keeps
      BY <2>0, StatusKeeps, NothingKeeps DEF Statuses
    <2> QED
      BY <1>32, <2>0, <2>1 DEF Crash, NoOwner, NoRebind, NoOperator, Idle, record, adapter, Keeps, Typed, Same,
         Opens, Marks, Named, Used, DeliveryKinds, Slots, Waits, Steps, DeliveryOK, AdapterOK, Operators, Providers
  <1>33. CASE UNCHANGED vars
    BY <1>33 DEF vars, record, adapter, Named, Used, DeliveryKinds, Slots, Waits, Steps, DeliveryOK, AdapterOK,
       Operators, Providers
  <1> QED
    BY <1>1, <1>2, <1>3, <1>4, <1>5, <1>6, <1>7, <1>8, <1>9, <1>10, <1>11, <1>12, <1>13, <1>14, <1>15, <1>16,
       <1>17, <1>18, <1>19, <1>20, <1>21, <1>22, <1>23, <1>24, <1>25, <1>26, <1>27, <1>28, <1>29, <1>30, <1>31,
       <1>32, <1>33 DEF Next

\* Who waits for an acknowledgement waits for a delivery
LEMMA Whose == ASSUME AdapterOK, Named PROVE
    /\ \A p \in Providers : acking[p] # None => acking[p] \in Deliveries
    /\ operator.at \in Steps => operator.for \in Deliveries
  BY NoneAssumption DEF AdapterOK, Named, Used

\* Nothing waits for a delivery that was not begun
LEMMA Unstarted == ASSUME Named, NEW d \in Deliveries, delivery[d].kind = None PROVE delivery[d].receipt = None /\ thread[d] = None /\ slot[d] = None
  BY DEF Named

\* A receipt is stored before anything may acknowledge
LEMMA ReceiptedStep == Inv /\ [Next]_vars => Receipted'
  <1> SUFFICES ASSUME RunOK, DeliveryOK, AdapterOK, Named, Receipted, [Next]_vars PROVE Receipted'
    BY DEF Inv, TypeOK
  <1> USE NoneAssumption
  <1>1. ASSUME NEW d \in Deliveries, Review(d) PROVE Receipted'
    <2>0. job.role \in Roles
      BY <1>1 DEF Review, RunOK
    <2>1. Opens(d, "REVIEW", job.role)
      BY <1>1, <2>0, OpenOpens DEF Review, DeliveryKinds, Statuses
    <2>5. UNCHANGED << slot, acking, operator >>
      BY <1>1, <2>0, Adapters DEF Review, DeliveryOK, AdapterOK, Puts, Providers, record, adapter, Fresh,
         BetweenReviews, Open, Resumes, Begin, MayBegin, NothingPending, OmittedByRecovery, NoDelivery, NoJob,
         RoleOf
    <2>6. Puts(thread, thread', Deliveries, d, "resuming") \/ UNCHANGED thread
      BY <1>1, <2>0, Adapters DEF Review, DeliveryOK, AdapterOK, Puts, Providers, record, adapter, Fresh,
         BetweenReviews, Open, Resumes, Begin, MayBegin, NothingPending, OmittedByRecovery, NoDelivery, NoJob,
         RoleOf
    <2>7. delivery[d].kind = None
      BY <1>1, <2>0, Adapters DEF Review, DeliveryOK, AdapterOK, Puts, Providers, record, adapter, Fresh,
         BetweenReviews, Open, Resumes, Begin, MayBegin, NothingPending, OmittedByRecovery, NoDelivery, NoJob,
         RoleOf
    <2> QED
      BY <2>0, <2>1, <2>5, <2>6, <2>7, Unstarted, Whose DEF Receipted, Stored, Puts, Slots, Steps, Receipts,
         Keeps, Typed, Same, Opens, Marks
  <1>2. ASSUME NEW d \in Deliveries, Submitted(d) PROVE Receipted'
    BY <1>2 DEF Submitted, End, Reserved, ReachesExtension, Idle, NoOwner, RoleOf, InSlot, Unsettled, record,
       adapter, Receipted, Stored, Slots, Waits, Steps, Receipts, DeliveryOK, AdapterOK, Operators, Providers
  <1>3. ASSUME NEW d \in Deliveries, SubmitFails(d) PROVE Receipted'
    <2>1. Keeps
      BY <1>3, GivesUpKeeps DEF SubmitFails
    <2>5. UNCHANGED << acking, operator >>
      BY <1>3, Adapters DEF SubmitFails, DeliveryOK, AdapterOK, Puts, Providers, record, adapter, End, Reserved,
         ReachesExtension, Idle, NoOwner, NotSent, GivesUp, SetStatus, JobFails, NoJob, RoleOf, InSlot, Unsettled
    <2>6. Puts(thread, thread', Deliveries, d, None)
      BY <1>3, Adapters DEF SubmitFails, DeliveryOK, AdapterOK, Puts, Providers, record, adapter, End, Reserved,
         ReachesExtension, Idle, NoOwner, NotSent, GivesUp, SetStatus, JobFails, NoJob, RoleOf, InSlot, Unsettled
    <2>7. thread[d] = "resuming" /\ (UNCHANGED slot \/ Puts(slot, slot', Deliveries, d, "held"))
      BY <1>3, Adapters DEF SubmitFails, DeliveryOK, AdapterOK, Puts, Providers, record, adapter, End, Reserved,
         ReachesExtension, Idle, NoOwner, NotSent, GivesUp, SetStatus, JobFails, NoJob, RoleOf, InSlot, Unsettled
    <2> QED
      BY <2>1, <2>5, <2>6, <2>7, Whose DEF Receipted, Stored, Puts, Slots, Steps, Receipts, Keeps, Typed, Same,
         Opens, Marks
  <1>4. ASSUME NEW d \in Deliveries, ResumeFails(d) PROVE Receipted'
    <2>0. GivesUp(d) \/ NotSent(d) \/ UNCHANGED delivery
      BY <1>4 DEF ResumeFails
    <2>1. Keeps
      BY <2>0, GivesUpKeeps, NothingKeeps
    <2>5. UNCHANGED << slot, acking, operator >>
      BY <1>4, <2>0, Adapters DEF ResumeFails, DeliveryOK, AdapterOK, Puts, Providers, record, adapter, End,
         Idle, NoOwner, NotSent, SetStatus, JobFails, JobEnds, NoJob, RoleOf
    <2>6. Puts(thread, thread', Deliveries, d, None)
      BY <1>4, <2>0, Adapters DEF ResumeFails, DeliveryOK, AdapterOK, Puts, Providers, record, adapter, End,
         Idle, NoOwner, NotSent, SetStatus, JobFails, JobEnds, NoJob, RoleOf
    <2> QED
      BY <2>0, <2>1, <2>5, <2>6, Whose DEF Receipted, Stored, Puts, Slots, Steps, Receipts, Keeps, Typed, Same,
         Opens, Marks
  <1>5. ASSUME NEW d \in Deliveries, PageAnswers(d) PROVE Receipted'
    BY <1>5 DEF PageAnswers, record, adapter, Receipted, Stored, Slots, Waits, Steps, Receipts, DeliveryOK,
       AdapterOK, Operators, Providers
  <1>6. ASSUME NEW d \in Deliveries, Answered(d) PROVE Receipted'
    <2>0. AdapterOf(RoleOf(d)) \in Providers
      BY Adapters
    <2>1. slot[d] = "answered" /\ UNCHANGED << slot, operator >>
      BY <1>6 DEF Answered
    <2>2. CASE owner[RoleOf(d)] = d
      <3>1. Marks(d, "ACK_PENDING")
        BY <1>6, <2>2, ReceiptMarks DEF Answered, Receipts
      <3>2. Puts(thread, thread', Deliveries, d, "acknowledging") /\ Puts(acking, acking', Providers, AdapterOf(RoleOf(d)), d)
        BY <1>6, <2>0, <2>2 DEF Answered, Puts, DeliveryOK, AdapterOK
      <3> QED
        BY <2>1, <3>1, <3>2, Whose DEF Receipted, Stored, Puts, Slots, Steps, Receipts, Keeps, Typed, Same,
           Opens, Marks
    <2>3. CASE owner[RoleOf(d)] # d
      <3>1. Keeps
        BY <1>6, <2>3, GivesUpKeeps DEF Answered
      <3>2. Puts(thread, thread', Deliveries, d, None) /\ UNCHANGED acking
        BY <1>6, <2>3 DEF Answered, Puts, DeliveryOK
      <3> QED
        BY <2>1, <3>1, <3>2, Whose DEF Receipted, Stored, Puts, Slots, Steps, Receipts, Keeps, Typed, Same,
           Opens, Marks
    <2> QED
      BY <2>2, <2>3
  <1>7. ASSUME NEW d \in Deliveries, NoAnswer(d) PROVE Receipted'
    <2>1. Keeps
      BY <1>7, GivesUpKeeps DEF NoAnswer
    <2>5. UNCHANGED << slot, acking, operator >>
      BY <1>7, Adapters DEF NoAnswer, DeliveryOK, AdapterOK, Puts, Providers, record, adapter, GivesUp,
         SetStatus, JobFails, NoJob, RoleOf
    <2>6. Puts(thread, thread', Deliveries, d, None)
      BY <1>7, Adapters DEF NoAnswer, DeliveryOK, AdapterOK, Puts, Providers, record, adapter, GivesUp,
         SetStatus, JobFails, NoJob, RoleOf
    <2> QED
      BY <2>1, <2>5, <2>6, Whose DEF Receipted, Stored, Puts, Slots, Steps, Receipts, Keeps, Typed, Same, Opens, Marks
  <1>8. ASSUME NEW d \in Deliveries, Acknowledged(d) PROVE Receipted'
    <2>0. AdapterOf(RoleOf(d)) \in Providers
      BY Adapters
    <2>1. thread[d] = "acknowledging" /\ UNCHANGED operator
      BY <1>8 DEF Acknowledged
    <2>2. Puts(slot, slot', Deliveries, d, "acknowledged") /\ Puts(acking, acking', Providers, AdapterOf(RoleOf(d)), None)
      BY <1>8, <2>0 DEF Acknowledged, AckedSlot, Puts, DeliveryOK, AdapterOK
    <2>3. Keeps \/ Marks(d, "ACKNOWLEDGED")
      BY <1>8, GivesUpKeeps, ReceiptMarks DEF Acknowledged, Settles, Receipts
    <2>4. Puts(thread, thread', Deliveries, d, None) \/ Puts(thread, thread', Deliveries, d, "settled")
      BY <1>8 DEF Acknowledged, Puts, DeliveryOK
    <2> QED
      BY <2>0, <2>1, <2>2, <2>3, <2>4, Whose DEF Receipted, Stored, Puts, Slots, Steps, Receipts, Keeps, Typed,
         Same, Opens, Marks
  <1>9. ASSUME NEW d \in Deliveries, AckFails(d) PROVE Receipted'
    <2>1. Keeps
      BY <1>9, GivesUpKeeps DEF AckFails
    <2>5. UNCHANGED operator /\ thread[d] = "acknowledging"
      BY <1>9, Adapters DEF AckFails, DeliveryOK, AdapterOK, Puts, Providers, record, adapter, CanAcknowledge,
         AckedSlot, GivesUp, SetStatus, JobFails, NoJob, RoleOf
    <2>6. Puts(thread, thread', Deliveries, d, None)
      BY <1>9, Adapters DEF AckFails, DeliveryOK, AdapterOK, Puts, Providers, record, adapter, CanAcknowledge,
         AckedSlot, GivesUp, SetStatus, JobFails, NoJob, RoleOf
    <2>7. \A q \in Providers : acking'[q] \in {acking[q], None}
      BY <1>9, Adapters DEF AckFails, DeliveryOK, AdapterOK, Puts, Providers, record, adapter, CanAcknowledge,
         AckedSlot, GivesUp, SetStatus, JobFails, NoJob, RoleOf
    <2>8. UNCHANGED slot \/ Puts(slot, slot', Deliveries, d, "acknowledged")
      BY <1>9, Adapters DEF AckFails, DeliveryOK, AdapterOK, Puts, Providers, record, adapter, CanAcknowledge,
         AckedSlot, GivesUp, SetStatus, JobFails, NoJob, RoleOf
    <2> QED
      BY <2>1, <2>5, <2>6, <2>7, <2>8, Whose DEF Receipted, Stored, Puts, Slots, Steps, Receipts, Keeps, Typed,
         Same, Opens, Marks
  <1>10. ASSUME NEW d \in Deliveries, Delivered(d) PROVE Receipted'
    <2>1. Keeps
      BY <1>10, StatusKeeps DEF Delivered, Statuses
    <2>5. UNCHANGED << slot, acking, operator >>
      BY <1>10, Adapters DEF Delivered, DeliveryOK, AdapterOK, Puts, Providers, record, adapter, SetStatus, RoleOf
    <2>6. Puts(thread, thread', Deliveries, d, None)
      BY <1>10, Adapters DEF Delivered, DeliveryOK, AdapterOK, Puts, Providers, record, adapter, SetStatus, RoleOf
    <2> QED
      BY <2>1, <2>5, <2>6, Whose DEF Receipted, Stored, Puts, Slots, Steps, Receipts, Keeps, Typed, Same, Opens, Marks
  <1>11. ASSUME NEW d \in Deliveries, Reviewed(d) PROVE Receipted'
    <2>0. SetStatus(d, "PROCESSED") \/ SetStatus(d, "RECEIVED") \/ UNCHANGED delivery
      BY <1>11 DEF Reviewed
    <2>1. Keeps
      BY <2>0, StatusKeeps, NothingKeeps DEF Statuses
    <2>5. UNCHANGED << slot, acking, operator >>
      BY <1>11, <2>0, Adapters DEF Reviewed, DeliveryOK, AdapterOK, Puts, Providers, record, adapter, SetStatus,
         JobFails, JobEnds, NoJob, Reported, RepairsExhausted, RoleOf
    <2>6. Puts(thread, thread', Deliveries, d, None)
      BY <1>11, <2>0, Adapters DEF Reviewed, DeliveryOK, AdapterOK, Puts, Providers, record, adapter, SetStatus,
         JobFails, JobEnds, NoJob, Reported, RepairsExhausted, RoleOf
    <2> QED
      BY <2>0, <2>1, <2>5, <2>6, Whose DEF Receipted, Stored, Puts, Slots, Steps, Receipts, Keeps, Typed, Same,
         Opens, Marks
  <1>12. ASSUME NEW d \in Deliveries, DiscardTalk(d) PROVE Receipted'
    BY <1>12 DEF DiscardTalk, Begin, MayDiscard, NothingPending, RoleOf, Quiet, record, adapter, Receipted,
       Stored, Slots, Waits, Steps, Receipts, DeliveryOK, AdapterOK, Operators, Providers
  <1>13. ASSUME NEW d \in Deliveries, InspectToDiscard(d) PROVE Receipted'
    BY <1>13 DEF InspectToDiscard, NoOperator, Matched, OtherActive, RoleOf, record, adapter, Receipted, Stored,
       Slots, Waits, Steps, Receipts, DeliveryOK, AdapterOK, Operators, Providers
  <1>14. ASSUME NEW d \in Deliveries, Acknowledge(d) PROVE Receipted'
    BY <1>14 DEF Acknowledge, NoOperator, Matched, OtherActive, MayBegin, NothingPending, Begin, RoleOf, record,
       adapter, Receipted, Stored, Slots, Waits, Steps, Receipts, DeliveryOK, AdapterOK, Operators, Providers
  <1>15. ASSUME NEW d \in Deliveries, DiscardOrphan(d) PROVE Receipted'
    BY <1>15 DEF DiscardOrphan, DiscardedSlot, RoleOf, record, adapter, Receipted, Stored, Slots, Waits, Steps,
       Receipts, DeliveryOK, AdapterOK, Operators, Providers
  <1>16. ASSUME NEW d \in Deliveries, NEW role \in Roles, Discuss(d, role) PROVE Receipted'
    <2>1. Opens(d, "TALK", role)
      BY <1>16, OpenOpens DEF Discuss, DeliveryKinds, Statuses
    <2>5. UNCHANGED << slot, acking, operator >>
      BY <1>16, Adapters DEF Discuss, DeliveryOK, AdapterOK, Puts, Providers, record, adapter, Fresh, MayBegin,
         NothingPending, Open, Resumes, Begin, NoDelivery, RoleOf
    <2>6. Puts(thread, thread', Deliveries, d, "resuming") \/ UNCHANGED thread
      BY <1>16, Adapters DEF Discuss, DeliveryOK, AdapterOK, Puts, Providers, record, adapter, Fresh, MayBegin,
         NothingPending, Open, Resumes, Begin, NoDelivery, RoleOf
    <2>7. delivery[d].kind = None
      BY <1>16, Adapters DEF Discuss, DeliveryOK, AdapterOK, Puts, Providers, record, adapter, Fresh, MayBegin,
         NothingPending, Open, Resumes, Begin, NoDelivery, RoleOf
    <2> QED
      BY <2>1, <2>5, <2>6, <2>7, Unstarted, Whose DEF Receipted, Stored, Puts, Slots, Steps, Receipts, Keeps,
         Typed, Same, Opens, Marks
  <1>17. ASSUME NEW p \in Providers, ExtensionBinds(p) PROVE Receipted'
    BY <1>17 DEF ExtensionBinds, RoleOf, record, adapter, Receipted, Stored, Slots, Waits, Steps, Receipts,
       DeliveryOK, AdapterOK, Operators, Providers
  <1>18. ASSUME NEW p \in Providers, AdapterGivesUp(p) PROVE Receipted'
    BY <1>18 DEF AdapterGivesUp, End, Idle, AckedSlot, CanAcknowledge, record, adapter, Receipted, Stored, Slots,
       Waits, Steps, Receipts, DeliveryOK, AdapterOK, Operators, Providers
  <1>19. ASSUME NEW p \in Providers, TalkDiscarded(p) PROVE Receipted'
    <2>0. operation[p].for \in Deliveries
      BY <1>19 DEF TalkDiscarded, Named, Used
    <2>1. Keeps
      BY <1>19, <2>0, StatusKeeps, NothingKeeps DEF TalkDiscarded, Statuses
    <2>2. UNCHANGED << thread, acking, operator >>
      BY <1>19 DEF TalkDiscarded
    <2>3. \/ UNCHANGED slot
          \/ slot[operation[p].for] \in {"held", "discarded"} /\ Puts(slot, slot', Deliveries, operation[p].for, "discarded")
      BY <1>19, <2>0 DEF TalkDiscarded, CanDiscard, DiscardedSlot, Puts, DeliveryOK
    <2> QED
      BY <2>0, <2>1, <2>2, <2>3, Whose DEF Receipted, Stored, Puts, Slots, Steps, Receipts, Keeps, Typed, Same,
         Opens, Marks
  <1>20. ASSUME NEW role \in Roles, Rebind(role) PROVE Receipted'
    BY <1>20 DEF Rebind, NoRebind, MayBegin, NothingPending, Begin, record, adapter, Receipted, Stored, Slots,
       Waits, Steps, Receipts, DeliveryOK, AdapterOK, Operators, Providers
  <1>21. CASE Restored
    BY <1>21 DEF Restored, Reported, JobEnds, NoJob, record, adapter, Receipted, Stored, Slots, Waits, Steps,
       Receipts, DeliveryOK, AdapterOK, Operators, Providers
  <1>22. CASE StoppedJobEnds
    BY <1>22 DEF StoppedJobEnds, JobFails, NoJob, record, adapter, Receipted, Stored, Slots, Waits, Steps,
       Receipts, DeliveryOK, AdapterOK, Operators, Providers
  <1>23. CASE JobIsAborted
    BY <1>23 DEF JobIsAborted, JobFails, NoJob, NoOwner, record, adapter, Receipted, Stored, Slots, Waits, Steps,
       Receipts, DeliveryOK, AdapterOK, Operators, Providers
  <1>24. CASE Retry
    BY <1>24 DEF Retry, CanResume, record, adapter, Receipted, Stored, Slots, Waits, Steps, Receipts, DeliveryOK,
       AdapterOK, Operators, Providers
  <1>25. CASE Rebound
    <2>0. rebinding.role \in Roles
      BY <1>25 DEF Rebound, Named
    <2> QED
      BY <1>25, <2>0 DEF Rebound, End, Idle, NoRebind, NoOwner, record, adapter, Keeps, Typed, Same, Opens,
         Marks, Receipted, Stored, Slots, Waits, Steps, Receipts, DeliveryOK, AdapterOK, Operators, Providers
  <1>26. CASE Discard
    <2>0. operator.for \in Deliveries /\ delivery[operator.for].kind # None
      BY <1>26, NoneAssumption DEF Discard, Named, Used, Steps
    <2> QED
      BY <1>26, <2>0 DEF Discard, MayDiscard, NothingPending, Begin, NoOperator, RoleOf, record, adapter, Keeps,
         Typed, Same, Opens, Marks, Receipted, Stored, Slots, Waits, Steps, Receipts, DeliveryOK, AdapterOK,
         Operators, Providers
  <1>27. CASE Discarded
    <2>0. operator.for \in Deliveries /\ delivery[operator.for].kind # None
      BY <1>27, NoneAssumption DEF Discarded, Named, Used, Steps
    <2>1. Keeps
      <3>1. delivery[operator.for].receipt = None
        BY <1>27, <2>0, NoneAssumption DEF Discarded, CanDiscard, MissingConfirmed, Receipted, Slots
      <3> QED
        BY <1>27, <3>1, NothingKeeps, Whose DEF Discarded
    <2>2. UNCHANGED << thread, acking >> /\ operator' = NoOperator
      BY <1>27 DEF Discarded
    <2>3. \/ UNCHANGED slot
          \/ slot[operator.for] \in {None, "held", "discarded"} /\ Puts(slot, slot', Deliveries, operator.for, "discarded")
      BY <1>27, <2>0 DEF Discarded, CanDiscard, MissingConfirmed, DiscardedSlot, Puts, DeliveryOK
    <2> QED
      BY <2>0, <2>1, <2>2, <2>3, Whose DEF NoOperator, Receipted, Stored, Puts, Slots, Steps, Receipts, Keeps,
         Typed, Same, Opens, Marks
  <1>28. CASE DiscardFails
    <2>0. operator.for \in Deliveries /\ delivery[operator.for].kind # None
      BY <1>28, NoneAssumption DEF DiscardFails, Named, Used, Steps
    <2>1. Keeps
      BY <1>28, NothingKeeps DEF DiscardFails
    <2>2. UNCHANGED << thread, acking >> /\ operator' = NoOperator
      BY <1>28 DEF DiscardFails
    <2>3. \/ UNCHANGED slot
          \/ slot[operator.for] \in {None, "held", "discarded"} /\ Puts(slot, slot', Deliveries, operator.for, "discarded")
      BY <1>28, <2>0 DEF DiscardFails, CanDiscard, MissingConfirmed, DiscardedSlot, Puts, DeliveryOK
    <2> QED
      BY <2>0, <2>1, <2>2, <2>3, Whose DEF NoOperator, Receipted, Stored, Puts, Slots, Steps, Receipts, Keeps,
         Typed, Same, Opens, Marks
  <1>29. CASE AckResumed
    <2>0. operator.for \in Deliveries /\ delivery[operator.for].kind # None
      BY <1>29, NoneAssumption DEF AckResumed, Named, Used, Steps
    <2> QED
      BY <1>29, <2>0 DEF AckResumed, End, Idle, NoOperator, RoleOf, record, adapter, Keeps, Typed, Same, Opens,
         Marks, Receipted, Stored, Slots, Waits, Steps, Receipts, DeliveryOK, AdapterOK, Operators, Providers
  <1>30. CASE AckRecovered
    <2>0. operator.for \in Deliveries /\ delivery[operator.for].kind # None
      BY <1>30, NoneAssumption DEF AckRecovered, Named, Used, Steps
    <2>1. Keeps \/ Marks(operator.for, "ACKNOWLEDGED")
      BY <1>30, <2>0, NothingKeeps, ReceiptMarks DEF AckRecovered, Settles, Receipts
    <2>2. UNCHANGED thread /\ operator' = NoOperator /\ operator.at = "acknowledging"
      BY <1>30 DEF AckRecovered
    <2>3. AdapterOf(RoleOf(operator.for)) \in Providers
      BY Adapters
    <2>4. Puts(slot, slot', Deliveries, operator.for, "acknowledged")
          /\ Puts(acking, acking', Providers, AdapterOf(RoleOf(operator.for)), None)
      BY <1>30, <2>0, <2>3 DEF AckRecovered, AckedSlot, Puts, DeliveryOK, AdapterOK
    <2> QED
      BY <2>0, <2>1, <2>2, <2>3, <2>4, Whose DEF NoOperator, Receipted, Stored, Puts, Slots, Steps, Receipts,
         Keeps, Typed, Same, Opens, Marks
  <1>31. CASE AckNotRecovered
    <2>0. operator.for \in Deliveries /\ delivery[operator.for].kind # None
      BY <1>31, NoneAssumption DEF AckNotRecovered, Named, Used, Steps
    <2> QED
      BY <1>31, <2>0 DEF AckNotRecovered, NoOperator, CanAcknowledge, AckedSlot, RoleOf, record, adapter, Keeps,
         Typed, Same, Opens, Marks, Receipted, Stored, Slots, Waits, Steps, Receipts, DeliveryOK, AdapterOK,
         Operators, Providers
  <1>32. CASE Crash
    <2>0. UNCHANGED delivery \/ (reviewTurn \in Deliveries /\ (SetStatus(reviewTurn, "PROCESSED") \/ SetStatus(reviewTurn, "RECEIVED")))
      BY <1>32 DEF Crash, RecoverReviews, RunOK
    <2>1. Keeps
      BY <2>0, StatusKeeps, NothingKeeps DEF Statuses
    <2> QED
      BY <1>32, <2>0, <2>1 DEF Crash, NoOwner, NoRebind, NoOperator, Idle, record, adapter, Keeps, Typed, Same,
         Opens, Marks, Receipted, Stored, Slots, Waits, Steps, Receipts, DeliveryOK, AdapterOK, Operators, Providers
  <1>33. CASE UNCHANGED vars
    BY <1>33 DEF vars, record, adapter, Receipted, Stored, Slots, Waits, Steps, Receipts, DeliveryOK, AdapterOK,
       Operators, Providers
  <1> QED
    BY <1>1, <1>2, <1>3, <1>4, <1>5, <1>6, <1>7, <1>8, <1>9, <1>10, <1>11, <1>12, <1>13, <1>14, <1>15, <1>16,
       <1>17, <1>18, <1>19, <1>20, <1>21, <1>22, <1>23, <1>24, <1>25, <1>26, <1>27, <1>28, <1>29, <1>30, <1>31,
       <1>32, <1>33 DEF Next

\* Every step is one of the moves
LEMMA MovesStep == ASSUME RunOK, DeliveryOK, AdapterOK, Named, Receipted, [Next]_vars PROVE Moves
  <1> USE NoneAssumption
  <1>1. ASSUME NEW d \in Deliveries, Review(d) PROVE Moves
    <2>0. job.role \in Roles
      BY <1>1 DEF Review, RunOK
    <2>1. Opens(d, "REVIEW", job.role) /\ "REVIEW" \in DeliveryKinds
      BY <1>1, <2>0, OpenOpens DEF Review, DeliveryKinds, Statuses
    <2>2. delivery[d].kind = None /\ UNCHANGED << owner, slot, acking, operator, rebinding >>
      BY <1>1 DEF Review, Fresh, NoDelivery
    <2>3. \/ UNCHANGED << thread, snapshot, operation >>
          \/ /\ owner[job.role] = None /\ operation[AdapterOf(job.role)] = Idle
             /\ thread' = [thread EXCEPT ![d] = "resuming"] /\ snapshot' = [snapshot EXCEPT ![d] = owner]
             /\ operation' = [operation EXCEPT ![AdapterOf(job.role)] = Resume(d)]
      BY <1>1, Zenon DEF Review, Resumes, Begin, MayBegin, NothingPending, Resume
    <2>4. \/ UNCHANGED << thread, snapshot, operation >>
          \/ /\ owner[job.role] = None /\ operation[AdapterOf(job.role)] = Idle
             /\ Puts(thread, thread', Deliveries, d, "resuming") /\ Puts(snapshot, snapshot', Deliveries, d, owner)
             /\ Puts(operation, operation', Providers, AdapterOf(job.role), Resume(d))
      BY <2>3, Adapters DEF Puts, DeliveryOK, AdapterOK
    <2>5. Begins(d, job.role)
      BY <2>1, <2>2, <2>4 DEF Begins
    <2> QED
      BY <2>0, <2>5 DEF Moves
  <1>2. ASSUME NEW d \in Deliveries, Submitted(d) PROVE Moves
    <2>1. SameRoles
      BY <1>2 DEF Submitted, SameRoles
    <2>2. /\ thread[d] = "resuming" /\ operation[AdapterOf(RoleOf(d))] = Resume(d)
          /\ operation' = [operation EXCEPT ![AdapterOf(RoleOf(d))] = Idle]
          /\ snapshot' = [snapshot EXCEPT ![d] = NoOwner]
          /\ UNCHANGED << acking, operator, rebinding >>
      BY <1>2 DEF Submitted, End, Resume
    <2>3. thread' = [thread EXCEPT ![d] = "answering"] /\ owner' = Reserved(d) /\ (UNCHANGED slot \/ (InSlot(RoleOf(d)) = {} /\ slot' = [slot EXCEPT ![d] = "held"]))
      BY <1>2 DEF Submitted, ReachesExtension
    <2>4. Puts(operation, operation', Providers, AdapterOf(RoleOf(d)), Idle)
      BY <2>2, Adapters DEF Puts, AdapterOK
    <2>5. thread'[d] # "resuming" /\ (\A e \in Deliveries \ {d} : thread'[e] = thread[e] /\ snapshot'[e] = snapshot[e])
      BY <2>2, <2>3 DEF DeliveryOK, Waits
    <2>6. \/ UNCHANGED slot /\ (UNCHANGED owner \/ owner' = snapshot[d]) /\ thread'[d] # "answering"
          \/ owner' = Reserved(d) /\ (UNCHANGED slot \/ (InSlot(RoleOf(d)) = {} /\ Puts(slot, slot', Deliveries, d, "held")))
      BY <2>3 DEF Puts, DeliveryOK, Waits
    <2>7. Prompts(d)
      BY <2>1, <2>2, <2>4, <2>5, <2>6 DEF Prompts
    <2> QED
      BY <2>7 DEF Moves
  <1>3. ASSUME NEW d \in Deliveries, SubmitFails(d) PROVE Moves
    <2>1. SameRoles
      <3>1. Keeps
        BY <1>3, GivesUpKeeps DEF SubmitFails
      <3> QED
        BY <3>1 DEF Keeps, Same, SameRoles
    <2>2. /\ thread[d] = "resuming" /\ operation[AdapterOf(RoleOf(d))] = Resume(d)
          /\ operation' = [operation EXCEPT ![AdapterOf(RoleOf(d))] = Idle]
          /\ snapshot' = [snapshot EXCEPT ![d] = NoOwner]
          /\ UNCHANGED << acking, operator, rebinding >>
      BY <1>3 DEF SubmitFails, End, Resume
    <2>3. /\ thread' = [thread EXCEPT ![d] = None]
          /\ (UNCHANGED slot /\ owner' = snapshot[d]) \/ (owner' = Reserved(d) /\ (UNCHANGED slot \/ (InSlot(RoleOf(d)) = {} /\ slot' = [slot EXCEPT ![d] = "held"])))
      BY <1>3 DEF SubmitFails, ReachesExtension
    <2>4. Puts(operation, operation', Providers, AdapterOf(RoleOf(d)), Idle)
      BY <2>2, Adapters DEF Puts, AdapterOK
    <2>5. thread'[d] # "resuming" /\ (\A e \in Deliveries \ {d} : thread'[e] = thread[e] /\ snapshot'[e] = snapshot[e])
      BY <2>2, <2>3 DEF DeliveryOK, Waits
    <2>6. \/ UNCHANGED slot /\ (UNCHANGED owner \/ owner' = snapshot[d]) /\ thread'[d] # "answering"
          \/ owner' = Reserved(d) /\ (UNCHANGED slot \/ (InSlot(RoleOf(d)) = {} /\ Puts(slot, slot', Deliveries, d, "held")))
      BY <2>3 DEF Puts, DeliveryOK, Waits
    <2>7. Prompts(d)
      BY <2>1, <2>2, <2>4, <2>5, <2>6 DEF Prompts
    <2> QED
      BY <2>7 DEF Moves
  <1>4. ASSUME NEW d \in Deliveries, ResumeFails(d) PROVE Moves
    <2>1. SameRoles
      <3>1. GivesUp(d) \/ NotSent(d) \/ UNCHANGED delivery
        BY <1>4 DEF ResumeFails
      <3>2. Keeps
        BY <3>1, GivesUpKeeps, NothingKeeps
      <3> QED
        BY <3>2 DEF Keeps, Same, SameRoles
    <2>2. /\ thread[d] = "resuming" /\ operation[AdapterOf(RoleOf(d))] = Resume(d)
          /\ operation' = [operation EXCEPT ![AdapterOf(RoleOf(d))] = Idle]
          /\ snapshot' = [snapshot EXCEPT ![d] = NoOwner]
          /\ UNCHANGED << acking, operator, rebinding >>
      BY <1>4 DEF ResumeFails, End, Resume
    <2>3. thread' = [thread EXCEPT ![d] = None] /\ UNCHANGED slot /\ (UNCHANGED owner \/ owner' = snapshot[d])
      BY <1>4 DEF ResumeFails, ReachesExtension
    <2>4. Puts(operation, operation', Providers, AdapterOf(RoleOf(d)), Idle)
      BY <2>2, Adapters DEF Puts, AdapterOK
    <2>5. thread'[d] # "resuming" /\ (\A e \in Deliveries \ {d} : thread'[e] = thread[e] /\ snapshot'[e] = snapshot[e])
      BY <2>2, <2>3 DEF DeliveryOK, Waits
    <2>6. \/ UNCHANGED slot /\ (UNCHANGED owner \/ owner' = snapshot[d]) /\ thread'[d] # "answering"
          \/ owner' = Reserved(d) /\ (UNCHANGED slot \/ (InSlot(RoleOf(d)) = {} /\ Puts(slot, slot', Deliveries, d, "held")))
      BY <2>3 DEF Puts, DeliveryOK, Waits
    <2>7. Prompts(d)
      BY <2>1, <2>2, <2>4, <2>5, <2>6 DEF Prompts
    <2> QED
      BY <2>7 DEF Moves
  <1>5. ASSUME NEW d \in Deliveries, PageAnswers(d) PROVE Moves
    <2>1. SameRoles
      BY <1>5 DEF PageAnswers, SameRoles, record
    <2>2. NoneResumes /\ NoneHeld /\ UNCHANGED << owner, operation, operator, rebinding >>
      BY <1>5 DEF PageAnswers, NoneResumes, NoneHeld, DeliveryOK, Waits, record, adapter
    <2> QED
      BY <2>1, <2>2 DEF Calm, Moves
  <1>6. ASSUME NEW d \in Deliveries, Answered(d) PROVE Moves
    <2>1. SameRoles
      <3>1. Keeps \/ Marks(d, "ACK_PENDING")
        BY <1>6, GivesUpKeeps, ReceiptMarks DEF Answered, Receipts
      <3> QED
        BY <3>1 DEF Keeps, Marks, Same, SameRoles
    <2>2. NoneResumes /\ NoneHeld /\ UNCHANGED << owner, operation, operator, rebinding >>
      BY <1>6 DEF Answered, NoneResumes, NoneHeld, DeliveryOK, Waits
    <2> QED
      BY <2>1, <2>2 DEF Calm, Moves
  <1>7. ASSUME NEW d \in Deliveries, NoAnswer(d) PROVE Moves
    <2>1. SameRoles
        <3>1. Keeps
          BY <1>7, GivesUpKeeps DEF NoAnswer
      <3> QED
        BY <3>1 DEF Keeps, Same, SameRoles
    <2>2. NoneResumes /\ NoneHeld /\ UNCHANGED << owner, operation, operator, rebinding >>
      BY <1>7 DEF NoAnswer, NoneResumes, NoneHeld, DeliveryOK, Waits, record, adapter
    <2> QED
      BY <2>1, <2>2 DEF Calm, Moves
  <1>8. ASSUME NEW d \in Deliveries, Acknowledged(d) PROVE Moves
    <2>1. NoneResumes /\ UNCHANGED << operation, operator, rebinding >> /\ slot' = [slot EXCEPT ![d] = "acknowledged"]
      BY <1>8 DEF Acknowledged, NoneResumes, AckedSlot, DeliveryOK, Waits
    <2>2. Puts(slot, slot', Deliveries, d, "acknowledged") /\ NoneHeld
      BY <2>1 DEF Puts, NoneHeld, DeliveryOK
    <2>3. CASE owner[RoleOf(d)] = d
      <3>1. Marks(d, "ACKNOWLEDGED") /\ owner' = [owner EXCEPT ![RoleOf(d)] = None]
        BY <1>8, <2>3, ReceiptMarks DEF Acknowledged, Settles, Receipts
      <3>2. RoleOf(d) \in Roles
        BY <1>8, NoneAssumption DEF Acknowledged, Named, RoleOf, Waits
      <3>3. Puts(owner, owner', Roles, RoleOf(d), None)
        BY <3>1, <3>2 DEF Puts, DeliveryOK, Owners
      <3>4. d \in Used
        BY <1>8, NoneAssumption DEF Acknowledged, Named, Used, Waits
      <3>5. Releases(d)
        BY <2>1, <2>2, <2>3, <3>1, <3>3, <3>4 DEF Releases, Marks, Same, SameRoles
      <3> QED
        BY <3>5 DEF Moves
    <2>4. CASE owner[RoleOf(d)] # d
      <3>1. Keeps /\ UNCHANGED owner
        BY <1>8, <2>4, GivesUpKeeps DEF Acknowledged
      <3> QED
        BY <2>1, <2>2, <3>1 DEF Calm, Moves, Keeps, Same, SameRoles
    <2> QED
      BY <2>3, <2>4
  <1>9. ASSUME NEW d \in Deliveries, AckFails(d) PROVE Moves
    <2>1. SameRoles
        <3>1. Keeps
          BY <1>9, GivesUpKeeps DEF AckFails
      <3> QED
        BY <3>1 DEF Keeps, Same, SameRoles
    <2>2. NoneResumes /\ NoneHeld /\ UNCHANGED << owner, operation, operator, rebinding >>
      BY <1>9 DEF AckFails, NoneResumes, NoneHeld, DeliveryOK, Waits, record, adapter, AckedSlot, CanAcknowledge
    <2> QED
      BY <2>1, <2>2 DEF Calm, Moves
  <1>10. ASSUME NEW d \in Deliveries, Delivered(d) PROVE Moves
    <2>1. SameRoles
        <3>1. Keeps
          BY <1>10, StatusKeeps DEF Delivered, Statuses
      <3> QED
        BY <3>1 DEF Keeps, Same, SameRoles
    <2>2. NoneResumes /\ NoneHeld /\ UNCHANGED << owner, operation, operator, rebinding >>
      BY <1>10 DEF Delivered, NoneResumes, NoneHeld, DeliveryOK, Waits, record, adapter
    <2> QED
      BY <2>1, <2>2 DEF Calm, Moves
  <1>11. ASSUME NEW d \in Deliveries, Reviewed(d) PROVE Moves
    <2>1. SameRoles
        <3>0. SetStatus(d, "PROCESSED") \/ SetStatus(d, "RECEIVED") \/ UNCHANGED delivery
          BY <1>11 DEF Reviewed
        <3>1. Keeps
          BY <3>0, StatusKeeps, NothingKeeps DEF Statuses
      <3> QED
        BY <3>1 DEF Keeps, Same, SameRoles
    <2>2. NoneResumes /\ NoneHeld /\ UNCHANGED << owner, operation, operator, rebinding >>
      BY <1>11 DEF Reviewed, NoneResumes, NoneHeld, DeliveryOK, Waits, record, adapter
    <2> QED
      BY <2>1, <2>2 DEF Calm, Moves
  <1>12. ASSUME NEW d \in Deliveries, DiscardTalk(d) PROVE Moves
    BY <1>12 DEF Moves, Others
  <1>13. ASSUME NEW d \in Deliveries, InspectToDiscard(d) PROVE Moves
    BY <1>13 DEF Moves, Others
  <1>14. ASSUME NEW d \in Deliveries, Acknowledge(d) PROVE Moves
    BY <1>14 DEF Moves, Others
  <1>15. ASSUME NEW d \in Deliveries, DiscardOrphan(d) PROVE Moves
    <2>1. SameRoles
      BY <1>15 DEF DiscardOrphan, SameRoles, record
    <2>2. NoneResumes /\ NoneHeld /\ UNCHANGED << owner, operation, operator, rebinding >>
      BY <1>15 DEF DiscardOrphan, NoneResumes, NoneHeld, DeliveryOK, Waits, record, adapter, DiscardedSlot
    <2> QED
      BY <2>1, <2>2 DEF Calm, Moves
  <1>16. ASSUME NEW d \in Deliveries, NEW role \in Roles, Discuss(d, role) PROVE Moves
    <2>0. role \in Roles
      OBVIOUS
    <2>1. Opens(d, "TALK", role) /\ "TALK" \in DeliveryKinds
      BY <1>16, <2>0, OpenOpens DEF Discuss, DeliveryKinds, Statuses
    <2>2. delivery[d].kind = None /\ UNCHANGED << owner, slot, acking, operator, rebinding >>
      BY <1>16 DEF Discuss, Fresh, NoDelivery
    <2>3. \/ UNCHANGED << thread, snapshot, operation >>
          \/ /\ owner[role] = None /\ operation[AdapterOf(role)] = Idle
             /\ thread' = [thread EXCEPT ![d] = "resuming"] /\ snapshot' = [snapshot EXCEPT ![d] = owner]
             /\ operation' = [operation EXCEPT ![AdapterOf(role)] = Resume(d)]
      BY <1>16, Zenon DEF Discuss, Resumes, Begin, MayBegin, NothingPending, Resume
    <2>4. \/ UNCHANGED << thread, snapshot, operation >>
          \/ /\ owner[role] = None /\ operation[AdapterOf(role)] = Idle
             /\ Puts(thread, thread', Deliveries, d, "resuming") /\ Puts(snapshot, snapshot', Deliveries, d, owner)
             /\ Puts(operation, operation', Providers, AdapterOf(role), Resume(d))
      BY <2>3, Adapters DEF Puts, DeliveryOK, AdapterOK
    <2>5. Begins(d, role)
      BY <2>1, <2>2, <2>4 DEF Begins
    <2> QED
      BY <2>0, <2>5 DEF Moves
  <1>17. ASSUME NEW p \in Providers, ExtensionBinds(p) PROVE Moves
    <2>1. SameRoles
      BY <1>17 DEF ExtensionBinds, SameRoles, record
    <2>2. NoneResumes /\ NoneHeld /\ UNCHANGED << owner, operation, operator, rebinding >>
      BY <1>17 DEF ExtensionBinds, NoneResumes, NoneHeld, DeliveryOK, Waits, record, adapter
    <2> QED
      BY <2>1, <2>2 DEF Calm, Moves
  <1>18. ASSUME NEW p \in Providers, AdapterGivesUp(p) PROVE Moves
    BY <1>18 DEF Moves, Others
  <1>19. ASSUME NEW p \in Providers, TalkDiscarded(p) PROVE Moves
    BY <1>19 DEF Moves, Others
  <1>20. ASSUME NEW role \in Roles, Rebind(role) PROVE Moves
    BY <1>20 DEF Moves, Others
  <1>21. CASE Restored
    <2>1. SameRoles
      BY <1>21 DEF Restored, SameRoles, record
    <2>2. NoneResumes /\ NoneHeld /\ UNCHANGED << owner, operation, operator, rebinding >>
      BY <1>21 DEF Restored, NoneResumes, NoneHeld, DeliveryOK, Waits, record, adapter
    <2> QED
      BY <2>1, <2>2 DEF Calm, Moves
  <1>22. CASE StoppedJobEnds
    <2>1. SameRoles
      BY <1>22 DEF StoppedJobEnds, SameRoles, record
    <2>2. NoneResumes /\ NoneHeld /\ UNCHANGED << owner, operation, operator, rebinding >>
      BY <1>22 DEF StoppedJobEnds, NoneResumes, NoneHeld, DeliveryOK, Waits, record, adapter
    <2> QED
      BY <2>1, <2>2 DEF Calm, Moves
  <1>23. CASE JobIsAborted
    <2>1. SameRoles
      BY <1>23 DEF JobIsAborted, SameRoles, record
    <2>2. NoneResumes /\ NoneHeld /\ UNCHANGED << owner, operation, operator, rebinding >>
      BY <1>23 DEF JobIsAborted, NoneResumes, NoneHeld, DeliveryOK, Waits, record, adapter
    <2> QED
      BY <2>1, <2>2 DEF Calm, Moves
  <1>24. CASE Retry
    <2>1. SameRoles
      BY <1>24 DEF Retry, SameRoles, record
    <2>2. NoneResumes /\ NoneHeld /\ UNCHANGED << owner, operation, operator, rebinding >>
      BY <1>24 DEF Retry, NoneResumes, NoneHeld, DeliveryOK, Waits, record, adapter
    <2> QED
      BY <2>1, <2>2 DEF Calm, Moves
  <1>25. CASE Rebound
    BY <1>25 DEF Moves, Others
  <1>26. CASE Discard
    BY <1>26 DEF Moves, Others
  <1>27. CASE Discarded
    BY <1>27 DEF Moves, Others
  <1>28. CASE DiscardFails
    BY <1>28 DEF Moves, Others
  <1>29. CASE AckResumed
    BY <1>29 DEF Moves, Others
  <1>30. CASE AckRecovered
    <2>0. operator.for \in Deliveries /\ delivery[operator.for].kind # None
      BY <1>30, NoneAssumption DEF AckRecovered, Named, Used, Steps
    <2>1. /\ NoneResumes /\ UNCHANGED << operation, rebinding >> /\ operator.at = "acknowledging" /\ operator' = NoOperator
          /\ slot' = [slot EXCEPT ![operator.for] = "acknowledged"]
      BY <1>30 DEF AckRecovered, NoneResumes, AckedSlot, record, adapter
    <2>2. Puts(slot, slot', Deliveries, operator.for, "acknowledged")
      BY <2>0, <2>1 DEF Puts, DeliveryOK
    <2>3. CASE Settles(operator.for) /\ owner[RoleOf(operator.for)] = operator.for
      <3>1. Marks(operator.for, "ACKNOWLEDGED") /\ owner' = [owner EXCEPT ![RoleOf(operator.for)] = None]
        BY <2>0, <2>3, ReceiptMarks DEF Settles, Receipts
      <3>2. RoleOf(operator.for) \in Roles
        BY <2>0 DEF Named, RoleOf
      <3>3. Puts(owner, owner', Roles, RoleOf(operator.for), None)
        BY <3>1, <3>2 DEF Puts, DeliveryOK, Owners
      <3>4. Releases(operator.for)
        BY <2>0, <2>1, <2>2, <2>3, <3>1, <3>3 DEF Releases, Marks, Same, SameRoles, Used
      <3> QED
        BY <2>0, <3>4 DEF Moves
    <2>4. CASE UNCHANGED << owner, delivery >>
      BY <1>30, <2>4 DEF Moves, Others, SameRoles
    <2> QED
      BY <1>30, <2>3, <2>4 DEF AckRecovered
  <1>31. CASE AckNotRecovered
    BY <1>31 DEF Moves, Others
  <1>32. CASE Crash
    BY <1>32 DEF Moves, Others
  <1>33. CASE UNCHANGED vars
    BY <1>33 DEF vars, record, adapter, Moves, Calm, SameRoles, NoneResumes, NoneHeld
  <1> QED
    BY <1>1, <1>2, <1>3, <1>4, <1>5, <1>6, <1>7, <1>8, <1>9, <1>10, <1>11, <1>12, <1>13, <1>14, <1>15, <1>16,
       <1>17, <1>18, <1>19, <1>20, <1>21, <1>22, <1>23, <1>24, <1>25, <1>26, <1>27, <1>28, <1>29, <1>30, <1>31,
       <1>32, <1>33 DEF Next

\* The configuration does not change
LEMMA SharedStays == ASSUME [Next]_vars PROVE UNCHANGED shared
  <1>1. ASSUME NEW d \in Deliveries, Review(d) PROVE UNCHANGED shared
    BY <1>1 DEF Review, Fresh, BetweenReviews, Open, Resumes, Begin, MayBegin, NothingPending, OmittedByRecovery,
       NoDelivery, NoJob, RoleOf, record
  <1>2. ASSUME NEW d \in Deliveries, Submitted(d) PROVE UNCHANGED shared
    BY <1>2 DEF Submitted, End, Reserved, ReachesExtension, Idle, NoOwner, RoleOf, InSlot, Unsettled, record
  <1>3. ASSUME NEW d \in Deliveries, SubmitFails(d) PROVE UNCHANGED shared
    BY <1>3 DEF SubmitFails, End, Reserved, ReachesExtension, Idle, NoOwner, NotSent, GivesUp, SetStatus,
       JobFails, NoJob, RoleOf, InSlot, Unsettled, record
  <1>4. ASSUME NEW d \in Deliveries, ResumeFails(d) PROVE UNCHANGED shared
    BY <1>4 DEF ResumeFails, End, Idle, NoOwner, NotSent, SetStatus, JobFails, JobEnds, NoJob, RoleOf, record
  <1>5. ASSUME NEW d \in Deliveries, PageAnswers(d) PROVE UNCHANGED shared
    BY <1>5 DEF PageAnswers, record
  <1>6. ASSUME NEW d \in Deliveries, Answered(d) PROVE UNCHANGED shared
    BY <1>6 DEF Answered, GivesUp, SetStatus, JobFails, NoJob, RoleOf, record
  <1>7. ASSUME NEW d \in Deliveries, NoAnswer(d) PROVE UNCHANGED shared
    BY <1>7 DEF NoAnswer, GivesUp, SetStatus, JobFails, NoJob, RoleOf, record
  <1>8. ASSUME NEW d \in Deliveries, Acknowledged(d) PROVE UNCHANGED shared
    BY <1>8 DEF Acknowledged, CanAcknowledge, AckedSlot, Settles, GivesUp, SetStatus, JobFails, NoJob, RoleOf, record
  <1>9. ASSUME NEW d \in Deliveries, AckFails(d) PROVE UNCHANGED shared
    BY <1>9 DEF AckFails, CanAcknowledge, AckedSlot, GivesUp, SetStatus, JobFails, NoJob, RoleOf, record
  <1>10. ASSUME NEW d \in Deliveries, Delivered(d) PROVE UNCHANGED shared
    BY <1>10 DEF Delivered, SetStatus, RoleOf, record
  <1>11. ASSUME NEW d \in Deliveries, Reviewed(d) PROVE UNCHANGED shared
    BY <1>11 DEF Reviewed, SetStatus, JobFails, JobEnds, NoJob, Reported, RepairsExhausted, RoleOf, record
  <1>12. ASSUME NEW d \in Deliveries, DiscardTalk(d) PROVE UNCHANGED shared
    BY <1>12 DEF DiscardTalk, Begin, MayDiscard, NothingPending, RoleOf, Quiet, record
  <1>13. ASSUME NEW d \in Deliveries, InspectToDiscard(d) PROVE UNCHANGED shared
    BY <1>13 DEF InspectToDiscard, NoOperator, Matched, OtherActive, RoleOf, record
  <1>14. ASSUME NEW d \in Deliveries, Acknowledge(d) PROVE UNCHANGED shared
    BY <1>14 DEF Acknowledge, NoOperator, Matched, OtherActive, MayBegin, NothingPending, Begin, RoleOf, record
  <1>15. ASSUME NEW d \in Deliveries, DiscardOrphan(d) PROVE UNCHANGED shared
    BY <1>15 DEF DiscardOrphan, DiscardedSlot, RoleOf, record
  <1>16. ASSUME NEW d \in Deliveries, NEW role \in Roles, Discuss(d, role) PROVE UNCHANGED shared
    BY <1>16 DEF Discuss, Fresh, MayBegin, NothingPending, Open, Resumes, Begin, NoDelivery, RoleOf, record
  <1>17. ASSUME NEW p \in Providers, ExtensionBinds(p) PROVE UNCHANGED shared
    BY <1>17 DEF ExtensionBinds, RoleOf, record
  <1>18. ASSUME NEW p \in Providers, AdapterGivesUp(p) PROVE UNCHANGED shared
    BY <1>18 DEF AdapterGivesUp, End, Idle, AckedSlot, CanAcknowledge, record
  <1>19. ASSUME NEW p \in Providers, TalkDiscarded(p) PROVE UNCHANGED shared
    BY <1>19 DEF TalkDiscarded, End, Idle, CanDiscard, DiscardedSlot, Forget, SetStatus, RoleOf, record
  <1>20. ASSUME NEW role \in Roles, Rebind(role) PROVE UNCHANGED shared
    BY <1>20 DEF Rebind, NoRebind, MayBegin, NothingPending, Begin, record
  <1>21. CASE Restored
    BY <1>21 DEF Restored, Reported, JobEnds, NoJob, record
  <1>22. CASE StoppedJobEnds
    BY <1>22 DEF StoppedJobEnds, JobFails, NoJob, record
  <1>23. CASE JobIsAborted
    BY <1>23 DEF JobIsAborted, JobFails, NoJob, NoOwner, record
  <1>24. CASE Retry
    BY <1>24 DEF Retry, CanResume, record
  <1>25. CASE Rebound
    BY <1>25 DEF Rebound, End, Idle, NoRebind, NoOwner, record
  <1>26. CASE Discard
    BY <1>26 DEF Discard, MayDiscard, NothingPending, Begin, NoOperator, RoleOf, record
  <1>27. CASE Discarded
    BY <1>27 DEF Discarded, End, Idle, NoOperator, CanDiscard, MissingConfirmed, DiscardedSlot, Forget, RoleOf, record
  <1>28. CASE DiscardFails
    BY <1>28 DEF DiscardFails, End, Idle, NoOperator, CanDiscard, MissingConfirmed, DiscardedSlot, RoleOf, record
  <1>29. CASE AckResumed
    BY <1>29 DEF AckResumed, End, Idle, NoOperator, RoleOf, record
  <1>30. CASE AckRecovered
    BY <1>30 DEF AckRecovered, NoOperator, CanAcknowledge, AckedSlot, Settles, Forget, RoleOf, record
  <1>31. CASE AckNotRecovered
    BY <1>31 DEF AckNotRecovered, NoOperator, CanAcknowledge, AckedSlot, RoleOf, record
  <1>32. CASE Crash
    BY <1>32 DEF Crash, RecoverReviews, ProcessedWith, SetStatus, NoJob, NoOwner, NoRebind, NoOperator, Idle, record
  <1>33. CASE UNCHANGED vars
    BY <1>33 DEF vars, record
  <1> QED
    BY <1>1, <1>2, <1>3, <1>4, <1>5, <1>6, <1>7, <1>8, <1>9, <1>10, <1>11, <1>12, <1>13, <1>14, <1>15, <1>16,
       <1>17, <1>18, <1>19, <1>20, <1>21, <1>22, <1>23, <1>24, <1>25, <1>26, <1>27, <1>28, <1>29, <1>30, <1>31,
       <1>32, <1>33 DEF Next

\* A wait and its hold that stay as they were
LEMMA HoldStays ==
  ASSUME NEW e \in Deliveries, UNCHANGED shared, delivery'[e].role = delivery[e].role, Holds(e),
         operation'[AdapterOf(RoleOf(e))] = operation[AdapterOf(RoleOf(e))]
  PROVE  Holds(e)'
  <1>1. AdapterOf(RoleOf(e))' = AdapterOf(RoleOf(e))
    BY DEF AdapterOf, RoleOf
  <1> QED
    BY <1>1 DEF Holds, Resume

\* The same of a rebind
LEMMA RebindStays ==
  ASSUME NEW role \in Roles, UNCHANGED shared, HoldsRebind(role), operation'[AdapterOf(role)] = operation[AdapterOf(role)]
  PROVE  HoldsRebind(role)'
  <1>1. AdapterOf(role)' = AdapterOf(role)
    BY DEF AdapterOf
  <1> QED
    BY <1>1 DEF HoldsRebind

\* When one adapter begins or ends what it does, every other hold stays
LEMMA LocksStay ==
  ASSUME DeliveryOK, AdapterOK, Named, Locked, UNCHANGED shared, NEW p \in Providers, NEW x, operation[p] = x,
         \A q \in Providers \ {p} : operation'[q] = operation[q]
  PROVE  /\ \A e \in Deliveries : Waiting(e) /\ Resume(e) # x /\ delivery'[e].role = delivery[e].role => Holds(e)'
         /\ \A role \in Roles : rebinding.role = role /\ x # [kind |-> "REBIND", for |-> role] => HoldsRebind(role)'
  <1>1. ASSUME NEW e \in Deliveries, Waiting(e), Resume(e) # x, delivery'[e].role = delivery[e].role PROVE Holds(e)'
    <2>1. Holds(e)
      BY <1>1 DEF Locked
    <2>2. AdapterOf(RoleOf(e)) # p /\ AdapterOf(RoleOf(e)) \in Providers
      BY <1>1, <2>1, Adapters DEF Holds
    <2> QED
      BY <1>1, <2>1, <2>2, HoldStays
  <1>2. ASSUME NEW role \in Roles, rebinding.role = role, x # [kind |-> "REBIND", for |-> role] PROVE HoldsRebind(role)'
    <2>1. HoldsRebind(role)
      BY <1>2 DEF Locked
    <2>2. AdapterOf(role) # p /\ AdapterOf(role) \in Providers
      BY <1>2, <2>1, Adapters DEF HoldsRebind
    <2> QED
      BY <1>2, <2>1, <2>2, RebindStays
  <1> QED
    BY <1>1, <1>2

\* Nothing begins or ends
LEMMA AllStay ==
  ASSUME DeliveryOK, AdapterOK, Named, Locked, UNCHANGED << shared, operation >>
  PROVE  /\ \A e \in Deliveries : Waiting(e) /\ delivery'[e].role = delivery[e].role => Holds(e)'
         /\ \A role \in Roles : rebinding.role = role => HoldsRebind(role)'
  BY HoldStays, RebindStays DEF Locked

\* The remaining steps that begin or end a session operation
LEMMA OthersLock == ASSUME RunOK, DeliveryOK, AdapterOK, Named, Receipted, Locked, UNCHANGED shared, Others PROVE Locked'
  <1> USE NoneAssumption
  <1>1. ASSUME NEW d \in Deliveries, InspectToDiscard(d) PROVE Locked'
    <2>1. UNCHANGED << thread, operation, delivery, rebinding >> /\ operator'.at = "inspected"
      BY <1>1 DEF InspectToDiscard, record, adapter
    <2>2. \A e \in Deliveries : Waiting(e)' => Waiting(e)
      BY <2>1 DEF Waiting
    <2> QED
      BY <2>1, <2>2, AllStay DEF Locked
  <1>2. ASSUME AckNotRecovered PROVE Locked'
    <2>1. UNCHANGED << thread, operation, delivery, rebinding >> /\ operator' = NoOperator
      BY <1>2 DEF AckNotRecovered, record
    <2>2. \A e \in Deliveries : Waiting(e)' => Waiting(e)
      BY <2>1 DEF Waiting, NoOperator, Steps
    <2> QED
      BY <2>1, <2>2, AllStay DEF Locked, NoOperator, Steps
  <1>3. ASSUME AckRecovered /\ SameRoles PROVE Locked'
    <2>1. UNCHANGED << thread, operation, rebinding >> /\ operator' = NoOperator
      BY <1>3 DEF AckRecovered
    <2>2. \A e \in Deliveries : Waiting(e)' => Waiting(e) /\ delivery'[e].role = delivery[e].role
      BY <1>3, <2>1 DEF Waiting, NoOperator, Steps, SameRoles
    <2> QED
      BY <2>1, <2>2, AllStay DEF Locked, NoOperator, Steps
  <1>4. ASSUME Crash PROVE Locked'
    <2>1. /\ \A e \in Deliveries : thread'[e] # "resuming"
          /\ operator' = NoOperator /\ rebinding' = NoRebind
      BY <1>4 DEF Crash, Waits
    <2> QED
      BY <2>1 DEF Locked, Waiting, NoOperator, NoRebind, Steps
  <1>5. ASSUME NEW d \in Deliveries, DiscardTalk(d) PROVE Locked'
    <2>1. operation[AdapterOf(RoleOf(d))] = Idle /\ UNCHANGED << thread, delivery >> /\ operation' = [operation EXCEPT ![AdapterOf(RoleOf(d))] = [kind |-> "TALK_DISCARD", for |-> d]]
          /\ UNCHANGED << operator, rebinding >>
      BY <1>5 DEF DiscardTalk, Begin, record, adapter, MayDiscard, NothingPending
    <2>2. AdapterOf(RoleOf(d)) \in Providers
      BY Adapters DEF Providers
    <2>3. operation'[AdapterOf(RoleOf(d))] = [kind |-> "TALK_DISCARD", for |-> d] /\ \A q \in Providers \ {AdapterOf(RoleOf(d))} : operation'[q] = operation[q]
      BY <2>1, <2>2 DEF AdapterOK
    <2>4. /\ \A e \in Deliveries : Waiting(e) => Holds(e)'
          /\ \A r \in Roles : rebinding.role = r => HoldsRebind(r)'
      BY <2>1, <2>2, <2>3, LocksStay DEF Resume, Idle
    <2>5. operator.at = "discarding" => operation'["chatgpt"] = operation["chatgpt"]
      BY <2>1, <2>3 DEF Locked, Idle, Providers
    <2> QED
      BY <2>1, <2>4, <2>5 DEF Locked, Waiting
  <1>6. ASSUME NEW role \in Roles, Rebind(role) PROVE Locked'
    <2>1. operation[AdapterOf(role)] = Idle /\ UNCHANGED << thread, delivery >> /\ operation' = [operation EXCEPT ![AdapterOf(role)] = [kind |-> "REBIND", for |-> role]]
          /\ UNCHANGED operator /\ rebinding'.role = role
      BY <1>6 DEF Rebind, Begin, record, adapter, MayBegin, NothingPending
    <2>2. AdapterOf(role) \in Providers
      BY Adapters DEF Providers
    <2>3. operation'[AdapterOf(role)] = [kind |-> "REBIND", for |-> role] /\ \A q \in Providers \ {AdapterOf(role)} : operation'[q] = operation[q]
      BY <2>1, <2>2 DEF AdapterOK
    <2>4. /\ \A e \in Deliveries : Waiting(e) => Holds(e)'
          /\ \A r \in Roles : rebinding.role = r => HoldsRebind(r)'
      BY <2>1, <2>2, <2>3, LocksStay DEF Resume, Idle
    <2>5. operator.at = "discarding" => operation'["chatgpt"] = operation["chatgpt"]
      BY <2>1, <2>3 DEF Locked, Idle, Providers
    <2>6. HoldsRebind(role)'
      BY <2>3 DEF HoldsRebind, AdapterOf
    <2> QED
      BY <2>1, <2>4, <2>5, <2>6 DEF Locked, Waiting
  <1>7. ASSUME Discard PROVE Locked'
    <2>1. UNCHANGED << thread, delivery, rebinding >>
      BY <1>7 DEF Discard, record
    <2>2. CASE operator' = NoOperator /\ UNCHANGED operation
      <3>1. \A e \in Deliveries : Waiting(e)' => Waiting(e)
        BY <2>1, <2>2 DEF Waiting, NoOperator, Steps
      <3> QED
        BY <2>1, <2>2, <3>1, AllStay DEF Locked, NoOperator, Steps
    <2>3. CASE MayDiscard("chatgpt", operator.for) /\ Begin("chatgpt", "DISCARD", operator.for) /\ operator' = [operator EXCEPT !.at = "discarding"]
      <3>1. operation["chatgpt"] = Idle /\ "chatgpt" \in Providers
        BY <2>3 DEF MayDiscard, NothingPending, Providers
      <3>2. operation'["chatgpt"] = [kind |-> "DISCARD", for |-> operator.for] /\ \A q \in Providers \ {"chatgpt"} : operation'[q] = operation[q]
        BY <2>3, <3>1 DEF AdapterOK, Begin
      <3>3. operator'.at = "discarding" /\ operator'.for = operator.for
        BY <2>3 DEF AdapterOK, Operators
      <3>4. /\ \A e \in Deliveries : Waiting(e) => Holds(e)'
            /\ \A r \in Roles : rebinding.role = r => HoldsRebind(r)'
        BY <2>1, <3>1, <3>2, LocksStay DEF Resume, Idle
      <3>5. \A e \in Deliveries : Waiting(e)' => Waiting(e)
        BY <2>1, <3>3 DEF Waiting
      <3> QED
        BY <2>1, <3>2, <3>3, <3>4, <3>5 DEF Locked
    <2> QED
      BY <1>7, <2>2, <2>3 DEF Discard
  <1>8. ASSUME NEW d \in Deliveries, Acknowledge(d) PROVE Locked'
    <2>1. operator = NoOperator /\ UNCHANGED << thread, delivery, rebinding >> /\ operator'.for = d
      BY <1>8 DEF Acknowledge, record
    <2>2. CASE UNCHANGED operation /\ operator'.at = "acknowledging"
      <3>1. \A e \in Deliveries : Waiting(e)' => Waiting(e)
        BY <2>1, <2>2 DEF Waiting
      <3> QED
        BY <2>1, <2>2, <3>1, AllStay DEF Locked
    <2>3. CASE operation[AdapterOf(RoleOf(d))] = Idle /\ operation' = [operation EXCEPT ![AdapterOf(RoleOf(d))] = Resume(d)] /\ operator'.at = "resuming"
      <3>1. AdapterOf(RoleOf(d)) \in Providers
        BY Adapters
      <3>2. operation'[AdapterOf(RoleOf(d))] = Resume(d) /\ \A q \in Providers \ {AdapterOf(RoleOf(d))} : operation'[q] = operation[q]
        BY <2>3, <3>1 DEF AdapterOK
      <3>3. AdapterOf(RoleOf(d))' = AdapterOf(RoleOf(d))
        BY <2>1 DEF AdapterOf, RoleOf
      <3>4. Holds(d)'
        BY <3>2, <3>3 DEF Holds, Resume
      <3>5. /\ \A e \in Deliveries : Waiting(e) => Holds(e)'
            /\ \A r \in Roles : rebinding.role = r => HoldsRebind(r)'
        BY <2>1, <2>3, <3>1, <3>2, LocksStay DEF Resume, Idle
      <3>6. \A e \in Deliveries \ {d} : Waiting(e)' => Waiting(e)
        BY <2>1, <2>3 DEF Waiting
      <3> QED
        BY <2>1, <2>3, <3>4, <3>5, <3>6 DEF Locked
    <2> QED
      <3>1. \/ UNCHANGED operation /\ operator'.at = "acknowledging"
            \/ MayBegin(AdapterOf(RoleOf(d))) /\ Begin(AdapterOf(RoleOf(d)), "RESUME", d) /\ operator'.at = "resuming"
        BY <1>8 DEF Acknowledge
      <3> QED
        BY <2>2, <2>3, <3>1 DEF MayBegin, NothingPending, Begin, Resume
  <1>9. ASSUME NEW p \in Providers, TalkDiscarded(p) PROVE Locked'
    <2>0. operation[p].for \in Deliveries
      BY <1>9 DEF TalkDiscarded, Named, Used
    <2>1. Keeps
      BY <1>9, <2>0, StatusKeeps, NothingKeeps DEF TalkDiscarded, Statuses
    <2>2. operation[p].kind = "TALK_DISCARD" /\ UNCHANGED << thread, operator, rebinding >> /\ operation' = [operation EXCEPT ![p] = Idle]
      BY <1>9 DEF TalkDiscarded, End
    <2>3. \A q \in Providers \ {p} : operation'[q] = operation[q]
      BY <2>2 DEF AdapterOK
    <2>4. /\ \A e \in Deliveries : Waiting(e) => Holds(e)'
          /\ \A r \in Roles : rebinding.role = r => HoldsRebind(r)'
      BY <2>1, <2>2, <2>3, LocksStay DEF Resume, Keeps, Same
    <2>5. operator.at = "discarding" => operation'["chatgpt"] = operation["chatgpt"]
      BY <2>2, <2>3 DEF Locked, Providers
    <2> QED
      BY <2>2, <2>4, <2>5 DEF Locked, Waiting
  <1>10. ASSUME NEW p \in Providers, AdapterGivesUp(p) PROVE Locked'
    <2>1. UNCHANGED << thread, operator, rebinding, delivery >>
      BY <1>10 DEF AdapterGivesUp, record
    <2>2. CASE UNCHANGED operation
      <3>1. \A e \in Deliveries : Waiting(e)' => Waiting(e)
        BY <2>1 DEF Waiting
      <3> QED
        BY <2>1, <2>2, <3>1, AllStay DEF Locked
    <2>3. CASE operation[p].kind = "RESUME" /\ thread[operation[p].for] # "resuming" /\ operator.at # "resuming" /\ operation' = [operation EXCEPT ![p] = Idle]
      <3>1. \A q \in Providers \ {p} : operation'[q] = operation[q]
        BY <2>3 DEF AdapterOK
      <3>2. \A e \in Deliveries : Waiting(e) => Resume(e) # operation[p]
        BY <2>3 DEF Waiting, Resume
      <3>3. /\ \A e \in Deliveries : Waiting(e) => Holds(e)'
            /\ \A r \in Roles : rebinding.role = r => HoldsRebind(r)'
        BY <2>1, <2>3, <3>1, <3>2, LocksStay
      <3>4. operator.at = "discarding" => operation'["chatgpt"] = operation["chatgpt"]
        BY <2>3, <3>1 DEF Locked, Providers
      <3> QED
        BY <2>1, <3>3, <3>4 DEF Locked, Waiting
    <2> QED
      BY <1>10, <2>2, <2>3 DEF AdapterGivesUp, End
  <1>11. ASSUME Rebound PROVE Locked'
    <2>0. rebinding.role \in Roles
      BY <1>11 DEF Rebound, Named
    <2>1. /\ operation[AdapterOf(rebinding.role)] = [kind |-> "REBIND", for |-> rebinding.role]
          /\ UNCHANGED << thread, operator, delivery >> /\ rebinding' = NoRebind
          /\ operation' = [operation EXCEPT ![AdapterOf(rebinding.role)] = Idle]
      BY <1>11, <2>0 DEF Rebound, End, Locked, HoldsRebind
    <2>2. AdapterOf(rebinding.role) \in Providers
      BY Adapters
    <2>3. \A q \in Providers \ {AdapterOf(rebinding.role)} : operation'[q] = operation[q]
      BY <2>1, <2>2 DEF AdapterOK
    <2>4. \A e \in Deliveries : Waiting(e) => Holds(e)'
      BY <2>1, <2>2, <2>3, LocksStay DEF Resume
    <2>5. operator.at = "discarding" => operation'["chatgpt"] = operation["chatgpt"]
      BY <2>1, <2>3 DEF Locked, Providers
    <2> QED
      BY <2>1, <2>4, <2>5 DEF Locked, Waiting, NoRebind
  <1>12. ASSUME Discarded PROVE Locked'
    <2>0. operator.for \in Deliveries
      BY <1>12, Whose DEF Discarded, Steps
    <2>1. Keeps
      <3>1. delivery[operator.for].receipt = None
        BY <1>12, <2>0, NoneAssumption DEF Discarded, CanDiscard, MissingConfirmed, Receipted, Slots
      <3> QED
        BY <1>12, <3>1, NothingKeeps DEF Discarded
    <2>2. /\ operation["chatgpt"] = [kind |-> "DISCARD", for |-> operator.for] /\ "chatgpt" \in Providers
          /\ UNCHANGED << thread, rebinding >> /\ operator' = NoOperator
          /\ operation' = [operation EXCEPT !["chatgpt"] = Idle]
      BY <1>12 DEF Discarded, End, Locked, Providers
    <2>3. \A q \in Providers \ {"chatgpt"} : operation'[q] = operation[q]
      BY <2>2 DEF AdapterOK
    <2>4. /\ \A e \in Deliveries : Waiting(e) => Holds(e)'
          /\ \A r \in Roles : rebinding.role = r => HoldsRebind(r)'
      BY <2>1, <2>2, <2>3, LocksStay DEF Resume, Keeps, Same
    <2>5. \A e \in Deliveries : Waiting(e)' => Waiting(e)
      BY <2>2 DEF Waiting, NoOperator, Steps
    <2> QED
      BY <2>2, <2>4, <2>5 DEF Locked, NoOperator, Steps
  <1>13. ASSUME DiscardFails PROVE Locked'
    <2>0. operator.for \in Deliveries
      BY <1>13, Whose DEF DiscardFails, Steps
    <2>1. Keeps
      BY <1>13, NothingKeeps DEF DiscardFails
    <2>2. /\ operation["chatgpt"] = [kind |-> "DISCARD", for |-> operator.for] /\ "chatgpt" \in Providers
          /\ UNCHANGED << thread, rebinding >> /\ operator' = NoOperator
          /\ operation' = [operation EXCEPT !["chatgpt"] = Idle]
      BY <1>13 DEF DiscardFails, End, Locked, Providers
    <2>3. \A q \in Providers \ {"chatgpt"} : operation'[q] = operation[q]
      BY <2>2 DEF AdapterOK
    <2>4. /\ \A e \in Deliveries : Waiting(e) => Holds(e)'
          /\ \A r \in Roles : rebinding.role = r => HoldsRebind(r)'
      BY <2>1, <2>2, <2>3, LocksStay DEF Resume, Keeps, Same
    <2>5. \A e \in Deliveries : Waiting(e)' => Waiting(e)
      BY <2>2 DEF Waiting, NoOperator, Steps
    <2> QED
      BY <2>2, <2>4, <2>5 DEF Locked, NoOperator, Steps
  <1>14. ASSUME AckResumed PROVE Locked'
    <2>0. operator.for \in Deliveries /\ Waiting(operator.for)
      BY <1>14, Whose DEF AckResumed, Steps, Waiting
    <2>1. /\ operation[AdapterOf(RoleOf(operator.for))] = Resume(operator.for)
          /\ UNCHANGED << thread, delivery, rebinding >> /\ operation' = [operation EXCEPT ![AdapterOf(RoleOf(operator.for))] = Idle]
      BY <1>14, <2>0 DEF AckResumed, End, Locked, Holds, record
    <2>2. AdapterOf(RoleOf(operator.for)) \in Providers
      BY Adapters
    <2>3. \A q \in Providers \ {AdapterOf(RoleOf(operator.for))} : operation'[q] = operation[q]
      BY <2>1, <2>2 DEF AdapterOK
    <2>4. operator' = NoOperator \/ operator' = [operator EXCEPT !.at = "acknowledging"]
      BY <1>14 DEF AckResumed
    <2>5. operator'.at \notin {"resuming", "discarding"}
      BY <2>4 DEF AdapterOK, Operators, NoOperator, Steps
    <2>6. thread[operator.for] # "resuming"
      BY <1>14, <2>0 DEF AckResumed, Receipted
    <2>7. \A e \in Deliveries : Waiting(e)' => Waiting(e) /\ Resume(e) # Resume(operator.for)
      BY <2>0, <2>1, <2>5, <2>6 DEF Waiting, Resume
    <2>8. /\ \A e \in Deliveries : Waiting(e) /\ Resume(e) # Resume(operator.for) => Holds(e)'
          /\ \A r \in Roles : rebinding.role = r => HoldsRebind(r)'
      <3>1. \A r \in Roles : Resume(operator.for) # [kind |-> "REBIND", for |-> r]
        BY DEF Resume
      <3> QED
        BY <2>1, <2>2, <2>3, <3>1, LocksStay
    <2> QED
      BY <2>1, <2>5, <2>7, <2>8 DEF Locked
  <1> QED
    BY <1>1, <1>2, <1>3, <1>4, <1>5, <1>6, <1>7, <1>8, <1>9, <1>10, <1>11, <1>12, <1>13, <1>14 DEF Others

\* Who waits in a session operation holds its adapter, after every step
LEMMA LockedStep == Inv /\ [Next]_vars => Locked'
  <1> SUFFICES ASSUME RunOK, DeliveryOK, AdapterOK, Named, Receipted, Locked, [Next]_vars PROVE Locked'
    BY DEF Inv, TypeOK
  <1> USE NoneAssumption
  <1>0. UNCHANGED shared
    BY SharedStays
  <1>1. CASE Calm
    <2>1. \A e \in Deliveries : Waiting(e)' => Waiting(e) /\ delivery'[e].role = delivery[e].role
      BY <1>1 DEF Calm, Waiting, NoneResumes, SameRoles
    <2>2. UNCHANGED << operation, operator, rebinding >>
      BY <1>1 DEF Calm
    <2> QED
      BY <1>0, <2>1, <2>2, AllStay DEF Locked
  <1>2. ASSUME NEW d \in Deliveries, NEW role \in Roles, Begins(d, role) PROVE Locked'
    <2>1. \A e \in Deliveries \ {d} : delivery'[e].role = delivery[e].role
      BY <1>2 DEF Begins, Opens, Same
    <2>2. ~Waiting(d) /\ UNCHANGED << operator, rebinding >> /\ delivery'[d].role = role
      BY <1>2, Whose DEF Begins, Opens, Waiting, Named, Waits, Steps, Used
    <2>3. ~(operator.at = "resuming" /\ operator.for = d)
      BY <2>2 DEF Waiting
    <2>4. CASE UNCHANGED << thread, operation >>
      <3>1. \A e \in Deliveries : Waiting(e)' => Waiting(e) /\ delivery'[e].role = delivery[e].role
        BY <2>1, <2>2, <2>4 DEF Waiting
      <3> QED
        BY <1>0, <2>2, <2>4, <3>1, AllStay DEF Locked
    <2>5. CASE /\ operation[AdapterOf(role)] = Idle
               /\ Puts(thread, thread', Deliveries, d, "resuming")
               /\ Puts(operation, operation', Providers, AdapterOf(role), Resume(d))
      <3>1. AdapterOf(RoleOf(d))' = AdapterOf(role)
        BY <1>0, <2>2 DEF AdapterOf, RoleOf
      <3>2. Holds(d)'
        BY <2>5, <3>1 DEF Puts, Holds, Resume
      <3>3. \A e \in Deliveries \ {d} : Waiting(e)' => Waiting(e) /\ delivery'[e].role = delivery[e].role
        BY <2>1, <2>2, <2>5 DEF Waiting, Puts
      <3>4. \A q \in Providers \ {AdapterOf(role)} : operation'[q] = operation[q]
        BY <2>5 DEF Puts
      <3>5. /\ \A e \in Deliveries \ {d} : Waiting(e)' => Holds(e)'
            /\ \A r \in Roles : rebinding.role = r => HoldsRebind(r)'
        BY <1>0, <2>5, <3>3, <3>4, Adapters, LocksStay DEF Resume, Idle
      <3>6. operator.at = "discarding" => operation'["chatgpt"] = operation["chatgpt"]
        BY <2>5, <3>4 DEF Locked, Idle, Providers
      <3> QED
        BY <2>2, <3>2, <3>5, <3>6 DEF Locked
    <2> QED
      BY <1>2, <2>4, <2>5 DEF Begins
  <1>3. ASSUME NEW d \in Deliveries, Prompts(d) PROVE Locked'
    <2>1. /\ \A e \in Deliveries : delivery'[e].role = delivery[e].role
          /\ thread[d] = "resuming" /\ thread'[d] # "resuming" /\ \A e \in Deliveries \ {d} : thread'[e] = thread[e]
          /\ operation[AdapterOf(RoleOf(d))] = Resume(d) /\ UNCHANGED << operator, rebinding >>
      BY <1>3 DEF Prompts, SameRoles
    <2>2. \A q \in Providers \ {AdapterOf(RoleOf(d))} : operation'[q] = operation[q]
      BY <1>3 DEF Prompts, Puts
    <2>3. ~(operator.at = "resuming" /\ operator.for = d)
      BY <2>1 DEF Receipted
    <2>4. \A e \in Deliveries : Waiting(e)' => Waiting(e) /\ e # d
      BY <2>1, <2>3 DEF Waiting
    <2>5. /\ \A e \in Deliveries \ {d} : Waiting(e) => Holds(e)'
          /\ \A r \in Roles : rebinding.role = r => HoldsRebind(r)'
      BY <1>0, <2>1, <2>2, Adapters, LocksStay DEF Resume
    <2>6. operator.at = "discarding" => operation'["chatgpt"] = operation["chatgpt"]
      BY <2>1, <2>2 DEF Locked, Resume, Providers
    <2> QED
      BY <2>1, <2>4, <2>5, <2>6 DEF Locked
  <1>4. ASSUME NEW d \in Deliveries, Releases(d) PROVE Locked'
    <2>1. operator' = operator \/ (operator' = NoOperator)
      BY <1>4 DEF Releases
    <2>2. \A e \in Deliveries : Waiting(e)' => Waiting(e) /\ delivery'[e].role = delivery[e].role
      BY <1>4, <2>1 DEF Releases, Waiting, NoneResumes, SameRoles, NoOperator, Steps
    <2>3. UNCHANGED << operation, rebinding >>
      BY <1>4 DEF Releases
    <2> QED
      BY <1>0, <2>1, <2>2, <2>3, AllStay DEF Locked, NoOperator, Steps
  <1>5. ASSUME Others PROVE Locked'
    BY <1>0, <1>5, OthersLock
  <1> QED
    BY <1>1, <1>2, <1>3, <1>4, <1>5, MovesStep DEF Moves

\* Both roles use the primary adapter when they share one
LEMMA OneAdapter == ASSUME shared PROVE \A role : AdapterOf(role) = "chatgpt"
  BY DEF AdapterOf

\* Who waits in a session operation is alone in it
LEMMA Alone ==
  ASSUME shared, DeliveryOK, AdapterOK, Named, Locked
  PROVE  /\ \A d, e \in Deliveries : Waiting(d) /\ Waiting(e) => d = e
         /\ \A d \in Deliveries : Waiting(d) => rebinding.role \notin Roles
         /\ \A d \in Deliveries : Waiting(d) => operation["chatgpt"] = Resume(d)
         /\ rebinding.role \in Roles => operation["chatgpt"].kind = "REBIND"
  <1>1. \A d \in Deliveries : Waiting(d) => operation["chatgpt"] = Resume(d)
    BY OneAdapter DEF Locked, Holds
  <1>2. rebinding.role \in Roles => operation["chatgpt"].kind = "REBIND"
    <2> SUFFICES ASSUME rebinding.role \in Roles PROVE operation["chatgpt"].kind = "REBIND"
      OBVIOUS
    <2>1. HoldsRebind(rebinding.role)
      BY DEF Locked
    <2>2. operation["chatgpt"] = [kind |-> "REBIND", for |-> rebinding.role]
      BY <2>1, OneAdapter DEF HoldsRebind
    <2> QED
      BY <2>2
  <1>3. ASSUME NEW d \in Deliveries, NEW e \in Deliveries, Waiting(d), Waiting(e) PROVE d = e
    <2>1. Resume(d) = Resume(e)
      BY <1>1, <1>3
    <2> QED
      BY <2>1 DEF Resume
  <1>4. ASSUME NEW d \in Deliveries, Waiting(d) PROVE rebinding.role \notin Roles
    <2>1. operation["chatgpt"] = Resume(d)
      BY <1>1, <1>4
    <2>2. operation["chatgpt"].kind = "RESUME"
      BY <2>1 DEF Resume
    <2> QED
      BY <1>2, <2>2
  <1> QED
    BY <1>1, <1>2, <1>3, <1>4

Shrinks == \A role \in Roles : owner'[role] \in {None, owner[role]}
Quieter ==
    /\ SameRoles /\ NoneResumes /\ NoneHeld /\ Shrinks /\ UNCHANGED << rebinding, shared >>
    /\ operation'["chatgpt"] = operation["chatgpt"] \/ operation'["chatgpt"].kind # "TALK_DISCARD"

\* Steps that hold nothing new and take no role keep Covered
LEMMA QuietKeeps ==
  ASSUME DeliveryOK, AdapterOK, Named, Covered, Quieter, shared => Known' PROVE Covered'
  <1> USE NoneAssumption
  <1> SUFFICES ASSUME shared PROVE Covered'
    BY DEF Quieter, Covered
  <1>1. \A e \in Deliveries : (e \in Used' => e \in Used) /\ RoleOf(e)' = RoleOf(e) /\ (e \in Used => RoleOf(e) \in Roles)
    BY DEF Quieter, SameRoles, Used, RoleOf, Named
  <1>2. \A e \in Deliveries : Unsettled(e)' => Unsettled(e)
    BY DEF Quieter, NoneHeld, Unsettled
  <1>3. ASSUME NEW d \in Deliveries, thread'[d] = "resuming" PROVE (snapshot[d][RoleOf(d)] = None /\ Restores(d))'
    <2>1. thread[d] = "resuming" /\ snapshot'[d] = snapshot[d]
      BY <1>3 DEF Quieter, NoneResumes
    <2>2. snapshot[d][RoleOf(d)] = None /\ Restores(d)
      BY <2>1 DEF Covered
    <2>3. (snapshot[d][RoleOf(d)] = None)'
      BY <1>1, <2>1, <2>2
    <2>4. \A e \in Used' : Unsettled(e)' => snapshot'[d][RoleOf(e)'] = e
      BY <1>1, <1>2, <2>1, <2>2 DEF Restores, Used
    <2>5. \A role \in Roles : owner'[role] \in {None, snapshot'[d][role]}
      BY <2>1, <2>2 DEF Restores, Quieter, Shrinks
    <2> QED
      BY <2>3, <2>4, <2>5 DEF Restores
  <1>4. ASSUME rebinding'.role \in Roles PROVE RebindRestores'
    <2>1. rebinding' = rebinding /\ RebindRestores
      BY <1>4 DEF Quieter, Covered
    <2>2. \A e \in Used' : Unsettled(e)' => rebinding'.owner[RoleOf(e)'] = e
      BY <1>1, <1>2, <2>1 DEF RebindRestores, Used
    <2>3. \A role \in Roles : owner'[role] \in {None, rebinding'.owner[role]}
      BY <2>1 DEF RebindRestores, Quieter, Shrinks
    <2> QED
      BY <2>2, <2>3 DEF RebindRestores
  <1>5. ASSUME NEW d \in Deliveries, operation'["chatgpt"] = [kind |-> "TALK_DISCARD", for |-> d]
        PROVE  (owner[RoleOf(d)] \in {None, d})'
    <2>1. operation["chatgpt"] = [kind |-> "TALK_DISCARD", for |-> d]
      BY <1>5 DEF Quieter
    <2>2. owner[RoleOf(d)] \in {None, d} /\ RoleOf(d) \in Roles
      BY <2>1, <1>1 DEF Covered, Named, Providers
    <2> QED
      BY <2>2, <1>1 DEF Quieter, Shrinks
  <1> QED
    BY <1>3, <1>4, <1>5 DEF Covered, Quieter

\* A step that takes nothing and releases nothing
LEMMA KnownStays == ASSUME SameRoles, NoneHeld, UNCHANGED owner, Known PROVE Known'
  <1>1. \A e \in Deliveries : (e \in Used' => e \in Used) /\ RoleOf(e)' = RoleOf(e) /\ (Unsettled(e)' => Unsettled(e))
    BY DEF SameRoles, Used, RoleOf, NoneHeld, Unsettled
  <1> QED
    BY <1>1 DEF Known, Used

\* What settles a delivery may release its role
LEMMA KnownWithout ==
  ASSUME DeliveryOK, Named, SameRoles, NEW d \in Deliveries, owner[RoleOf(d)] \in {None, d}, RoleOf(d) \in Roles,
         Puts(owner, owner', Roles, RoleOf(d), None), ~Unsettled(d)', NoneHeld, Known
  PROVE  Known'
  <1>1. \A e \in Deliveries : (e \in Used' => e \in Used) /\ RoleOf(e)' = RoleOf(e) /\ (Unsettled(e)' => Unsettled(e))
                              /\ (e \in Used => RoleOf(e) \in Roles)
    BY DEF SameRoles, Used, RoleOf, NoneHeld, Unsettled, Named
  <1>2. ASSUME NEW e \in Used', Unsettled(e)' PROVE (owner[RoleOf(e)] = e)'
    <2>1. e \in Used /\ e \in Deliveries /\ e # d /\ owner[RoleOf(e)] = e
      BY <1>1, <1>2 DEF Known, Used
    <2>2. RoleOf(e) # RoleOf(d)
      BY <2>1, NoneAssumption
    <2> QED
      BY <1>1, <2>1, <2>2 DEF Puts
  <1> QED
    BY <1>2 DEF Known

\* The steps that touch no bindings
LEMMA QuietOthers ==
  ASSUME RunOK, DeliveryOK, AdapterOK, Named, Receipted, Locked, Covered, [Next]_vars, Others,
         ~(\E d \in Deliveries : DiscardTalk(d)), ~(\E role \in Roles : Rebind(role)), ~Rebound, ~Crash, ~Discarded,
         ~(\E p \in Providers : TalkDiscarded(p))
  PROVE  Quieter /\ UNCHANGED owner
  <1>0. UNCHANGED shared
    BY SharedStays
  <1>1. ASSUME NEW d \in Deliveries, InspectToDiscard(d) PROVE Quieter /\ UNCHANGED owner
    <2>1. SameRoles
      BY <1>1 DEF InspectToDiscard, SameRoles, record
    <2>2. NoneResumes /\ NoneHeld /\ UNCHANGED << owner, rebinding >>
      BY <1>1 DEF InspectToDiscard, NoneResumes, NoneHeld, DeliveryOK, record, adapter, Waits
    <2>3. operation'["chatgpt"] = operation["chatgpt"]
      BY <1>1 DEF InspectToDiscard, adapter
    <2> QED
      BY <1>0, <2>1, <2>2, <2>3 DEF Quieter, Shrinks
  <1>2. ASSUME NEW d \in Deliveries, Acknowledge(d) PROVE Quieter /\ UNCHANGED owner
    <2>1. SameRoles
      BY <1>2 DEF Acknowledge, SameRoles, record
    <2>2. NoneResumes /\ NoneHeld /\ UNCHANGED << owner, rebinding >>
      BY <1>2 DEF Acknowledge, NoneResumes, NoneHeld, DeliveryOK, record, adapter, Waits
    <2>3. operation'["chatgpt"] = operation["chatgpt"] \/ operation'["chatgpt"].kind # "TALK_DISCARD"
      <3>1. UNCHANGED operation \/ operation' = [operation EXCEPT ![AdapterOf(RoleOf(d))] = Resume(d)]
        BY <1>2 DEF Acknowledge, Begin, Resume
      <3> QED
        BY <3>1 DEF AdapterOK, Resume, Providers
    <2> QED
      BY <1>0, <2>1, <2>2, <2>3 DEF Quieter, Shrinks
  <1>3. ASSUME NEW p \in Providers, AdapterGivesUp(p) PROVE Quieter /\ UNCHANGED owner
    <2>1. SameRoles
      BY <1>3 DEF AdapterGivesUp, SameRoles, record
    <2>2. NoneResumes /\ NoneHeld /\ UNCHANGED << owner, rebinding >>
      BY <1>3 DEF AdapterGivesUp, NoneResumes, NoneHeld, DeliveryOK, record, adapter, Waits, AckedSlot, CanAcknowledge
    <2>3. operation'["chatgpt"] = operation["chatgpt"] \/ operation'["chatgpt"].kind # "TALK_DISCARD"
      <3>1. UNCHANGED operation \/ operation' = [operation EXCEPT ![p] = Idle]
        BY <1>3 DEF AdapterGivesUp, End
      <3> QED
        BY <3>1 DEF AdapterOK, Idle, Providers
    <2> QED
      BY <1>0, <2>1, <2>2, <2>3 DEF Quieter, Shrinks
  <1>4. ASSUME Discard PROVE Quieter /\ UNCHANGED owner
    <2>1. SameRoles
      BY <1>4 DEF Discard, SameRoles, record
    <2>2. NoneResumes /\ NoneHeld /\ UNCHANGED << owner, rebinding >>
      BY <1>4 DEF Discard, NoneResumes, NoneHeld, DeliveryOK, record, adapter, Waits
    <2>3. operation'["chatgpt"] = operation["chatgpt"] \/ operation'["chatgpt"].kind # "TALK_DISCARD"
      <3>1. UNCHANGED operation \/ operation' = [operation EXCEPT !["chatgpt"] = [kind |-> "DISCARD", for |-> operator.for]]
        BY <1>4 DEF Discard, Begin
      <3> QED
        BY <3>1 DEF AdapterOK, Providers
    <2> QED
      BY <1>0, <2>1, <2>2, <2>3 DEF Quieter, Shrinks
  <1>5. ASSUME DiscardFails PROVE Quieter /\ UNCHANGED owner
    <2>1. SameRoles
      BY <1>5 DEF DiscardFails, SameRoles, record
    <2>2. NoneResumes /\ NoneHeld /\ UNCHANGED << owner, rebinding >>
      BY <1>5 DEF DiscardFails, NoneResumes, NoneHeld, DeliveryOK, record, adapter, Waits, DiscardedSlot
    <2>3. operation'["chatgpt"] = operation["chatgpt"] \/ operation'["chatgpt"].kind # "TALK_DISCARD"
      <3>1. operation' = [operation EXCEPT !["chatgpt"] = Idle]
        BY <1>5 DEF DiscardFails, End
      <3> QED
        BY <3>1 DEF AdapterOK, Idle, Providers
    <2> QED
      BY <1>0, <2>1, <2>2, <2>3 DEF Quieter, Shrinks
  <1>6. ASSUME AckResumed PROVE Quieter /\ UNCHANGED owner
    <2>1. SameRoles
      BY <1>6 DEF AckResumed, SameRoles, record
    <2>2. NoneResumes /\ NoneHeld /\ UNCHANGED << owner, rebinding >>
      BY <1>6 DEF AckResumed, NoneResumes, NoneHeld, DeliveryOK, record, adapter, Waits
    <2>3. operation'["chatgpt"] = operation["chatgpt"] \/ operation'["chatgpt"].kind # "TALK_DISCARD"
      <3>1. operation' = [operation EXCEPT ![AdapterOf(RoleOf(operator.for))] = Idle]
        BY <1>6 DEF AckResumed, End
      <3> QED
        BY <3>1 DEF AdapterOK, Idle, Providers
    <2> QED
      BY <1>0, <2>1, <2>2, <2>3 DEF Quieter, Shrinks
  <1>7. ASSUME AckNotRecovered PROVE Quieter /\ UNCHANGED owner
    <2>1. SameRoles
      BY <1>7 DEF AckNotRecovered, SameRoles, record
    <2>2. NoneResumes /\ NoneHeld /\ UNCHANGED << owner, rebinding >>
      BY <1>7 DEF AckNotRecovered, NoneResumes, NoneHeld, DeliveryOK, record, adapter, Waits, AckedSlot,
         CanAcknowledge
    <2>3. operation'["chatgpt"] = operation["chatgpt"]
      BY <1>7 DEF AckNotRecovered, adapter
    <2> QED
      BY <1>0, <2>1, <2>2, <2>3 DEF Quieter, Shrinks
  <1>8. ASSUME AckRecovered /\ SameRoles /\ UNCHANGED owner PROVE Quieter /\ UNCHANGED owner
    <2>1. SameRoles
      BY <1>8
    <2>2. NoneResumes /\ NoneHeld /\ UNCHANGED << owner, rebinding >>
      BY <1>8 DEF AckRecovered, NoneResumes, NoneHeld, DeliveryOK, record, adapter, Waits, AckedSlot, CanAcknowledge
    <2>3. operation'["chatgpt"] = operation["chatgpt"]
      BY <1>8 DEF AckRecovered, adapter
    <2> QED
      BY <1>0, <2>1, <2>2, <2>3 DEF Quieter, Shrinks
  <1> QED
    BY <1>1, <1>2, <1>3, <1>4, <1>5, <1>6, <1>7, <1>8 DEF Others

\* No copy of the bindings lacks what the bindings have
LEMMA CoveredStep == Inv /\ [Next]_vars => Covered'
  <1> SUFFICES ASSUME RunOK, DeliveryOK, AdapterOK, Named, Receipted, Locked, Covered, [Next]_vars, shared PROVE Covered'
    BY SharedStays DEF Inv, TypeOK, Covered
  <1> USE NoneAssumption
  <1>0. UNCHANGED shared /\ Known
    BY SharedStays DEF Covered
  <1>1. CASE Calm
    <2>1. Quieter /\ Known'
      BY <1>0, <1>1, KnownStays DEF Calm, Quieter, Shrinks
    <2> QED
      BY <2>1, QuietKeeps
  <1>2. ASSUME NEW d \in Deliveries, NEW role \in Roles, Begins(d, role) PROVE Covered'
    <2>1. \A e \in Deliveries \ {d} : (e \in Used' => e \in Used) /\ RoleOf(e)' = RoleOf(e) /\ (e \in Used => RoleOf(e) \in Roles)
      BY <1>2 DEF Begins, Opens, Same, Used, RoleOf, Named
    <2>2. \A e \in Used' : Unsettled(e)' => e \in Used \ {d} /\ e \in Deliveries /\ Unsettled(e) /\ RoleOf(e)' = RoleOf(e)
      BY <1>2, <2>1 DEF Begins, Unsettled, Named, Used, Slots
    <2>3. UNCHANGED << owner, rebinding >> /\ RoleOf(d)' = role /\ d \notin Used
      BY <1>2 DEF Begins, Opens, RoleOf, Used
    <2>4. Known'
      BY <1>0, <2>2, <2>3 DEF Known
    <2>5. rebinding'.role \in Roles => RebindRestores'
      BY <2>2, <2>3 DEF Covered, RebindRestores
    <2>6. ASSUME NEW e \in Deliveries \ {d}, thread'[e] = "resuming" PROVE (snapshot[e][RoleOf(e)] = None /\ Restores(e))'
      <3>1. thread[e] = "resuming" /\ snapshot'[e] = snapshot[e]
        BY <1>2, <2>6 DEF Begins, Puts
      <3>2. snapshot[e][RoleOf(e)] = None /\ Restores(e)
        BY <3>1 DEF Covered
      <3> QED
        BY <2>1, <2>2, <2>3, <3>1, <3>2 DEF Restores
    <2>7. ASSUME thread'[d] = "resuming" PROVE (snapshot[d][RoleOf(d)] = None /\ Restores(d))'
      <3>1. owner[role] = None /\ snapshot'[d] = owner
        BY <1>2, <2>7 DEF Begins, Puts, Named, Waits
      <3> QED
        BY <1>0, <2>2, <2>3, <3>1 DEF Known, Restores
    <2>8. ASSUME NEW e \in Deliveries, operation'["chatgpt"] = [kind |-> "TALK_DISCARD", for |-> e]
          PROVE  (owner[RoleOf(e)] \in {None, e})'
      <3>1. operation["chatgpt"] = [kind |-> "TALK_DISCARD", for |-> e]
        BY <1>2, <2>8 DEF Begins, Puts, Resume, Providers
      <3>2. e # d /\ owner[RoleOf(e)] \in {None, e}
        BY <2>3, <3>1 DEF Covered, Named, Providers
      <3> QED
        BY <2>1, <2>3, <3>2
    <2> QED
      BY <2>4, <2>5, <2>6, <2>7, <2>8 DEF Covered
  <1>3. ASSUME NEW d \in Deliveries, Prompts(d) PROVE Covered'
    <2>0. Waiting(d) /\ snapshot[d][RoleOf(d)] = None /\ Restores(d) /\ RoleOf(d) \in Roles
      BY <1>3 DEF Prompts, Waiting, Covered, Named, RoleOf, Waits
    <2>1. /\ \A e \in Deliveries : thread'[e] # "resuming"
          /\ rebinding'.role \notin Roles /\ operation'["chatgpt"] = Idle
      BY <1>3, <2>0, Alone, OneAdapter DEF Prompts, Waiting, Puts
    <2>2. \A e \in Deliveries : (e \in Used' => e \in Used) /\ RoleOf(e)' = RoleOf(e) /\ (e \in Used => RoleOf(e) \in Roles)
      BY <1>3 DEF Prompts, SameRoles, Used, RoleOf, Named
    <2>3. snapshot[d] \in Owners
      BY DEF DeliveryOK
    <2>4. \A e \in Used : Unsettled(e) => RoleOf(e) # RoleOf(d)
      BY <2>0 DEF Restores, Used
    <2>5. \A e \in Used : Unsettled(e) => owner[RoleOf(e)] = e /\ snapshot[d][RoleOf(e)] = e /\ Reserved(d)[RoleOf(e)] = e
      BY <1>0, <2>0, <2>2, <2>3, <2>4 DEF Known, Restores, Reserved, Owners, Used
    <2>6. Reserved(d)[RoleOf(d)] = d
      BY <2>0, <2>3 DEF Reserved, Owners
    <2>7. ASSUME NEW e \in Used', Unsettled(e)' PROVE owner'[RoleOf(e)] = e
      <3>1. e \in Deliveries /\ e \in Used
        BY <2>2, <2>7 DEF Used
      <3>2. CASE Unsettled(e)
        BY <1>3, <2>5, <3>1, <3>2 DEF Prompts
      <3>3. CASE ~Unsettled(e)
        <4>1. e = d /\ owner' = Reserved(d)
          BY <1>3, <2>7, <3>1, <3>3 DEF Prompts, Puts, Unsettled
        <4> QED
          BY <2>6, <4>1
      <3> QED
        BY <3>2, <3>3
    <2>8. Known'
      BY <2>2, <2>7 DEF Known, Used
    <2> QED
      BY <2>1, <2>8 DEF Covered, Idle
  <1>4. ASSUME NEW d \in Deliveries, Releases(d) PROVE Covered'
    <2>1. RoleOf(d) \in Roles /\ ~Unsettled(d)' /\ NoneHeld
      BY <1>4 DEF Releases, Puts, Unsettled, NoneHeld, Named, RoleOf, Used
    <2>2. Known'
      BY <1>0, <1>4, <2>1, KnownWithout DEF Releases
    <2>3. Quieter
      BY <1>0, <1>4, <2>1 DEF Releases, Quieter, Shrinks, Puts
    <2> QED
      BY <2>2, <2>3, QuietKeeps
  <1>5. ASSUME NEW d \in Deliveries, DiscardTalk(d) PROVE Covered'
    <2>1. /\ UNCHANGED << delivery, thread, snapshot, rebinding, owner, slot >> /\ owner[RoleOf(d)] = d
          /\ operation' = [operation EXCEPT ![AdapterOf(RoleOf(d))] = [kind |-> "TALK_DISCARD", for |-> d]]
      BY <1>5 DEF DiscardTalk, Begin, record
    <2>2. operation'["chatgpt"] = [kind |-> "TALK_DISCARD", for |-> d]
      BY <2>1, OneAdapter DEF AdapterOK, Providers
    <2>3. \A e \in Deliveries : operation'["chatgpt"] = [kind |-> "TALK_DISCARD", for |-> e] => (owner[RoleOf(e)] \in {None, e})'
      BY <2>1, <2>2 DEF RoleOf
    <2>4. Known' /\ (rebinding'.role \in Roles => RebindRestores')
          /\ \A e \in Deliveries : thread'[e] = "resuming" => (snapshot[e][RoleOf(e)] = None /\ Restores(e))'
      BY <2>1 DEF Covered, Known, Restores, RebindRestores, Used, Unsettled, RoleOf
    <2> QED
      BY <2>3, <2>4 DEF Covered
  <1>6. ASSUME NEW p \in Providers, TalkDiscarded(p) PROVE Covered'
    <2> DEFINE d == operation[p].for
    <2>0. d \in Deliveries /\ d \in Used /\ RoleOf(d) \in Roles
      BY <1>6 DEF TalkDiscarded, Named, Used, RoleOf
    <2>1. SameRoles
      <3>1. Keeps
        BY <1>6, <2>0, StatusKeeps, NothingKeeps DEF TalkDiscarded, Statuses
      <3> QED
        BY <3>1 DEF Keeps, Same, SameRoles
    <2>2. NoneResumes /\ NoneHeld /\ UNCHANGED rebinding /\ operation' = [operation EXCEPT ![p] = Idle]
      BY <1>6 DEF TalkDiscarded, NoneResumes, NoneHeld, DeliveryOK, DiscardedSlot, End
    <2>3. operation'["chatgpt"] = operation["chatgpt"] \/ operation'["chatgpt"].kind # "TALK_DISCARD"
      BY <2>2 DEF AdapterOK, Idle, Providers
    <2>4. CASE UNCHANGED owner
      BY <1>0, <2>1, <2>2, <2>3, <2>4, KnownStays, QuietKeeps DEF Quieter, Shrinks
    <2>5. CASE CanDiscard(d) /\ slot' = DiscardedSlot(d) /\ owner' = [owner EXCEPT ![RoleOf(d)] = None]
      <3>1. Puts(owner, owner', Roles, RoleOf(d), None)
        BY <2>0, <2>5 DEF Puts, DeliveryOK, Owners
      <3>4. slot'[d] = "discarded"
        BY <2>0, <2>5 DEF DiscardedSlot, DeliveryOK
      <3>2. Known'
        <4>1. \A e \in Deliveries : (e \in Used' => e \in Used) /\ RoleOf(e)' = RoleOf(e) /\ (Unsettled(e)' => Unsettled(e)) /\ (e \in Used => RoleOf(e) \in Roles)
          BY <2>1, <2>2 DEF SameRoles, Used, RoleOf, NoneHeld, Unsettled, Named
        <4>2. ASSUME NEW e \in Used', Unsettled(e)' PROVE (owner[RoleOf(e)] = e)'
          <5>1. e \in Used /\ e \in Deliveries /\ e # d /\ owner[RoleOf(e)] = e /\ Unsettled(e)
            BY <1>0, <3>4, <4>1, <4>2 DEF Known, Used, Unsettled
          <5>2. RoleOf(e) # RoleOf(d)
            BY <1>0, <2>0, <2>5, <5>1 DEF CanDiscard, InSlot, Known, Unsettled
          <5> QED
            BY <3>1, <4>1, <5>1, <5>2 DEF Puts
        <4> QED
          BY <4>2 DEF Known
      <3>3. Quieter
        BY <1>0, <2>1, <2>2, <2>3, <3>1 DEF Quieter, Shrinks, Puts
      <3> QED
        BY <3>2, <3>3, QuietKeeps
    <2> QED
      BY <1>6, <2>4, <2>5 DEF TalkDiscarded
  <1>7. ASSUME NEW role \in Roles, Rebind(role) PROVE Covered'
    <2>1. /\ UNCHANGED << delivery, thread, snapshot, owner, slot >> /\ rebinding'.owner = owner
          /\ operation' = [operation EXCEPT ![AdapterOf(role)] = [kind |-> "REBIND", for |-> role]]
      BY <1>7 DEF Rebind, Begin, record
    <2>2. operation'["chatgpt"].kind = "REBIND"
      BY <2>1, OneAdapter DEF AdapterOK, Providers
    <2>3. Known' /\ RebindRestores'
          /\ \A e \in Deliveries : thread'[e] = "resuming" => (snapshot[e][RoleOf(e)] = None /\ Restores(e))'
      BY <2>1 DEF Covered, Known, Restores, RebindRestores, Used, Unsettled, RoleOf
    <2> QED
      BY <2>2, <2>3 DEF Covered
  <1>8. CASE Rebound
    <2>1. rebinding.role \in Roles /\ operation["chatgpt"].kind = "REBIND" /\ RebindRestores
      BY <1>8, Alone DEF Rebound, Named, Covered
    <2>2. /\ UNCHANGED << delivery, thread, slot >> /\ rebinding' = NoRebind /\ (owner' = owner \/ owner' = rebinding.owner)
          /\ operation' = [operation EXCEPT !["chatgpt"] = Idle]
      BY <1>8, OneAdapter DEF Rebound, End
    <2>3. /\ \A e \in Deliveries : thread'[e] # "resuming"
          /\ operation'["chatgpt"] = Idle
      BY <2>1, <2>2, Alone DEF Resume, Waiting, AdapterOK, Providers
    <2>4. Known'
      BY <1>0, <2>1, <2>2 DEF Known, RebindRestores, Used, Unsettled, RoleOf
    <2> QED
      BY <2>2, <2>3, <2>4 DEF Covered, Idle, NoRebind
  <1>9. CASE Crash
    <2>1. /\ \A e \in Deliveries : thread'[e] # "resuming"
          /\ rebinding' = NoRebind /\ operation'["chatgpt"] = Idle /\ UNCHANGED << owner, slot >>
      BY <1>9 DEF Crash, Waits, Providers
    <2>2. SameRoles
      <3>1. UNCHANGED delivery \/ (reviewTurn \in Deliveries /\ (SetStatus(reviewTurn, "PROCESSED") \/ SetStatus(reviewTurn, "RECEIVED")))
        BY <1>9 DEF Crash, RecoverReviews, RunOK
      <3>2. Keeps
        BY <3>1, StatusKeeps, NothingKeeps DEF Statuses
      <3> QED
        BY <3>2 DEF Keeps, Same, SameRoles
    <2>3. Known'
      BY <1>0, <2>1, <2>2, KnownStays DEF NoneHeld
    <2> QED
      BY <2>1, <2>3 DEF Covered, Idle, NoRebind
  <1>10. CASE Discarded
    <2>8. PICK d \in Deliveries : d = operator.for
      BY <1>10 DEF Discarded, Named, Used, Steps
    <2>0. d \in Used /\ RoleOf(d) \in Roles
      BY <1>10, <2>8 DEF Discarded, Named, Used, RoleOf, Steps
    <2>1. SameRoles
      <3>1. delivery[d].receipt = None
        BY <1>10, <2>0, <2>8 DEF Discarded, CanDiscard, MissingConfirmed, Receipted, Slots
      <3> QED
        BY <1>10, <2>8, <3>1 DEF Discarded, SameRoles
    <2>2. /\ NoneResumes /\ NoneHeld /\ UNCHANGED rebinding /\ operation' = [operation EXCEPT !["chatgpt"] = Idle]
          /\ slot' = [slot EXCEPT ![d] = "discarded"]
      BY <1>10, <2>8 DEF Discarded, NoneResumes, NoneHeld, DeliveryOK, DiscardedSlot, End
    <2>3. operation'["chatgpt"].kind # "TALK_DISCARD"
      BY <2>2 DEF AdapterOK, Idle, Providers
    <2>6. slot'[d] = "discarded"
      BY <2>0, <2>2 DEF DeliveryOK
    <2>7. ~Unsettled(d)'
      BY <2>6 DEF Unsettled
    <2>4. CASE UNCHANGED owner
      BY <1>0, <2>1, <2>2, <2>3, <2>4, KnownStays, QuietKeeps DEF Quieter, Shrinks
    <2>5. CASE owner[RoleOf(d)] = d /\ owner' = [owner EXCEPT ![RoleOf(d)] = None]
      <3>1. Puts(owner, owner', Roles, RoleOf(d), None)
        BY <2>0, <2>5 DEF Puts, DeliveryOK, Owners
      <3>2. Known'
        BY <1>0, <2>0, <2>1, <2>2, <2>5, <2>7, <3>1, KnownWithout
      <3>3. Quieter
        BY <1>0, <2>1, <2>2, <2>3, <3>1 DEF Quieter, Shrinks, Puts
      <3> QED
        BY <3>2, <3>3, QuietKeeps
    <2> QED
      BY <1>10, <2>4, <2>5, <2>8 DEF Discarded
  <1>11. CASE Others /\ Quieter /\ UNCHANGED owner
    <2>1. Known'
      BY <1>0, <1>11, KnownStays DEF Quieter
    <2> QED
      BY <1>11, <2>1, QuietKeeps
  <1> QED
    BY <1>1, <1>2, <1>3, <1>4, <1>5, <1>6, <1>7, <1>8, <1>9, <1>10, <1>11, MovesStep, QuietOthers DEF Moves

\* The second adapter stays idle
LEMMA SingleStep == Inv /\ [Next]_vars => Single'
  <1> SUFFICES ASSUME AdapterOK, Single, [Next]_vars, shared PROVE Single'
    BY SharedStays DEF Inv, TypeOK, Single
  <1>1. ASSUME NEW d \in Deliveries, Review(d) PROVE Single'
    <2>1. UNCHANGED operation \/ operation' = [operation EXCEPT ![AdapterOf(job.role)] = Resume(d)]
      BY <1>1 DEF Review, Begin, Resumes, Resume
    <2>2. AdapterOf(job.role) = "chatgpt"
      BY OneAdapter
    <2> QED
      BY <2>1, <2>2 DEF AdapterOK, Providers, Single
  <1>2. ASSUME NEW d \in Deliveries, Submitted(d) PROVE Single'
    <2>1. operation' = [operation EXCEPT ![AdapterOf(RoleOf(d))] = Idle]
      BY <1>2 DEF Submitted, End
    <2> QED
      BY <2>1, Adapters DEF AdapterOK, Providers, Single
  <1>3. ASSUME NEW d \in Deliveries, SubmitFails(d) PROVE Single'
    <2>1. operation' = [operation EXCEPT ![AdapterOf(RoleOf(d))] = Idle]
      BY <1>3 DEF SubmitFails, End
    <2> QED
      BY <2>1, Adapters DEF AdapterOK, Providers, Single
  <1>4. ASSUME NEW d \in Deliveries, ResumeFails(d) PROVE Single'
    <2>1. operation' = [operation EXCEPT ![AdapterOf(RoleOf(d))] = Idle]
      BY <1>4 DEF ResumeFails, End
    <2> QED
      BY <2>1, Adapters DEF AdapterOK, Providers, Single
  <1>5. ASSUME NEW d \in Deliveries, PageAnswers(d) PROVE Single'
    BY <1>5 DEF PageAnswers, record, adapter, Single, AdapterOK, Providers
  <1>6. ASSUME NEW d \in Deliveries, Answered(d) PROVE Single'
    BY <1>6 DEF Answered, GivesUp, SetStatus, JobFails, NoJob, RoleOf, record, adapter, Single, AdapterOK, Providers
  <1>7. ASSUME NEW d \in Deliveries, NoAnswer(d) PROVE Single'
    BY <1>7 DEF NoAnswer, GivesUp, SetStatus, JobFails, NoJob, RoleOf, record, adapter, Single, AdapterOK, Providers
  <1>8. ASSUME NEW d \in Deliveries, Acknowledged(d) PROVE Single'
    BY <1>8 DEF Acknowledged, CanAcknowledge, AckedSlot, Settles, GivesUp, SetStatus, JobFails, NoJob, RoleOf,
       record, adapter, Single, AdapterOK, Providers
  <1>9. ASSUME NEW d \in Deliveries, AckFails(d) PROVE Single'
    BY <1>9 DEF AckFails, CanAcknowledge, AckedSlot, GivesUp, SetStatus, JobFails, NoJob, RoleOf, record,
       adapter, Single, AdapterOK, Providers
  <1>10. ASSUME NEW d \in Deliveries, Delivered(d) PROVE Single'
    BY <1>10 DEF Delivered, SetStatus, RoleOf, record, adapter, Single, AdapterOK, Providers
  <1>11. ASSUME NEW d \in Deliveries, Reviewed(d) PROVE Single'
    BY <1>11 DEF Reviewed, SetStatus, JobFails, JobEnds, NoJob, Reported, RepairsExhausted, RoleOf, record,
       adapter, Single, AdapterOK, Providers
  <1>12. ASSUME NEW d \in Deliveries, DiscardTalk(d) PROVE Single'
    <2>1. operation' = [operation EXCEPT ![AdapterOf(RoleOf(d))] = [kind |-> "TALK_DISCARD", for |-> d]]
      BY <1>12 DEF DiscardTalk, Begin, Resumes, Resume
    <2>2. AdapterOf(RoleOf(d)) = "chatgpt"
      BY OneAdapter
    <2> QED
      BY <2>1, <2>2 DEF AdapterOK, Providers, Single
  <1>13. ASSUME NEW d \in Deliveries, InspectToDiscard(d) PROVE Single'
    BY <1>13 DEF InspectToDiscard, NoOperator, Matched, OtherActive, RoleOf, record, adapter, Single, AdapterOK,
       Providers
  <1>14. ASSUME NEW d \in Deliveries, Acknowledge(d) PROVE Single'
    <2>1. UNCHANGED operation \/ operation' = [operation EXCEPT ![AdapterOf(RoleOf(d))] = Resume(d)]
      BY <1>14 DEF Acknowledge, Begin, Resumes, Resume
    <2>2. AdapterOf(RoleOf(d)) = "chatgpt"
      BY OneAdapter
    <2> QED
      BY <2>1, <2>2 DEF AdapterOK, Providers, Single
  <1>15. ASSUME NEW d \in Deliveries, DiscardOrphan(d) PROVE Single'
    BY <1>15 DEF DiscardOrphan, DiscardedSlot, RoleOf, record, adapter, Single, AdapterOK, Providers
  <1>16. ASSUME NEW d \in Deliveries, NEW role \in Roles, Discuss(d, role) PROVE Single'
    <2>1. UNCHANGED operation \/ operation' = [operation EXCEPT ![AdapterOf(role)] = Resume(d)]
      BY <1>16 DEF Discuss, Begin, Resumes, Resume
    <2>2. AdapterOf(role) = "chatgpt"
      BY OneAdapter
    <2> QED
      BY <2>1, <2>2 DEF AdapterOK, Providers, Single
  <1>17. ASSUME NEW p \in Providers, ExtensionBinds(p) PROVE Single'
    BY <1>17 DEF ExtensionBinds, RoleOf, record, adapter, Single, AdapterOK, Providers
  <1>18. ASSUME NEW p \in Providers, AdapterGivesUp(p) PROVE Single'
    <2>1. UNCHANGED operation \/ operation' = [operation EXCEPT ![p] = Idle]
      BY <1>18 DEF AdapterGivesUp, End
    <2> QED
      BY <2>1 DEF AdapterOK, Providers, Single
  <1>19. ASSUME NEW p \in Providers, TalkDiscarded(p) PROVE Single'
    <2>1. operation' = [operation EXCEPT ![p] = Idle]
      BY <1>19 DEF TalkDiscarded, End
    <2> QED
      BY <2>1, Adapters DEF AdapterOK, Providers, Single
  <1>20. ASSUME NEW role \in Roles, Rebind(role) PROVE Single'
    <2>1. operation' = [operation EXCEPT ![AdapterOf(role)] = [kind |-> "REBIND", for |-> role]]
      BY <1>20 DEF Rebind, Begin, Resumes, Resume
    <2>2. AdapterOf(role) = "chatgpt"
      BY OneAdapter
    <2> QED
      BY <2>1, <2>2 DEF AdapterOK, Providers, Single
  <1>21. CASE Restored
    BY <1>21 DEF Restored, Reported, JobEnds, NoJob, record, adapter, Single, AdapterOK, Providers
  <1>22. CASE StoppedJobEnds
    BY <1>22 DEF StoppedJobEnds, JobFails, NoJob, record, adapter, Single, AdapterOK, Providers
  <1>23. CASE JobIsAborted
    BY <1>23 DEF JobIsAborted, JobFails, NoJob, NoOwner, record, adapter, Single, AdapterOK, Providers
  <1>24. CASE Retry
    BY <1>24 DEF Retry, CanResume, record, adapter, Single, AdapterOK, Providers
  <1>25. CASE Rebound
    <2>1. operation' = [operation EXCEPT ![AdapterOf(rebinding.role)] = Idle]
      BY <1>25 DEF Rebound, End
    <2> QED
      BY <2>1, Adapters DEF AdapterOK, Providers, Single
  <1>26. CASE Discard
    <2>1. UNCHANGED operation \/ operation' = [operation EXCEPT !["chatgpt"] = [kind |-> "DISCARD", for |-> operator.for]]
      BY <1>26 DEF Discard, Begin
    <2> QED
      BY <2>1 DEF AdapterOK, Providers, Single
  <1>27. CASE Discarded
    <2>1. operation' = [operation EXCEPT !["chatgpt"] = Idle]
      BY <1>27 DEF Discarded, End
    <2> QED
      BY <2>1, Adapters DEF AdapterOK, Providers, Single
  <1>28. CASE DiscardFails
    <2>1. operation' = [operation EXCEPT !["chatgpt"] = Idle]
      BY <1>28 DEF DiscardFails, End
    <2> QED
      BY <2>1, Adapters DEF AdapterOK, Providers, Single
  <1>29. CASE AckResumed
    <2>1. operation' = [operation EXCEPT ![AdapterOf(RoleOf(operator.for))] = Idle]
      BY <1>29 DEF AckResumed, End
    <2> QED
      BY <2>1, Adapters DEF AdapterOK, Providers, Single
  <1>30. CASE AckRecovered
    BY <1>30 DEF AckRecovered, NoOperator, CanAcknowledge, AckedSlot, Settles, Forget, RoleOf, record, adapter,
       Single, AdapterOK, Providers
  <1>31. CASE AckNotRecovered
    BY <1>31 DEF AckNotRecovered, NoOperator, CanAcknowledge, AckedSlot, RoleOf, record, adapter, Single,
       AdapterOK, Providers
  <1>32. CASE Crash
    BY <1>32 DEF Crash, RecoverReviews, ProcessedWith, SetStatus, NoJob, NoOwner, NoRebind, NoOperator, Idle,
       record, adapter, Single, AdapterOK, Providers
  <1>33. CASE UNCHANGED vars
    BY <1>33 DEF vars, record, adapter, Single, AdapterOK, Providers
  <1> QED
    BY <1>1, <1>2, <1>3, <1>4, <1>5, <1>6, <1>7, <1>8, <1>9, <1>10, <1>11, <1>12, <1>13, <1>14, <1>15, <1>16,
       <1>17, <1>18, <1>19, <1>20, <1>21, <1>22, <1>23, <1>24, <1>25, <1>26, <1>27, <1>28, <1>29, <1>30, <1>31,
       <1>32, <1>33 DEF Next

\* The inductive invariant: at first, and after every step
LEMMA InvInit == Init => Inv
  <1> SUFFICES ASSUME Init PROVE Inv
    OBVIOUS
  <1>1. RunOK
    <2>1. job \in [role : Roles \cup {None}, repairs : 0 .. MaxRepairs]
      BY DeliveryAssumption DEF Init, Roles
    <2>2. recovery \in [status : Recoveries \cup {None}, ids : SUBSET Deliveries]
      BY DEF Init, NoRecovery
    <2> QED
      BY <2>1, <2>2 DEF Init, RunOK
  <1>2. DeliveryOK
    BY NoOwnerOK DEF Init, DeliveryOK, NoDelivery, Records
  <1>3. AdapterOK
    BY NoOwnerOK, DeliveryAssumption DEF Init, AdapterOK, NoRebind, NoOperator, Idle, Operators, Operations
  <1>4. Named
    BY DEF Init, Named, NoDelivery, Idle, NoOperator, NoRebind
  <1>5. Receipted
    BY NoneAssumption DEF Init, Receipted, Stored, NoDelivery, NoOperator, Waits, Steps, Slots
  <1>6. Locked
    BY NoneAssumption DEF Init, Locked, Waiting, NoOperator, NoRebind, Waits, Steps
  <1>7. Covered
    <2>1. Used = {}
      BY DEF Init, Used, NoDelivery
    <2>2. rebinding.role \notin Roles
      BY NoneAssumption DEF Init, NoRebind
    <2>3. \A d \in Deliveries : thread[d] # "resuming"
      BY NoneAssumption DEF Init, Waits
    <2>4. operation["chatgpt"].kind = "NONE"
      BY DEF Init, Idle, Providers
    <2> QED
      BY <2>1, <2>2, <2>3, <2>4 DEF Covered, Known
  <1>8. Single
    BY DEF Init, Single, Providers
  <1> QED
    BY <1>1, <1>2, <1>3, <1>4, <1>5, <1>6, <1>7, <1>8 DEF Inv, TypeOK

\* Every part of it is kept
LEMMA InvStep == Inv /\ [Next]_vars => Inv'
  BY RunStep, DeliveryStep, AdapterStep, NamedStep, ReceiptedStep, LockedStep, CoveredStep, SingleStep DEF Inv, TypeOK

\* The inductive invariant holds of every reachable state
THEOREM Invariant == Spec => []Inv
  <1>1. Init => Inv
    BY InvInit
  <1>2. Inv /\ [Next]_vars => Inv'
    BY InvStep
  <1> QED
    BY <1>1, <1>2, PTL DEF Spec

\* A response is in the store before the extension may forget it, and once it is stored no
\* discard takes it away: persistWebDeliveryReceipt comes before every acknowledgement, and
\* the checks of the two discarding commands survive the awaits that follow them
THEOREM NoneIsLost == Spec => []ResponsesAreSafe
  <1>1. Inv => ResponsesAreSafe
    BY NoneAssumption DEF Inv, Receipted, Stored, ResponsesAreSafe, StoredBeforeAcknowledged, StoredIsNeverDiscarded,
                         Used, Receipts
  <1> QED
    BY <1>1, Invariant, PTL

\* With one adapter a prompt the extension still holds is its role's activeDeliveryId,
\* although several commands write back bindings they read before an await
THEOREM NoneIsForgotten == Spec => []UnresolvedIsOwned
  <1>1. Inv => UnresolvedIsOwned
    BY DEF Inv, Covered, Known, UnresolvedIsOwned
  <1> QED
    BY <1>1, Invariant, PTL

\* Only the submit that ends a coroutine's own resume makes it wait for an answer
LEMMA Asks ==
  ASSUME Inv, [Next]_vars, NEW d \in Deliveries, thread'[d] = "answering", thread[d] # "answering" PROVE Prompts(d)
  <1> USE NoneAssumption
  <1>0. RunOK /\ DeliveryOK /\ AdapterOK /\ Named /\ Receipted /\ Locked /\ Covered
    BY DEF Inv, TypeOK
  <1>1. ~NoneResumes
    BY DEF NoneResumes
  <1>2. thread' # thread /\ ~Crash
    BY DEF Crash, Waits
  <1>3. ~Others
    <2>1. /\ \A e \in Deliveries : ~DiscardTalk(e)
          /\ \A role \in Roles : ~Rebind(role)
          /\ ~Rebound /\ ~Discarded
          /\ \A p \in Providers : ~TalkDiscarded(p)
      BY <1>2 DEF DiscardTalk, Rebind, Rebound, Discarded, TalkDiscarded
    <2> QED
      BY <1>0, <1>1, <1>2, <2>1, QuietOthers DEF Quieter
  <1>4. ASSUME NEW e \in Deliveries, NEW role \in Roles PROVE ~Begins(e, role)
    BY <1>2 DEF Begins, Puts
  <1>5. ASSUME NEW e \in Deliveries, Prompts(e) PROVE Prompts(d)
    BY <1>5 DEF Prompts
  <1> QED
    BY <1>0, <1>1, <1>3, <1>4, <1>5, MovesStep DEF Moves, Calm, Releases

\* What is asked for is asked for in a conversation without an unresolved delivery
LEMMA AsksSettled ==
  ASSUME Inv, [Next]_vars, shared, NEW d \in Used, thread'[d] = "answering", thread[d] # "answering",
         NEW e \in Used \ {d}, RoleOf(e) = RoleOf(d)
  PROVE  ~Unsettled(e)
  <1>1. d \in Deliveries /\ e \in Deliveries
    BY DEF Used
  <1>2. thread[d] = "resuming"
    BY <1>1, Asks DEF Prompts
  <1>3. snapshot[d][RoleOf(d)] = None /\ Restores(d)
    BY <1>1, <1>2 DEF Inv, Covered
  <1> QED
    BY <1>1, <1>3, NoneAssumption DEF Restores

\* What is released is settled
LEMMA ReleasesSettled ==
  ASSUME Inv, [Next]_vars, shared, NEW d \in Used, owner[RoleOf(d)] = d, owner'[RoleOf(d)] # d
  PROVE  delivery'[d].receipt = "ACKNOWLEDGED" \/ slot'[d] = "discarded"
  <1> USE NoneAssumption
  <1>0. RunOK /\ DeliveryOK /\ AdapterOK /\ Named /\ Receipted /\ Locked /\ Covered /\ Single
    BY DEF Inv, TypeOK
  <1>1. d \in Deliveries /\ RoleOf(d) \in Roles /\ d # None
    BY <1>0 DEF Used, Named, RoleOf
  <1>2. owner' # owner
    OBVIOUS
  <1>3. ASSUME NEW x \in Deliveries PROVE ~Prompts(x)
    <2> SUFFICES ASSUME Prompts(x) PROVE FALSE
      OBVIOUS
    <2>1. snapshot[x][RoleOf(x)] = None /\ Restores(x) /\ snapshot[x] \in Owners
      BY <1>0 DEF Prompts, Covered, DeliveryOK
    <2>2. snapshot[x][RoleOf(d)] = d
      BY <1>1, <2>1 DEF Restores
    <2>3. RoleOf(d) # RoleOf(x)
      BY <1>1, <2>1, <2>2
    <2>4. Reserved(x)[RoleOf(d)] = d
      BY <1>1, <2>1, <2>2, <2>3 DEF Reserved, Owners
    <2> QED
      BY <1>2, <2>2, <2>4 DEF Prompts
  <1>4. ASSUME NEW x \in Deliveries, Releases(x) PROVE delivery'[d].receipt = "ACKNOWLEDGED"
    BY <1>1, <1>4 DEF Releases, Puts
  <1>5. ~Rebound
    <2> SUFFICES ASSUME Rebound PROVE FALSE
      OBVIOUS
    <2>1. rebinding.role \in Roles /\ owner' \in {owner, rebinding.owner}
      BY <1>0 DEF Rebound, Named
    <2>2. owner[RoleOf(d)] \in {None, rebinding.owner[RoleOf(d)]}
      BY <1>0, <1>1, <2>1 DEF Covered, RebindRestores
    <2> QED
      BY <1>1, <2>1, <2>2
  <1>6. ASSUME Discarded PROVE slot'[d] = "discarded"
    <2>1. PICK x \in Deliveries : x = operator.for /\ x \in Used
      BY <1>0, <1>6 DEF Discarded, Named, Used, Steps
    <2>2. owner[RoleOf(x)] = x /\ owner' = [owner EXCEPT ![RoleOf(x)] = None] /\ slot' = [slot EXCEPT ![x] = "discarded"]
      BY <1>2, <1>6, <2>1 DEF Discarded, DiscardedSlot
    <2>3. x = d
      BY <1>0, <1>1, <2>2 DEF DeliveryOK, Owners
    <2> QED
      BY <1>0, <1>1, <2>2, <2>3 DEF DeliveryOK
  <1>7. ASSUME NEW p \in Providers, TalkDiscarded(p) PROVE slot'[d] = "discarded"
    <2>1. PICK x \in Deliveries : x = operation[p].for /\ x \in Used
      BY <1>0, <1>7 DEF TalkDiscarded, Named, Used
    <2>2. owner' = [owner EXCEPT ![RoleOf(x)] = None] /\ slot' = [slot EXCEPT ![x] = "discarded"]
      BY <1>2, <1>7, <2>1 DEF TalkDiscarded, DiscardedSlot
    <2>3. p = "chatgpt"
      BY <1>0, <1>7 DEF TalkDiscarded, Single, Providers, Idle
    <2>4. operation["chatgpt"] = [kind |-> "TALK_DISCARD", for |-> x]
      BY <1>0, <1>7, <2>1, <2>3 DEF TalkDiscarded, AdapterOK, Operations
    <2>5. owner[RoleOf(x)] \in {None, x}
      BY <1>0, <2>4 DEF Covered
    <2>6. x = d
      BY <1>0, <1>1, <2>2, <2>5 DEF DeliveryOK, Owners
    <2> QED
      BY <1>0, <1>1, <2>2, <2>6 DEF DeliveryOK
  <1>8. CASE Others
    <2>1. /\ \A e \in Deliveries : ~DiscardTalk(e)
          /\ \A role \in Roles : ~Rebind(role)
          /\ ~Crash
      BY <1>2 DEF DiscardTalk, Rebind, Crash, record
    <2> QED
      BY <1>0, <1>2, <1>5, <1>6, <1>7, <1>8, <2>1, QuietOthers
  <1> QED
    BY <1>0, <1>2, <1>3, <1>4, <1>8, MovesStep DEF Moves, Calm, Begins

\* With one adapter a conversation is asked for something new only when the extension holds
\* nothing unresolved of it, and an activeDeliveryId disappears only with an acknowledged
\* response or a discarded prompt: no stale copy of the bindings gives one up
THEOREM NothingIsReopened == Spec => OnlyWhenSettled
  <1>1. Inv /\ [Next]_vars => [shared => \A d \in Deliveries :
          (d \in Used /\ thread'[d] = "answering" /\ thread[d] # "answering") =>
              \A e \in Used \ {d} : RoleOf(e) = RoleOf(d) => ~Unsettled(e)]_vars
    BY AsksSettled
  <1>2. Inv /\ [Next]_vars => [shared => \A d \in Used :
          (owner[RoleOf(d)] = d /\ owner'[RoleOf(d)] # d) =>
              \/ delivery'[d].receipt = "ACKNOWLEDGED"
              \/ slot'[d] = "discarded"]_vars
    BY ReleasesSettled
  <1> QED
    BY <1>1, <1>2, Invariant, PTL DEF Spec, OnlyWhenSettled, AsksOnlyWhenSettled, ReleasedOnlyWhenSettled
=============================================================================
