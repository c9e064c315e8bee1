----------------------------- MODULE Discussion -----------------------------
(***************************************************************************)
(* A DISCUSSION run: the two agents, Codex and the ChatGPT web session,    *)
(* exchange packets turn by turn until both accept one proposal, the turns *)
(* run out, an answer cannot be repaired, a person is needed, or the user  *)
(* stops the run.                                                          *)
(*                                                                         *)
(* DiscussionController (src/orchestration/discussion-controller.js) is    *)
(* the only writer of the stored run; every one of its methods is one      *)
(* SQLite transaction, so one action.  DiscussionOutboxDispatcher takes    *)
(* the one PENDING delivery, gives its prompt to the agent's session and   *)
(* stores the answer; it awaits three times (submission, answer,           *)
(* acknowledgement), and the user's commands, the provider's events and a  *)
(* crash come in between.  Versions are not modelled: every caller reads   *)
(* the version it passes in the same synchronous step.                     *)
(*                                                                         *)
(* The last part restates the checks SqliteStore makes over the whole      *)
(* store each time it is opened (src/persistence/*-links.js).  A run that  *)
(* failed one of them could never be opened again.                         *)
(***************************************************************************)
EXTENDS Integers, Sequences, FiniteSets

CONSTANTS
    Refs,         \* the proposals the agents may write, by content
    OpenRefs,     \* those that leave decisions open
    MaxTurns,     \* run.maxTurns
    MaxCrashes    \* how often the server may crash

ASSUME RefsAssumption == OpenRefs \subseteq Refs /\ 0 \notin Refs
ASSUME TurnsAssumption == MaxTurns \in Nat /\ MaxTurns >= 2

MaxProtocolRepairs == 1
MaxConsecutiveActorFailures == 2

CODEX == "CODEX_AGENT"
WEB == "CHATGPT_WEB_AGENT"
Actors == {CODEX, WEB}
OtherActor(a) == IF a = CODEX THEN WEB ELSE CODEX

VARIABLES
    run,         \* the stored AgentRun: phase, turn, paused, blocker
    deliveries,  \* delivery_attempts, each with the agent_turn_inputs row it carries
    messages,    \* agent_messages with their packets
    proposals,   \* proposal_artifacts: content and source message
    sessions,    \* agent_sessions: status, active turn, version
    limits,      \* run_limits: repairs used, consecutive failures
    outcome,     \* run_outcomes: the run's outcome, or "NONE"
    approval,    \* approvals: "NONE" or "PENDING"
    events,      \* domain_events, those the checks on open read
    job,         \* where the dashboard's job for the run stands
    tracker,     \* the dispatcher's armed turn
    live,        \* the composition holds runtime sessions for the run
    command,     \* a command awaiting a session: "NONE", "PROVISION", "RESTORE"
    failed,      \* DashboardController.#errors has the run
    asked,       \* how often each delivery's prompt was given to a session
    crashes

stored == << run, deliveries, messages, proposals, sessions, limits, outcome,
             approval, events >>
memory == << job, tracker, live, command, failed >>
vars == << stored, memory, asked, crashes >>

-----------------------------------------------------------------------------
(* The run state machine.                                                  *)

TerminalPhases == {"COMPLETE", "FAILED", "CANCELLED"}
Terminal == run.phase \in TerminalPhases

RunningPhase == [a \in Actors |->
    IF a = CODEX THEN "CODEX_TURN_RUNNING" ELSE "WEB_TURN_RUNNING"]
StoredPhase == [a \in Actors |->
    IF a = CODEX THEN "CODEX_RESPONSE_STORED" ELSE "WEB_RESPONSE_STORED"]
PeerPending == [a \in Actors |->
    IF a = CODEX THEN "CODEX_TO_WEB_PENDING" ELSE "WEB_TO_CODEX_PENDING"]
PendingPhases == [a \in Actors |->
    IF a = CODEX THEN {"CODEX_TURN_PENDING", "WEB_TO_CODEX_PENDING"}
                 ELSE {"CODEX_TO_WEB_PENDING"}]

Phases == {"CREATED", "CODEX_TURN_PENDING", "HUMAN_GATE"} \cup TerminalPhases
            \cup {f[a] : f \in {RunningPhase, StoredPhase, PeerPending}, a \in Actors}

(* A turn already claimed may start while the run is paused, never while   *)
(* it is blocked, and only where its input's kind belongs.                 *)
MayStart(d) ==
    /\ run.phase \in IF d.kind = "PROTOCOL_REPAIR"
                     THEN {StoredPhase[d.target]} ELSE PendingPhases[d.target]
    /\ run.blocker = "NONE"
    /\ run.turn < MaxTurns

(* Mutant: a repair is no turn. *)
StoredFreeRepair(phase, blocker) ==
    [run EXCEPT !.phase = phase, !.blocker = blocker,
                !.turn = IF phase \in {StoredPhase[a] : a \in Actors} THEN @ ELSE @ + 1]

(* transitionRunState of an answer: the turn is counted when it is stored. *)
Stored(phase, blocker) ==
    [run EXCEPT !.phase = phase, !.blocker = blocker, !.turn = @ + 1]

-----------------------------------------------------------------------------
(* Deliveries, the inputs they carry and what those inputs allow.          *)

NoReceipt == [turn |-> 0, version |-> 0]
NewDelivery(target, kind, source, ref, rejects) ==
    [target |-> target, kind |-> kind, source |-> source, ref |-> ref,
     rejects |-> rejects, state |-> "PENDING", attempts |-> 0,
     receipt |-> NoReceipt]

Settled(d) == d.state \in {"RESPONSE_COMPLETED", "RELAYED"}
Uncertain(d) == d.state \in {"DISPATCHING", "SUBMITTED", "RESPONSE_STARTED"}
Dispatchable == {i \in DOMAIN deliveries : deliveries[i].state = "PENDING"}

(* The input whose meaning an answer has: a repair answers the rejected one. *)
Semantic(d) == IF d.kind = "PROTOCOL_REPAIR" THEN deliveries[d.rejects] ELSE d

IsProposal(m) == m.kind \in {"PROPOSAL", "REVISION"}

AllowedPacketTypes(d) ==
    IF Semantic(d).kind = "INITIAL_OBJECTIVE" THEN {"PROPOSAL", "BLOCKED"}
    ELSE CASE messages[Semantic(d).source].kind = "CRITIQUE" ->
                {"PROPOSAL", "BLOCKED"}
           [] OTHER -> {"CRITIQUE", "ACCEPT", "BLOCKED"}

(* The proposal a critique or an acceptance has to name; 0 when there is none. *)
ResponseReference(d) ==
    LET input == Semantic(d) IN
    IF input.source = 0 THEN 0
    ELSE IF IsProposal(messages[input.source]) THEN input.ref
    ELSE messages[input.source].ref

PacketRejected(d, packet) ==
    \/ packet.type \notin AllowedPacketTypes(d)
    \/ packet.type \in {"CRITIQUE", "ACCEPT"} /\ packet.ref # ResponseReference(d)

Packets ==
    [type : {"PROPOSAL", "CRITIQUE"}, ref : Refs, findings : {FALSE}]
        \cup [type : {"ACCEPT"}, ref : Refs, findings : BOOLEAN]
        \cup [type : {"BLOCKED", "MALFORMED"}, ref : {0}, findings : {FALSE}]

MessageKind(d, packet) ==
    CASE packet.type = "PROPOSAL" ->
            IF Semantic(d).kind = "INITIAL_OBJECTIVE" THEN "PROPOSAL" ELSE "REVISION"
      [] packet.type = "CRITIQUE" -> "CRITIQUE"
      [] packet.type = "ACCEPT" -> "ACCEPTANCE"
      [] packet.type = "BLOCKED" -> "BLOCKER"

(* Mutant: the acceptance of the peer's last proposal is enough. *)
ConsensusOfOne(msgs, arts) ==
    LET last == msgs[Len(msgs)] IN
    IF last.kind = "ACCEPTANCE" /\ ~last.findings /\ last.ref \notin OpenRefs
    THEN last.ref ELSE 0

(* evaluateConsensus: the latest message of each agent accepts the same    *)
(* stored proposal, which leaves no decision open.  0 when there is none.  *)
Consensus(msgs, arts) ==
    LET of(a) == {i \in DOMAIN msgs : msgs[i].actor = a}
        latest(a) == msgs[CHOOSE i \in of(a) : \A j \in of(a) : j <= i]
        accepts(a) == /\ of(a) # {}
                      /\ latest(a).kind = "ACCEPTANCE"
                      /\ ~latest(a).findings
    IN  IF /\ accepts(CODEX) /\ accepts(WEB)
           /\ latest(CODEX).ref = latest(WEB).ref
           /\ \E p \in arts : p.ref = latest(CODEX).ref
           /\ latest(CODEX).ref \notin OpenRefs
        THEN latest(CODEX).ref ELSE 0

(* rematerializeDiscussionPrompt: the prompt of a relayed proposal is      *)
(* rebuilt from the artifact whose source is the relayed message itself.   *)
CanRematerialize(d) ==
    d.kind = "PEER_RELAY" /\ IsProposal(messages[d.source]) =>
        \E p \in proposals : p.source = d.source /\ p.ref = messages[d.source].ref

-----------------------------------------------------------------------------
NoTurn == [delivery |-> 0, started |-> FALSE, resolved |-> FALSE,
           text |-> FALSE, done |-> FALSE]

Outcome(type) == [type |-> type, ref |-> 0]

(* The run, its two session rows and the ready web session were written in *)
(* one transaction; provisionRun now awaits the Codex session.             *)
Init ==
    /\ run = [phase |-> "CREATED", turn |-> 0, paused |-> FALSE, blocker |-> "NONE"]
    /\ deliveries = << >> /\ messages = << >> /\ proposals = {}
    /\ sessions = [a \in Actors |->
            [status |-> IF a = WEB THEN "READY" ELSE "CREATING", turn |-> 0,
             version |-> IF a = WEB THEN 2 ELSE 1]]
    /\ limits = [repairs |-> 0, failures |-> 0]
    /\ outcome = Outcome("NONE") /\ approval = "NONE" /\ events = << >>
    /\ job = "NONE" /\ tracker = NoTurn /\ live = FALSE
    /\ command = "PROVISION" /\ failed = FALSE
    /\ asked = << >> /\ crashes = 0

(* markReady: the session row is written again with the next version.      *)
Ready(s) == [s EXCEPT !.status = "READY", !.version = @ + 1]

QueueEvent(i, phase) == [type |-> "AGENT_TURN_QUEUED", delivery |-> i,
                         phase |-> phase, blocker |-> run.blocker]

-----------------------------------------------------------------------------
(* Provisioning, restoring and the commands of the dashboard.              *)

(* codex.start() resolved: the session is ready, DiscussionController.start *)
(* queues the objective, and the dashboard launches the job.               *)
ProvisionCompletes ==
    /\ command = "PROVISION"
    /\ command' = "NONE"
    /\ sessions' = [sessions EXCEPT ![CODEX] = Ready(@)]
    /\ run' = [run EXCEPT !.phase = "CODEX_TURN_PENDING"]
    /\ deliveries' = << NewDelivery(CODEX, "INITIAL_OBJECTIVE", 0, 0, 0) >>
    /\ asked' = << 0 >>
    /\ events' = Append(events, QueueEvent(1, "CODEX_TURN_PENDING"))
    /\ live' = TRUE
    /\ job' = "LOOP"
    /\ UNCHANGED << messages, proposals, limits, outcome, approval, tracker,
                    failed, crashes >>

ProvisionFails ==
    /\ command = "PROVISION"
    /\ command' = "NONE"
    /\ failed' = TRUE
    /\ UNCHANGED << stored, job, tracker, live, asked, crashes >>

(* run.resume of a run this server holds no sessions for: only unsent work *)
(* may be restored.                                                        *)
Restorable ==
    /\ run.blocker = "NONE"
    /\ Dispatchable # {}
    /\ \A i \in DOMAIN deliveries : ~Uncertain(deliveries[i])

Restore ==
    /\ command = "NONE" /\ ~live /\ ~failed /\ ~Terminal
    /\ Restorable
    /\ command' = "RESTORE"
    /\ UNCHANGED << stored, job, tracker, live, failed, asked, crashes >>

RestoreCompletes ==
    /\ command = "RESTORE"
    /\ command' = "NONE"
    /\ sessions' = [a \in Actors |-> Ready(sessions[a])]
    /\ live' = TRUE
    /\ run' = [run EXCEPT !.paused = FALSE]
    /\ job' = "LOOP"
    /\ UNCHANGED << deliveries, messages, proposals, limits, outcome, approval,
                    events, tracker, failed, asked, crashes >>

RestoreFails ==
    /\ command = "RESTORE"
    /\ command' = "NONE"
    /\ UNCHANGED << stored, job, tracker, live, failed, asked, crashes >>

(* run.resume of a live run: the job goes on, or a new one is launched.    *)
Resume ==
    /\ command = "NONE" /\ live /\ ~failed /\ ~Terminal
    /\ run' = [run EXCEPT !.paused = FALSE]
    /\ job' = IF job = "NONE" THEN "LOOP" ELSE job
    /\ UNCHANGED << deliveries, messages, proposals, sessions, limits, outcome,
                    approval, events, tracker, live, command, failed, asked,
                    crashes >>

Pause ==
    /\ command = "NONE" /\ ~Terminal /\ ~run.paused
    /\ run' = [run EXCEPT !.paused = TRUE]
    /\ UNCHANGED << deliveries, messages, proposals, sessions, limits, outcome,
                    approval, events, memory, asked, crashes >>

(* run.stop: refused while an approval is pending.  The interrupt it sends *)
(* is one of the reasons a turn may end without an answer.                 *)
Stop ==
    /\ command = "NONE" /\ ~Terminal
    /\ run.blocker # "RUNTIME_APPROVAL"
    /\ run' = [run EXCEPT !.phase = "CANCELLED", !.blocker = "NONE"]
    /\ outcome' = Outcome("CANCELLED")
    /\ events' = Append(events,
            [type |-> "RUN_COMPLETED", outcome |-> Outcome("CANCELLED"),
             phase |-> "CANCELLED", blocker |-> "NONE"])
    /\ UNCHANGED << deliveries, messages, proposals, sessions, limits, approval,
                    memory, asked, crashes >>

(* RunService.requestRuntimeApproval: the run is blocked from now on.      *)
RequestRuntimeApproval ==
    /\ command = "NONE" /\ ~Terminal
    /\ run.blocker = "NONE"
    /\ run' = [run EXCEPT !.blocker = "RUNTIME_APPROVAL"]
    /\ approval' = "PENDING"
    /\ events' = Append(events, [type |-> "RUNTIME_APPROVAL_REQUESTED",
                                 phase |-> run.phase, blocker |-> "RUNTIME_APPROVAL"])
    /\ UNCHANGED << deliveries, messages, proposals, sessions, limits, outcome,
                    memory, asked, crashes >>

Crash ==
    /\ crashes < MaxCrashes
    /\ crashes' = crashes + 1
    /\ job' = "NONE" /\ tracker' = NoTurn /\ live' = FALSE
    /\ command' = "NONE" /\ failed' = FALSE
    /\ UNCHANGED << stored, asked >>

-----------------------------------------------------------------------------
(* The dispatcher.                                                         *)

Active == tracker.delivery
Turn == deliveries[Active]

(* runUntilSettled returns: the run ended, is held, or has nothing to send. *)
LoopEnds ==
    /\ job = "LOOP"
    /\ Terminal \/ run.paused \/ run.blocker # "NONE" \/ Dispatchable = {}
    /\ job' = "NONE"
    /\ UNCHANGED << stored, tracker, live, command, failed, asked, crashes >>

TheOne(s) == CHOOSE i \in s : TRUE

(* dispatchNext up to its first await: the prompt is rebuilt, the session  *)
(* checked, the delivery claimed, the turn armed and the prompt handed to  *)
(* the agent's session.                                                    *)
MayDispatch ==
    /\ job = "LOOP"
    /\ ~Terminal /\ ~run.paused /\ run.blocker = "NONE"
    /\ Dispatchable # {}

SessionReady(a) == sessions[a].status \in {"READY", "WAITING"}

Dispatch ==
    /\ MayDispatch
    /\ LET i == TheOne(Dispatchable) d == deliveries[i] IN
        /\ CanRematerialize(d) /\ SessionReady(d.target) /\ MayStart(d)
        /\ deliveries' = [deliveries EXCEPT ![i].state = "DISPATCHING",
                                            ![i].attempts = @ + 1]
        /\ tracker' = [NoTurn EXCEPT !.delivery = i]
        /\ asked' = [asked EXCEPT ![i] = @ + 1]
    /\ job' = "SUBMITTING"
    /\ UNCHANGED << run, messages, proposals, sessions, limits, outcome,
                    approval, events, live, command, failed, crashes >>

(* Mutant: a delivery whose job failed is queued again. *)
JobFailsRequeued ==
    /\ job' = "NONE"
    /\ failed' = (failed \/ ~Terminal)
    /\ tracker' = NoTurn
    /\ deliveries' = IF Active # 0 /\ Turn.state = "DISPATCHING"
                     THEN [deliveries EXCEPT ![Active].state = "PENDING"]
                     ELSE deliveries
    /\ UNCHANGED << run, messages, proposals, sessions, limits, outcome,
                    approval, events, live, command, asked, crashes >>

(* An error leaves the delivery as it is and ends the job; the dashboard   *)
(* keeps it for a run that has not ended, and refuses to resume that run.  *)
JobFails ==
    /\ job' = "NONE"
    /\ failed' = (failed \/ ~Terminal)
    /\ tracker' = NoTurn
    /\ UNCHANGED << stored, live, command, asked, crashes >>

DispatchFails ==
    /\ MayDispatch
    /\ LET d == deliveries[TheOne(Dispatchable)] IN
        ~(CanRematerialize(d) /\ SessionReady(d.target) /\ MayStart(d))
    /\ JobFails

(* The session's events, in any order its promises allow.                  *)
TurnStarted ==
    /\ job = "SUBMITTING" /\ ~tracker.started
    /\ tracker' = [tracker EXCEPT !.started = TRUE]
    /\ UNCHANGED << stored, job, live, command, failed, asked, crashes >>

SubmitResolves ==
    /\ job = "SUBMITTING" /\ ~tracker.resolved
    /\ tracker' = [tracker EXCEPT !.resolved = TRUE]
    /\ UNCHANGED << stored, job, live, command, failed, asked, crashes >>

(* Mutant: the session's row alone says whose turn it is. *)
OwnsTurnOfSession ==
    /\ Turn.state \in {"SUBMITTED", "RESPONSE_STARTED"}
    /\ sessions[Turn.target].status = "RUNNING"
    /\ sessions[Turn.target].turn = Turn.receipt.turn

(* The stored turn is this one: the run is in its actor's running phase,   *)
(* the delivery awaits its response and the session runs the turn it was   *)
(* submitted with, one version on.                                         *)
OwnsTurn ==
    /\ run.phase = RunningPhase[Turn.target]
    /\ Turn.state \in {"SUBMITTED", "RESPONSE_STARTED"}
    /\ LET s == sessions[Turn.target] IN
        /\ s.status = "RUNNING" /\ s.turn = Turn.receipt.turn
        /\ s.version = Turn.receipt.version + 1

(* A first piece of text; it is persisted at once when the turn has been   *)
(* submitted, else when its handler is bound.                              *)
TextDelta ==
    /\ job \in {"SUBMITTING", "AWAITING"}
    /\ tracker.started /\ ~tracker.text /\ ~tracker.done
    /\ tracker' = [tracker EXCEPT !.text = TRUE]
    /\ deliveries' = IF job = "AWAITING" /\ OwnsTurn
                     THEN [deliveries EXCEPT ![Active].state = "RESPONSE_STARTED"]
                     ELSE deliveries
    /\ UNCHANGED << run, messages, proposals, sessions, limits, outcome,
                    approval, events, job, live, command, failed, asked, crashes >>

TurnCompletes ==
    /\ job \in {"SUBMITTING", "AWAITING"}
    /\ tracker.started /\ ~tracker.done
    /\ tracker' = [tracker EXCEPT !.done = TRUE]
    /\ UNCHANGED << stored, job, live, command, failed, asked, crashes >>

(* confirmTurn and markSubmitted: the turn is the session's, and the run   *)
(* starts it.                                                              *)
MarkSubmitted ==
    /\ job = "SUBMITTING" /\ tracker.started /\ tracker.resolved
    /\ Turn.state = "DISPATCHING"
    /\ SessionReady(Turn.target) /\ MayStart(Turn)
    /\ run' = [run EXCEPT !.phase = RunningPhase[Turn.target]]
    /\ deliveries' = [deliveries EXCEPT
            ![Active].state = IF tracker.text THEN "RESPONSE_STARTED" ELSE "SUBMITTED",
            ![Active].receipt = [turn |-> Active,
                                 version |-> sessions[Turn.target].version]]
    /\ sessions' = [sessions EXCEPT
            ![Turn.target] = [status |-> "RUNNING", turn |-> Active,
                              version |-> @.version + 1]]
    /\ events' = Append(events,
            [type |-> IF Turn.kind = "PROTOCOL_REPAIR"
                      THEN "PROTOCOL_REPAIR_TURN_STARTED" ELSE "AGENT_TURN_SUBMITTED",
             delivery |-> Active, turn |-> Active, attempt |-> Turn.attempts,
             phase |-> RunningPhase[Turn.target], blocker |-> run.blocker])
    /\ job' = "AWAITING"
    /\ UNCHANGED << messages, proposals, limits, outcome, approval, tracker,
                    live, command, failed, asked, crashes >>

MarkSubmittedFails ==
    /\ job = "SUBMITTING" /\ tracker.started /\ tracker.resolved
    /\ ~MayStart(Turn)
    /\ JobFails

(* Mutant: the submission has no timeout. *)
AnswerFails ==
    /\ job = "AWAITING"
    /\ JobFails

(* A refused submission, a failed, interrupted or disconnected turn, an    *)
(* approval it asked for, or one of the two timeouts.                      *)
TurnFails ==
    /\ job \in {"SUBMITTING", "AWAITING"}
    /\ JobFails

(* The session row and the delivery when an answer is stored.              *)
Waiting == [sessions EXCEPT ![Turn.target] =
                [status |-> "WAITING", turn |-> 0, version |-> @.version + 1]]
(* Mutant: only a relay queues the next turn. *)
QueuedRelay(state, ds, extra) ==
    [ds EXCEPT ![Active].state = state]
        \o (IF state = "RELAYED" THEN extra ELSE << >>)
Queued(state, ds, extra) ==
    [ds EXCEPT ![Active].state = state] \o extra

(* Only the web session is told that its answer is stored.                 *)
AfterAnswer == IF Turn.target = WEB THEN "ACKNOWLEDGING" ELSE "LOOP"

(* Mutant: a blocker does not hold an answer. *)
DispositionUnheld(planned) == planned
(* A blocker that was already there holds whatever would end the run.      *)
Disposition(planned) ==
    IF run.blocker # "NONE" /\ planned # "RELAY" THEN "HELD" ELSE planned

(* recordValidResponse: the message, its packet and its proposal are       *)
(* stored; the run completes on consensus or at the turn limit, waits for  *)
(* a person, is held by a blocker it already had, or relays the message.   *)
RecordValidResponse(packet) ==
    LET message == [actor |-> Turn.target, kind |-> MessageKind(Turn, packet),
                    ref |-> packet.ref, findings |-> packet.findings,
                    input |-> Active]
        msgs == Append(messages, message)
        reused == \E p \in proposals : p.ref = packet.ref
        arts == IF packet.type = "PROPOSAL" /\ ~reused
                THEN proposals \cup {[ref |-> packet.ref, source |-> Len(msgs)]}
                ELSE proposals
        agreed == Consensus(msgs, arts)
        planned == IF packet.type = "BLOCKED" THEN "BLOCKED"
                   ELSE IF agreed # 0 \/ run.turn + 1 >= MaxTurns THEN "COMPLETE"
                   ELSE "RELAY"
        disposition == Disposition(planned)
        next == CASE disposition = "RELAY" -> PeerPending[Turn.target]
                  [] disposition = "COMPLETE" -> "COMPLETE"
                  [] OTHER -> "HUMAN_GATE"
        blocker == IF disposition = "BLOCKED" THEN "USER_DECISION" ELSE run.blocker
        result == IF agreed # 0 THEN [type |-> "CONSENSUS", ref |-> agreed]
                  ELSE Outcome("INCONCLUSIVE")
        relay == NewDelivery(OtherActor(Turn.target), "PEER_RELAY", Len(msgs),
                             IF packet.type = "PROPOSAL" THEN packet.ref ELSE 0, 0)
        response == [type |-> "AGENT_RESPONSE_STORED", delivery |-> Active,
                     message |-> Len(msgs), disposition |-> disposition,
                     proposal |-> IF packet.type = "PROPOSAL" THEN packet.ref ELSE 0,
                     reused |-> reused,
                     next |-> IF disposition = "RELAY" THEN Len(deliveries) + 1 ELSE 0,
                     phase |-> StoredPhase[Turn.target], blocker |-> run.blocker]
        final == CASE disposition = "RELAY" -> QueueEvent(Len(deliveries) + 1, next)
                   [] disposition = "COMPLETE" ->
                        [type |-> "RUN_COMPLETED", outcome |-> result,
                         phase |-> next, blocker |-> "NONE"]
                   [] disposition = "HELD" ->
                        [type |-> "AGENT_RESPONSE_HELD_FOR_BLOCKER",
                         message |-> Len(msgs), planned |-> planned,
                         turn |-> run.turn + 1, phase |-> next, blocker |-> blocker]
                   [] disposition = "BLOCKED" ->
                        [type |-> "AGENT_RESPONSE_BLOCKED",
                         message |-> Len(msgs), phase |-> next, blocker |-> blocker]
    IN  /\ packet.type # "MALFORMED" /\ ~PacketRejected(Turn, packet)
        /\ run' = Stored(next, IF disposition = "COMPLETE" THEN "NONE" ELSE blocker)
        /\ deliveries' = IF disposition = "RELAY"
                         THEN Queued("RELAYED", deliveries, << relay >>)
                         ELSE Queued("RESPONSE_COMPLETED", deliveries, << >>)
        /\ asked' = IF disposition = "RELAY" THEN Append(asked, 0) ELSE asked
        /\ messages' = msgs
        /\ proposals' = arts
        /\ limits' = [limits EXCEPT !.failures = 0]
        /\ outcome' = IF disposition = "COMPLETE" THEN result ELSE outcome
        /\ events' = events \o << response, final >>

(* recordInvalidResponse: an answer that is not the packet asked for is a  *)
(* turn too; it is repaired once, ends the run, or is held by a blocker.   *)
RecordInvalidResponse(packet) ==
    LET lastTurn == run.turn + 1 >= MaxTurns
        exhausted == limits.repairs >= MaxProtocolRepairs
        atLimit == lastTurn /\ ~exhausted
        held == run.blocker # "NONE" /\ (atLimit \/ exhausted)
        repair == ~held /\ ~atLimit /\ ~exhausted
        next == CASE repair -> StoredPhase[Turn.target]
                  [] held -> "HUMAN_GATE"
                  [] ~held /\ atLimit -> "COMPLETE"
                  [] OTHER -> "FAILED"
        result == Outcome(IF exhausted THEN "FAILED" ELSE "INCONCLUSIVE")
        again == NewDelivery(Turn.target, "PROTOCOL_REPAIR", Turn.source, 0, Active)
        rejection == [type |-> "AGENT_PACKET_REJECTED", delivery |-> Active,
                      repairable |-> ~atLimit /\ ~exhausted,
                      repair |-> IF repair THEN Len(deliveries) + 1 ELSE 0,
                      phase |-> StoredPhase[Turn.target], blocker |-> run.blocker]
        final == IF repair THEN << >>
                 ELSE IF held
                 THEN << [type |-> "AGENT_INVALID_RESPONSE_HELD_FOR_BLOCKER",
                          phase |-> next, blocker |-> run.blocker] >>
                 ELSE << [type |-> "RUN_COMPLETED", outcome |-> result,
                          phase |-> next, blocker |-> "NONE"] >>
    IN  /\ packet.type = "MALFORMED" \/ PacketRejected(Turn, packet)
        /\ limits.failures < MaxConsecutiveActorFailures
        /\ run' = Stored(next, IF repair \/ held THEN run.blocker ELSE "NONE")
        /\ deliveries' = Queued("RESPONSE_COMPLETED", deliveries,
                                IF repair THEN << again >> ELSE << >>)
        /\ asked' = IF repair THEN Append(asked, 0) ELSE asked
        /\ limits' = [repairs |-> limits.repairs + (IF repair THEN 1 ELSE 0),
                      failures |-> limits.failures + 1]
        /\ outcome' = IF repair \/ held THEN outcome ELSE result
        /\ events' = events \o << rejection >> \o final
        /\ UNCHANGED << messages, proposals >>

RecordAnswer ==
    /\ job = "AWAITING" /\ tracker.done
    /\ OwnsTurn
    /\ \E packet \in Packets :
            RecordValidResponse(packet) \/ RecordInvalidResponse(packet)
    /\ sessions' = Waiting
    /\ tracker' = NoTurn
    /\ job' = AfterAnswer
    /\ UNCHANGED << approval, live, command, failed, crashes >>

RecordAnswerFails ==
    /\ job = "AWAITING" /\ tracker.done
    /\ ~OwnsTurn
    /\ JobFails

Acknowledged ==
    /\ job = "ACKNOWLEDGING"
    /\ job' = "LOOP"
    /\ UNCHANGED << stored, tracker, live, command, failed, asked, crashes >>

AcknowledgeFails ==
    /\ job = "ACKNOWLEDGING"
    /\ JobFails

Commands == Restore \/ Resume \/ Pause \/ Stop \/ RequestRuntimeApproval
Provider == \/ ProvisionCompletes \/ ProvisionFails
            \/ RestoreCompletes \/ RestoreFails
            \/ TurnStarted \/ SubmitResolves \/ TextDelta \/ TurnCompletes
Dispatcher == \/ LoopEnds \/ Dispatch \/ DispatchFails
              \/ MarkSubmitted \/ MarkSubmittedFails \/ TurnFails
              \/ RecordAnswer \/ RecordAnswerFails
              \/ Acknowledged \/ AcknowledgeFails

Next == Commands \/ Provider \/ Dispatcher \/ Crash

(* The job goes on by itself: its promises settle, at the latest when one  *)
(* of the timeouts passes.  Nothing makes a session answer, a command come *)
(* or a crash happen.                                                      *)
Spec == Init /\ [][Next]_vars /\ WF_vars(Dispatcher)

-----------------------------------------------------------------------------
(* The checks of the store when it is opened, each named for its verifier. *)
(* The state read is that of the event for the event's own clause, and the *)
(* current one for the rest.                                               *)

EventsOf(types) == {n \in DOMAIN events : events[n].type \in types}
Answers(i) == {n \in DOMAIN messages : messages[n].input = i}
Rejections(i) == {n \in EventsOf({"AGENT_PACKET_REJECTED"}) : events[n].delivery = i}
Unsettled == {i \in DOMAIN deliveries : ~Settled(deliveries[i])}
Awaited == {a \in Actors : run.phase \in PendingPhases[a]}

VerifyTurnQueue ==
    /\ \A n \in EventsOf({"AGENT_TURN_QUEUED"}) :
        LET d == deliveries[events[n].delivery] IN
            events[n].phase = CASE d.kind = "INITIAL_OBJECTIVE" -> "CODEX_TURN_PENDING"
                                [] d.kind = "PEER_RELAY" -> PeerPending[OtherActor(d.target)]
                                [] OTHER -> "NONE"
    /\ \A i \in DOMAIN deliveries : deliveries[i].kind # "PROTOCOL_REPAIR" =>
        Cardinality({n \in EventsOf({"AGENT_TURN_QUEUED"}) : events[n].delivery = i}) = 1
    /\ Awaited # {} =>
        /\ Cardinality(Unsettled) = 1
        /\ \A i \in Unsettled : deliveries[i].target \in Awaited
    /\ Terminal =>
        \A i \in DOMAIN deliveries :
            LET open == run.phase = "CANCELLED" /\ ~Settled(deliveries[i]) IN
            /\ Settled(deliveries[i]) \/ open
            /\ \/ open /\ Answers(i) = {} /\ Rejections(i) = {}
               \/ (Answers(i) = {}) # (Rejections(i) = {})

Submissions(i) ==
    {n \in EventsOf({"AGENT_TURN_SUBMITTED", "PROTOCOL_REPAIR_TURN_STARTED"}) :
        events[n].delivery = i}

(* Every receipt has the submission of its attempt; the turn in progress is *)
(* the one its session is bound to.                                         *)
VerifySubmissions ==
    \A i \in DOMAIN deliveries :
        LET d == deliveries[i] s == sessions[d.target] IN
        /\ \A n \in Submissions(i) :
            /\ events[n].phase = RunningPhase[d.target]
            /\ events[n].attempt <= d.attempts
            /\ (events[n].type = "PROTOCOL_REPAIR_TURN_STARTED") =
                    (d.kind = "PROTOCOL_REPAIR")
        /\ \A n, k \in Submissions(i) : n < k => events[n].attempt < events[k].attempt
        /\ IF d.receipt = NoReceipt
           THEN d.state \in {"PENDING", "DISPATCHING"}
           ELSE /\ d.state # "PENDING"
                /\ \E n \in Submissions(i) : /\ events[n].turn = d.receipt.turn
                                             /\ events[n].attempt = d.attempts
        /\ (/\ d.state \in {"SUBMITTED", "RESPONSE_STARTED"}
            /\ run.phase = RunningPhase[d.target])
           => /\ s.status = "RUNNING"
              /\ s.turn = d.receipt.turn
              /\ s.version = d.receipt.version + 1

VerifyResponses ==
    /\ \A n \in EventsOf({"AGENT_RESPONSE_STORED"}) :
        LET e == events[n] m == messages[e.message] d == deliveries[e.delivery] IN
        /\ e.phase = StoredPhase[m.actor]
        /\ m.input = e.delivery /\ m.actor = d.target
        /\ d.state = IF e.disposition = "RELAY" THEN "RELAYED" ELSE "RESPONSE_COMPLETED"
        /\ Submissions(e.delivery) # {}
        /\ (e.proposal # 0) = IsProposal(m)
        /\ e.proposal # 0 =>
            \E p \in proposals : p.ref = e.proposal
                                 /\ (p.source = e.message) # e.reused
        /\ e.next # 0 => deliveries[e.next].source = e.message
    /\ \A i \in DOMAIN messages :
        Cardinality({n \in EventsOf({"AGENT_RESPONSE_STORED"}) : events[n].message = i}) = 1

VerifyRejections ==
    \A n \in EventsOf({"AGENT_PACKET_REJECTED"}) :
        LET e == events[n] IN
        /\ deliveries[e.delivery].state = "RESPONSE_COMPLETED"
        /\ Submissions(e.delivery) # {}
        /\ Answers(e.delivery) = {} /\ Cardinality(Rejections(e.delivery)) = 1
        /\ (e.repair # 0) = e.repairable
        /\ e.repair # 0 =>
            /\ deliveries[e.repair].kind = "PROTOCOL_REPAIR"
            /\ deliveries[e.repair].target = deliveries[e.delivery].target
            /\ deliveries[e.repair].rejects = e.delivery

(* A blocker has its record; an answer that met one is held by it, with    *)
(* the disposition it would have had.                                      *)
PlannedFromEvidence(held) ==
    LET msgs == SubSeq(messages, 1, held.message) IN
    IF messages[held.message].kind = "BLOCKER" THEN "BLOCKED"
    ELSE IF \/ Consensus(msgs, {p \in proposals : p.source <= held.message}) # 0
            \/ held.turn >= MaxTurns
         THEN "COMPLETE" ELSE "RELAY"

VerifySideRecords ==
    /\ (approval = "PENDING") = (run.blocker = "RUNTIME_APPROVAL")
    /\ approval = "PENDING" => EventsOf({"RUNTIME_APPROVAL_REQUESTED"}) # {}
    /\ \A n \in EventsOf({"AGENT_RESPONSE_STORED"}) :
        LET e == events[n]
            finals == {k \in EventsOf({"AGENT_RESPONSE_BLOCKED",
                                       "AGENT_RESPONSE_HELD_FOR_BLOCKER"}) :
                          events[k].message = e.message}
        IN  /\ e.disposition \in {"BLOCKED", "HELD"} =>
                /\ e.blocker = events[n - 1].blocker
                /\ (e.disposition = "HELD") = (e.blocker # "NONE")
                /\ Cardinality(finals) = 1
            /\ \A k \in finals :
                /\ k > n /\ events[k].phase = "HUMAN_GATE"
                /\ IF events[k].type = "AGENT_RESPONSE_BLOCKED"
                   THEN /\ e.disposition = "BLOCKED"
                        /\ messages[e.message].kind = "BLOCKER"
                        /\ events[k].blocker = "USER_DECISION"
                   ELSE /\ e.disposition = "HELD"
                        /\ events[k].blocker = e.blocker
                        /\ events[k].planned = PlannedFromEvidence(events[k])

VerifyOutcome ==
    LET completions == EventsOf({"RUN_COMPLETED"}) IN
    /\ Cardinality(completions) = IF Terminal THEN 1 ELSE 0
    /\ (outcome.type = "NONE") = ~Terminal
    /\ \A n \in completions : /\ events[n].outcome = outcome
                              /\ events[n].phase = run.phase
                              /\ events[n].blocker = run.blocker
    /\ CASE run.phase = "COMPLETE" -> outcome.type \in {"CONSENSUS", "INCONCLUSIVE"}
         [] run.phase \in {"FAILED", "CANCELLED"} -> outcome.type = run.phase
         [] OTHER -> TRUE

-----------------------------------------------------------------------------
(* Every variable keeps its shape, and what refers to a row of another     *)
(* table refers to one that exists.                                        *)
TypeOK ==
    /\ run \in [phase : Phases, turn : 0..MaxTurns, paused : BOOLEAN,
                blocker : {"NONE", "RUNTIME_APPROVAL", "USER_DECISION"}]
    /\ \A i \in DOMAIN deliveries :
        deliveries[i] \in
            [target : Actors, kind : {"INITIAL_OBJECTIVE", "PEER_RELAY", "PROTOCOL_REPAIR"},
             source : 0..Len(messages), ref : Refs \cup {0}, rejects : 0..(i - 1),
             state : {"PENDING", "DISPATCHING", "SUBMITTED", "RESPONSE_STARTED",
                      "RESPONSE_COMPLETED", "RELAYED"},
             attempts : 0..1,
             receipt : {NoReceipt} \cup [turn : {i}, version : Nat]]
    /\ \A i \in DOMAIN messages :
        messages[i] \in
            [actor : Actors, ref : Refs \cup {0}, findings : BOOLEAN,
             kind : {"PROPOSAL", "REVISION", "CRITIQUE", "ACCEPTANCE", "BLOCKER"},
             input : 1..Len(deliveries)]
    /\ proposals \in SUBSET [ref : Refs, source : 1..Len(messages)]
    /\ sessions \in [Actors -> [status : {"CREATING", "READY", "RUNNING", "WAITING"},
                                turn : 0..Len(deliveries), version : Nat]]
    /\ limits \in [repairs : 0..MaxProtocolRepairs,
                   failures : 0..MaxConsecutiveActorFailures]
    /\ outcome.type \in {"NONE", "CONSENSUS", "INCONCLUSIVE"} \cup TerminalPhases
    /\ outcome.ref \in Refs \cup {0}
    /\ approval \in {"NONE", "PENDING"}
    /\ job \in {"NONE", "LOOP", "SUBMITTING", "AWAITING", "ACKNOWLEDGING"}
    /\ tracker \in [delivery : 0..Len(deliveries), started : BOOLEAN,
                    resolved : BOOLEAN, text : BOOLEAN, done : BOOLEAN]
    /\ live \in BOOLEAN /\ failed \in BOOLEAN
    /\ command \in {"NONE", "PROVISION", "RESTORE"}
    /\ asked \in [DOMAIN deliveries -> Nat]
    /\ crashes \in 0..MaxCrashes

(* Whatever answers, commands, failures and crashes came before, the store *)
(* can be opened again: none of the checks made over all its tables and    *)
(* events refuses it (SqliteStore.open, persistence/*-links.js).           *)
ReopensCleanly ==
    /\ VerifyTurnQueue /\ VerifySubmissions /\ VerifyResponses
    /\ VerifyRejections /\ VerifySideRecords /\ VerifyOutcome

\* Every committed state is typed and accepted by the checks of the next open.
StoreIsSound == TypeOK /\ ReopensCleanly

(* No prompt is given to an agent twice: a delivery that may have left is  *)
(* never put back, by no error, restart or restored run.                   *)
PromptedOnce == \A i \in DOMAIN deliveries : asked[i] <= 1

(* Consensus is both agents' last word: the two latest messages accept,    *)
(* without findings, the proposal that was made last, and it leaves no     *)
(* decision open.                                                          *)
ConsensusIsMutual ==
    outcome.type = "CONSENSUS" =>
        LET n == Len(messages)
            made == {i \in DOMAIN messages : IsProposal(messages[i])}
        IN  /\ n >= 3
            /\ messages[n].actor # messages[n - 1].actor
            /\ \A i \in {n - 1, n} : /\ messages[i].kind = "ACCEPTANCE"
                                     /\ ~messages[i].findings
                                     /\ messages[i].ref = outcome.ref
            /\ \E i \in made : /\ messages[i].ref = outcome.ref
                               /\ \A j \in made : j <= i
            /\ outcome.ref \notin OpenRefs

(* Every answer is one turn, good or bad, and the turns an agent takes in  *)
(* a row are the repairs of the one before.                                *)
TurnsAreCounted ==
    /\ run.turn = Len(messages) + Cardinality(EventsOf({"AGENT_PACKET_REJECTED"}))
    /\ run.turn = Cardinality(DOMAIN deliveries \ Unsettled)
    /\ \A i \in DOMAIN deliveries \ {1} :
        (deliveries[i].target = deliveries[i - 1].target) =
            (deliveries[i].kind = "PROTOCOL_REPAIR")

(* A run that nobody waits for has exactly one turn to take, and it is its *)
(* actor's: no failure, repair or blocker loses the next turn or adds one. *)
WorkIsQueued ==
    run.phase \notin TerminalPhases \cup {"CREATED", "HUMAN_GATE"} =>
        /\ Cardinality(Unsettled) = 1
        /\ \A i \in Unsettled :
            run.phase \in PendingPhases[deliveries[i].target]
                \cup {RunningPhase[deliveries[i].target], StoredPhase[deliveries[i].target]}

\* No turn is lost, doubled or counted for another, and only mutual acceptance ends in consensus.
TurnsAddUp == ConsensusIsMutual /\ TurnsAreCounted /\ WorkIsQueued

(* A run that ended is not written again: an answer, an event or a job     *)
(* that is late finds it closed.                                           *)
TerminalIsFinal == [][Terminal => UNCHANGED stored]_vars

(* The dashboard's job for a run ends, however the sessions behave.        *)
JobEnds == job # "NONE" ~> job = "NONE"

\* Every job ends, and a run that ended stays as it ended.
EndsForGood == TerminalIsFinal /\ JobEnds

=============================================================================
