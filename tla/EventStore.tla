----------------------------- MODULE EventStore -----------------------------
(***************************************************************************)
(* The SQLite store behind the discussions (src/persistence/): the chain   *)
(* of a run's events, the run and its projection, the rows that hang on    *)
(* the run, and the transactions that change them.  Discussion takes every *)
(* method of the controller as one step and no caller as stale; this       *)
(* module is what makes that right.  A transaction is a list of statements *)
(* executed one after the other on a working copy, any of which may fail,  *)
(* and the process may die between any two.  A caller may pass any version *)
(* it once read.  While the server is down a cell of the store may be      *)
(* damaged; the verifications of the next open have to notice, and         *)
(* `npm run projection:rebuild` may repair a projection.                   *)
(***************************************************************************)
EXTENDS Naturals, Sequences, SequencesExt

CONSTANTS
    Runs,           \* run ids
    None,           \* no row, no transaction, no store
    MaxAttempts,    \* limits.maxDeliveryAttempts
    MaxFailures,    \* limits.maxConsecutiveActorFailures
    MaxRepairs,     \* limits.maxProtocolRepairs
    MaxTurns,       \* turn inputs of a run
    MaxVersion,     \* bound on the versions of a row
    MaxRepeat,      \* bound on the versions at which what may repeat is repeated
    MaxFaults       \* statements that fail, crashes and damaged cells together

ASSUME LimitsAssumption == {MaxAttempts, MaxFailures, MaxTurns, MaxVersion, MaxRepeat} \subseteq Nat \ {0}
ASSUME FaultsAssumption == {MaxRepairs, MaxFaults} \subseteq Nat

VARIABLES
    db,       \* what is committed: one field per table, keyed by run
    tx,       \* the open transaction, of the one connection that holds the lock
    up,       \* the server has the store open
    good,     \* what the store was before a cell of it was damaged, or None
    told,     \* what callers were told succeeded, per run
    faults    \* so far
vars == << db, tx, up, good, told, faults >>

Terminal == {"COMPLETE", "FAILED", "CANCELLED"}

EmptyStore ==
    [run |-> [r \in Runs |-> None], event |-> [r \in Runs |-> << >>],
     proj |-> [r \in Runs |-> None], limits |-> [r \in Runs |-> None],
     input |-> [r \in Runs |-> << >>], delivery |-> [r \in Runs |-> << >>],
     message |-> [r \in Runs |-> 0], packet |-> [r \in Runs |-> 0],
     session |-> [r \in Runs |-> 0], approval |-> [r \in Runs |-> None],
     outcome |-> [r \in Runs |-> None],
     guard |-> TRUE]      \* the trigger run_limits_cannot_be_deleted exists
NothingTold == [appends |-> 0, claims |-> 0, resolved |-> 0]

Init == /\ db = EmptyStore /\ tx = None /\ up = FALSE /\ good = None
        /\ told = [r \in Runs |-> NothingTold] /\ faults = 0

Present(d) == {r \in Runs : d.run[r] # None}

-----------------------------------------------------------------------------
(* Statements.                                                             *)

Set(table, r, to) == [table |-> table, run |-> r, to |-> to]
Guard(to) == [table |-> "guard", run |-> "all", to |-> to]

Apply(d, s) == IF s.table = "guard" THEN [d EXCEPT !.guard = s.to]
               ELSE [d EXCEPT ![s.table][s.run] = s.to]
After(d, ss) ==
    LET f[i \in 0 .. Len(ss)] == IF i = 0 THEN d ELSE Apply(f[i - 1], ss[i]) IN f[Len(ss)]

(* The REFERENCES of the schema, all ON DELETE RESTRICT.  Message n        *)
(* answers input n; the source of an input is the message it relays.       *)
NoChildren(d, r) ==
    /\ d.event[r] = << >> /\ d.proj[r] = None /\ d.limits[r] = None
    /\ d.input[r] = << >> /\ d.delivery[r] = << >> /\ d.message[r] = 0
    /\ d.packet[r] = 0 /\ d.session[r] = 0 /\ d.approval[r] = None
    /\ d.outcome[r] = None
ForeignKeysHold(d, r) ==
    /\ d.run[r] = None => NoChildren(d, r)
    /\ Len(d.delivery[r]) <= Len(d.input[r])
    /\ d.message[r] <= Len(d.input[r])
    /\ d.message[r] > 0 => d.session[r] > 0
    /\ d.packet[r] <= d.message[r]
    /\ \A i \in DOMAIN d.input[r] : d.input[r][i] <= d.message[r]

Allowed(d, s) ==
    IF s.table = "guard" THEN TRUE
    ELSE /\ s.table = "limits" /\ s.to = None => ~d.guard
         /\ ForeignKeysHold(Apply(d, s), s.run)

-----------------------------------------------------------------------------
(* What the store verifies when it is opened.  A hash is modelled by the   *)
(* sequence of the contents it digests, which is injective.                *)

Content(e) == [seq |-> e.seq, type |-> e.type, snap |-> e.snap]
HeadAfter(events, i) == [j \in 1 .. i |-> Content(events[j])]

ChainHolds(d, r) ==
    LET row == d.run[r]  es == d.event[r]  p == d.proj[r] IN
    /\ row.snap.ver = row.ver
    /\ p # None
    /\ p.snap = row.snap /\ p.ver = row.ver
    /\ Len(es) = row.count
    /\ \A i \in DOMAIN es :
            /\ es[i].seq = i
            /\ es[i].prev = HeadAfter(es, i - 1)
            /\ es[i].hash = HeadAfter(es, i)
    /\ row.head = HeadAfter(es, Len(es))
    /\ p.seq = Len(es) /\ p.head = row.head

(* Mutant: the events are counted, not checked. *)
DerivableByCount(d, r) ==
    /\ d.event[r] # << >> /\ Len(d.event[r]) = d.run[r].count
    /\ Last(d.event[r]).snap = d.run[r].snap

(* deriveProjection: the same chain, without the projection, and the last  *)
(* event's run is the stored one.                                          *)
Derivable(d, r) ==
    LET row == d.run[r]  es == d.event[r] IN
    /\ row.snap.ver = row.ver
    /\ Len(es) = row.count /\ es # << >>
    /\ \A i \in DOMAIN es :
            /\ es[i].seq = i
            /\ es[i].prev = HeadAfter(es, i - 1)
            /\ es[i].hash = HeadAfter(es, i)
    /\ row.head = HeadAfter(es, Len(es))
    /\ Last(es).snap = row.snap
Derived(d, r) ==
    [snap |-> Last(d.event[r]).snap, ver |-> Last(d.event[r]).snap.ver,
     seq |-> Len(d.event[r]), head |-> HeadAfter(d.event[r], Len(d.event[r]))]

LinksHold(d, r) ==
    /\ \A i \in DOMAIN d.input[r] : d.input[r][i] <= d.message[r]
    /\ d.message[r] <= Len(d.input[r])
    /\ d.message[r] > 0 => d.session[r] > 0
    /\ d.packet[r] <= d.message[r]
    /\ Len(d.delivery[r]) <= Len(d.input[r])

Completions(d, r) == {i \in DOMAIN d.event[r] : d.event[r][i].type = "RUN_COMPLETED"}
OutcomeHolds(d, r) ==
    /\ d.outcome[r] # None <=> d.run[r].snap.phase \in Terminal
    /\ d.outcome[r] # None <=> Completions(d, r) # {}
    /\ \A i \in Completions(d, r) :
            d.event[r][i].snap = d.run[r].snap /\ d.event[r][i].snap.phase = d.outcome[r]

(* The constructor of SqliteStore. *)
Verified(d) ==
    /\ \A r \in Runs : d.event[r] # << >> => r \in Present(d)
    /\ \A r \in Present(d) :
            /\ ChainHolds(d, r) /\ LinksHold(d, r) /\ OutcomeHolds(d, r)
            /\ Derivable(d, r) /\ d.proj[r] = Derived(d, r)

-----------------------------------------------------------------------------
(* The statements of each operation of the store.                          *)

(* createRunLimitsEntity *)
Frozen(r) == Set("limits", r, [ver |-> 1, repairs |-> 0, failures |-> 0])

(* createRun, with the limits it freezes *)
Inserted(d, r) ==
    LET snap == [ver |-> 1, phase |-> "CREATED"]
        c == [seq |-> 1, type |-> "RUN_CREATED", snap |-> snap]
    IN << Set("run", r, [snap |-> snap, ver |-> 1, count |-> 1, head |-> << c >>]),
          Set("event", r, << c @@ [prev |-> << >>, hash |-> << c >>] >>),
          Set("proj", r, [snap |-> snap, ver |-> 1, seq |-> 1, head |-> << c >>]),
          Frozen(r) >>

(* Mutant: the event takes the place of the last one. *)
AppendOverLast(d, r, v, type, phase) ==
    LET row == d.run[r]
        snap == [ver |-> v + 1, phase |-> phase]
        c == [seq |-> row.count, type |-> type, snap |-> snap]
        prev == Front(row.head)
        head == Append(prev, c)
    IN << Set("event", r, Append(Front(d.event[r]), c @@ [prev |-> prev, hash |-> head])),
          Set("run", r, [snap |-> snap, ver |-> snap.ver, count |-> c.seq, head |-> head]),
          Set("proj", r, [snap |-> snap, ver |-> snap.ver, seq |-> c.seq, head |-> head]) >>

(* appendEventAndUpdateProjection; the caller derived the next run from    *)
(* the one it read at version v.                                           *)
Appended(d, r, v, type, phase) ==
    LET row == d.run[r]
        snap == [ver |-> v + 1, phase |-> phase]
        c == [seq |-> row.count + 1, type |-> type, snap |-> snap]
        head == Append(row.head, c)
    IN << Set("event", r, Append(d.event[r], c @@ [prev |-> row.head, hash |-> head])),
          Set("run", r, [snap |-> snap, ver |-> snap.ver, count |-> c.seq, head |-> head]),
          Set("proj", r, [snap |-> snap, ver |-> snap.ver, seq |-> c.seq, head |-> head]) >>

(* Several appends of one transaction, each on what the last one left.     *)
AllAppended(d, r, v, steps) ==
    LET f[i \in 0 .. Len(steps)] ==
            IF i = 0 THEN << >>
            ELSE f[i - 1] \o Appended(After(d, f[i - 1]), r, v + i - 1, steps[i][1], steps[i][2])
    IN f[Len(steps)]

(* saveRunOutcome: the run has reached its last phase, in its one          *)
(* RUN_COMPLETED event.                                                    *)
Closed(r, phase) == << Set("outcome", r, phase) >>

Session(d, r) == << Set("session", r, d.session[r] + 1) >>
Delivery(d, r, i, state, claimed) ==
    << Set("delivery", r, [d.delivery[r] EXCEPT ![i].state = state, ![i].ver = @ + 1,
                                                ![i].attempts = @ + claimed]) >>

(* saveAgentMessage, the next of the run, and the packet it carries. *)
Message(d, r) == << Set("message", r, d.message[r] + 1) >>
Packet(d, r) == << Set("packet", r, d.packet[r] + 1) >>

(* saveAgentTurnInputWithDelivery: two inserts. *)
Queued(d, r, source) ==
    << Set("input", r, Append(d.input[r], source)),
       Set("delivery", r, Append(d.delivery[r], [state |-> "PENDING", attempts |-> 0, ver |-> 1])) >>

Counters(d, r, repaired, failed) ==
    << Set("limits", r, [ver |-> d.limits[r].ver + repaired + 1,
                         repairs |-> d.limits[r].repairs + repaired,
                         failures |-> IF failed THEN d.limits[r].failures + 1 ELSE 0]) >>

(* Mutant: the messages go before what relays them lets go of them. *)
DeletedInTableOrder(d, r) ==
    << Guard(FALSE), Set("outcome", r, None), Set("packet", r, 0),
       Set("delivery", r, << >>), Set("message", r, 0), Set("input", r, << >>),
       Set("approval", r, None), Set("proj", r, None), Set("event", r, << >>),
       Set("session", r, 0), Set("limits", r, None), Set("run", r, None), Guard(TRUE) >>

(* deleteRunEntity, in its order. *)
DeletedRows(d, r) ==
    << Guard(FALSE), Set("input", r, [i \in DOMAIN d.input[r] |-> 0]),
       Set("outcome", r, None), Set("packet", r, 0),
       Set("delivery", r, << >>), Set("message", r, 0), Set("input", r, << >>),
       Set("approval", r, None), Set("proj", r, None), Set("event", r, << >>),
       Set("session", r, 0), Set("limits", r, None), Set("run", r, None), Guard(TRUE) >>

-----------------------------------------------------------------------------
(* Transactions.                                                           *)

Nothing == NothingTold
Begin(r, ss, tells) ==
    /\ up /\ tx = None
    /\ tx' = [todo |-> ss, work |-> db, run |-> r, tells |-> tells]
    /\ UNCHANGED << db, up, good, told, faults >>

(* Mutant: a caller's version is not compared. *)
AnyVersion(r, v) == r \in Present(db)
(* requireExpectedRun, and the version clause of every UPDATE. *)
AtVersion(r, v) == r \in Present(db) /\ db.run[r].ver = v
Versions == 1 .. MaxVersion
Active(r) == db.run[r].snap.phase \notin Terminal
(* Versions are bounded; the last one is left to stop. *)
Room(r, n) == db.run[r].ver + n <= MaxVersion

Young(r) == db.run[r].ver <= MaxRepeat

(* A run id is a uuid: it is not used again. *)
Create(r) ==
    /\ db.run[r] = None /\ told[r] = NothingTold
    /\ Begin(r, Append(Inserted(db, r), Set("session", r, 1)), [Nothing EXCEPT !.appends = 1])

(* RunService.pause, resume: an event of its own. *)
Command(r, v) ==
    /\ AtVersion(r, v) /\ Young(r) /\ Active(r) /\ Room(r, 1)
    /\ Begin(r, Appended(db, r, v, "RUN_PAUSED", db.run[r].snap.phase), [Nothing EXCEPT !.appends = 1])

Pending(r) == << Set("approval", r, [status |-> "PENDING", ver |-> 1]) >>
(* RunService.requestRuntimeApproval *)
Ask(r, v) ==
    /\ AtVersion(r, v) /\ Active(r) /\ Young(r) /\ Room(r, 2) /\ db.approval[r] = None
    /\ Begin(r, Pending(r) \o Appended(db, r, v, "RUNTIME_APPROVAL_REQUESTED", db.run[r].snap.phase),
             [Nothing EXCEPT !.appends = 1])

(* Mutant: the record's status and version are not compared. *)
ResolveAny(r, status, v) ==
    /\ r \in Present(db) /\ db.approval[r] # None
    /\ Begin(r, << Set("approval", r, [status |-> "APPROVED", ver |-> db.approval[r].ver + 1]) >>,
             [Nothing EXCEPT !.resolved = IF status = "PENDING" THEN 1 ELSE 0])

(* resolveOpaqueRecord *)
Resolve(r, status, v) ==
    /\ r \in Present(db) /\ db.approval[r] # None
    /\ db.approval[r].status = status /\ db.approval[r].ver = v /\ v <= MaxRepeat
    /\ Begin(r, << Set("approval", r, [status |-> "APPROVED", ver |-> v + 1]) >>,
             [Nothing EXCEPT !.resolved = IF status = "PENDING" THEN 1 ELSE 0])

(* RunService.stop *)
Stop(r, v) ==
    /\ AtVersion(r, v) /\ Active(r) /\ Room(r, 1)
    /\ db.approval[r] # None => db.approval[r].status # "PENDING"
    /\ Begin(r, Appended(db, r, v, "RUN_COMPLETED", "CANCELLED") \o Closed(r, "CANCELLED"),
             [Nothing EXCEPT !.appends = 1])

(* upsertAgentSession of a session that became ready or lost its provider. *)
Observe(r, v) ==
    /\ r \in Present(db) /\ db.session[r] = v /\ v <= MaxRepeat /\ Young(r)
    /\ Begin(r, Session(db, r), Nothing)

(* DiscussionController.start *)
Start(r, v) ==
    /\ AtVersion(r, v) /\ db.run[r].snap.phase = "CREATED" /\ Room(r, 1)
    /\ Begin(r, Queued(db, r, 0) \o Appended(db, r, v, "AGENT_TURN_QUEUED", "ACTIVE"),
             [Nothing EXCEPT !.appends = 1])

Current(r) == Len(db.delivery[r])
(* requireExpectedDelivery *)
DeliveryAt(r, state, v) ==
    /\ r \in Present(db) /\ Current(r) > 0
    /\ db.delivery[r][Current(r)].state = state /\ db.delivery[r][Current(r)].ver = v

(* Mutant: an attempt counts when it is submitted. *)
ClaimUncounted(r) ==
    LET i == Current(r) IN
    /\ r \in Present(db) /\ i > 0 /\ Active(r)
    /\ db.delivery[r][i].state = "PENDING"
    /\ Begin(r, Delivery(db, r, i, "DISPATCHING", 0), [Nothing EXCEPT !.claims = 1])

(* claimNextPendingDelivery; what has no attempt left becomes FAILED. *)
Claim(r) ==
    LET i == Current(r) IN
    /\ r \in Present(db) /\ i > 0 /\ Active(r)
    /\ db.delivery[r][i].state = "PENDING"
    /\ IF db.delivery[r][i].attempts < MaxAttempts
       THEN Begin(r, Delivery(db, r, i, "DISPATCHING", 1), [Nothing EXCEPT !.claims = 1])
       ELSE Begin(r, Delivery(db, r, i, "FAILED", 0), Nothing)

(* DiscussionController.markSubmitted *)
Submit(r, v, dv) ==
    /\ AtVersion(r, v) /\ Active(r) /\ Room(r, 2) /\ DeliveryAt(r, "DISPATCHING", dv)
    /\ Begin(r, Delivery(db, r, Current(r), "SUBMITTED", 0) \o Session(db, r)
                  \o Appended(db, r, v, "AGENT_TURN_SUBMITTED", "ACTIVE"),
             [Nothing EXCEPT !.appends = 1])

(* transitionDelivery alone: an attempt that failed, and its reset, refused *)
(* when no attempt is left.                                                *)
Fail(r, dv) ==
    /\ \E s \in {"PENDING", "DISPATCHING", "SUBMITTED"} :
            DeliveryAt(r, s, dv)
    /\ Begin(r, Delivery(db, r, Current(r), "FAILED", 0), Nothing)
Retry(r, dv) ==
    /\ DeliveryAt(r, "FAILED", dv)
    /\ db.delivery[r][Current(r)].attempts < MaxAttempts
    /\ Begin(r, Delivery(db, r, Current(r), "PENDING", 0), Nothing)
(* DiscussionController.recordValidResponse: answered, and then relayed to *)
(* the peer, held for a blocker, or the last answer of the run.            *)
Answered(r) ==
    Delivery(db, r, Current(r), "RESPONSE_COMPLETED", 0) \o Session(db, r)
        \o Message(db, r) \o Packet(db, r)
        \o Counters(db, r, 0, FALSE)
Stored == << "AGENT_RESPONSE_STORED", "ACTIVE" >>
Checked == << "CONSENSUS_CHECKED", "ACTIVE" >>
Record(r, v, dv) ==
    /\ AtVersion(r, v) /\ Active(r) /\ Room(r, 3) /\ DeliveryAt(r, "SUBMITTED", dv)
    /\ LET answered == Answered(r)
           after == After(db, answered)
       IN \/ /\ Len(db.input[r]) < MaxTurns
             /\ LET appended == answered \o AllAppended(after, r, v, << Stored, Checked >>)
                    queued == appended \o Queued(db, r, after.message[r])
                IN Begin(r, queued \o Appended(After(db, queued), r, v + 2, "AGENT_TURN_QUEUED", "ACTIVE")
                              \o << Set("delivery", r,
                                    [After(db, queued).delivery[r] EXCEPT
                                        ![Current(r)].state = "RELAYED", ![Current(r)].ver = @ + 1]) >>,
                         [Nothing EXCEPT !.appends = 3])
          \/ Begin(r, answered \o AllAppended(after, r, v, << Stored, Checked,
                            << "AGENT_RESPONSE_HELD_FOR_BLOCKER", "ACTIVE" >> >>),
                   [Nothing EXCEPT !.appends = 3])
          \/ Begin(r, answered \o AllAppended(after, r, v, << Stored, Checked,
                            << "RUN_COMPLETED", "COMPLETE" >> >>) \o Closed(r, "COMPLETE"),
                   [Nothing EXCEPT !.appends = 3])

(* DiscussionController.recordInvalidResponse: a repair turn while repairs *)
(* and failures are left, a failed run when no failure is, a person's      *)
(* decision when no repair is.                                             *)
Invalid(r, v, dv) ==
    /\ AtVersion(r, v) /\ Active(r) /\ Room(r, 2) /\ DeliveryAt(r, "SUBMITTED", dv)
    /\ db.limits[r].failures < MaxFailures
    /\ LET last == db.limits[r].failures + 1 = MaxFailures
           repair == ~last /\ db.limits[r].repairs < MaxRepairs /\ Len(db.input[r]) < MaxTurns
           answered == Delivery(db, r, Current(r), "RESPONSE_COMPLETED", 0) \o Session(db, r)
                            \o Counters(db, r, IF repair THEN 1 ELSE 0, TRUE)
           after == After(db, answered)
           rejected == << "AGENT_PACKET_REJECTED", "ACTIVE" >>
       IN CASE last ->
                 Begin(r, answered \o AllAppended(after, r, v, << rejected, << "RUN_COMPLETED", "FAILED" >> >>)
                              \o Closed(r, "FAILED"), [Nothing EXCEPT !.appends = 2])
            [] repair ->
                 Begin(r, answered \o Queued(after, r, 0)
                              \o AllAppended(After(after, Queued(after, r, 0)), r, v, << rejected >>),
                       [Nothing EXCEPT !.appends = 1])
            [] OTHER ->
                 Begin(r, answered \o AllAppended(after, r, v, << rejected,
                              << "AGENT_PROTOCOL_AUTHORITY_REQUIRED", "ACTIVE" >> >>),
                       [Nothing EXCEPT !.appends = 2])

(* deleteRun: only of a run that has ended. *)
Delete(r) ==
    /\ r \in Present(db) /\ ~Active(r)
    /\ Begin(r, DeletedRows(db, r), Nothing)

(* writeProjection, without --compare *)
Rewritten(r) == Set("proj", r, Derived(db, r))
(* The repair command opens the store without verifying it, and rebuilds   *)
(* one projection or all of them, if the events allow it.                  *)
Rebuild(S) ==
    /\ tx = None /\ S # {} /\ S \subseteq Present(db)
    /\ \A r \in S : Derivable(db, r)
    /\ \E order \in SetToSeqs(S) :
          tx' = [todo |-> [i \in DOMAIN order |-> Rewritten(order[i])],
                 work |-> db, run |-> order[1], tells |-> Nothing]
    /\ UNCHANGED << db, up, good, told, faults >>

-----------------------------------------------------------------------------
(* Inside a transaction, and what goes wrong.                              *)

Faulty == faults < MaxFaults /\ faults' = faults + 1

(* Mutant: no BEGIN: a statement is committed at once. *)
AutoCommit ==
    /\ tx # None /\ tx.todo # << >> /\ Allowed(tx.work, Head(tx.todo))
    /\ tx' = [tx EXCEPT !.todo = Tail(@), !.work = Apply(@, Head(tx.todo))]
    /\ db' = Apply(db, Head(tx.todo))
    /\ UNCHANGED << up, good, told, faults >>

Statement ==
    /\ tx # None /\ tx.todo # << >> /\ Allowed(tx.work, Head(tx.todo))
    /\ tx' = [tx EXCEPT !.todo = Tail(@), !.work = Apply(@, Head(tx.todo))]
    /\ UNCHANGED << db, up, good, told, faults >>

Commit ==
    /\ tx # None /\ tx.todo = << >>
    /\ db' = tx.work /\ tx' = None
    /\ told' = [told EXCEPT ![tx.run] = [k \in DOMAIN @ |-> @[k] + tx.tells[k]]]
    /\ UNCHANGED << up, good, faults >>

(* A constraint the schema refuses, or a disk that does. *)
Rollback ==
    /\ tx # None /\ tx' = None
    /\ \/ /\ tx.todo # << >> /\ ~Allowed(tx.work, Head(tx.todo))
          /\ UNCHANGED faults
       \/ Faulty
    /\ UNCHANGED << db, up, good, told >>

Close == up /\ tx = None /\ up' = FALSE /\ UNCHANGED << db, tx, good, told, faults >>
Crash == up /\ Faulty /\ up' = FALSE /\ tx' = None /\ UNCHANGED << db, good, told >>

Less(n) == IF n = 0 THEN 1 ELSE n - 1
Altered(snap) == {[snap EXCEPT !.ver = Less(@)],
                  [snap EXCEPT !.phase = IF @ = "ACTIVE" THEN "CREATED" ELSE "ACTIVE"]}
(* One cell of the three tables of the chain; of the events, the first or  *)
(* one of the last two.                                                    *)
DamagedRow(row) ==
    {[row EXCEPT !.snap = s] : s \in Altered(row.snap)}
        \cup {[row EXCEPT !.ver = Less(@)], [row EXCEPT !.count = Less(@)], [row EXCEPT !.head = << >>]}
DamagedProjection(p) ==
    {[p EXCEPT !.snap = s] : s \in Altered(p.snap)}
        \cup {[p EXCEPT !.ver = Less(@)], [p EXCEPT !.seq = Less(@)], [p EXCEPT !.head = << >>], None}
DamagedEvents(es) ==
    UNION {{[es EXCEPT ![i].snap = s] : s \in Altered(es[i].snap)}
            \cup {[es EXCEPT ![i].type = "RUN_RESUMED"], [es EXCEPT ![i].seq = Less(@)],
                  [es EXCEPT ![i].prev = Append(@, Content(es[i]))], [es EXCEPT ![i].hash = << >>],
                  RemoveAt(es, i)} : i \in DOMAIN es \cap {1, Len(es) - 1, Len(es)}}

Damage(r) ==
    /\ ~up /\ tx = None /\ good = None /\ r \in Present(db) /\ Faulty
    /\ \/ \E row \in DamagedRow(db.run[r]) : db' = Apply(db, Set("run", r, row))
       \/ \E p \in DamagedProjection(db.proj[r]) : db' = Apply(db, Set("proj", r, p))
       \/ \E es \in DamagedEvents(db.event[r]) : db' = Apply(db, Set("event", r, es))
    /\ good' = db /\ UNCHANGED << tx, up, told >>

(* Mutant: the store is opened as the repair command opens it. *)
OpenUnverified ==
    /\ ~up /\ tx = None /\ up' = TRUE
    /\ good' = IF db = good THEN None ELSE good
    /\ UNCHANGED << db, tx, told, faults >>

(* new SqliteStore: refused, and refused again, unless all of it verifies. *)
Open ==
    /\ ~up /\ tx = None /\ Verified(db) /\ up' = TRUE
    /\ good' = IF db = good THEN None ELSE good
    /\ UNCHANGED << db, tx, told, faults >>

Operation(r) ==
    \/ Create(r)
    \/ \E v \in Versions : Command(r, v)
    \/ \E v \in Versions : Ask(r, v)
    \/ \E v \in Versions, s \in {"PENDING", "APPROVED"} : Resolve(r, s, v)
    \/ \E v \in Versions : Stop(r, v)
    \/ \E v \in Versions : Observe(r, v)
    \/ \E v \in Versions : Start(r, v)
    \/ Claim(r)
    \/ \E v, dv \in Versions : Submit(r, v, dv)
    \/ \E dv \in Versions : Fail(r, dv)
    \/ \E dv \in Versions : Retry(r, dv)
    \/ \E v, dv \in Versions : Record(r, v, dv)
    \/ \E v, dv \in Versions : Invalid(r, v, dv)
    \/ Delete(r)

Next == \/ \E r \in Runs : Operation(r)
        \/ \E S \in SUBSET Runs : Rebuild(S)
        \/ Statement \/ Commit \/ Rollback \/ Crash \/ Close \/ Open
        \/ \E r \in Runs : Damage(r)
Spec == Init /\ [][Next]_vars

-----------------------------------------------------------------------------
TypeOK ==
    /\ up \in BOOLEAN /\ db.guard \in BOOLEAN /\ faults \in 0 .. MaxFaults
    /\ \A r \in Runs :
          /\ \A k \in DOMAIN NothingTold : told[r][k] \in Nat
          /\ r \in Present(db) /\ good = None => db.run[r].ver \in Versions
          /\ db.session[r] \in 0 .. 2 * MaxVersion

(* Whatever the callers do, whichever statement fails and wherever the     *)
(* process dies, what is committed passes every check of the next open: a  *)
(* store nobody damaged is never refused (event-chain.js, run-outcomes.js, *)
(* agent-communications.js, projection-rebuilder.js).                      *)
LegalStoreOpens == good = None /\ ~up => Verified(db)

(* A store of which one cell of the chain was damaged is not served until  *)
(* it is again what it was: no single damage goes unnoticed by the chain,  *)
(* the projection and the outcome checks together.                         *)
DamageIsNeverServed == up => good = None

(* The repair command only ever makes a damaged store what it was before:  *)
(* it never writes a projection of a history that was changed.             *)
RepairRestores == [][good # None /\ db' # db => db' = good]_vars

(* What callers were told is what is stored: a run has as many versions as *)
(* appends were acknowledged, so two callers holding the same version have *)
(* never both been told they changed it, and no crash loses a change.      *)
NoLostUpdate == good = None => \A r \in Present(db) : told[r].appends = db.run[r].ver

(* A committed event is never changed or dropped; only a run that has      *)
(* ended can lose its history, and loses all of it.                        *)
HistoryIsKept ==
    [][good = None /\ good' = None =>
         \A r \in Present(db) :
            IF db'.run[r] = None THEN db.run[r].snap.phase \in Terminal
            ELSE IsPrefix(db.event[r], db'.event[r])]_vars

\* Neither a caller nor the repair command rewrites history.
HistoryOnlyGrows == RepairRestores /\ HistoryIsKept

Attempts(d, r) ==
    LET f[i \in 0 .. Len(d.delivery[r])] ==
            IF i = 0 THEN 0 ELSE f[i - 1] + d.delivery[r][i].attempts
    IN f[Len(d.delivery[r])]
(* No delivery is handed out more often than its run allows: every claim a *)
(* caller was given is counted, and no counter passes its frozen limit.    *)
LimitsHold ==
    \A r \in Present(db) :
        /\ told[r].claims = Attempts(db, r)
        /\ \A i \in DOMAIN db.delivery[r] : db.delivery[r][i].attempts <= MaxAttempts
        /\ db.limits[r].failures <= MaxFailures /\ db.limits[r].repairs <= MaxRepairs

(* Of the callers who found an approval pending, one was told it settled   *)
(* it (sqlite-entities.js: resolveOpaqueRecord).                           *)
ResolvedOnce == \A r \in Runs : told[r].resolved <= 1

\* What the callers were told is what the committed rows say.
ToldIsStored == NoLostUpdate /\ LimitsHold /\ ResolvedOnce

(* The deletion of a run is never refused by a foreign key or by the       *)
(* trigger, and leaves neither a row nor an unguarded table behind.        *)
DeletionIsWhole ==
    /\ db.guard
    /\ \A r \in Runs : db.run[r] = None => NoChildren(db, r)
    /\ tx # None /\ tx.todo # << >> => Allowed(tx.work, Head(tx.todo))

\* A sound store is served, a damaged one is not.
SoundIsServed == TypeOK /\ LegalStoreOpens /\ DamageIsNeverServed /\ DeletionIsWhole
=============================================================================
