--------------------------- MODULE BridgeRuntime ---------------------------
(***************************************************************************)
(* The life of the server's runtime (src/server.js, getLiveRuntime and     *)
(* close; src/runtime/live-discussion-runtime.js) and of the store of the  *)
(* code-change runs in it (src/persistence/code-change-store.js), which    *)
(* vouches for the hash chain of every row it hands out without verifying  *)
(* it again: a worker thread verifies all histories in a snapshot of its   *)
(* own, and a stamp says which committed state its result is about.        *)
(* Another process (a second bridge, a command, sqlite3) may lock, append  *)
(* to or damage the same file at any time, between any two statements of   *)
(* the server's main thread too.                                           *)
(***************************************************************************)
EXTENDS Naturals

CONSTANTS
    Runs,        \* run ids
    Callers,     \* requests that use the runtime
    None,        \* no row, stamp, job, preparation or operation
    MaxVersion,  \* bound on the version of a run
    MaxOther,    \* bound on the commits of other connections
    MaxOwn,      \* bound on the changes after which a handle writes no more
    MaxFaults    \* closes that fail, workers that die, statements that fail

ASSUME BoundsAssumption ==
    MaxVersion \in Nat \ {0} /\ {MaxOther, MaxOwn, MaxFaults} \subseteq Nat

VARIABLES
    rows,      \* per run: None, or its version and what its history is
    trigger,   \* a trigger of the file spoils whatever is appended
    lock,      \* the other process holds the write lock
    data, own, \* PRAGMA data_version and total_changes() of the store's handle
    cache,     \* #stamp, #complete, #verified
    prep,      \* #preparing: None, or the round of #prepare in progress
    job,       \* #job: None, or the verifier's worker
    op,        \* the synchronous operation the main thread is in the middle of
    closed,    \* #closed
    spoilt,    \* #closureFailure is set
    init,      \* how far createLiveDiscussionRuntime() is
    open,      \* the handles the runtime has opened and not closed
    live,      \* liveRuntime is set
    caller,    \* per request: where it is
    shut,      \* how far close() is
    errors,    \* close() has collected an error
    retained,  \* runtimeClosureFailures is not empty
    leak,      \* something could not be closed, or was torn down by force
    exit,      \* "up", or how the process ended
    faults     \* so far
disk == << rows, trigger, lock, data, own >>
store == << cache, prep, job, op, closed, spoilt >>
server == << init, open, live, caller, shut, errors, retained, exit >>
vars == << disk, store, server, leak, faults >>

Histories == {"intact", "legacy", "damaged"}
Outcomes == {"none", "ok", "busy", "legacy", "damaged", "cancelled", "cleanup", "exit", "forced"}
Steps == {"get", "history", "more", "end", "return", "receipt", "finish"}
Stamps == Nat \X Nat
Rows == [ver : 1..MaxVersion, is : Histories]
Caches == [stamp : {None} \cup Stamps, complete : BOOLEAN, seen : [Runs -> 0..MaxVersion]]
Rounds == [at : {"job", "wait"}, before : Stamps, migrate : BOOLEAN]
Jobs == [at : {"run", "gone"}, migrate : BOOLEAN, cancelled : BOOLEAN, out : Outcomes,
         seen : [Runs -> 0..MaxVersion]]
Operations == [do : Steps, runs : SUBSET Runs, before : Stamps, changes : 0..2,
               ver : 0..MaxVersion, got : SUBSET Rows]
ASSUME NoneAssumption ==
    None \notin Rows /\ None \notin Stamps /\ None \notin Rounds /\ None \notin Jobs /\ None \notin Operations

Stamp == << data, own >>
Unverified == [stamp |-> None, complete |-> FALSE, seen |-> [r \in Runs |-> 0]]
Row(v, is) == [ver |-> v, is |-> is]
Versions(r) == IF rows[r] = None THEN 0 ELSE rows[r].ver

Init ==
    /\ rows \in [Runs -> {None, Row(1, "intact"), Row(1, "legacy")}]
    /\ trigger = FALSE /\ lock = FALSE /\ data = 0 /\ own = 0
    /\ cache = Unverified /\ prep = None /\ job = None /\ op = None
    /\ closed = FALSE /\ spoilt = FALSE
    /\ init = "none" /\ open = {} /\ live = FALSE
    /\ caller = [c \in Callers |-> "idle"]
    /\ shut = "no" /\ errors = FALSE /\ retained = FALSE
    /\ leak = FALSE /\ exit = "up" /\ faults = 0

(* The main thread runs one synchronous stretch at a time. *)
Main == exit = "up" /\ op = None /\ init # "code"
Closing == shut # "no"
Fault == faults < MaxFaults /\ faults' = faults + 1

-----------------------------------------------------------------------------
(* The other process.                                                      *)

OtherLocks ==
    /\ exit = "up" /\ ~lock /\ data < MaxOther /\ lock' = TRUE
    /\ UNCHANGED << rows, trigger, data, own, store, server, leak, faults >>

OtherCommits ==
    /\ exit = "up" /\ lock /\ lock' = FALSE /\ data' = data + 1
    /\ \/ \E r \in Runs, is \in Histories :
            /\ IF rows[r] = None THEN is # "damaged"
               ELSE is = "damaged" \/ (is = rows[r].is /\ rows[r].ver < MaxVersion)
            /\ rows' = [rows EXCEPT ![r] =
                 IF @ = None THEN Row(1, is)
                 ELSE Row(IF is = "damaged" THEN @.ver ELSE @.ver + 1, is)]
            /\ UNCHANGED trigger
       \/ trigger' = ~trigger /\ UNCHANGED rows
    /\ UNCHANGED << own, store, server, leak, faults >>

OtherRollsBack ==
    /\ exit = "up" /\ lock /\ lock' = FALSE
    /\ UNCHANGED << rows, trigger, data, own, store, server, leak, faults >>

-----------------------------------------------------------------------------
(* The verifier's worker, on a handle and in a thread of its own.          *)

NewJob(migrate) == [at |-> "run", migrate |-> migrate, cancelled |-> FALSE, out |-> "none",
                    seen |-> [r \in Runs |-> 0]]
Are(is) == \E r \in Runs : rows[r] # None /\ rows[r].is = is

Ends(out) == job' = [job EXCEPT !.at = "gone", !.out = out]
Running == job # None /\ job.at = "run" /\ exit = "up"

JobVerifies ==
    /\ Running /\ ~job.migrate
    /\ \/ Are("damaged") /\ Ends("damaged")
       \/ Are("legacy") /\ Ends("legacy")
       \/ /\ ~Are("damaged") /\ ~Are("legacy")
          /\ job' = [job EXCEPT !.at = "gone", !.out = "ok", !.seen = [r \in Runs |-> Versions(r)]]
    /\ UNCHANGED << disk, cache, prep, op, closed, spoilt, server, leak, faults >>

(* BEGIN IMMEDIATE without waiting: the chain of each legacy history is *)
(* written, and all of them verified once more before the commit.       *)
JobMigrates ==
    /\ Running /\ job.migrate
    /\ \/ lock /\ Ends("busy") /\ UNCHANGED disk
       \/ /\ ~lock /\ (Are("damaged") \/ (trigger /\ Are("legacy")))
          /\ Ends("damaged") /\ UNCHANGED disk
       \/ /\ ~lock /\ ~Are("damaged") /\ ~(trigger /\ Are("legacy"))
          /\ Ends("ok")
          /\ rows' = [r \in Runs |-> IF rows[r] = None THEN None ELSE Row(rows[r].ver, "intact")]
          /\ data' = IF Are("legacy") THEN data + 1 ELSE data
          /\ UNCHANGED << trigger, lock, own >>
    /\ UNCHANGED << cache, prep, op, closed, spoilt, server, leak, faults >>

JobCancelled ==
    /\ Running /\ job.cancelled /\ Ends("cancelled")
    /\ UNCHANGED << disk, cache, prep, op, closed, spoilt, server, leak, faults >>

(* It fails to close its handle, dies, or does not answer a cancellation *)
(* within two seconds and is terminated.                                 *)
JobBreaks ==
    /\ Running /\ Fault /\ leak' = TRUE
    /\ \E out \in {"cleanup", "exit", "forced"} : (out = "forced" => job.cancelled) /\ Ends(out)
    /\ UNCHANGED << disk, cache, prep, op, closed, spoilt, server >>

(* The job's deadline; the abort signal and close() cancel it too. *)
Cancel(j) == IF j = None THEN None ELSE [j EXCEPT !.cancelled = TRUE]
JobTimesOut ==
    /\ Main /\ job # None /\ job' = Cancel(job)
    /\ UNCHANGED << disk, cache, prep, op, closed, spoilt, server, leak, faults >>

-----------------------------------------------------------------------------
(* prepareForRead() and #prepare().                                        *)

Fresh(c) == IF c.stamp = Stamp THEN c ELSE Unverified
(* Mutant: verified once is verified for good. *)
ReadyOnce(c) == c.complete

Ready(c) == c.stamp = Stamp /\ c.complete

(* A turn of the loop of #prepare, from its head to the worker's start. *)
Round(migrate) ==
    /\ prep' = [at |-> "job", before |-> Stamp, migrate |-> migrate]
    /\ job' = NewJob(migrate)

Waiting == {c \in Callers : caller[c] = "prepare"}
Answer(how) == caller' = [c \in Callers |-> IF caller[c] = "prepare" THEN how ELSE caller[c]]

(* Mutant: the rejection of the shared promise is swallowed. *)
PrepareFailsUnheard ==
    prep' = None /\ cache' = Unverified /\ UNCHANGED << caller, init >>

(* What the shared promise's rejection does to those who wait for it. *)
PrepareFails ==
    /\ prep' = None /\ cache' = Unverified /\ Answer("idle")
    /\ init' = IF init = "prepare" THEN "cleanup" ELSE init

Adopt ==
    /\ prep' = None /\ job' = None /\ Answer("ready")
    /\ cache' = [stamp |-> Stamp, complete |-> TRUE, seen |-> job.seen]
    /\ init' = IF init = "prepare" THEN "compose" ELSE init

Again(migrate, cached) ==
    \/ /\ ~Closing /\ ~closed /\ Round(migrate) /\ cache' = cached
       /\ UNCHANGED << caller, init >>
    \/ PrepareFails /\ job' = None       \* aborted, closed, or past the deadline

JobSettles ==
    /\ Main /\ job # None /\ job.at = "gone"
    /\ \/ /\ job.cancelled \/ job.out \in {"damaged", "cancelled", "cleanup", "exit", "forced"}
          /\ PrepareFails /\ job' = None
       \/ /\ ~job.cancelled /\ job.out = "legacy" /\ Again(TRUE, cache)
       \/ /\ ~job.cancelled /\ job.out = "busy"
          /\ job' = None /\ prep' = [prep EXCEPT !.at = "wait"]
          /\ UNCHANGED << cache, caller, init >>
       \/ /\ ~job.cancelled /\ job.out = "ok" /\ job.migrate
          /\ Again(FALSE, cache)
       \/ /\ ~job.cancelled /\ job.out = "ok" /\ ~job.migrate /\ ~closed
          /\ prep.before = Stamp /\ Adopt
       \/ /\ ~job.cancelled /\ job.out = "ok" /\ ~job.migrate
          /\ closed \/ prep.before # Stamp
          /\ Again(FALSE, Unverified)
    /\ spoilt' = (spoilt \/ job.out \in {"cleanup", "exit", "forced"})
    /\ UNCHANGED << disk, op, closed, open, live, shut, errors, retained, exit, leak, faults >>

BusyRetry ==
    /\ Main /\ prep # None /\ prep.at = "wait" /\ Again(prep.migrate, cache)
    /\ UNCHANGED << disk, op, closed, spoilt, open, live, shut, errors, retained, exit,
                    leak, faults >>

(* The minute of the whole verification has passed, or the signal aborts it. *)
PrepareTooLate ==
    /\ Main /\ prep # None /\ prep.at = "wait" /\ PrepareFails
    /\ UNCHANGED << disk, job, op, closed, spoilt, open, live, shut, errors, retained, exit,
                    leak, faults >>

-----------------------------------------------------------------------------
(* The runtime is opened once for all who ask.                             *)

(* Nothing of it can fail without an await: the first stretch opens both  *)
(* handles, or closes what it opened.                                     *)
Ask(c) ==
    /\ Main /\ caller[c] = "idle" /\ ~Closing
    /\ \/ /\ ~live
          /\ caller' = [caller EXCEPT ![c] = "promise"]
          /\ init' = IF init = "none" THEN "store" ELSE init
          /\ UNCHANGED << prep, job, cache >>
       \/ /\ live /\ Ready(cache)
          /\ caller' = [caller EXCEPT ![c] = "ready"]
          /\ UNCHANGED << prep, job, cache, init >>
       \/ /\ live /\ ~Ready(cache)
          /\ cache' = Fresh(cache)
          /\ caller' = [caller EXCEPT ![c] = "prepare"]
          /\ IF prep = None THEN Round(FALSE) ELSE UNCHANGED << prep, job >>
          /\ UNCHANGED init
    /\ UNCHANGED << disk, op, closed, spoilt, open, live, shut, errors, retained, exit,
                    leak, faults >>

Refused == caller' = [c \in Callers |-> IF caller[c] = "promise" THEN "idle" ELSE caller[c]]

(* The handles of S are closed; one that cannot be stays open. *)
Close(S) ==
    \/ open' = open \ S /\ UNCHANGED << leak, faults >>
    \/ \E h \in S : open' = (open \ S) \cup {h} /\ leak' = TRUE /\ Fault
Failed == open' # {}

(* One that cannot be closed makes the failure one that is not retried. *)
OpenStore ==
    /\ Main /\ init = "store"
    /\ \/ /\ ~lock /\ open' = {"store"} /\ init' = "code"
          /\ UNCHANGED << caller, retained, leak, faults >>
       \/ /\ lock /\ open' = {} /\ init' = "wait"
          /\ UNCHANGED << caller, retained, leak, faults >>
       \/ /\ Fault /\ open' \in {{}, {"store"}}       \* any other failure
          /\ leak' = (leak \/ Failed) /\ retained' = (retained \/ Failed)
          /\ init' = "none" /\ Refused
    /\ UNCHANGED << disk, store, live, shut, errors, exit >>

(* The code store of a new runtime is a new one. *)
OpenCode ==
    /\ exit = "up" /\ init = "code"
    /\ \/ /\ ~lock /\ open' = {"store", "code"} /\ init' = "prepare"
          /\ own' = 0 /\ closed' = FALSE /\ spoilt' = FALSE /\ cache' = Unverified /\ Round(FALSE)
          /\ UNCHANGED << caller, retained, leak, faults >>
       \/ /\ lock /\ Close({"store", "code"})
          /\ init' = IF Failed THEN "none" ELSE "wait"
          /\ retained' = (retained \/ Failed)
          /\ IF Failed THEN Refused ELSE UNCHANGED caller
          /\ UNCHANGED << own, closed, spoilt, cache, prep, job >>
    /\ UNCHANGED << rows, trigger, lock, data, op, live, shut, errors, exit >>

OpenAgain ==
    /\ Main /\ init = "wait" /\ ~Closing /\ init' = "store"
    /\ UNCHANGED << disk, store, open, live, caller, shut, errors, retained, exit, leak, faults >>

(* Mutant: the wait between two attempts does not listen to the signal. *)
OpenTooLateUnlessClosing ==
    /\ Main /\ init = "wait" /\ ~Closing /\ init' = "none" /\ Refused
    /\ UNCHANGED << disk, store, open, live, shut, errors, retained, exit, leak, faults >>

(* Five seconds have passed, or the server is shutting down. *)
OpenTooLate ==
    /\ Main /\ init = "wait" /\ init' = "none" /\ Refused
    /\ UNCHANGED << disk, store, open, live, shut, errors, retained, exit, leak, faults >>

(* CodeChangeService reads every run while it is constructed. *)
Compose ==
    /\ Main /\ init = "compose"
    /\ \/ /\ ~Closing /\ Ready(cache)
          /\ init' = "none" /\ live' = TRUE
          /\ caller' = [c \in Callers |-> IF caller[c] = "promise" THEN "ready" ELSE caller[c]]
       \/ Closing /\ init' = "cleanup" /\ UNCHANGED << live, caller >>
       \/ ~Ready(cache) /\ init' = "cleanup" /\ UNCHANGED << live, caller >>
    /\ UNCHANGED << disk, store, open, shut, errors, retained, exit, leak, faults >>

(* Mutant: what cannot be closed is not retained for close(). *)
CleanupForgotten ==
    /\ Main /\ init = "cleanup"
    /\ closed' = TRUE /\ cache' = Unverified /\ Close({"store", "code"})
    /\ init' = "none" /\ Refused
    /\ UNCHANGED << disk, prep, job, op, spoilt, live, shut, errors, retained, exit >>

Cleanup ==
    /\ Main /\ init = "cleanup"
    /\ closed' = TRUE /\ cache' = Unverified /\ Close({"store", "code"})
    /\ retained' = (retained \/ Failed \/ spoilt)
    /\ init' = "none" /\ Refused
    /\ UNCHANGED << disk, prep, job, op, spoilt, live, shut, errors, exit >>

-----------------------------------------------------------------------------
(* What a request does with the runtime.  Between the statements of an     *)
(* operation only other processes run.                                     *)

Operation(do, S, n) == [do |-> do, runs |-> S, before |-> Stamp, changes |-> n, got |-> {}, ver |-> 0]
Use(c) == Main /\ caller[c] = "ready"
Leave(c) ==
    /\ Use(c) /\ caller' = [caller EXCEPT ![c] = "idle"]
    /\ UNCHANGED << disk, store, init, open, live, shut, errors, retained, exit, leak, faults >>

Throws(c, cached) ==
    /\ cache' = cached /\ caller' = [caller EXCEPT ![c] = "idle"] /\ UNCHANGED op

(* list(), get(), history() and historyProof(): #read before its statement. *)
Read(c) ==
    /\ Use(c)
    /\ \/ /\ ~closed /\ Ready(cache)
          /\ \/ \E r \in Runs : op' \in {Operation("get", {r}, 0), Operation("history", {r}, 0)}
             \/ op' = Operation("get", Runs, 0)
          /\ UNCHANGED << cache, caller >>
       \/ ~closed /\ ~Ready(cache) /\ Throws(c, Fresh(cache))
       \/ closed /\ Throws(c, cache)
    /\ UNCHANGED << disk, prep, job, closed, spoilt, init, open, live, shut, errors, retained, exit,
                    leak, faults >>

Doing(what) == exit = "up" /\ op # None /\ op.do = what
Selected(S) == {rows[r] : r \in S} \ {None}
Matches(S) == \A r \in S : rows[r] # None => cache.seen[r] = rows[r].ver

(* #checked of every row of the statement. *)
ReadRow ==
    /\ \/ Doing("get")
       \/ Doing("history")
    /\ op' = IF Matches(op.runs)
             THEN [op EXCEPT !.do = IF op.do = "get" THEN "end" ELSE "more", !.got = Selected(op.runs)]
             ELSE None
    /\ UNCHANGED << disk, cache, prep, job, closed, spoilt, server, leak, faults >>

ReadHistory ==
    /\ Doing("more") /\ op' = [op EXCEPT !.do = "end", !.got = Selected(op.runs)]
    /\ UNCHANGED << disk, cache, prep, job, closed, spoilt, server, leak, faults >>

(* Mutant: the second look at the generation is forgotten. *)
ReadEndUnchecked ==
    /\ Doing("end") /\ op' = [op EXCEPT !.do = "return"]
    /\ UNCHANGED << disk, cache, prep, job, closed, spoilt, server, leak, faults >>

ReadEnd ==
    /\ Doing("end")
    /\ IF op.before = Stamp THEN op' = [op EXCEPT !.do = "return"] /\ UNCHANGED cache
       ELSE op' = None /\ cache' = Unverified
    /\ UNCHANGED << disk, prep, job, closed, spoilt, server, leak, faults >>

Return ==
    /\ Doing("return") /\ op' = None
    /\ UNCHANGED << disk, cache, prep, job, closed, spoilt, server, leak, faults >>

Append(v) == Row(v, IF trigger THEN "damaged" ELSE "intact")
Writable == ~closed /\ ~lock /\ own < MaxOwn
Extends(r) == rows[r] # None => cache.seen[r] = rows[r].ver

Save(c, r) ==
    /\ Use(c) /\ Writable /\ Versions(r) < MaxVersion
    /\ Ready(cache) /\ Extends(r)
    /\ rows' = [rows EXCEPT ![r] = IF @ = None \/ @.is # "damaged" THEN Append(Versions(r) + 1)
                                   ELSE Row(@.ver + 1, "damaged")]
    /\ own' = own + IF trigger THEN 3 ELSE 2
    /\ op' = [Operation("finish", {r}, 2) EXCEPT !.ver = Versions(r) + 1]
    /\ UNCHANGED << trigger, lock, data, cache, prep, job, closed, spoilt, server, leak, faults >>

Delete(c, r) ==
    /\ Use(c) /\ Writable /\ rows[r] # None
    /\ Ready(cache) /\ cache.seen[r] = rows[r].ver
    /\ rows' = [rows EXCEPT ![r] = None]
    /\ own' = own + 2
    /\ op' = Operation("finish", {r}, 2)
    /\ UNCHANGED << trigger, lock, data, cache, prep, job, closed, spoilt, server, leak, faults >>

(* A stale expectedVersion, a record that is not the verified one, a      *)
(* failing statement: rolled back, and nothing is vouched for any more.   *)
(* (A lock that is not released in time fails BEGIN, before all that.)    *)
Rollback(c) ==
    /\ Use(c) /\ ~closed /\ ~lock /\ Throws(c, Unverified)
    /\ UNCHANGED << disk, prep, job, closed, spoilt, init, open, live, shut, errors, retained, exit,
                    leak, faults >>

(* beginCommand() and finishCommand(): #generation, #fresh, then the one *)
(* statement, which waits for the lock.                                  *)
Receipt(c) ==
    /\ Use(c) /\ ~closed /\ own < MaxOwn
    /\ cache' = Fresh(cache) /\ op' = Operation("receipt", {}, 1)
    /\ UNCHANGED << disk, prep, job, closed, spoilt, server, leak, faults >>

ReceiptStored ==
    /\ Doing("receipt") /\ ~lock
    /\ own' = own + 1 /\ op' = [op EXCEPT !.do = "finish"]
    /\ UNCHANGED << rows, trigger, lock, data, cache, prep, job, closed, spoilt, server,
                    leak, faults >>

ReceiptBusy ==
    /\ Doing("receipt") /\ lock /\ op' = None
    /\ UNCHANGED << disk, cache, prep, job, closed, spoilt, server, leak, faults >>

(* Mutant: the number of changes is not compared. *)
OwnWriteOfAnySize == cache.stamp = op.before /\ data = op.before[1]

(* #finishWrite(): the cache follows the store's own write and no other. *)
OwnWriteOnly == cache.stamp = op.before /\ Stamp = << op.before[1], op.before[2] + op.changes >>
Written == [r \in Runs |-> IF r \in op.runs THEN op.ver ELSE cache.seen[r]]
FinishWrite ==
    /\ Doing("finish") /\ op' = None
    /\ cache' = IF OwnWriteOnly
                THEN [cache EXCEPT !.stamp = Stamp,
                                   !.seen = Written]
                ELSE Unverified
    /\ UNCHANGED << disk, prep, job, closed, spoilt, server, leak, faults >>

-----------------------------------------------------------------------------
(* close().                                                                *)

CloseBegins ==
    /\ Main /\ ~Closing /\ shut' = "runtime promise"
    /\ job' = Cancel(job)
    /\ UNCHANGED << disk, cache, prep, op, closed, spoilt, init, open, live, caller, errors,
                    retained, exit, leak, faults >>

(* await liveRuntimePromise, then what its failures left open is reported. *)
InitializationOver ==
    /\ Main /\ shut = "runtime promise" /\ init = "none"
    /\ shut' = "runtime" /\ errors' = (errors \/ retained)
    /\ UNCHANGED << disk, store, init, open, live, caller, retained, exit, leak, faults >>

(* CodeChangeStore.close(), up to its first await. *)
RuntimeCloses ==
    /\ Main /\ shut = "runtime"
    /\ \/ /\ live /\ shut' = "worker"
          /\ closed' = TRUE /\ cache' = Unverified /\ job' = Cancel(job)
          /\ Close({"code"}) /\ errors' = (errors \/ "code" \in open')
       \/ ~live /\ shut' = "done" /\ UNCHANGED << closed, cache, job, open, errors, leak, faults >>
    /\ UNCHANGED << disk, prep, op, spoilt, init, live, caller, retained, exit >>

(* ... and after the worker's end and the preparation's. *)
WorkerClosed ==
    /\ Main /\ shut = "worker" /\ job = None /\ prep = None
    /\ shut' = "store" /\ errors' = (errors \/ spoilt)
    /\ UNCHANGED << disk, store, init, open, live, caller, retained, exit, leak, faults >>

StoreCloses ==
    /\ Main /\ shut = "store" /\ shut' = "done"
    /\ Close({"store"}) /\ errors' = (errors \/ "store" \in open')
    /\ UNCHANGED << disk, store, init, live, caller, retained, exit >>

Exits ==
    /\ Main /\ shut = "done" /\ exit' = IF errors THEN "failed" ELSE "clean"
    /\ UNCHANGED << disk, store, init, open, live, caller, shut, errors, retained, leak, faults >>

(* gracefulShutdown() waits five seconds. *)
Failsafe ==
    /\ exit = "up" /\ Closing /\ exit' = "killed"
    /\ UNCHANGED << disk, store, init, open, live, caller, shut, errors, retained, leak, faults >>

-----------------------------------------------------------------------------
Next ==
    \/ OtherLocks \/ OtherCommits \/ OtherRollsBack
    \/ JobVerifies \/ JobMigrates \/ JobCancelled \/ JobBreaks \/ JobTimesOut
    \/ JobSettles \/ BusyRetry \/ PrepareTooLate
    \/ OpenStore \/ OpenCode \/ OpenAgain \/ OpenTooLate \/ Compose \/ Cleanup
    \/ ReadRow \/ ReadHistory \/ ReadEnd \/ Return \/ ReceiptStored \/ ReceiptBusy \/ FinishWrite
    \/ CloseBegins \/ InitializationOver \/ RuntimeCloses \/ WorkerClosed \/ StoreCloses
    \/ Exits \/ Failsafe
    \/ \E c \in Callers : Ask(c) \/ Leave(c) \/ Read(c) \/ Rollback(c) \/ Receipt(c)
    \/ \E c \in Callers, r \in Runs : Save(c, r) \/ Delete(c, r)

(* The event loop comes round to whatever is ready, however many requests *)
(* it serves meanwhile; timers expire; the worker's thread runs.           *)
Fairness ==
    /\ WF_vars(JobVerifies \/ JobMigrates \/ JobCancelled)
    /\ WF_vars(OpenCode \/ ReadRow \/ ReadHistory \/ ReadEnd \/ Return
               \/ ReceiptStored \/ ReceiptBusy \/ FinishWrite)
    /\ SF_vars(JobSettles) /\ SF_vars(PrepareTooLate)
    /\ SF_vars(OpenStore \/ Compose \/ Cleanup) /\ SF_vars(OpenTooLate)
    /\ SF_vars(InitializationOver \/ RuntimeCloses \/ WorkerClosed \/ StoreCloses \/ Exits)

Spec == Init /\ [][Next]_vars /\ Fairness

DiskOK ==
    /\ rows \in [Runs -> {None} \cup Rows] /\ trigger \in BOOLEAN /\ lock \in BOOLEAN
    /\ data \in Nat /\ own \in Nat
StoreOK ==
    /\ cache \in Caches /\ prep \in {None} \cup Rounds /\ job \in {None} \cup Jobs
    /\ op \in {None} \cup Operations /\ closed \in BOOLEAN /\ spoilt \in BOOLEAN
ServerOK ==
    /\ init \in {"none", "store", "code", "wait", "prepare", "compose", "cleanup"}
    /\ open \subseteq {"store", "code"} /\ live \in BOOLEAN
    /\ caller \in [Callers -> {"idle", "promise", "prepare", "ready"}]
    /\ shut \in {"no", "runtime promise", "runtime", "worker", "store", "done"}
    /\ errors \in BOOLEAN /\ retained \in BOOLEAN /\ exit \in {"up", "clean", "failed", "killed"}
FaultsOK == leak \in BOOLEAN /\ faults \in 0..MaxFaults
TypeOK == DiskOK /\ StoreOK /\ ServerOK /\ FaultsOK

(* A read that returns answers with rows whose whole history was verified  *)
(* and unspoilt in the committed state it read them from, although it      *)
(* verified nothing itself and others wrote meanwhile.                     *)
ServedIsIntact == op # None /\ op.do = "return" => \A row \in op.got : row.is = "intact"

(* The stamp is why: while it is current, every run the store vouches for  *)
(* is on disk as it was verified, and a complete cache knows every run.    *)
StampVouches ==
    cache.stamp = Stamp =>
      \A r \in Runs :
        /\ cache.seen[r] > 0 /\ rows[r] # None => rows[r] = Row(cache.seen[r], "intact")
        /\ cache.complete /\ rows[r] # None => cache.seen[r] > 0

\* The store hands out, and vouches for, only what was verified as it is.
VouchedIsIntact == ServedIsIntact /\ StampVouches

(* save() never chains a new version to a history that nobody vouched for. *)
SavedOnIntact ==
    [][\A r \in Runs : own' > own /\ rows[r] # None /\ rows'[r] # rows[r] => rows[r].is = "intact"]_vars

(* The process ends with exit code 0 only if nothing is left: no handle,   *)
(* worker or initialization, and nothing was torn down by force before.    *)
CleanExit ==
    exit = "clean" => ~leak /\ open = {} /\ job = None /\ prep = None /\ init = "none"

(* Whoever waits for the runtime is answered, and close() ends, however    *)
(* long the other process holds the lock or goes on writing.               *)
CallerAnswered ==
    \A c \in Callers : caller[c] \in {"promise", "prepare"}
                         ~> caller[c] \in {"idle", "ready"} \/ exit # "up"
CloseEnds == Closing ~> exit # "up"

\* Nobody waits for the runtime, or for its end, for ever.
WaitsEnd == CallerAnswered /\ CloseEnds

=============================================================================
