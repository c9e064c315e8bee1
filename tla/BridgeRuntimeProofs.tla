------------------------ MODULE BridgeRuntimeProofs ------------------------
(* Proofs about BridgeRuntime, for any number of runs, requests, versions,  *)
(* commits of other processes, writes and faults.                           *)
(*                                                                          *)
(* Vouching is about the stamp: whatever is remembered under a stamp was    *)
(* read when the file was as that stamp says, and a stamp never comes back  *)
(* (Past), so what is remembered is still so while the stamp is current.    *)
(* Accounts is about the end of the process: whatever could not be closed   *)
(* has been noted in one of three places, each of which close() looks at    *)
(* before it decides the exit code.                                         *)
EXTENDS BridgeRuntime, TLAPS

Broken == {"cleanup", "exit", "forced"}

\* Stamps only grow: the handle is opened anew only before anything was written
Reached(s) == s[1] <= data /\ s[2] <= own
Past ==
    /\ cache.stamp # None => Reached(cache.stamp)
    /\ prep # None => Reached(prep.before)
    /\ op # None => Reached(op.before)

\* What is known about the runs is so on disk
Vouches(seen, complete) ==
    \A r \in Runs :
        /\ seen[r] > 0 /\ rows[r] # None => rows[r] = Row(seen[r], "intact")
        /\ complete /\ rows[r] # None => seen[r] > 0

\* What the worker saw is what is on disk, if the stamp of its round is current
JobVouches ==
    /\ prep # None /\ job # None /\ prep.before = Stamp
    /\ job.out = "ok" /\ ~job.migrate
    => Vouches(job.seen, TRUE)

\* What finishWrite() is about to remember
WriteVouches == op # None /\ op.do = "finish" /\ OwnWriteOnly => Vouches(Written, cache.complete)

\* A read in progress began under the cache's stamp, and a receipt is one change
Intact(S) == \A row \in S : row.is = "intact"
ReadVouches ==
    op # None =>
        /\ op.do \in {"get", "history", "more"} => cache.stamp = op.before /\ cache.complete
        /\ op.do = "end" /\ op.before = Stamp => Intact(op.got)
        /\ op.do = "return" => Intact(op.got)
        /\ op.do = "receipt" => op.changes = 1 /\ op.runs = {}

Vouching == Past /\ StampVouches /\ JobVouches /\ WriteVouches /\ ReadVouches

\* Before the runtime lives nothing uses the stores, and it is opened once
Alive ==
    /\ live => init = "none"
    /\ ~live => own = 0 /\ op = None /\ \A c \in Callers : caller[c] \in {"idle", "promise"}
    /\ prep # None => live \/ init = "prepare"
    /\ job # None <=> (prep # None /\ prep.at = "job")
    /\ job # None /\ job.at = "run" => job.out = "none"

\* What was left behind is noted, and close() has looked at the notes
Noted ==
    /\ leak => errors \/ retained \/ spoilt \/ (job # None /\ job.out \in Broken)
    /\ spoilt => live \/ init = "cleanup" \/ retained
    /\ ~live /\ init \in {"none", "store", "wait"} => open = {} \/ retained
Stages ==
    /\ shut \in {"runtime", "worker", "store", "done"} => init = "none" /\ (retained => errors)
    /\ shut = "worker" => closed
    /\ shut \in {"worker", "store"} => live
    /\ shut \in {"worker", "store"} /\ "code" \in open => errors
    /\ shut \in {"store", "done"} => job = None /\ prep = None /\ (leak => errors)
    /\ shut = "done" /\ open # {} => errors
    /\ exit = "clean" => shut = "done" /\ ~errors
Accounts == Noted /\ Stages

Inv == TypeOK /\ Alive /\ Vouching /\ Accounts

-----------------------------------------------------------------------------
(* The worker's job and the rounds of #prepare                              *)

LEMMA NewRound ==
  ASSUME data \in Nat, own \in Nat, NEW m \in BOOLEAN, Round(m)
  PROVE  /\ prep' \in Rounds /\ prep'.at = "job" /\ prep'.before = Stamp
         /\ job' \in Jobs /\ job'.at = "run" /\ job'.out = "none"
  <1>1. 0 \in 0..MaxVersion
    BY BoundsAssumption
  <1> QED
    BY <1>1 DEF Round, NewJob, Stamp, Stamps, Rounds, Jobs, Outcomes

LEMMA FaultType == ASSUME faults \in 0..MaxFaults, Fault PROVE faults' \in 0..MaxFaults
  <1>1. MaxFaults \in Nat
    BY BoundsAssumption
  <1> QED
    BY <1>1 DEF Fault

LEMMA Stutter == UNCHANGED vars => UNCHANGED << rows, trigger, lock, data, own, cache, prep, job, op, closed, spoilt,
                     init, open, live, caller, shut, errors, retained, exit, leak, faults >>
  BY DEF vars, disk, store, server

LEMMA EndOfJob ==
  ASSUME job \in Jobs, NEW o \in Outcomes, Ends(o)
  PROVE  /\ job' \in Jobs /\ job'.at = "gone" /\ job'.out = o
         /\ job'.migrate = job.migrate /\ job'.seen = job.seen
  BY DEF Ends, Jobs

LEMMA CancelledJob ==
  ASSUME NEW j \in {None} \cup Jobs
  PROVE  /\ Cancel(j) \in {None} \cup Jobs /\ (Cancel(j) = None <=> j = None)
         /\ j # None => /\ Cancel(j).at = j.at /\ Cancel(j).out = j.out
                        /\ Cancel(j).migrate = j.migrate /\ Cancel(j).seen = j.seen
  <1>1. CASE j = None
    BY <1>1 DEF Cancel
  <1>2. CASE j # None
    <2>1. Cancel(j) = [j EXCEPT !.cancelled = TRUE] /\ j \in Jobs
      BY <1>2 DEF Cancel
    <2> QED
      BY <1>2, <2>1, NoneAssumption DEF Jobs
  <1> QED
    BY <1>1, <1>2

\* The worker's own steps
WorkerSteps == JobVerifies \/ JobMigrates \/ JobCancelled \/ JobBreaks
LEMMA WorkerMoves ==
  ASSUME TypeOK, WorkerSteps
  PROVE  /\ job \in Jobs /\ job.at = "run" /\ job' \in Jobs /\ job'.at = "gone" /\ exit = "up"
         /\ job'.migrate = job.migrate
         /\ UNCHANGED << cache, prep, op, closed, spoilt, init, open, live, caller, shut, errors, retained, exit >>
         /\ UNCHANGED leak \/ (leak' = TRUE /\ job'.out \in Broken)
         /\ faults' \in 0..MaxFaults
  <1>1. job \in Jobs /\ faults \in 0..MaxFaults
    BY DEF WorkerSteps, JobVerifies, JobMigrates, JobCancelled, JobBreaks, Running, TypeOK, StoreOK, FaultsOK
  <1>2. \A r \in Runs : Versions(r) \in 0..MaxVersion
    <2> TAKE r \in Runs
    <2>1. rows[r] = None \/ rows[r] \in Rows
      BY DEF TypeOK, DiskOK
    <2>2. rows[r] \in Rows => rows[r].ver \in 0..MaxVersion
      BY DEF Rows
    <2> QED
      BY <2>1, <2>2, BoundsAssumption, NoneAssumption DEF Versions
  <1> DEFINE moved == /\ job.at = "run" /\ job' \in Jobs /\ job'.at = "gone" /\ exit = "up" /\ job'.migrate = job.migrate
                      /\ UNCHANGED leak \/ (leak' = TRUE /\ job'.out \in Broken)
                      /\ faults' \in 0..MaxFaults
  <1>3. ASSUME JobVerifies PROVE moved
    <2>1. CASE Ends("damaged") \/ Ends("legacy")
      BY <1>1, <1>3, <2>1, EndOfJob DEF JobVerifies, Running, Outcomes
    <2>2. CASE job' = [job EXCEPT !.at = "gone", !.out = "ok", !.seen = [r \in Runs |-> Versions(r)]]
      BY <1>1, <1>2, <1>3, <2>2 DEF JobVerifies, Running, Jobs, Outcomes
    <2> QED
      BY <1>3, <2>1, <2>2 DEF JobVerifies
  <1>4. ASSUME JobMigrates PROVE moved
    BY <1>1, <1>4, EndOfJob DEF JobMigrates, Running, Outcomes
  <1>5. ASSUME JobCancelled PROVE moved
    BY <1>1, <1>5, EndOfJob DEF JobCancelled, Running, Outcomes
  <1>6. ASSUME JobBreaks PROVE moved
    <2>1. PICK o \in Broken : Ends(o)
      BY <1>6 DEF JobBreaks, Broken
    <2>2. o \in Outcomes
      BY DEF Broken, Outcomes
    <2> QED
      BY <1>1, <1>6, <2>1, <2>2, EndOfJob, FaultType DEF JobBreaks, Running
  <1>7. UNCHANGED << cache, prep, op, closed, spoilt, server >>
    BY DEF WorkerSteps, JobVerifies, JobMigrates, JobCancelled, JobBreaks
  <1>8. UNCHANGED << init, open, live, caller, shut, errors, retained, exit >>
    BY <1>7 DEF server
  <1> QED
    BY <1>1, <1>3, <1>4, <1>5, <1>6, <1>7, <1>8 DEF WorkerSteps

-----------------------------------------------------------------------------
(* Type correctness, in four parts                                          *)

LEMMA CacheTypes == Unverified \in Caches /\ (cache \in Caches => Fresh(cache) \in Caches)
  <1>1. 0 \in 0..MaxVersion
    BY BoundsAssumption
  <1> QED
    BY <1>1 DEF Unverified, Fresh, Caches

LEMMA VersionTypes == DiskOK => \A r \in Runs : Versions(r) \in 0..MaxVersion
  <1> SUFFICES ASSUME DiskOK, NEW r \in Runs PROVE Versions(r) \in 0..MaxVersion
    OBVIOUS
  <1>1. rows[r] = None \/ rows[r] \in Rows
    BY DEF DiskOK
  <1>2. rows[r] \in Rows => rows[r].ver \in 0..MaxVersion
    BY DEF Rows
  <1> QED
    BY <1>1, <1>2, BoundsAssumption, NoneAssumption DEF Versions

LEMMA OperationType ==
  ASSUME DiskOK, NEW do \in Steps, NEW S \in SUBSET Runs, NEW n \in 0..2
  PROVE  Operation(do, S, n) \in Operations
  <1>1. 0 \in 0..MaxVersion
    BY BoundsAssumption
  <1> QED
    BY <1>1 DEF Operation, Operations, Stamp, Stamps, DiskOK

\* Closing handles
LEMMA Closes ==
  ASSUME ServerOK, FaultsOK, NEW S \in SUBSET {"store", "code"}, Close(S)
  PROVE  /\ open' \subseteq {"store", "code"} /\ open' \subseteq open \cup S /\ FaultsOK'
         /\ leak' = leak \/ open' \cap S # {}
         /\ open \ S \subseteq open'
  <1>1. CASE open' = open \ S /\ UNCHANGED << leak, faults >>
    BY <1>1 DEF ServerOK, FaultsOK
  <1>2. ASSUME NEW h \in S, open' = (open \ S) \cup {h}, leak' = TRUE, Fault PROVE open' \subseteq {"store", "code"} /\ open' \subseteq open \cup S /\ FaultsOK'
         /\ open' \cap S # {} /\ open \ S \subseteq open'
    BY <1>2, FaultType DEF ServerOK, FaultsOK
  <1> QED
    BY <1>1, <1>2 DEF Close

LEMMA TypeStep == TypeOK /\ Alive /\ [Next]_vars => TypeOK'
  <1> SUFFICES ASSUME DiskOK, StoreOK, ServerOK, FaultsOK, Alive, [Next]_vars
               PROVE  DiskOK' /\ StoreOK' /\ ServerOK' /\ FaultsOK'
    BY DEF TypeOK
  <1>1. CASE OtherLocks
    <2>1. DiskOK'
      BY <1>1 DEF OtherLocks, disk, DiskOK
    <2>2. StoreOK'
      BY <1>1 DEF OtherLocks, store, StoreOK
    <2>3. ServerOK'
      BY <1>1 DEF OtherLocks, server, ServerOK
    <2>4. FaultsOK'
      BY <1>1 DEF OtherLocks, FaultsOK
    <2> QED
      BY <2>1, <2>2, <2>3, <2>4
  <1>2. CASE OtherCommits
    <2> DEFINE v(r, is) == IF rows[r] = None THEN Row(1, is)
                           ELSE Row(IF is = "damaged" THEN rows[r].ver ELSE rows[r].ver + 1, is)
               may(r, is) == \/ rows[r] = None
                             \/ rows[r] # None /\ (is = "damaged" \/ rows[r].ver < MaxVersion)
    <2>1. ASSUME NEW r \in Runs, NEW is \in Histories, may(r, is) PROVE v(r, is) \in Rows
      <3>1. 1 \in 1..MaxVersion
        BY BoundsAssumption
      <3>2. rows[r] = None \/ rows[r] \in Rows
        BY DEF DiskOK
      <3>3. CASE rows[r] = None
        BY <3>1, <3>3 DEF Rows, Row
      <3>4. CASE rows[r] # None
        <4>1. rows[r].ver \in 1..MaxVersion
          BY <3>2, <3>4 DEF Rows
        <4>2. is # "damaged" => rows[r].ver + 1 \in 1..MaxVersion
          BY <2>1, <3>4, <4>1, BoundsAssumption
        <4> QED
          BY <3>4, <4>1, <4>2 DEF Rows, Row
      <3> QED
        BY <3>3, <3>4
    <2>2. rows' = rows \/ \E r \in Runs, is \in Histories : may(r, is) /\ rows' = [rows EXCEPT ![r] = v(r, is)]
      BY <1>2 DEF OtherCommits
    <2> HIDE DEF v, may
    <2>3. rows' \in [Runs -> {None} \cup Rows]
      BY <2>1, <2>2 DEF DiskOK
    <2>4. DiskOK'
      <3>1. trigger' \in BOOLEAN
        BY <1>2 DEF OtherCommits, DiskOK
      <3>2. data' \in Nat /\ own' \in Nat
        BY <1>2 DEF OtherCommits, DiskOK
      <3>3. lock' \in BOOLEAN
        BY <1>2, Zenon DEF OtherCommits
      <3> QED
        BY <2>3, <3>1, <3>2, <3>3 DEF DiskOK
    <2>5. StoreOK'
      BY <1>2 DEF OtherCommits, store, StoreOK
    <2>6. ServerOK'
      BY <1>2 DEF OtherCommits, server, ServerOK
    <2>7. FaultsOK'
      BY <1>2 DEF OtherCommits, FaultsOK
    <2> QED
      BY <2>4, <2>5, <2>6, <2>7
  <1>3. CASE OtherRollsBack
    <2>1. DiskOK'
      BY <1>3 DEF OtherRollsBack, disk, DiskOK
    <2>2. StoreOK'
      BY <1>3 DEF OtherRollsBack, store, StoreOK
    <2>3. ServerOK'
      BY <1>3 DEF OtherRollsBack, server, ServerOK
    <2>4. FaultsOK'
      BY <1>3 DEF OtherRollsBack, FaultsOK
    <2> QED
      BY <2>1, <2>2, <2>3, <2>4
  <1>4. CASE JobVerifies
    <2>1. StoreOK' /\ FaultsOK'
      BY <1>4, WorkerMoves DEF WorkerSteps, TypeOK, StoreOK, FaultsOK
    <2>2. ServerOK'
      BY <1>4, WorkerMoves DEF WorkerSteps, TypeOK, ServerOK
    <2>3. DiskOK'
      BY <1>4 DEF JobVerifies, disk, DiskOK
    <2> QED
      BY <2>1, <2>2, <2>3
  <1>5. CASE JobMigrates
    <2>1. StoreOK' /\ FaultsOK'
      BY <1>5, WorkerMoves DEF WorkerSteps, TypeOK, StoreOK, FaultsOK
    <2>2. ServerOK'
      BY <1>5, WorkerMoves DEF WorkerSteps, TypeOK, ServerOK
    <2>3. DiskOK'
      BY <1>5 DEF JobMigrates, Row, Rows, Histories, disk, DiskOK
    <2> QED
      BY <2>1, <2>2, <2>3
  <1>6. CASE JobCancelled
    <2>1. StoreOK' /\ FaultsOK'
      BY <1>6, WorkerMoves DEF WorkerSteps, TypeOK, StoreOK, FaultsOK
    <2>2. ServerOK'
      BY <1>6, WorkerMoves DEF WorkerSteps, TypeOK, ServerOK
    <2>3. DiskOK'
      BY <1>6 DEF JobCancelled, disk, DiskOK
    <2> QED
      BY <2>1, <2>2, <2>3
  <1>7. CASE JobBreaks
    <2>1. StoreOK' /\ FaultsOK'
      BY <1>7, WorkerMoves DEF WorkerSteps, TypeOK, StoreOK, FaultsOK
    <2>2. ServerOK'
      BY <1>7, WorkerMoves DEF WorkerSteps, TypeOK, ServerOK
    <2>3. DiskOK'
      BY <1>7 DEF JobBreaks, disk, DiskOK
    <2> QED
      BY <2>1, <2>2, <2>3
  <1>8. CASE JobTimesOut
    <2>1. DiskOK'
      BY <1>8 DEF JobTimesOut, Main, Cancel, disk, DiskOK
    <2>2. StoreOK'
      BY <1>8, CancelledJob DEF JobTimesOut, store, StoreOK
    <2>3. ServerOK'
      BY <1>8 DEF JobTimesOut, Main, Cancel, server, ServerOK
    <2>4. FaultsOK'
      BY <1>8 DEF JobTimesOut, Main, Cancel, FaultsOK
    <2> QED
      BY <2>1, <2>2, <2>3, <2>4
  <1>9. CASE JobSettles
    <2>1. DiskOK'
      BY <1>9 DEF JobSettles, Main, PrepareFails, Again, Adopt, Round, NewJob, Answer, Closing, Unverified, disk, DiskOK
    <2>2. StoreOK'
      <3>1. job \in Jobs /\ cache \in Caches
        BY <1>9 DEF JobSettles, StoreOK
      <3>2. /\ op' = op /\ closed' = closed /\ spoilt' \in BOOLEAN
        BY <1>9 DEF JobSettles
      <3>3. cache' \in Caches
        <4>1. Unverified \in Caches
          BY CacheTypes
        <4>2. [stamp |-> Stamp, complete |-> TRUE, seen |-> job.seen] \in Caches
          BY <3>1 DEF Caches, Jobs, Stamp, Stamps, DiskOK
        <4> HIDE DEF Caches
        <4> QED
          BY <1>9, <3>1, <4>1, <4>2 DEF JobSettles, Again, PrepareFails, Adopt
      <3>4. prep' \in {None} \cup Rounds /\ job' \in {None} \cup Jobs
        <4>1. prep \in Rounds
          BY <1>9 DEF JobSettles, Alive, StoreOK
        <4>2. [prep EXCEPT !.at = "wait"] \in Rounds
          BY <4>1 DEF Rounds
        <4>3. data \in Nat /\ own \in Nat
          BY DEF DiskOK
        <4> QED
          BY <1>9, <4>2, <4>3, NewRound DEF JobSettles, Again, PrepareFails, Adopt
      <3> QED
        BY <3>2, <3>3, <3>4 DEF StoreOK
    <2>3. ServerOK'
      BY <1>9 DEF JobSettles, Main, PrepareFails, Again, Adopt, Round, NewJob, Answer, Closing, Unverified, server, ServerOK
    <2>4. FaultsOK'
      BY <1>9 DEF JobSettles, Main, PrepareFails, Again, Adopt, Round, NewJob, Answer, Closing, Unverified, FaultsOK
    <2> QED
      BY <2>1, <2>2, <2>3, <2>4
  <1>10. CASE BusyRetry
    <2>1. DiskOK'
      BY <1>10 DEF BusyRetry, Main, PrepareFails, Again, Round, NewJob, Answer, Closing, Unverified, disk, DiskOK
    <2>2. StoreOK'
      <3>1. prep \in Rounds /\ data \in Nat /\ own \in Nat
        BY <1>10 DEF BusyRetry, StoreOK, DiskOK
      <3>2. prep.migrate \in BOOLEAN
        BY <3>1 DEF Rounds
      <3>3. cache' \in Caches
        BY <1>10, CacheTypes DEF BusyRetry, Again, PrepareFails, StoreOK
      <3>4. prep' \in {None} \cup Rounds /\ job' \in {None} \cup Jobs
        BY <1>10, <3>1, <3>2, NewRound DEF BusyRetry, Again, PrepareFails
      <3> QED
        BY <1>10, <3>3, <3>4 DEF BusyRetry, StoreOK
    <2>3. ServerOK'
      BY <1>10 DEF BusyRetry, Main, PrepareFails, Again, Round, NewJob, Answer, Closing, Unverified, server, ServerOK
    <2>4. FaultsOK'
      BY <1>10 DEF BusyRetry, Main, PrepareFails, Again, Round, NewJob, Answer, Closing, Unverified, FaultsOK
    <2> QED
      BY <2>1, <2>2, <2>3, <2>4
  <1>11. CASE PrepareTooLate
    <2>1. DiskOK'
      BY <1>11 DEF PrepareTooLate, Main, PrepareFails, Answer, Unverified, disk, DiskOK
    <2>2. StoreOK'
      BY <1>11, CacheTypes DEF PrepareTooLate, Main, PrepareFails, Answer, store, StoreOK
    <2>3. ServerOK'
      BY <1>11 DEF PrepareTooLate, Main, PrepareFails, Answer, Unverified, server, ServerOK
    <2>4. FaultsOK'
      BY <1>11 DEF PrepareTooLate, Main, PrepareFails, Answer, Unverified, FaultsOK
    <2> QED
      BY <2>1, <2>2, <2>3, <2>4
  <1>12. CASE OpenStore
    <2>1. DiskOK'
      BY <1>12 DEF OpenStore, Main, Fault, Failed, Refused, disk, DiskOK
    <2>2. StoreOK'
      BY <1>12 DEF OpenStore, Main, Fault, Failed, Refused, store, StoreOK
    <2>3. ServerOK'
      BY <1>12 DEF OpenStore, Main, Fault, Failed, Refused, server, ServerOK
    <2>4. FaultsOK'
      BY <1>12, FaultType DEF OpenStore, Failed, FaultsOK
    <2> QED
      BY <2>1, <2>2, <2>3, <2>4
  <1>13. CASE OpenCode
    <2>1. DiskOK'
      BY <1>13 DEF OpenCode, Close, Fault, Failed, Refused, Unverified, Round, NewJob, disk, DiskOK
    <2>2. StoreOK'
      <3>1. CASE Round(FALSE) /\ cache' = Unverified
        BY <1>13, <3>1, NewRound, CacheTypes DEF OpenCode, StoreOK, DiskOK
      <3>2. CASE UNCHANGED << closed, spoilt, cache, prep, job >>
        BY <1>13, <3>2 DEF OpenCode, StoreOK
      <3> QED
        BY <1>13, <3>1, <3>2 DEF OpenCode
    <2>3. ServerOK'
      <3>1. open' \subseteq {"store", "code"}
        BY <1>13, Closes DEF OpenCode
      <3> QED
        BY <1>13, <3>1 DEF OpenCode, Refused, ServerOK
    <2>4. FaultsOK'
      BY <1>13, Closes DEF OpenCode, FaultsOK
    <2> QED
      BY <2>1, <2>2, <2>3, <2>4
  <1>14. CASE OpenAgain
    <2>1. DiskOK'
      BY <1>14 DEF OpenAgain, Main, Closing, disk, DiskOK
    <2>2. StoreOK'
      BY <1>14 DEF OpenAgain, Main, Closing, store, StoreOK
    <2>3. ServerOK'
      BY <1>14 DEF OpenAgain, Main, Closing, server, ServerOK
    <2>4. FaultsOK'
      BY <1>14 DEF OpenAgain, Main, Closing, FaultsOK
    <2> QED
      BY <2>1, <2>2, <2>3, <2>4
  <1>15. CASE OpenTooLate
    <2>1. DiskOK'
      BY <1>15 DEF OpenTooLate, Main, Refused, disk, DiskOK
    <2>2. StoreOK'
      BY <1>15 DEF OpenTooLate, Main, Refused, store, StoreOK
    <2>3. ServerOK'
      BY <1>15 DEF OpenTooLate, Main, Refused, server, ServerOK
    <2>4. FaultsOK'
      BY <1>15 DEF OpenTooLate, Main, Refused, FaultsOK
    <2> QED
      BY <2>1, <2>2, <2>3, <2>4
  <1>16. CASE Compose
    <2>1. DiskOK'
      BY <1>16 DEF Compose, Main, Closing, Ready, disk, DiskOK
    <2>2. StoreOK'
      BY <1>16 DEF Compose, Main, Closing, Ready, store, StoreOK
    <2>3. ServerOK'
      BY <1>16 DEF Compose, Main, Closing, Ready, server, ServerOK
    <2>4. FaultsOK'
      BY <1>16 DEF Compose, Main, Closing, Ready, FaultsOK
    <2> QED
      BY <2>1, <2>2, <2>3, <2>4
  <1>17. CASE Cleanup
    <2>1. DiskOK'
      BY <1>17 DEF Cleanup, Main, Close, Fault, Failed, Refused, Unverified, disk, DiskOK
    <2>2. StoreOK'
      BY <1>17, CacheTypes DEF Cleanup, StoreOK
    <2>3. ServerOK'
      BY <1>17, Closes DEF Cleanup, Refused, ServerOK
    <2>4. FaultsOK'
      BY <1>17, Closes DEF Cleanup
    <2> QED
      BY <2>1, <2>2, <2>3, <2>4
  <1>18. CASE ReadRow
    <2>1. DiskOK'
      BY <1>18 DEF ReadRow, Doing, Matches, Selected, disk, DiskOK
    <2>2. StoreOK'
      <3>1. op \in Operations
        BY <1>18 DEF ReadRow, Doing, StoreOK
      <3>2. Selected(op.runs) \subseteq Rows
        <4>1. op.runs \subseteq Runs
          BY <3>1 DEF Operations
        <4> QED
          BY <4>1 DEF Selected, DiskOK
      <3>3. op' \in {None} \cup Operations
        BY <1>18, <3>1, <3>2 DEF ReadRow, Operations, Steps
      <3> QED
        BY <1>18, <3>3 DEF ReadRow, store, StoreOK
    <2>3. ServerOK'
      BY <1>18 DEF ReadRow, Doing, Matches, Selected, server, ServerOK
    <2>4. FaultsOK'
      BY <1>18 DEF ReadRow, Doing, Matches, Selected, FaultsOK
    <2> QED
      BY <2>1, <2>2, <2>3, <2>4
  <1>19. CASE ReadHistory
    <2>1. DiskOK'
      BY <1>19 DEF ReadHistory, Doing, Selected, disk, DiskOK
    <2>2. StoreOK'
      <3>1. op \in Operations
        BY <1>19 DEF ReadHistory, Doing, StoreOK
      <3>2. Selected(op.runs) \subseteq Rows
        <4>1. op.runs \subseteq Runs
          BY <3>1 DEF Operations
        <4> QED
          BY <4>1 DEF Selected, DiskOK
      <3>3. op' \in {None} \cup Operations
        BY <1>19, <3>1, <3>2 DEF ReadHistory, Operations, Steps
      <3> QED
        BY <1>19, <3>3 DEF ReadHistory, store, StoreOK
    <2>3. ServerOK'
      BY <1>19 DEF ReadHistory, Doing, Selected, server, ServerOK
    <2>4. FaultsOK'
      BY <1>19 DEF ReadHistory, Doing, Selected, FaultsOK
    <2> QED
      BY <2>1, <2>2, <2>3, <2>4
  <1>20. CASE ReadEnd
    <2>1. DiskOK'
      BY <1>20 DEF ReadEnd, Doing, Unverified, disk, DiskOK
    <2>2. StoreOK'
      <3>1. op \in Operations
        BY <1>20 DEF ReadEnd, Doing, StoreOK
      <3>2. op' \in {None} \cup Operations
        BY <1>20, <3>1 DEF ReadEnd, Operations, Steps
      <3> QED
        BY <1>20, <3>2, CacheTypes DEF ReadEnd, StoreOK
    <2>3. ServerOK'
      BY <1>20 DEF ReadEnd, Doing, Unverified, server, ServerOK
    <2>4. FaultsOK'
      BY <1>20 DEF ReadEnd, Doing, Unverified, FaultsOK
    <2> QED
      BY <2>1, <2>2, <2>3, <2>4
  <1>21. CASE Return
    <2>1. DiskOK'
      BY <1>21 DEF Return, Doing, disk, DiskOK
    <2>2. StoreOK'
      BY <1>21 DEF Return, Doing, store, StoreOK
    <2>3. ServerOK'
      BY <1>21 DEF Return, Doing, server, ServerOK
    <2>4. FaultsOK'
      BY <1>21 DEF Return, Doing, FaultsOK
    <2> QED
      BY <2>1, <2>2, <2>3, <2>4
  <1>22. CASE ReceiptStored
    <2>1. DiskOK'
      BY <1>22 DEF ReceiptStored, Doing, disk, DiskOK
    <2>2. StoreOK'
      <3>1. op \in Operations
        BY <1>22 DEF ReceiptStored, Doing, StoreOK
      <3>2. op' \in {None} \cup Operations
        BY <1>22, <3>1 DEF ReceiptStored, Operations, Steps
      <3> QED
        BY <1>22, <3>2 DEF ReceiptStored, store, StoreOK
    <2>3. ServerOK'
      BY <1>22 DEF ReceiptStored, Doing, server, ServerOK
    <2>4. FaultsOK'
      BY <1>22 DEF ReceiptStored, Doing, FaultsOK
    <2> QED
      BY <2>1, <2>2, <2>3, <2>4
  <1>23. CASE ReceiptBusy
    <2>1. DiskOK'
      BY <1>23 DEF ReceiptBusy, Doing, disk, DiskOK
    <2>2. StoreOK'
      BY <1>23 DEF ReceiptBusy, Doing, store, StoreOK
    <2>3. ServerOK'
      BY <1>23 DEF ReceiptBusy, Doing, server, ServerOK
    <2>4. FaultsOK'
      BY <1>23 DEF ReceiptBusy, Doing, FaultsOK
    <2> QED
      BY <2>1, <2>2, <2>3, <2>4
  <1>24. CASE FinishWrite
    <2>1. DiskOK'
      BY <1>24 DEF FinishWrite, Doing, OwnWriteOnly, Unverified, disk, DiskOK
    <2>2. StoreOK'
      <3>1. op \in Operations /\ cache \in Caches
        BY <1>24 DEF FinishWrite, Doing, StoreOK
      <3>2. op.ver \in 0..MaxVersion
        BY <3>1 DEF Operations
      <3>3. [cache EXCEPT !.stamp = Stamp, !.seen = Written] \in Caches
        BY <3>1, <3>2 DEF Caches, Stamp, Stamps, DiskOK, Written
      <3> HIDE DEF Caches
      <3> QED
        BY <1>24, <3>3, CacheTypes DEF FinishWrite, StoreOK
    <2>3. ServerOK'
      BY <1>24 DEF FinishWrite, Doing, OwnWriteOnly, Unverified, server, ServerOK
    <2>4. FaultsOK'
      BY <1>24 DEF FinishWrite, Doing, OwnWriteOnly, Unverified, FaultsOK
    <2> QED
      BY <2>1, <2>2, <2>3, <2>4
  <1>25. CASE CloseBegins
    <2>1. DiskOK'
      BY <1>25 DEF CloseBegins, Main, Closing, Cancel, disk, DiskOK
    <2>2. StoreOK'
      BY <1>25, CancelledJob DEF CloseBegins, store, StoreOK
    <2>3. ServerOK'
      BY <1>25 DEF CloseBegins, Main, Closing, Cancel, server, ServerOK
    <2>4. FaultsOK'
      BY <1>25 DEF CloseBegins, Main, Closing, Cancel, FaultsOK
    <2> QED
      BY <2>1, <2>2, <2>3, <2>4
  <1>26. CASE InitializationOver
    <2>1. DiskOK'
      BY <1>26 DEF InitializationOver, Main, disk, DiskOK
    <2>2. StoreOK'
      BY <1>26 DEF InitializationOver, Main, store, StoreOK
    <2>3. ServerOK'
      BY <1>26 DEF InitializationOver, Main, server, ServerOK
    <2>4. FaultsOK'
      BY <1>26 DEF InitializationOver, Main, FaultsOK
    <2> QED
      BY <2>1, <2>2, <2>3, <2>4
  <1>27. CASE RuntimeCloses
    <2>1. DiskOK'
      BY <1>27 DEF RuntimeCloses, Main, Close, Fault, Cancel, Unverified, disk, DiskOK
    <2>2. StoreOK'
      BY <1>27, CacheTypes, CancelledJob DEF RuntimeCloses, StoreOK
    <2>3. ServerOK'
      <3>1. open' \subseteq {"store", "code"}
        BY <1>27, Closes DEF RuntimeCloses, ServerOK
      <3> QED
        BY <1>27, <3>1 DEF RuntimeCloses, ServerOK
    <2>4. FaultsOK'
      BY <1>27, Closes DEF RuntimeCloses, FaultsOK
    <2> QED
      BY <2>1, <2>2, <2>3, <2>4
  <1>28. CASE WorkerClosed
    <2>1. DiskOK'
      BY <1>28 DEF WorkerClosed, Main, disk, DiskOK
    <2>2. StoreOK'
      BY <1>28 DEF WorkerClosed, Main, store, StoreOK
    <2>3. ServerOK'
      BY <1>28 DEF WorkerClosed, Main, server, ServerOK
    <2>4. FaultsOK'
      BY <1>28 DEF WorkerClosed, Main, FaultsOK
    <2> QED
      BY <2>1, <2>2, <2>3, <2>4
  <1>29. CASE StoreCloses
    <2>1. DiskOK'
      BY <1>29 DEF StoreCloses, Main, Close, Fault, disk, DiskOK
    <2>2. StoreOK'
      BY <1>29 DEF StoreCloses, Main, Close, Fault, store, StoreOK
    <2>3. ServerOK'
      BY <1>29, Closes DEF StoreCloses, ServerOK
    <2>4. FaultsOK'
      BY <1>29, Closes DEF StoreCloses
    <2> QED
      BY <2>1, <2>2, <2>3, <2>4
  <1>30. CASE Exits
    <2>1. DiskOK'
      BY <1>30 DEF Exits, Main, disk, DiskOK
    <2>2. StoreOK'
      BY <1>30 DEF Exits, Main, store, StoreOK
    <2>3. ServerOK'
      BY <1>30 DEF Exits, Main, server, ServerOK
    <2>4. FaultsOK'
      BY <1>30 DEF Exits, Main, FaultsOK
    <2> QED
      BY <2>1, <2>2, <2>3, <2>4
  <1>31. CASE Failsafe
    <2>1. DiskOK'
      BY <1>31 DEF Failsafe, Closing, disk, DiskOK
    <2>2. StoreOK'
      BY <1>31 DEF Failsafe, Closing, store, StoreOK
    <2>3. ServerOK'
      BY <1>31 DEF Failsafe, Closing, server, ServerOK
    <2>4. FaultsOK'
      BY <1>31 DEF Failsafe, Closing, FaultsOK
    <2> QED
      BY <2>1, <2>2, <2>3, <2>4
  <1>32. ASSUME NEW c \in Callers, Ask(c)
        PROVE  DiskOK' /\ StoreOK' /\ ServerOK' /\ FaultsOK'
    <2>1. DiskOK'
      BY <1>32 DEF Ask, Main, Closing, Ready, Fresh, Round, NewJob, Unverified, disk, DiskOK
    <2>2. StoreOK'
      <3>1. cache' \in Caches
        BY <1>32, CacheTypes DEF Ask, StoreOK
      <3>2. prep' \in {None} \cup Rounds /\ job' \in {None} \cup Jobs
        BY <1>32, NewRound DEF Ask, StoreOK, DiskOK
      <3> QED
        BY <1>32, <3>1, <3>2 DEF Ask, StoreOK
    <2>3. ServerOK'
      BY <1>32 DEF Ask, Main, Closing, Ready, Fresh, Round, NewJob, Unverified, server, ServerOK
    <2>4. FaultsOK'
      BY <1>32 DEF Ask, Main, Closing, Ready, Fresh, Round, NewJob, Unverified, FaultsOK
    <2> QED
      BY <2>1, <2>2, <2>3, <2>4
  <1>33. ASSUME NEW c \in Callers, Leave(c)
        PROVE  DiskOK' /\ StoreOK' /\ ServerOK' /\ FaultsOK'
    <2>1. DiskOK'
      BY <1>33 DEF Leave, Use, Main, disk, DiskOK
    <2>2. StoreOK'
      BY <1>33 DEF Leave, Use, Main, store, StoreOK
    <2>3. ServerOK'
      BY <1>33 DEF Leave, Use, Main, server, ServerOK
    <2>4. FaultsOK'
      BY <1>33 DEF Leave, Use, Main, FaultsOK
    <2> QED
      BY <2>1, <2>2, <2>3, <2>4
  <1>34. ASSUME NEW c \in Callers, Read(c)
        PROVE  DiskOK' /\ StoreOK' /\ ServerOK' /\ FaultsOK'
    <2>1. DiskOK'
      BY <1>34 DEF Read, Use, Main, Ready, Fresh, Unverified, Throws, Operation, disk, DiskOK
    <2>2. StoreOK'
      <3>1. CASE UNCHANGED op
        BY <1>34, <3>1, CacheTypes DEF Read, Throws, StoreOK
      <3>2. CASE \E S \in SUBSET Runs : op' = Operation("get", S, 0) \/ op' = Operation("history", S, 0)
        <4>1. op' \in Operations
          BY <3>2, OperationType DEF Steps
        <4>2. cache' \in Caches
          BY <1>34, CacheTypes DEF Read, Throws, StoreOK
        <4> QED
          BY <1>34, <4>1, <4>2 DEF Read, StoreOK
      <3> QED
        BY <1>34, <3>1, <3>2 DEF Read, Throws
    <2>3. ServerOK'
      BY <1>34 DEF Read, Use, Main, Ready, Fresh, Unverified, Throws, Operation, server, ServerOK
    <2>4. FaultsOK'
      BY <1>34 DEF Read, Use, Main, Ready, Fresh, Unverified, Throws, Operation, FaultsOK
    <2> QED
      BY <2>1, <2>2, <2>3, <2>4
  <1>35. ASSUME NEW c \in Callers, Rollback(c)
        PROVE  DiskOK' /\ StoreOK' /\ ServerOK' /\ FaultsOK'
    <2>1. DiskOK'
      BY <1>35 DEF Rollback, Use, Main, Throws, Unverified, disk, DiskOK
    <2>2. StoreOK'
      BY <1>35, CacheTypes DEF Rollback, Use, Main, Throws, store, StoreOK
    <2>3. ServerOK'
      BY <1>35 DEF Rollback, Use, Main, Throws, Unverified, server, ServerOK
    <2>4. FaultsOK'
      BY <1>35 DEF Rollback, Use, Main, Throws, Unverified, FaultsOK
    <2> QED
      BY <2>1, <2>2, <2>3, <2>4
  <1>36. ASSUME NEW c \in Callers, Receipt(c)
        PROVE  DiskOK' /\ StoreOK' /\ ServerOK' /\ FaultsOK'
    <2>1. DiskOK'
      BY <1>36 DEF Receipt, Use, Main, Fresh, Unverified, Operation, disk, DiskOK
    <2>2. StoreOK'
      <3>1. op' \in {None} \cup Operations
        BY <1>36, OperationType DEF Receipt, Steps
      <3>2. cache' \in Caches
        BY <1>36, CacheTypes DEF Receipt, Throws, StoreOK
      <3> QED
        BY <1>36, <3>1, <3>2 DEF Receipt, StoreOK
    <2>3. ServerOK'
      BY <1>36 DEF Receipt, Use, Main, Fresh, Unverified, Operation, server, ServerOK
    <2>4. FaultsOK'
      BY <1>36 DEF Receipt, Use, Main, Fresh, Unverified, Operation, FaultsOK
    <2> QED
      BY <2>1, <2>2, <2>3, <2>4
  <1>37. ASSUME NEW c \in Callers, NEW r \in Runs, Save(c, r)
        PROVE  DiskOK' /\ StoreOK' /\ ServerOK' /\ FaultsOK'
    <2>1. DiskOK'
      <3>1. rows'[r] \in Rows /\ rows' = [rows EXCEPT ![r] = rows'[r]]
        <4>1. rows[r] = None \/ rows[r] \in Rows
          BY DEF DiskOK
        <4>2. Versions(r) \in 0..MaxVersion /\ Versions(r) < MaxVersion
          BY <1>37, VersionTypes DEF Save
        <4>3. rows[r] # None => Versions(r) = rows[r].ver
          BY DEF Versions
        <4>4. Append(Versions(r) + 1) \in Rows /\ (rows[r] # None => Row(rows[r].ver + 1, "damaged") \in Rows)
          BY <4>2, <4>3, BoundsAssumption DEF Append, Row, Rows, Histories
        <4> QED
          BY <1>37, <4>1, <4>4 DEF Save, DiskOK
      <3> QED
        BY <1>37, <3>1 DEF Save, DiskOK
    <2>2. StoreOK'
      <3>1. op' \in Operations
        <4>1. Operation("finish", {r}, 2) \in Operations
          BY OperationType DEF Steps
        <4>2. Versions(r) + 1 \in 0..MaxVersion
          BY <1>37, VersionTypes, BoundsAssumption DEF Save
        <4> QED
          BY <1>37, <4>1, <4>2 DEF Save, Operations
      <3> QED
        BY <1>37, <3>1 DEF Save, StoreOK
    <2>3. ServerOK'
      BY <1>37 DEF Save, Use, Main, Writable, Versions, Ready, Extends, Append, Row, Operation, server, ServerOK
    <2>4. FaultsOK'
      BY <1>37 DEF Save, Use, Main, Writable, Versions, Ready, Extends, Append, Row, Operation, FaultsOK
    <2> QED
      BY <2>1, <2>2, <2>3, <2>4
  <1>38. ASSUME NEW c \in Callers, NEW r \in Runs, Delete(c, r)
        PROVE  DiskOK' /\ StoreOK' /\ ServerOK' /\ FaultsOK'
    <2>1. DiskOK'
      BY <1>38 DEF Delete, Use, Main, Writable, Ready, Row, Operation, disk, DiskOK
    <2>2. StoreOK'
      <3>1. op' \in Operations
        <4>1. Operation("finish", {r}, 2) \in Operations
          BY OperationType DEF Steps
        <4> QED
          BY <1>38, <4>1 DEF Delete
      <3> QED
        BY <1>38, <3>1 DEF Delete, StoreOK
    <2>3. ServerOK'
      BY <1>38 DEF Delete, Use, Main, Writable, Ready, Row, Operation, server, ServerOK
    <2>4. FaultsOK'
      BY <1>38 DEF Delete, Use, Main, Writable, Ready, Row, Operation, FaultsOK
    <2> QED
      BY <2>1, <2>2, <2>3, <2>4
  <1>39. CASE UNCHANGED vars
    <2>1. DiskOK' /\ FaultsOK'
      BY <1>39, Stutter DEF DiskOK, FaultsOK
    <2>2. StoreOK'
      BY <1>39, Stutter DEF StoreOK
    <2>3. ServerOK'
      BY <1>39, Stutter DEF ServerOK
    <2> QED
      BY <2>1, <2>2, <2>3
  <1> QED
    BY <1>1, <1>2, <1>3, <1>4, <1>5, <1>6, <1>7, <1>8, <1>9, <1>10, <1>11, <1>12, <1>13, <1>14, <1>15, <1>16, <1>17, <1>18, <1>19, <1>20, <1>21, <1>22, <1>23, <1>24, <1>25, <1>26, <1>27, <1>28, <1>29, <1>30, <1>31, <1>32, <1>33, <1>34, <1>35, <1>36, <1>37, <1>38, <1>39 DEF Next

-----------------------------------------------------------------------------
(* What the runtime is, and what it leaves behind                           *)

LEMMA AliveStep == TypeOK /\ Alive /\ [Next]_vars => Alive'
  <1> SUFFICES ASSUME TypeOK, Alive, [Next]_vars PROVE Alive'
    OBVIOUS
  <1> USE NoneAssumption
  <1>1. CASE OtherLocks
    BY <1>1 DEF OtherLocks, disk, store, server, Alive, TypeOK, DiskOK, StoreOK, ServerOK, FaultsOK, Rounds, Jobs, Operations, Outcomes
  <1>2. CASE OtherCommits
    BY <1>2 DEF OtherCommits, Row, Histories, Rows, disk, store, server, Alive, TypeOK, DiskOK, StoreOK, ServerOK, FaultsOK, Rounds, Jobs, Operations, Outcomes
  <1>3. CASE OtherRollsBack
    BY <1>3 DEF OtherRollsBack, disk, store, server, Alive, TypeOK, DiskOK, StoreOK, ServerOK, FaultsOK, Rounds, Jobs, Operations, Outcomes
  <1>4. CASE JobVerifies
    <2>1. own' = own
      BY <1>4 DEF JobVerifies, disk
    <2> QED
      BY <1>4, <2>1, WorkerMoves DEF WorkerSteps, Alive
  <1>5. CASE JobMigrates
    <2>1. own' = own
      BY <1>5 DEF JobMigrates, disk
    <2> QED
      BY <1>5, <2>1, WorkerMoves DEF WorkerSteps, Alive
  <1>6. CASE JobCancelled
    <2>1. own' = own
      BY <1>6 DEF JobCancelled, disk
    <2> QED
      BY <1>6, <2>1, WorkerMoves DEF WorkerSteps, Alive
  <1>7. CASE JobBreaks
    <2>1. own' = own
      BY <1>7 DEF JobBreaks, disk
    <2> QED
      BY <1>7, <2>1, WorkerMoves DEF WorkerSteps, Alive
  <1>8. CASE JobTimesOut
    BY <1>8, CancelledJob DEF JobTimesOut, disk, server, Alive, TypeOK, StoreOK
  <1>9. CASE JobSettles
    <2>1. prep \in Rounds /\ data \in Nat /\ own \in Nat /\ [prep EXCEPT !.at = "wait"] \in Rounds
          /\ [prep EXCEPT !.at = "wait"].at = "wait"
      BY <1>9 DEF JobSettles, Alive, TypeOK, DiskOK, StoreOK, Rounds
    <2>2. caller' = caller \/ \E how \in {"idle", "ready"} : Answer(how)
      BY <1>9 DEF JobSettles, Again, PrepareFails, Adopt
    <2>3. ~live => caller' = caller
      BY <2>2 DEF Alive, Answer, TypeOK, ServerOK
    <2>4. live' = live /\ own' = own /\ op' = op
      BY <1>9 DEF JobSettles, disk
    <2>5. live => init' = "none"
      BY <1>9 DEF JobSettles, Again, PrepareFails, Adopt, Alive
    <2>6. (job' # None <=> (prep' # None /\ prep'.at = "job")) /\ (job' # None /\ job'.at = "run" => job'.out = "none")
      BY <1>9, <2>1, NewRound DEF JobSettles, Again, PrepareFails, Adopt
    <2>7. prep' # None => live \/ init' = "prepare"
      BY <1>9 DEF JobSettles, Again, PrepareFails, Adopt, Alive
    <2> QED
      BY <2>3, <2>4, <2>5, <2>6, <2>7 DEF Alive
  <1>10. CASE BusyRetry
    <2>1. prep \in Rounds /\ prep.migrate \in BOOLEAN /\ data \in Nat /\ own \in Nat
      BY <1>10 DEF BusyRetry, Alive, TypeOK, DiskOK, StoreOK, Rounds
    <2>2. (prep' # None /\ job' # None /\ prep'.at = "job" /\ job'.out = "none") \/ (prep' = None /\ job' = None)
      BY <1>10, <2>1, NewRound DEF BusyRetry, Again, PrepareFails
    <2>3. live' = live /\ own' = own /\ op' = op
      BY <1>10 DEF BusyRetry, disk
    <2>4. ~live => caller' = caller
      BY <1>10 DEF BusyRetry, Again, PrepareFails, Answer, Alive, TypeOK, ServerOK
    <2>5. (live => init' = "none") /\ (prep' # None => live \/ init' = "prepare")
      BY <1>10 DEF BusyRetry, Again, PrepareFails, Alive
    <2> QED
      BY <2>2, <2>3, <2>4, <2>5 DEF Alive
  <1>11. CASE PrepareTooLate
    BY <1>11 DEF PrepareTooLate, Main, PrepareFails, Answer, Unverified, disk, store, server, Alive, TypeOK, DiskOK, StoreOK, ServerOK, FaultsOK, Rounds, Jobs, Operations, Outcomes
  <1>12. CASE OpenStore
    BY <1>12 DEF OpenStore, Main, Fault, Failed, Refused, disk, store, server, Alive, TypeOK, DiskOK, StoreOK, ServerOK, FaultsOK, Rounds, Jobs, Operations, Outcomes
  <1>13. CASE OpenCode
    <2>1. ~live /\ live' = live /\ op' = op /\ own' = 0
      BY <1>13 DEF OpenCode, disk, Alive
    <2>2. caller' = caller \/ Refused
      BY <1>13 DEF OpenCode
    <2>3. \A c \in Callers : caller'[c] \in {"idle", "promise"}
      BY <2>1, <2>2 DEF Refused, Alive
    <2>4. CASE Round(FALSE) /\ init' = "prepare"
      <3>1. prep' # None /\ prep'.at = "job" /\ job' # None /\ job'.out = "none"
        BY <2>4, NewRound DEF TypeOK, DiskOK
      <3> QED
        BY <2>1, <2>3, <2>4, <3>1 DEF Alive
    <2>5. CASE UNCHANGED << prep, job >> /\ prep = None
      BY <2>1, <2>3, <2>5 DEF Alive
    <2>6. prep = None
      BY <1>13, <2>1 DEF OpenCode, Alive
    <2> QED
      BY <1>13, <2>4, <2>5, <2>6 DEF OpenCode
  <1>14. CASE OpenAgain
    BY <1>14 DEF OpenAgain, Main, Closing, disk, store, server, Alive, TypeOK, DiskOK, StoreOK, ServerOK, FaultsOK, Rounds, Jobs, Operations, Outcomes
  <1>15. CASE OpenTooLate
    BY <1>15 DEF OpenTooLate, Main, Refused, disk, store, server, Alive, TypeOK, DiskOK, StoreOK, ServerOK, FaultsOK, Rounds, Jobs, Operations, Outcomes
  <1>16. CASE Compose
    <2>1. prep = None /\ job = None /\ UNCHANGED << prep, job, op, own >> /\ live = FALSE
      BY <1>16 DEF Compose, Alive, disk, store, TypeOK, ServerOK
    <2>2. ~live' => live' = live /\ caller' = caller
      BY <1>16, <2>1 DEF Compose
    <2>3. live' => init' = "none"
      BY <1>16, <2>1 DEF Compose
    <2> QED
      BY <2>1, <2>2, <2>3 DEF Alive
  <1>17. CASE Cleanup
    BY <1>17 DEF Cleanup, Main, Close, Fault, Failed, Refused, Unverified, disk, store, server, Alive, TypeOK, DiskOK, StoreOK, ServerOK, FaultsOK, Rounds, Jobs, Operations, Outcomes
  <1>18. CASE ReadRow
    BY <1>18 DEF ReadRow, Doing, Matches, Selected, disk, store, server, Alive, TypeOK, DiskOK, StoreOK, ServerOK, FaultsOK, Rounds, Jobs, Operations, Outcomes
  <1>19. CASE ReadHistory
    BY <1>19 DEF ReadHistory, Doing, Selected, disk, store, server, Alive, TypeOK, DiskOK, StoreOK, ServerOK, FaultsOK, Rounds, Jobs, Operations, Outcomes
  <1>20. CASE ReadEnd
    BY <1>20 DEF ReadEnd, Doing, Unverified, disk, store, server, Alive, TypeOK, DiskOK, StoreOK, ServerOK, FaultsOK, Rounds, Jobs, Operations, Outcomes
  <1>21. CASE Return
    BY <1>21 DEF Return, Doing, disk, store, server, Alive, TypeOK, DiskOK, StoreOK, ServerOK, FaultsOK, Rounds, Jobs, Operations, Outcomes
  <1>22. CASE ReceiptStored
    BY <1>22 DEF ReceiptStored, Doing, disk, store, server, Alive, TypeOK, DiskOK, StoreOK, ServerOK, FaultsOK, Rounds, Jobs, Operations, Outcomes
  <1>23. CASE ReceiptBusy
    BY <1>23 DEF ReceiptBusy, Doing, disk, store, server, Alive, TypeOK, DiskOK, StoreOK, ServerOK, FaultsOK, Rounds, Jobs, Operations, Outcomes
  <1>24. CASE FinishWrite
    BY <1>24 DEF FinishWrite, Doing, OwnWriteOnly, Unverified, disk, store, server, Alive, TypeOK, DiskOK, StoreOK, ServerOK, FaultsOK, Rounds, Jobs, Operations, Outcomes
  <1>25. CASE CloseBegins
    BY <1>25, CancelledJob DEF CloseBegins, disk, server, Alive, TypeOK, StoreOK
  <1>26. CASE InitializationOver
    BY <1>26 DEF InitializationOver, Main, disk, store, server, Alive, TypeOK, DiskOK, StoreOK, ServerOK, FaultsOK, Rounds, Jobs, Operations, Outcomes
  <1>27. CASE RuntimeCloses
    BY <1>27, CancelledJob DEF RuntimeCloses, disk, Alive, TypeOK, StoreOK
  <1>28. CASE WorkerClosed
    BY <1>28 DEF WorkerClosed, Main, disk, store, server, Alive, TypeOK, DiskOK, StoreOK, ServerOK, FaultsOK, Rounds, Jobs, Operations, Outcomes
  <1>29. CASE StoreCloses
    BY <1>29 DEF StoreCloses, Main, Close, Fault, disk, store, server, Alive, TypeOK, DiskOK, StoreOK, ServerOK, FaultsOK, Rounds, Jobs, Operations, Outcomes
  <1>30. CASE Exits
    BY <1>30 DEF Exits, Main, disk, store, server, Alive, TypeOK, DiskOK, StoreOK, ServerOK, FaultsOK, Rounds, Jobs, Operations, Outcomes
  <1>31. CASE Failsafe
    BY <1>31 DEF Failsafe, Closing, disk, store, server, Alive, TypeOK, DiskOK, StoreOK, ServerOK, FaultsOK, Rounds, Jobs, Operations, Outcomes
  <1>32. ASSUME NEW c \in Callers, Ask(c) PROVE Alive'
    <2>1. CASE Round(FALSE) /\ live /\ prep = None
      BY <1>32, <2>1, NewRound DEF Ask, disk, Alive, TypeOK, DiskOK, ServerOK
    <2>2. CASE UNCHANGED << prep, job >>
      BY <1>32, <2>2 DEF Ask, disk, Alive, TypeOK, ServerOK
    <2> QED
      BY <1>32, <2>1, <2>2 DEF Ask
  <1>33. ASSUME NEW c \in Callers, Leave(c) PROVE Alive'
    BY <1>33 DEF Leave, Use, Main, disk, store, server, Alive, TypeOK, DiskOK, StoreOK, ServerOK, FaultsOK, Rounds, Jobs, Operations, Outcomes
  <1>34. ASSUME NEW c \in Callers, Read(c) PROVE Alive'
    BY <1>34 DEF Read, Use, Main, Ready, Fresh, Unverified, Throws, Operation, disk, store, server, Alive, TypeOK, DiskOK, StoreOK, ServerOK, FaultsOK, Rounds, Jobs, Operations, Outcomes
  <1>35. ASSUME NEW c \in Callers, Rollback(c) PROVE Alive'
    BY <1>35 DEF Rollback, Use, Main, Throws, Unverified, disk, store, server, Alive, TypeOK, DiskOK, StoreOK, ServerOK, FaultsOK, Rounds, Jobs, Operations, Outcomes
  <1>36. ASSUME NEW c \in Callers, Receipt(c) PROVE Alive'
    BY <1>36 DEF Receipt, Use, Main, Fresh, Unverified, Operation, disk, store, server, Alive, TypeOK, DiskOK, StoreOK, ServerOK, FaultsOK, Rounds, Jobs, Operations, Outcomes
  <1>37. ASSUME NEW c \in Callers, NEW r \in Runs, Save(c, r) PROVE Alive'
    BY <1>37 DEF Save, Use, Main, Writable, Versions, Ready, Extends, Append, Row, Operation, disk, store, server, Alive, TypeOK, DiskOK, StoreOK, ServerOK, FaultsOK, Rounds, Jobs, Operations, Outcomes
  <1>38. ASSUME NEW c \in Callers, NEW r \in Runs, Delete(c, r) PROVE Alive'
    BY <1>38 DEF Delete, Use, Main, Writable, Ready, Row, Operation, disk, store, server, Alive, TypeOK, DiskOK, StoreOK, ServerOK, FaultsOK, Rounds, Jobs, Operations, Outcomes
  <1>39. CASE UNCHANGED vars
    BY <1>39, Stutter DEF Alive
  <1> QED
    BY <1>1, <1>2, <1>3, <1>4, <1>5, <1>6, <1>7, <1>8, <1>9, <1>10, <1>11, <1>12, <1>13, <1>14, <1>15, <1>16, <1>17, <1>18, <1>19, <1>20, <1>21, <1>22, <1>23, <1>24, <1>25, <1>26, <1>27, <1>28, <1>29, <1>30, <1>31, <1>32, <1>33, <1>34, <1>35, <1>36, <1>37, <1>38, <1>39 DEF Next

LEMMA StagesStep == TypeOK /\ Alive /\ Accounts /\ [Next]_vars => Stages'
  <1> SUFFICES ASSUME TypeOK, Alive, Noted, Stages, [Next]_vars PROVE Stages'
    BY DEF Accounts
  <1>1. CASE OtherLocks
    BY <1>1 DEF OtherLocks, disk, store, server, Alive, TypeOK, DiskOK, StoreOK, ServerOK, FaultsOK, Noted, Stages
  <1>2. CASE OtherCommits
    BY <1>2 DEF OtherCommits, Row, Histories, Rows, disk, store, server, Alive, TypeOK, DiskOK, StoreOK, ServerOK, FaultsOK, Noted, Stages
  <1>3. CASE OtherRollsBack
    BY <1>3 DEF OtherRollsBack, disk, store, server, Alive, TypeOK, DiskOK, StoreOK, ServerOK, FaultsOK, Noted, Stages
  <1>4. CASE JobVerifies
    BY <1>4 DEF JobVerifies, Running, Ends, Versions, disk, store, server, Alive, TypeOK, DiskOK, StoreOK, ServerOK, FaultsOK, Noted, Stages
  <1>5. CASE JobMigrates
    BY <1>5 DEF JobMigrates, Running, Ends, Row, disk, store, server, Alive, TypeOK, DiskOK, StoreOK, ServerOK, FaultsOK, Noted, Stages
  <1>6. CASE JobCancelled
    BY <1>6 DEF JobCancelled, Running, Ends, disk, store, server, Alive, TypeOK, DiskOK, StoreOK, ServerOK, FaultsOK, Noted, Stages
  <1>7. CASE JobBreaks
    BY <1>7 DEF JobBreaks, Running, Fault, Ends, disk, store, server, Alive, TypeOK, DiskOK, StoreOK, ServerOK, FaultsOK, Noted, Stages
  <1>8. CASE JobTimesOut
    BY <1>8 DEF JobTimesOut, Main, Cancel, disk, store, server, Alive, TypeOK, DiskOK, StoreOK, ServerOK, FaultsOK, Noted, Stages
  <1>9. CASE JobSettles
    BY <1>9 DEF JobSettles, Main, PrepareFails, Again, Adopt, Round, NewJob, Answer, Closing, Unverified, disk, store, server, Alive, TypeOK, DiskOK, StoreOK, ServerOK, FaultsOK, Noted, Stages
  <1>10. CASE BusyRetry
    BY <1>10 DEF BusyRetry, Main, PrepareFails, Again, Round, NewJob, Answer, Closing, Unverified, disk, store, server, Alive, TypeOK, DiskOK, StoreOK, ServerOK, FaultsOK, Noted, Stages
  <1>11. CASE PrepareTooLate
    BY <1>11 DEF PrepareTooLate, Main, PrepareFails, Answer, Unverified, disk, store, server, Alive, TypeOK, DiskOK, StoreOK, ServerOK, FaultsOK, Noted, Stages
  <1>12. CASE OpenStore
    BY <1>12 DEF OpenStore, Main, Fault, Failed, Refused, disk, store, server, Alive, TypeOK, DiskOK, StoreOK, ServerOK, FaultsOK, Noted, Stages
  <1>13. CASE OpenCode
    BY <1>13 DEF OpenCode, Close, Fault, Failed, Refused, Unverified, Round, NewJob, disk, store, server, Alive, TypeOK, DiskOK, StoreOK, ServerOK, FaultsOK, Noted, Stages
  <1>14. CASE OpenAgain
    BY <1>14 DEF OpenAgain, Main, Closing, disk, store, server, Alive, TypeOK, DiskOK, StoreOK, ServerOK, FaultsOK, Noted, Stages
  <1>15. CASE OpenTooLate
    BY <1>15 DEF OpenTooLate, Main, Refused, disk, store, server, Alive, TypeOK, DiskOK, StoreOK, ServerOK, FaultsOK, Noted, Stages
  <1>16. CASE Compose
    BY <1>16 DEF Compose, Main, Closing, Ready, disk, store, server, Alive, TypeOK, DiskOK, StoreOK, ServerOK, FaultsOK, Noted, Stages
  <1>17. CASE Cleanup
    BY <1>17 DEF Cleanup, Main, Close, Fault, Failed, Refused, Unverified, disk, store, server, Alive, TypeOK, DiskOK, StoreOK, ServerOK, FaultsOK, Noted, Stages
  <1>18. CASE ReadRow
    BY <1>18 DEF ReadRow, Doing, Matches, Selected, disk, store, server, Alive, TypeOK, DiskOK, StoreOK, ServerOK, FaultsOK, Noted, Stages
  <1>19. CASE ReadHistory
    BY <1>19 DEF ReadHistory, Doing, Selected, disk, store, server, Alive, TypeOK, DiskOK, StoreOK, ServerOK, FaultsOK, Noted, Stages
  <1>20. CASE ReadEnd
    BY <1>20 DEF ReadEnd, Doing, Unverified, disk, store, server, Alive, TypeOK, DiskOK, StoreOK, ServerOK, FaultsOK, Noted, Stages
  <1>21. CASE Return
    BY <1>21 DEF Return, Doing, disk, store, server, Alive, TypeOK, DiskOK, StoreOK, ServerOK, FaultsOK, Noted, Stages
  <1>22. CASE ReceiptStored
    BY <1>22 DEF ReceiptStored, Doing, disk, store, server, Alive, TypeOK, DiskOK, StoreOK, ServerOK, FaultsOK, Noted, Stages
  <1>23. CASE ReceiptBusy
    BY <1>23 DEF ReceiptBusy, Doing, disk, store, server, Alive, TypeOK, DiskOK, StoreOK, ServerOK, FaultsOK, Noted, Stages
  <1>24. CASE FinishWrite
    BY <1>24 DEF FinishWrite, Doing, OwnWriteOnly, Unverified, disk, store, server, Alive, TypeOK, DiskOK, StoreOK, ServerOK, FaultsOK, Noted, Stages
  <1>25. CASE CloseBegins
    BY <1>25 DEF CloseBegins, Main, Closing, Cancel, disk, store, server, Alive, TypeOK, DiskOK, StoreOK, ServerOK, FaultsOK, Noted, Stages
  <1>26. CASE InitializationOver
    BY <1>26 DEF InitializationOver, Main, disk, store, server, Alive, TypeOK, DiskOK, StoreOK, ServerOK, FaultsOK, Noted, Stages
  <1>27. CASE RuntimeCloses
    <2>1. /\ live \in BOOLEAN /\ retained' = retained /\ init' = init /\ exit' = exit /\ prep' = prep /\ leak \in BOOLEAN
          /\ exit = "up" /\ init = "none" /\ (retained => errors)
      BY <1>27 DEF RuntimeCloses, Main, Stages, TypeOK, ServerOK, FaultsOK
    <2>2. CASE live
      <3>1. shut' = "worker" /\ closed' = TRUE /\ ("code" \in open' => errors') /\ (errors => errors') /\ live' = live
        BY <1>27, <2>2 DEF RuntimeCloses
      <3> QED
        BY <2>1, <2>2, <3>1 DEF Stages
    <2>3. CASE ~live
      <3>1. shut' = "done" /\ UNCHANGED << job, open, errors, leak >>
        BY <1>27, <2>3 DEF RuntimeCloses
      <3>2. prep = None /\ job = None
        BY <2>1, <2>3 DEF Alive
      <3>3. spoilt => retained
        BY <2>1, <2>3 DEF Noted
      <3>4. (leak => errors) /\ (open # {} => errors)
        BY <2>1, <2>3, <3>2, <3>3 DEF Noted
      <3> QED
        BY <2>1, <3>1, <3>2, <3>4 DEF Stages
    <2> QED
      BY <2>1, <2>2, <2>3
  <1>28. CASE WorkerClosed
    BY <1>28 DEF WorkerClosed, Main, disk, store, server, Alive, TypeOK, DiskOK, StoreOK, ServerOK, FaultsOK, Noted, Stages
  <1>29. CASE StoreCloses
    <2>1. /\ shut' = "done" /\ exit' = exit /\ exit = "up" /\ ("store" \in open' => errors') /\ (errors => errors')
          /\ UNCHANGED << init, retained, job, prep >> /\ Close({"store"})
      BY <1>29 DEF StoreCloses, store, Main
    <2>2. open' \subseteq {"store", "code"} /\ open' \subseteq open \cup {"store"} /\ (UNCHANGED leak \/ "store" \in open')
      BY <2>1, Closes DEF TypeOK
    <2>3. /\ init = "none" /\ (retained => errors) /\ job = None /\ prep = None /\ (leak => errors)
          /\ ("code" \in open => errors)
      BY <1>29 DEF StoreCloses, Stages
    <2>4. open' # {} => errors'
      BY <2>1, <2>2, <2>3
    <2> QED
      BY <2>1, <2>2, <2>3, <2>4 DEF Stages
  <1>30. CASE Exits
    BY <1>30 DEF Exits, Main, disk, store, server, Alive, TypeOK, DiskOK, StoreOK, ServerOK, FaultsOK, Noted, Stages
  <1>31. CASE Failsafe
    BY <1>31 DEF Failsafe, Closing, disk, store, server, Alive, TypeOK, DiskOK, StoreOK, ServerOK, FaultsOK, Noted, Stages
  <1>32. ASSUME NEW c \in Callers, Ask(c) PROVE Stages'
    BY <1>32 DEF Ask, Main, Closing, Ready, Fresh, Round, NewJob, Unverified, disk, store, server, Alive, TypeOK, DiskOK, StoreOK, ServerOK, FaultsOK, Noted, Stages
  <1>33. ASSUME NEW c \in Callers, Leave(c) PROVE Stages'
    BY <1>33 DEF Leave, Use, Main, disk, store, server, Alive, TypeOK, DiskOK, StoreOK, ServerOK, FaultsOK, Noted, Stages
  <1>34. ASSUME NEW c \in Callers, Read(c) PROVE Stages'
    BY <1>34 DEF Read, Use, Main, Ready, Fresh, Unverified, Throws, Operation, disk, store, server, Alive, TypeOK, DiskOK, StoreOK, ServerOK, FaultsOK, Noted, Stages
  <1>35. ASSUME NEW c \in Callers, Rollback(c) PROVE Stages'
    BY <1>35 DEF Rollback, Use, Main, Throws, Unverified, disk, store, server, Alive, TypeOK, DiskOK, StoreOK, ServerOK, FaultsOK, Noted, Stages
  <1>36. ASSUME NEW c \in Callers, Receipt(c) PROVE Stages'
    BY <1>36 DEF Receipt, Use, Main, Fresh, Unverified, Operation, disk, store, server, Alive, TypeOK, DiskOK, StoreOK, ServerOK, FaultsOK, Noted, Stages
  <1>37. ASSUME NEW c \in Callers, NEW r \in Runs, Save(c, r) PROVE Stages'
    BY <1>37 DEF Save, Use, Main, Writable, Versions, Ready, Extends, Append, Row, Operation, disk, store, server, Alive, TypeOK, DiskOK, StoreOK, ServerOK, FaultsOK, Noted, Stages
  <1>38. ASSUME NEW c \in Callers, NEW r \in Runs, Delete(c, r) PROVE Stages'
    BY <1>38 DEF Delete, Use, Main, Writable, Ready, Row, Operation, disk, store, server, Alive, TypeOK, DiskOK, StoreOK, ServerOK, FaultsOK, Noted, Stages
  <1>39. CASE UNCHANGED vars
    BY <1>39, Stutter DEF Stages
  <1> QED
    BY <1>1, <1>2, <1>3, <1>4, <1>5, <1>6, <1>7, <1>8, <1>9, <1>10, <1>11, <1>12, <1>13, <1>14, <1>15, <1>16, <1>17, <1>18, <1>19, <1>20, <1>21, <1>22, <1>23, <1>24, <1>25, <1>26, <1>27, <1>28, <1>29, <1>30, <1>31, <1>32, <1>33, <1>34, <1>35, <1>36, <1>37, <1>38, <1>39 DEF Next

LEMMA NotedStep == TypeOK /\ Alive /\ Accounts /\ [Next]_vars => Noted'
  <1> SUFFICES ASSUME TypeOK, Alive, Noted, Stages, [Next]_vars PROVE Noted'
    BY DEF Accounts
  <1> USE NoneAssumption
  <1>1. CASE OtherLocks
    BY <1>1 DEF OtherLocks, disk, store, server, Alive, TypeOK, DiskOK, StoreOK, ServerOK, FaultsOK, Noted, Stages, Broken, Jobs, Rounds, Outcomes
  <1>2. CASE OtherCommits
    BY <1>2 DEF OtherCommits, Row, Histories, Rows, disk, store, server, Alive, TypeOK, DiskOK, StoreOK, ServerOK, FaultsOK, Noted, Stages, Broken, Jobs, Rounds, Outcomes
  <1>3. CASE OtherRollsBack
    BY <1>3 DEF OtherRollsBack, disk, store, server, Alive, TypeOK, DiskOK, StoreOK, ServerOK, FaultsOK, Noted, Stages, Broken, Jobs, Rounds, Outcomes
  <1>4. CASE JobVerifies
    <2>1. job # None /\ job' # None /\ job.out \notin Broken /\ (leak' = leak \/ job'.out \in Broken)
          /\ UNCHANGED << spoilt, live, init, open, errors, retained >>
      BY <1>4, WorkerMoves DEF WorkerSteps, Alive, Broken
    <2> QED
      BY <2>1 DEF Noted
  <1>5. CASE JobMigrates
    <2>1. job # None /\ job' # None /\ job.out \notin Broken /\ (leak' = leak \/ job'.out \in Broken)
          /\ UNCHANGED << spoilt, live, init, open, errors, retained >>
      BY <1>5, WorkerMoves DEF WorkerSteps, Alive, Broken
    <2> QED
      BY <2>1 DEF Noted
  <1>6. CASE JobCancelled
    <2>1. job # None /\ job' # None /\ job.out \notin Broken /\ (leak' = leak \/ job'.out \in Broken)
          /\ UNCHANGED << spoilt, live, init, open, errors, retained >>
      BY <1>6, WorkerMoves DEF WorkerSteps, Alive, Broken
    <2> QED
      BY <2>1 DEF Noted
  <1>7. CASE JobBreaks
    <2>1. job # None /\ job' # None /\ job.out \notin Broken /\ (leak' = leak \/ job'.out \in Broken)
          /\ UNCHANGED << spoilt, live, init, open, errors, retained >>
      BY <1>7, WorkerMoves DEF WorkerSteps, Alive, Broken
    <2> QED
      BY <2>1 DEF Noted
  <1>8. CASE JobTimesOut
    BY <1>8, CancelledJob DEF JobTimesOut, disk, server, Noted, TypeOK, StoreOK
  <1>9. CASE JobSettles
    BY <1>9 DEF JobSettles, Main, PrepareFails, Again, Adopt, Round, NewJob, Answer, Closing, Unverified, disk, store, server, Alive, TypeOK, DiskOK, StoreOK, ServerOK, FaultsOK, Noted, Stages, Broken, Jobs, Rounds, Outcomes
  <1>10. CASE BusyRetry
    BY <1>10 DEF BusyRetry, Main, PrepareFails, Again, Round, NewJob, Answer, Closing, Unverified, disk, store, server, Alive, TypeOK, DiskOK, StoreOK, ServerOK, FaultsOK, Noted, Stages, Broken, Jobs, Rounds, Outcomes
  <1>11. CASE PrepareTooLate
    BY <1>11 DEF PrepareTooLate, Main, PrepareFails, Answer, Unverified, disk, store, server, Alive, TypeOK, DiskOK, StoreOK, ServerOK, FaultsOK, Noted, Stages, Broken, Jobs, Rounds, Outcomes
  <1>12. CASE OpenStore
    <2>1. ~live /\ job = None /\ UNCHANGED << job, spoilt, live, errors >> /\ init = "store"
      BY <1>12 DEF OpenStore, Alive, store
    <2>2. (leak => errors \/ retained) /\ (spoilt => retained)
      BY <2>1 DEF Noted
    <2>3. (retained => retained') /\ (leak' => leak \/ retained')
      <3>1. \/ UNCHANGED << leak, retained >>
            \/ leak' = (leak \/ Failed) /\ retained' = (retained \/ Failed)
        BY <1>12, Zenon DEF OpenStore
      <3>2. CASE UNCHANGED << leak, retained >>
        BY <3>2
      <3>3. CASE leak' = (leak \/ Failed) /\ retained' = (retained \/ Failed)
        BY <3>3 DEF Failed, TypeOK, ServerOK, FaultsOK
      <3> QED
        BY <3>1, <3>2, <3>3
    <2>4. init' \in {"code", "wait", "none"} /\ (init' # "code" => open' = {} \/ retained')
      <3>1. (init' = "code") \/ (init' = "wait" /\ open' = {}) \/ (init' = "none" /\ (Failed => retained'))
        BY <1>12 DEF OpenStore
      <3> QED
        BY <3>1 DEF Failed
    <2> QED
      BY <2>1, <2>2, <2>3, <2>4 DEF Noted
  <1>13. CASE OpenCode
    <2>1. ~live /\ job = None /\ live' = live /\ errors' = errors
      BY <1>13 DEF OpenCode, Alive
    <2>2. leak => errors \/ retained
      BY <1>13, <2>1 DEF Noted, OpenCode
    <2>3. CASE init' = "prepare"
      BY <1>13, <2>1, <2>2, <2>3 DEF OpenCode, Noted
    <2>4. CASE init' # "prepare"
      <3>1. /\ Close({"store", "code"}) /\ init' = (IF Failed THEN "none" ELSE "wait")
            /\ retained' = (retained \/ Failed) /\ UNCHANGED << spoilt, job >>
        BY <1>13, <2>4 DEF OpenCode
      <3>2. open' \subseteq {"store", "code"} /\ (UNCHANGED leak \/ open' # {})
        BY <3>1, Closes DEF TypeOK
      <3>3. (retained => retained') /\ (open' # {} => retained') /\ init = "code" /\ init' \in {"none", "wait"}
        BY <1>13, <3>1 DEF Failed, OpenCode
      <3>4. spoilt => retained
        BY <2>1, <3>3 DEF Noted
      <3> QED
        BY <2>1, <2>2, <3>1, <3>2, <3>3, <3>4 DEF Noted
    <2> QED
      BY <2>3, <2>4
  <1>14. CASE OpenAgain
    BY <1>14 DEF OpenAgain, Main, Closing, disk, store, server, Alive, TypeOK, DiskOK, StoreOK, ServerOK, FaultsOK, Noted, Stages, Broken, Jobs, Rounds, Outcomes
  <1>15. CASE OpenTooLate
    BY <1>15 DEF OpenTooLate, Main, Refused, disk, store, server, Alive, TypeOK, DiskOK, StoreOK, ServerOK, FaultsOK, Noted, Stages, Broken, Jobs, Rounds, Outcomes
  <1>16. CASE Compose
    BY <1>16 DEF Compose, Main, Closing, Ready, disk, store, server, Alive, TypeOK, DiskOK, StoreOK, ServerOK, FaultsOK, Noted, Stages, Broken, Jobs, Rounds, Outcomes
  <1>17. CASE Cleanup
    <2>1. /\ Close({"store", "code"}) /\ init' = "none"
          /\ (retained => retained') /\ (open' # {} => retained') /\ (spoilt => retained')
          /\ UNCHANGED << job, spoilt, live, errors >>
      BY <1>17 DEF Cleanup, Failed
    <2>2. UNCHANGED leak \/ open' # {}
      BY <2>1, Closes DEF TypeOK
    <2> QED
      BY <2>1, <2>2 DEF Noted
  <1>18. CASE ReadRow
    BY <1>18 DEF ReadRow, Doing, Matches, Selected, disk, store, server, Alive, TypeOK, DiskOK, StoreOK, ServerOK, FaultsOK, Noted, Stages, Broken, Jobs, Rounds, Outcomes
  <1>19. CASE ReadHistory
    BY <1>19 DEF ReadHistory, Doing, Selected, disk, store, server, Alive, TypeOK, DiskOK, StoreOK, ServerOK, FaultsOK, Noted, Stages, Broken, Jobs, Rounds, Outcomes
  <1>20. CASE ReadEnd
    BY <1>20 DEF ReadEnd, Doing, Unverified, disk, store, server, Alive, TypeOK, DiskOK, StoreOK, ServerOK, FaultsOK, Noted, Stages, Broken, Jobs, Rounds, Outcomes
  <1>21. CASE Return
    BY <1>21 DEF Return, Doing, disk, store, server, Alive, TypeOK, DiskOK, StoreOK, ServerOK, FaultsOK, Noted, Stages, Broken, Jobs, Rounds, Outcomes
  <1>22. CASE ReceiptStored
    BY <1>22 DEF ReceiptStored, Doing, disk, store, server, Alive, TypeOK, DiskOK, StoreOK, ServerOK, FaultsOK, Noted, Stages, Broken, Jobs, Rounds, Outcomes
  <1>23. CASE ReceiptBusy
    BY <1>23 DEF ReceiptBusy, Doing, disk, store, server, Alive, TypeOK, DiskOK, StoreOK, ServerOK, FaultsOK, Noted, Stages, Broken, Jobs, Rounds, Outcomes
  <1>24. CASE FinishWrite
    BY <1>24 DEF FinishWrite, Doing, OwnWriteOnly, Unverified, disk, store, server, Alive, TypeOK, DiskOK, StoreOK, ServerOK, FaultsOK, Noted, Stages, Broken, Jobs, Rounds, Outcomes
  <1>25. CASE CloseBegins
    BY <1>25, CancelledJob DEF CloseBegins, disk, server, Noted, TypeOK, StoreOK
  <1>26. CASE InitializationOver
    BY <1>26 DEF InitializationOver, Main, disk, store, server, Alive, TypeOK, DiskOK, StoreOK, ServerOK, FaultsOK, Noted, Stages, Broken, Jobs, Rounds, Outcomes
  <1>27. CASE RuntimeCloses
    <2>1. CASE ~live
      BY <1>27, <2>1 DEF RuntimeCloses, Noted
    <2>2. CASE live
      <3>1. /\ Close({"code"}) /\ job' = Cancel(job) /\ (errors => errors') /\ ("code" \in open' => errors')
            /\ UNCHANGED << spoilt, live, init, retained >>
        BY <1>27, <2>2 DEF RuntimeCloses
      <3>2. UNCHANGED leak \/ "code" \in open'
        BY <3>1, Closes DEF TypeOK
      <3>3. job # None /\ job.out \in Broken => job' # None /\ job'.out \in Broken
        BY <3>1, CancelledJob DEF TypeOK, StoreOK
      <3> QED
        BY <2>2, <3>1, <3>2, <3>3 DEF Noted
    <2> QED
      BY <2>1, <2>2
  <1>28. CASE WorkerClosed
    BY <1>28 DEF WorkerClosed, Main, disk, store, server, Alive, TypeOK, DiskOK, StoreOK, ServerOK, FaultsOK, Noted, Stages, Broken, Jobs, Rounds, Outcomes
  <1>29. CASE StoreCloses
    <2>1. /\ Close({"store"}) /\ (errors => errors') /\ ("store" \in open' => errors')
          /\ UNCHANGED << job, spoilt, live, init, retained >>
      BY <1>29 DEF StoreCloses, store
    <2>2. (UNCHANGED leak \/ "store" \in open') /\ open' \subseteq open \cup {"store"}
      BY <2>1, Closes DEF TypeOK
    <2>3. live
      BY <1>29 DEF StoreCloses, Stages
    <2> QED
      BY <2>1, <2>2, <2>3 DEF Noted
  <1>30. CASE Exits
    BY <1>30 DEF Exits, Main, disk, store, server, Alive, TypeOK, DiskOK, StoreOK, ServerOK, FaultsOK, Noted, Stages, Broken, Jobs, Rounds, Outcomes
  <1>31. CASE Failsafe
    BY <1>31 DEF Failsafe, Closing, disk, store, server, Alive, TypeOK, DiskOK, StoreOK, ServerOK, FaultsOK, Noted, Stages, Broken, Jobs, Rounds, Outcomes
  <1>32. ASSUME NEW c \in Callers, Ask(c) PROVE Noted'
    BY <1>32 DEF Ask, Main, Closing, Ready, Fresh, Round, NewJob, Unverified, disk, store, server, Alive, TypeOK, DiskOK, StoreOK, ServerOK, FaultsOK, Noted, Stages, Broken, Jobs, Rounds, Outcomes
  <1>33. ASSUME NEW c \in Callers, Leave(c) PROVE Noted'
    BY <1>33 DEF Leave, Use, Main, disk, store, server, Alive, TypeOK, DiskOK, StoreOK, ServerOK, FaultsOK, Noted, Stages, Broken, Jobs, Rounds, Outcomes
  <1>34. ASSUME NEW c \in Callers, Read(c) PROVE Noted'
    BY <1>34 DEF Read, Use, Main, Ready, Fresh, Unverified, Throws, Operation, disk, store, server, Alive, TypeOK, DiskOK, StoreOK, ServerOK, FaultsOK, Noted, Stages, Broken, Jobs, Rounds, Outcomes
  <1>35. ASSUME NEW c \in Callers, Rollback(c) PROVE Noted'
    BY <1>35 DEF Rollback, Use, Main, Throws, Unverified, disk, store, server, Alive, TypeOK, DiskOK, StoreOK, ServerOK, FaultsOK, Noted, Stages, Broken, Jobs, Rounds, Outcomes
  <1>36. ASSUME NEW c \in Callers, Receipt(c) PROVE Noted'
    BY <1>36 DEF Receipt, Use, Main, Fresh, Unverified, Operation, disk, store, server, Alive, TypeOK, DiskOK, StoreOK, ServerOK, FaultsOK, Noted, Stages, Broken, Jobs, Rounds, Outcomes
  <1>37. ASSUME NEW c \in Callers, NEW r \in Runs, Save(c, r) PROVE Noted'
    BY <1>37 DEF Save, Use, Main, Writable, Versions, Ready, Extends, Append, Row, Operation, disk, store, server, Alive, TypeOK, DiskOK, StoreOK, ServerOK, FaultsOK, Noted, Stages, Broken, Jobs, Rounds, Outcomes
  <1>38. ASSUME NEW c \in Callers, NEW r \in Runs, Delete(c, r) PROVE Noted'
    BY <1>38 DEF Delete, Use, Main, Writable, Ready, Row, Operation, disk, store, server, Alive, TypeOK, DiskOK, StoreOK, ServerOK, FaultsOK, Noted, Stages, Broken, Jobs, Rounds, Outcomes
  <1>39. CASE UNCHANGED vars
    BY <1>39, Stutter DEF Noted
  <1> QED
    BY <1>1, <1>2, <1>3, <1>4, <1>5, <1>6, <1>7, <1>8, <1>9, <1>10, <1>11, <1>12, <1>13, <1>14, <1>15, <1>16, <1>17, <1>18, <1>19, <1>20, <1>21, <1>22, <1>23, <1>24, <1>25, <1>26, <1>27, <1>28, <1>29, <1>30, <1>31, <1>32, <1>33, <1>34, <1>35, <1>36, <1>37, <1>38, <1>39 DEF Next

-----------------------------------------------------------------------------
(* What is remembered under a stamp                                         *)

Still == UNCHANGED << rows, data, own >>

LEMMA StampIs == ASSUME NEW x \in Stamps PROVE x = Stamp <=> x[1] = data /\ x[2] = own
  BY DEF Stamp, Stamps

LEMMA Fields ==
  ASSUME TypeOK
  PROVE  /\ data \in Nat /\ own \in Nat
         /\ cache.stamp \in {None} \cup Stamps /\ cache.seen \in [Runs -> 0..MaxVersion]
         /\ prep # None => prep \in Rounds /\ prep.before \in Stamps
         /\ job # None => job \in Jobs /\ job.seen \in [Runs -> 0..MaxVersion]
         /\ op # None => op \in Operations /\ op.before \in Stamps
  BY DEF TypeOK, DiskOK, StoreOK, Caches, Rounds, Jobs, Operations

\* A stamp of the past is not the present one once something was written
LEMMA NeverAgain ==
  ASSUME TypeOK, TypeOK', NEW x \in Stamps, Reached(x), data' >= data, own' >= own, data' # data \/ own' # own
  PROVE  x # Stamp' /\ Reached(x)'
  <1>1. /\ x[1] \in Nat /\ x[2] \in Nat /\ data \in Nat /\ own \in Nat /\ data' \in Nat /\ own' \in Nat
    BY DEF TypeOK, DiskOK, Stamps
  <1>2. x[1] <= data /\ x[2] <= own
    BY DEF Reached
  <1>3. x[1] # data' \/ x[2] # own'
    BY <1>1, <1>2
  <1>4. Stamp'[1] = data' /\ Stamp'[2] = own'
    BY DEF Stamp
  <1> QED
    BY <1>1, <1>2, <1>3, <1>4 DEF Reached

\* While another connection commits, what was remembered becomes the past
Outside == /\ data' = data + 1 /\ own' = own /\ UNCHANGED << cache, prep, op >>
           /\ job' = job \/ (job # None /\ job'.migrate)
LEMMA OutsideKeeps == ASSUME TypeOK, TypeOK', Vouching, Outside PROVE Vouching'
  <1>1. data \in Nat /\ own \in Nat /\ data' >= data /\ own' >= own /\ data' # data
    BY Fields DEF Outside
  <1>2. \A x \in Stamps : Reached(x) => x # Stamp' /\ Reached(x)'
    BY <1>1, NeverAgain
  <1>3. Past' /\ StampVouches'
    <2>1. cache.stamp # None => cache.stamp \in Stamps /\ Reached(cache.stamp)
      BY Fields DEF Vouching, Past
    <2>2. prep # None => prep.before \in Stamps /\ Reached(prep.before)
      BY Fields DEF Vouching, Past
    <2>3. op # None => op.before \in Stamps /\ Reached(op.before)
      BY Fields DEF Vouching, Past
    <2>4. Past'
      BY <1>2, <2>1, <2>2, <2>3 DEF Past, Outside
    <2>5. Stamp' \in Stamps
      BY <1>1 DEF Stamp, Stamps, TypeOK, DiskOK
    <2>6. cache'.stamp # Stamp'
      BY <1>2, <2>1, <2>5, NoneAssumption DEF Outside
    <2> QED
      BY <2>4, <2>6 DEF StampVouches
  <1>4. JobVouches'
    <2>1. prep # None => prep.before # Stamp'
      BY <1>2, Fields DEF Vouching, Past
    <2> QED
      BY <2>1 DEF JobVouches, Outside
  <1>5. WriteVouches' /\ ReadVouches'
    <2>1. op # None => op.before # Stamp' /\ op.before[1] # data'
      <3>1. op # None => op.before[1] <= data /\ op.before[1] \in Nat
        BY Fields DEF Vouching, Past, Reached, Stamps
      <3> QED
        BY <1>1, <1>2, <3>1, Fields DEF Vouching, Past, Outside
    <2>2. op # None => ~OwnWriteOnly'
      BY <2>1 DEF OwnWriteOnly, Stamp, Outside
    <2> QED
      BY <2>1, <2>2 DEF Vouching, WriteVouches, ReadVouches, Outside
  <1> QED
    BY <1>3, <1>4, <1>5 DEF Vouching

\* Every other step leaves the file, but for the three that write
Writes == ReceiptStored \/ \E c \in Callers, r \in Runs : Save(c, r) \/ Delete(c, r)
LEMMA DiskSteps == ASSUME TypeOK, TypeOK', Alive, [Next]_vars PROVE Still \/ Outside \/ Writes
  <1>1. CASE OtherLocks
    BY <1>1 DEF OtherLocks, disk, Still
  <1>2. CASE OtherCommits
    BY <1>2 DEF OtherCommits, store, Outside
  <1>3. CASE OtherRollsBack
    BY <1>3 DEF OtherRollsBack, disk, Still
  <1>4. CASE JobVerifies
    BY <1>4 DEF JobVerifies, disk, Still
  <1>5. CASE JobMigrates
    <2>1. /\ UNCHANGED << own, cache, prep, op >> /\ (job' = job \/ (job # None /\ job'.migrate))
      BY <1>5, WorkerMoves DEF WorkerSteps, JobMigrates, disk, Running
    <2>2. data' = data \/ data' = data + 1
      BY <1>5 DEF JobMigrates, disk
    <2>3. CASE data' # data
      BY <2>1, <2>2, <2>3 DEF Outside
    <2>4. CASE data' = data
      <3>1. UNCHANGED disk \/ (~Are("damaged") /\ ~Are("legacy")
                               /\ rows' = [r \in Runs |-> IF rows[r] = None THEN None ELSE Row(rows[r].ver, "intact")])
        BY <1>5, <2>4, Fields DEF JobMigrates
      <3>2. ASSUME ~Are("damaged"), ~Are("legacy"), NEW r \in Runs, rows[r] # None PROVE Row(rows[r].ver, "intact") = rows[r]
        <4>1. rows[r] \in Rows /\ rows[r].is \notin {"damaged", "legacy"}
          BY <3>2 DEF Are, TypeOK, DiskOK
        <4> QED
          BY <4>1 DEF Rows, Row, Histories
      <3>3. rows' = rows
        <4>1. CASE UNCHANGED disk
          BY <4>1 DEF disk
        <4>2. CASE ~Are("damaged") /\ ~Are("legacy")
                   /\ rows' = [r \in Runs |-> IF rows[r] = None THEN None ELSE Row(rows[r].ver, "intact")]
          <5>1. \A r \in Runs : rows'[r] = rows[r]
            BY <3>2, <4>2
          <5> QED
            BY <5>1 DEF TypeOK, DiskOK
        <4> QED
          BY <3>1, <4>1, <4>2
      <3> QED
        BY <2>1, <2>4, <3>3 DEF Still
    <2> QED
      BY <2>3, <2>4
  <1>6. CASE JobCancelled
    BY <1>6 DEF JobCancelled, disk, Still
  <1>7. CASE JobBreaks
    BY <1>7 DEF JobBreaks, disk, Still
  <1>8. CASE JobTimesOut
    BY <1>8 DEF JobTimesOut, disk, Still
  <1>9. CASE JobSettles
    BY <1>9 DEF JobSettles, disk, Still
  <1>10. CASE BusyRetry
    BY <1>10 DEF BusyRetry, disk, Still
  <1>11. CASE PrepareTooLate
    BY <1>11 DEF PrepareTooLate, disk, Still
  <1>12. CASE OpenStore
    BY <1>12 DEF OpenStore, disk, Still
  <1>13. CASE OpenCode
    <2>1. own = 0
      BY <1>13 DEF OpenCode, Alive
    <2> QED
      BY <1>13, <2>1 DEF OpenCode, Still
  <1>14. CASE OpenAgain
    BY <1>14 DEF OpenAgain, disk, Still
  <1>15. CASE OpenTooLate
    BY <1>15 DEF OpenTooLate, disk, Still
  <1>16. CASE Compose
    BY <1>16 DEF Compose, disk, Still
  <1>17. CASE Cleanup
    BY <1>17 DEF Cleanup, disk, Still
  <1>18. CASE ReadRow
    BY <1>18 DEF ReadRow, disk, Still
  <1>19. CASE ReadHistory
    BY <1>19 DEF ReadHistory, disk, Still
  <1>20. CASE ReadEnd
    BY <1>20 DEF ReadEnd, disk, Still
  <1>21. CASE Return
    BY <1>21 DEF Return, disk, Still
  <1>22. CASE ReceiptStored
    BY <1>22 DEF Writes
  <1>23. CASE ReceiptBusy
    BY <1>23 DEF ReceiptBusy, disk, Still
  <1>24. CASE FinishWrite
    BY <1>24 DEF FinishWrite, disk, Still
  <1>25. CASE CloseBegins
    BY <1>25 DEF CloseBegins, disk, Still
  <1>26. CASE InitializationOver
    BY <1>26 DEF InitializationOver, disk, Still
  <1>27. CASE RuntimeCloses
    BY <1>27 DEF RuntimeCloses, disk, Still
  <1>28. CASE WorkerClosed
    BY <1>28 DEF WorkerClosed, disk, Still
  <1>29. CASE StoreCloses
    BY <1>29 DEF StoreCloses, disk, Still
  <1>30. CASE Exits
    BY <1>30 DEF Exits, disk, Still
  <1>31. CASE Failsafe
    BY <1>31 DEF Failsafe, disk, Still
  <1>32. ASSUME NEW c \in Callers, Ask(c) PROVE Still \/ Outside \/ Writes
    BY <1>32 DEF Ask, disk, Still
  <1>33. ASSUME NEW c \in Callers, Leave(c) PROVE Still \/ Outside \/ Writes
    BY <1>33 DEF Leave, disk, Still
  <1>34. ASSUME NEW c \in Callers, Read(c) PROVE Still \/ Outside \/ Writes
    BY <1>34 DEF Read, disk, Still
  <1>35. ASSUME NEW c \in Callers, Rollback(c) PROVE Still \/ Outside \/ Writes
    BY <1>35 DEF Rollback, disk, Still
  <1>36. ASSUME NEW c \in Callers, Receipt(c) PROVE Still \/ Outside \/ Writes
    BY <1>36 DEF Receipt, disk, Still
  <1>37. ASSUME NEW c \in Callers, NEW r \in Runs, Save(c, r) PROVE Still \/ Outside \/ Writes
    BY <1>37 DEF Writes
  <1>38. ASSUME NEW c \in Callers, NEW r \in Runs, Delete(c, r) PROVE Still \/ Outside \/ Writes
    BY <1>38 DEF Writes
  <1>39. CASE UNCHANGED vars
    BY <1>39, Stutter DEF Still
  <1> QED
    BY <1>1, <1>2, <1>3, <1>4, <1>5, <1>6, <1>7, <1>8, <1>9, <1>10, <1>11, <1>12, <1>13, <1>14, <1>15, <1>16, <1>17, <1>18, <1>19, <1>20, <1>21, <1>22, <1>23, <1>24, <1>25, <1>26, <1>27, <1>28, <1>29, <1>30, <1>31, <1>32, <1>33, <1>34, <1>35, <1>36, <1>37, <1>38, <1>39 DEF Next

\* What a step that leaves the file does to what is remembered
CacheMoves ==
  \/ UNCHANGED cache
  \/ cache' = Unverified
  \/ /\ prep # None /\ job # None /\ job.out = "ok" /\ ~job.migrate /\ prep.before = Stamp
     /\ cache' = [stamp |-> Stamp, complete |-> TRUE, seen |-> job.seen]
  \/ /\ op # None /\ op.do = "finish" /\ OwnWriteOnly
     /\ cache'.stamp = Stamp /\ cache'.complete = cache.complete /\ cache'.seen = Written
LEMMA CacheSteps == ASSUME TypeOK, Alive, Still, [Next]_vars PROVE CacheMoves
  <1>1. CASE OtherLocks
    BY <1>1 DEF OtherLocks, store, CacheMoves
  <1>2. CASE OtherCommits
    BY <1>2 DEF OtherCommits, store, CacheMoves
  <1>3. CASE OtherRollsBack
    BY <1>3 DEF OtherRollsBack, store, CacheMoves
  <1>4. CASE JobVerifies
    BY <1>4, WorkerMoves DEF WorkerSteps, CacheMoves
  <1>5. CASE JobMigrates
    BY <1>5, WorkerMoves DEF WorkerSteps, CacheMoves
  <1>6. CASE JobCancelled
    BY <1>6, WorkerMoves DEF WorkerSteps, CacheMoves
  <1>7. CASE JobBreaks
    BY <1>7, WorkerMoves DEF WorkerSteps, CacheMoves
  <1>8. CASE JobTimesOut
    BY <1>8 DEF JobTimesOut, store, CacheMoves
  <1>9. CASE JobSettles
    <2>1. prep # None /\ job # None
      BY <1>9 DEF JobSettles, Alive
    <2> QED
      BY <1>9, <2>1 DEF JobSettles, Again, PrepareFails, Adopt, CacheMoves
  <1>10. CASE BusyRetry
    BY <1>10 DEF BusyRetry, Again, PrepareFails, CacheMoves
  <1>11. CASE PrepareTooLate
    BY <1>11 DEF PrepareTooLate, Again, PrepareFails, CacheMoves
  <1>12. CASE OpenStore
    BY <1>12 DEF OpenStore, store, CacheMoves
  <1>13. CASE OpenCode
    BY <1>13 DEF OpenCode, CacheMoves
  <1>14. CASE OpenAgain
    BY <1>14 DEF OpenAgain, store, CacheMoves
  <1>15. CASE OpenTooLate
    BY <1>15 DEF OpenTooLate, store, CacheMoves
  <1>16. CASE Compose
    BY <1>16 DEF Compose, store, CacheMoves
  <1>17. CASE Cleanup
    BY <1>17 DEF Cleanup, CacheMoves
  <1>18. CASE ReadRow
    BY <1>18 DEF ReadRow, store, CacheMoves
  <1>19. CASE ReadHistory
    BY <1>19 DEF ReadHistory, store, CacheMoves
  <1>20. CASE ReadEnd
    BY <1>20 DEF ReadEnd, CacheMoves
  <1>21. CASE Return
    BY <1>21 DEF Return, store, CacheMoves
  <1>22. CASE ReceiptStored
    BY <1>22 DEF ReceiptStored, store, CacheMoves
  <1>23. CASE ReceiptBusy
    BY <1>23 DEF ReceiptBusy, store, CacheMoves
  <1>24. CASE FinishWrite
    <2>1. cache \in Caches /\ op # None /\ op.do = "finish"
      BY <1>24 DEF FinishWrite, Doing, TypeOK, StoreOK
    <2>2. cache' = IF OwnWriteOnly
                   THEN [cache EXCEPT !.stamp = Stamp, !.seen = Written]
                   ELSE Unverified
      BY <1>24, Zenon DEF FinishWrite
    <2>3. CASE OwnWriteOnly
      <3>1. cache' = [cache EXCEPT !.stamp = Stamp, !.seen = Written]
        BY <2>2, <2>3
      <3>2. cache'.stamp = Stamp /\ cache'.complete = cache.complete /\ cache'.seen = Written
        BY <2>1, <3>1 DEF Caches
      <3> QED
        BY <2>1, <2>3, <3>2 DEF CacheMoves
    <2>4. CASE ~OwnWriteOnly
      BY <2>2, <2>4 DEF CacheMoves
    <2> QED
      BY <2>3, <2>4
  <1>25. CASE CloseBegins
    BY <1>25 DEF CloseBegins, store, CacheMoves
  <1>26. CASE InitializationOver
    BY <1>26 DEF InitializationOver, store, CacheMoves
  <1>27. CASE RuntimeCloses
    BY <1>27 DEF RuntimeCloses, CacheMoves
  <1>28. CASE WorkerClosed
    BY <1>28 DEF WorkerClosed, store, CacheMoves
  <1>29. CASE StoreCloses
    BY <1>29 DEF StoreCloses, store, CacheMoves
  <1>30. CASE Exits
    BY <1>30 DEF Exits, store, CacheMoves
  <1>31. CASE Failsafe
    BY <1>31 DEF Failsafe, store, CacheMoves
  <1>32. ASSUME NEW c \in Callers, Ask(c) PROVE CacheMoves
    BY <1>32 DEF Ask, Throws, Fresh, CacheMoves
  <1>33. ASSUME NEW c \in Callers, Leave(c) PROVE CacheMoves
    BY <1>33 DEF Leave, store, CacheMoves
  <1>34. ASSUME NEW c \in Callers, Read(c) PROVE CacheMoves
    BY <1>34 DEF Read, Throws, Fresh, CacheMoves
  <1>35. ASSUME NEW c \in Callers, Rollback(c) PROVE CacheMoves
    BY <1>35 DEF Rollback, Throws, Fresh, CacheMoves
  <1>36. ASSUME NEW c \in Callers, Receipt(c) PROVE CacheMoves
    BY <1>36 DEF Receipt, Throws, Fresh, CacheMoves
  <1>37. ASSUME NEW c \in Callers, NEW r \in Runs, Save(c, r) PROVE CacheMoves
    BY <1>37 DEF Save, store, CacheMoves
  <1>38. ASSUME NEW c \in Callers, NEW r \in Runs, Delete(c, r) PROVE CacheMoves
    BY <1>38 DEF Delete, store, CacheMoves
  <1>39. CASE UNCHANGED vars
    BY <1>39, Stutter DEF CacheMoves
  <1> QED
    BY <1>1, <1>2, <1>3, <1>4, <1>5, <1>6, <1>7, <1>8, <1>9, <1>10, <1>11, <1>12, <1>13, <1>14, <1>15, <1>16, <1>17, <1>18, <1>19, <1>20, <1>21, <1>22, <1>23, <1>24, <1>25, <1>26, <1>27, <1>28, <1>29, <1>30, <1>31, <1>32, <1>33, <1>34, <1>35, <1>36, <1>37, <1>38, <1>39 DEF Next

RoundMoves ==
  \/ prep' = None
  \/ /\ prep' # None /\ job' # None /\ prep'.before = Stamp /\ job'.out = "none"
  \/ /\ prep # None /\ prep' # None /\ prep'.before = prep.before
     /\ \/ job' = None
        \/ UNCHANGED job
        \/ job' # None /\ job'.out # "ok"
        \/ job # None /\ job' # None /\ UNCHANGED << job.out, job.migrate, job.seen >>
        \/ JobVerifies \/ JobMigrates
LEMMA RoundSteps == ASSUME TypeOK, Alive, Still, [Next]_vars PROVE RoundMoves
  <1> USE NoneAssumption
  <1>1. CASE OtherLocks
    BY <1>1 DEF OtherLocks, store, RoundMoves
  <1>2. CASE OtherCommits
    BY <1>2 DEF OtherCommits, store, RoundMoves
  <1>3. CASE OtherRollsBack
    BY <1>3 DEF OtherRollsBack, store, RoundMoves
  <1>4. CASE JobVerifies
    BY <1>4, WorkerMoves DEF WorkerSteps, Alive, RoundMoves
  <1>5. CASE JobMigrates
    BY <1>5, WorkerMoves DEF WorkerSteps, Alive, RoundMoves
  <1>6. CASE JobCancelled
    <2>1. job' # None /\ job'.out # "ok" /\ prep # None /\ prep' = prep
      BY <1>6, WorkerMoves, EndOfJob DEF WorkerSteps, JobCancelled, Outcomes, Alive
    <2> QED
      BY <2>1 DEF RoundMoves
  <1>7. CASE JobBreaks
    <2>1. job' # None /\ job'.out # "ok" /\ prep # None /\ prep' = prep
      BY <1>7, WorkerMoves, EndOfJob DEF WorkerSteps, JobBreaks, Outcomes, Alive
    <2> QED
      BY <2>1 DEF RoundMoves
  <1>8. CASE JobTimesOut
    <2>1. prep' = prep /\ (job' = Cancel(job) \/ job' = job)
      BY <1>8 DEF JobTimesOut
    <2> QED
      BY <2>1, CancelledJob DEF TypeOK, StoreOK, Alive, RoundMoves
  <1>9. CASE JobSettles
    <2>1. prep \in Rounds /\ data \in Nat /\ own \in Nat
      BY <1>9 DEF JobSettles, Alive, TypeOK, DiskOK, StoreOK
    <2>2. [prep EXCEPT !.at = "wait"] \in Rounds /\ [prep EXCEPT !.at = "wait"].before = prep.before
      BY <2>1 DEF Rounds
    <2> QED
      BY <1>9, <2>1, <2>2, NewRound DEF JobSettles, Again, PrepareFails, Adopt, RoundMoves
  <1>10. CASE BusyRetry
    <2>1. prep \in Rounds /\ prep.migrate \in BOOLEAN /\ data \in Nat /\ own \in Nat
      BY <1>10 DEF BusyRetry, TypeOK, DiskOK, StoreOK, Rounds
    <2> QED
      BY <1>10, <2>1, NewRound DEF BusyRetry, Again, PrepareFails, RoundMoves
  <1>11. CASE PrepareTooLate
    BY <1>11 DEF PrepareTooLate, PrepareFails, RoundMoves
  <1>12. CASE OpenStore
    BY <1>12 DEF OpenStore, store, RoundMoves
  <1>13. CASE OpenCode
    BY <1>13, NewRound, Fields DEF OpenCode, RoundMoves
  <1>14. CASE OpenAgain
    BY <1>14 DEF OpenAgain, store, RoundMoves
  <1>15. CASE OpenTooLate
    BY <1>15 DEF OpenTooLate, store, RoundMoves
  <1>16. CASE Compose
    BY <1>16 DEF Compose, store, RoundMoves
  <1>17. CASE Cleanup
    BY <1>17 DEF Cleanup, store, RoundMoves
  <1>18. CASE ReadRow
    BY <1>18 DEF ReadRow, store, RoundMoves
  <1>19. CASE ReadHistory
    BY <1>19 DEF ReadHistory, store, RoundMoves
  <1>20. CASE ReadEnd
    BY <1>20 DEF ReadEnd, store, RoundMoves
  <1>21. CASE Return
    BY <1>21 DEF Return, store, RoundMoves
  <1>22. CASE ReceiptStored
    BY <1>22 DEF ReceiptStored, store, RoundMoves
  <1>23. CASE ReceiptBusy
    BY <1>23 DEF ReceiptBusy, store, RoundMoves
  <1>24. CASE FinishWrite
    BY <1>24 DEF FinishWrite, store, RoundMoves
  <1>25. CASE CloseBegins
    <2>1. prep' = prep /\ (job' = Cancel(job) \/ job' = job)
      BY <1>25 DEF CloseBegins
    <2> QED
      BY <2>1, CancelledJob DEF TypeOK, StoreOK, Alive, RoundMoves
  <1>26. CASE InitializationOver
    BY <1>26 DEF InitializationOver, store, RoundMoves
  <1>27. CASE RuntimeCloses
    <2>1. prep' = prep /\ (job' = Cancel(job) \/ job' = job)
      BY <1>27 DEF RuntimeCloses
    <2> QED
      BY <2>1, CancelledJob DEF TypeOK, StoreOK, Alive, RoundMoves
  <1>28. CASE WorkerClosed
    BY <1>28 DEF WorkerClosed, store, RoundMoves
  <1>29. CASE StoreCloses
    BY <1>29 DEF StoreCloses, store, RoundMoves
  <1>30. CASE Exits
    BY <1>30 DEF Exits, store, RoundMoves
  <1>31. CASE Failsafe
    BY <1>31 DEF Failsafe, store, RoundMoves
  <1>32. ASSUME NEW c \in Callers, Ask(c) PROVE RoundMoves
    BY <1>32, NewRound, Fields DEF Ask, RoundMoves
  <1>33. ASSUME NEW c \in Callers, Leave(c) PROVE RoundMoves
    BY <1>33 DEF Leave, store, RoundMoves
  <1>34. ASSUME NEW c \in Callers, Read(c) PROVE RoundMoves
    BY <1>34 DEF Read, store, RoundMoves
  <1>35. ASSUME NEW c \in Callers, Rollback(c) PROVE RoundMoves
    BY <1>35 DEF Rollback, store, RoundMoves
  <1>36. ASSUME NEW c \in Callers, Receipt(c) PROVE RoundMoves
    BY <1>36 DEF Receipt, store, RoundMoves
  <1>37. ASSUME NEW c \in Callers, NEW r \in Runs, Save(c, r) PROVE RoundMoves
    BY <1>37 DEF Save, store, RoundMoves
  <1>38. ASSUME NEW c \in Callers, NEW r \in Runs, Delete(c, r) PROVE RoundMoves
    BY <1>38 DEF Delete, store, RoundMoves
  <1>39. CASE UNCHANGED vars
    BY <1>39, Stutter DEF RoundMoves
  <1> QED
    BY <1>1, <1>2, <1>3, <1>4, <1>5, <1>6, <1>7, <1>8, <1>9, <1>10, <1>11, <1>12, <1>13, <1>14, <1>15, <1>16, <1>17, <1>18, <1>19, <1>20, <1>21, <1>22, <1>23, <1>24, <1>25, <1>26, <1>27, <1>28, <1>29, <1>30, <1>31, <1>32, <1>33, <1>34, <1>35, <1>36, <1>37, <1>38, <1>39 DEF Next

OpMoves ==
  \/ op' = None
  \/ UNCHANGED << cache, op >>
  \/ op' # None /\ op'.do \in {"get", "history"} /\ op'.before = Stamp /\ Ready(cache) /\ UNCHANGED cache
  \/ op' # None /\ op'.do = "receipt" /\ op'.before = Stamp /\ op'.changes = 1 /\ op'.runs = {}
  \/ /\ op # None /\ op' # None /\ op'.before = op.before /\ UNCHANGED cache
     /\ \/ ReadRow /\ op'.do = (IF op.do = "get" THEN "end" ELSE "more") /\ op'.got = Selected(op.runs)
        \/ ReadHistory /\ op'.do = "end" /\ op'.got = Selected(op.runs)
        \/ ReadEnd /\ op'.do = "return" /\ op'.got = op.got /\ op.before = Stamp
LEMMA OpSteps == ASSUME TypeOK, Alive, Still, [Next]_vars PROVE OpMoves
  <1> USE NoneAssumption
  <1>1. CASE OtherLocks
    BY <1>1 DEF OtherLocks, store, Main, OpMoves
  <1>2. CASE OtherCommits
    BY <1>2 DEF OtherCommits, store, Main, OpMoves
  <1>3. CASE OtherRollsBack
    BY <1>3 DEF OtherRollsBack, store, Main, OpMoves
  <1>4. CASE JobVerifies
    BY <1>4, WorkerMoves DEF WorkerSteps, OpMoves
  <1>5. CASE JobMigrates
    BY <1>5, WorkerMoves DEF WorkerSteps, OpMoves
  <1>6. CASE JobCancelled
    BY <1>6, WorkerMoves DEF WorkerSteps, OpMoves
  <1>7. CASE JobBreaks
    BY <1>7, WorkerMoves DEF WorkerSteps, OpMoves
  <1>8. CASE JobTimesOut
    BY <1>8 DEF JobTimesOut, store, Main, OpMoves
  <1>9. CASE JobSettles
    BY <1>9 DEF JobSettles, store, Main, OpMoves
  <1>10. CASE BusyRetry
    BY <1>10 DEF BusyRetry, store, Main, OpMoves
  <1>11. CASE PrepareTooLate
    BY <1>11 DEF PrepareTooLate, store, Main, OpMoves
  <1>12. CASE OpenStore
    BY <1>12 DEF OpenStore, store, Main, OpMoves
  <1>13. CASE OpenCode
    BY <1>13 DEF OpenCode, Alive, OpMoves
  <1>14. CASE OpenAgain
    BY <1>14 DEF OpenAgain, store, Main, OpMoves
  <1>15. CASE OpenTooLate
    BY <1>15 DEF OpenTooLate, store, Main, OpMoves
  <1>16. CASE Compose
    BY <1>16 DEF Compose, store, Main, OpMoves
  <1>17. CASE Cleanup
    BY <1>17 DEF Cleanup, store, Main, OpMoves
  <1>18. CASE ReadRow
    <2>1. op \in Operations
      BY <1>18 DEF ReadRow, Doing, TypeOK, StoreOK
    <2>2. op' = None \/ op' = [op EXCEPT !.do = IF op.do = "get" THEN "end" ELSE "more", !.got = Selected(op.runs)]
      BY <1>18 DEF ReadRow
    <2>3. CASE op' # None
      <3>1. op' # None /\ op'.before = op.before /\ op'.do = (IF op.do = "get" THEN "end" ELSE "more") /\ op'.got = Selected(op.runs)
        BY <2>1, <2>2, <2>3 DEF Operations
      <3> QED
        BY <1>18, <2>1, <3>1 DEF ReadRow, OpMoves
    <2> QED
      BY <2>3 DEF OpMoves
  <1>19. CASE ReadHistory
    <2>1. op \in Operations
      BY <1>19 DEF ReadHistory, Doing, TypeOK, StoreOK
    <2>2. op' = None \/ (op' = [op EXCEPT !.do = "end", !.got = Selected(op.runs)])
      BY <1>19 DEF ReadHistory
    <2>3. CASE op' # None
      <3>1. op' # None /\ op'.before = op.before /\ op'.do = "end" /\ op'.got = Selected(op.runs)
        BY <2>1, <2>2, <2>3 DEF Operations
      <3> QED
        BY <1>19, <2>1, <2>2, <2>3, <3>1 DEF ReadHistory, OpMoves
    <2> QED
      BY <2>3 DEF OpMoves
  <1>20. CASE ReadEnd
    <2>1. op \in Operations
      BY <1>20 DEF ReadEnd, Doing, TypeOK, StoreOK
    <2>2. op' = None \/ (op' = [op EXCEPT !.do = "return"] /\ op.before = Stamp /\ UNCHANGED cache)
      BY <1>20 DEF ReadEnd
    <2>3. CASE op' # None
      <3>1. op' # None /\ op'.before = op.before /\ op'.do = "return" /\ op'.got = op.got
        BY <2>1, <2>2, <2>3 DEF Operations
      <3> QED
        BY <1>20, <2>1, <2>2, <2>3, <3>1 DEF ReadEnd, OpMoves
    <2> QED
      BY <2>3 DEF OpMoves
  <1>21. CASE Return
    BY <1>21 DEF Return, store, Main, OpMoves
  <1>22. CASE ReceiptStored
    BY <1>22, Fields DEF ReceiptStored, Still
  <1>23. CASE ReceiptBusy
    BY <1>23 DEF ReceiptBusy, store, Main, OpMoves
  <1>24. CASE FinishWrite
    BY <1>24 DEF FinishWrite, store, Main, OpMoves
  <1>25. CASE CloseBegins
    BY <1>25 DEF CloseBegins, OpMoves
  <1>26. CASE InitializationOver
    BY <1>26 DEF InitializationOver, store, Main, OpMoves
  <1>27. CASE RuntimeCloses
    BY <1>27 DEF RuntimeCloses, store, Main, OpMoves
  <1>28. CASE WorkerClosed
    BY <1>28 DEF WorkerClosed, store, Main, OpMoves
  <1>29. CASE StoreCloses
    BY <1>29 DEF StoreCloses, store, Main, OpMoves
  <1>30. CASE Exits
    BY <1>30 DEF Exits, store, Main, OpMoves
  <1>31. CASE Failsafe
    BY <1>31 DEF Failsafe, store, Main, OpMoves
  <1>32. ASSUME NEW c \in Callers, Ask(c) PROVE OpMoves
    BY <1>32 DEF Ask, store, Main, OpMoves
  <1>33. ASSUME NEW c \in Callers, Leave(c) PROVE OpMoves
    BY <1>33 DEF Leave, Use, Main, store, Throws, OpMoves
  <1>34. ASSUME NEW c \in Callers, Read(c) PROVE OpMoves
    <2>1. \/ op' = None
          \/ op = None /\ UNCHANGED op /\ cache' = Fresh(cache)
          \/ op = None /\ UNCHANGED << cache, op >>
          \/ /\ Ready(cache) /\ UNCHANGED cache
             /\ \E d \in {"get", "history"}, S \in SUBSET Runs : op' = Operation(d, S, 0)
      BY <1>34 DEF Read, Use, Main, Throws
    <2>2. ASSUME NEW d \in {"get", "history"}, NEW S \in SUBSET Runs, op' = Operation(d, S, 0)
          PROVE  op' # None /\ op'.do = d /\ op'.before = Stamp
      <3>1. op' \in Operations
        <4>1. d \in Steps /\ 0 \in 0..2
          BY DEF Steps
        <4> QED
          BY <2>2, <4>1, OperationType DEF TypeOK
      <3> QED
        BY <2>2, <3>1 DEF Operation
    <2> QED
      BY <2>1, <2>2 DEF OpMoves
  <1>35. ASSUME NEW c \in Callers, Rollback(c) PROVE OpMoves
    BY <1>35 DEF Rollback, Use, Main, store, Throws, OpMoves
  <1>36. ASSUME NEW c \in Callers, Receipt(c) PROVE OpMoves
    <2>1. op' = Operation("receipt", {}, 1)
      BY <1>36 DEF Receipt
    <2>2. op' \in Operations
      <3>1. "receipt" \in Steps /\ 1 \in 0..2 /\ {} \in SUBSET Runs
        BY DEF Steps
      <3> QED
        BY <2>1, <3>1, OperationType DEF TypeOK
    <2> QED
      BY <2>1, <2>2 DEF Operation, OpMoves
  <1>37. ASSUME NEW c \in Callers, NEW r \in Runs, Save(c, r) PROVE OpMoves
    BY <1>37, Fields DEF Save, Still
  <1>38. ASSUME NEW c \in Callers, NEW r \in Runs, Delete(c, r) PROVE OpMoves
    BY <1>38, Fields DEF Delete, Still
  <1>39. CASE UNCHANGED vars
    BY <1>39, Stutter DEF OpMoves
  <1> QED
    BY <1>1, <1>2, <1>3, <1>4, <1>5, <1>6, <1>7, <1>8, <1>9, <1>10, <1>11, <1>12, <1>13, <1>14, <1>15, <1>16, <1>17, <1>18, <1>19, <1>20, <1>21, <1>22, <1>23, <1>24, <1>25, <1>26, <1>27, <1>28, <1>29, <1>30, <1>31, <1>32, <1>33, <1>34, <1>35, <1>36, <1>37, <1>38, <1>39 DEF Next

LEMMA SameStamp == Still => Stamp' = Stamp
  BY DEF Still, Stamp

LEMMA StillKeeps == ASSUME TypeOK, TypeOK', Alive, Vouching, Still, [Next]_vars PROVE Vouching'
  <1>1. CacheMoves /\ RoundMoves /\ OpMoves
    BY CacheSteps, RoundSteps, OpSteps
  <1>2. Stamp' = Stamp /\ Reached(Stamp) /\ (\A x : Reached(x)' <=> Reached(x))
    <2>1. Reached(Stamp)
      BY Fields DEF Reached, Stamp
    <2> QED
      BY <2>1, SameStamp DEF Still, Reached
  <1>3. Past'
    <2>1. cache'.stamp # None => Reached(cache'.stamp)
      <3>1. Unverified.stamp = None
        BY DEF Unverified
      <3> QED
        BY <1>1, <1>2, <3>1 DEF CacheMoves, Vouching, Past
    <2>2. prep' # None => Reached(prep'.before)
      BY <1>1, <1>2 DEF RoundMoves, Vouching, Past
    <2>3. op' # None => Reached(op'.before)
      BY <1>1, <1>2 DEF OpMoves, Vouching, Past
    <2> QED
      BY <1>2, <2>1, <2>2, <2>3 DEF Past, Still, Reached
  <1>4. StampVouches'
    <2> SUFFICES ASSUME cache'.stamp = Stamp PROVE Vouches(cache'.seen, cache'.complete)
      BY <1>2 DEF StampVouches, Vouches, Still
    <2>1. CASE UNCHANGED cache
      BY <2>1 DEF Vouching, StampVouches, Vouches
    <2>2. CASE cache' = Unverified
      BY <2>2 DEF Unverified, Vouches
    <2>3. CASE prep # None /\ job # None /\ job.out = "ok" /\ ~job.migrate /\ prep.before = Stamp
               /\ cache' = [stamp |-> Stamp, complete |-> TRUE, seen |-> job.seen]
      BY <2>3 DEF Vouching, JobVouches
    <2>4. CASE op # None /\ op.do = "finish" /\ OwnWriteOnly
               /\ cache'.stamp = Stamp /\ cache'.complete = cache.complete /\ cache'.seen = Written
      BY <2>4 DEF Vouching, WriteVouches
    <2> QED
      BY <1>1, <2>1, <2>2, <2>3, <2>4 DEF CacheMoves
  <1>5. JobVouches'
    <2> SUFFICES ASSUME prep' # None, job' # None, prep'.before = Stamp, job'.out = "ok", ~job'.migrate
                 PROVE  Vouches(job'.seen, TRUE)
      BY <1>2 DEF JobVouches, Vouches, Still
    <2>1. prep # None /\ prep'.before = prep.before
      BY <1>1 DEF RoundMoves
    <2>2. CASE UNCHANGED job \/ (job # None /\ UNCHANGED << job.out, job.migrate, job.seen >>)
      BY <2>1, <2>2 DEF Vouching, JobVouches
    <2>3. CASE JobMigrates
      BY <2>3, WorkerMoves DEF WorkerSteps, JobMigrates
    <2>4. CASE JobVerifies
      <3>1. job \in Jobs
        BY <2>4, WorkerMoves DEF WorkerSteps
      <3>2. job'.seen = [r \in Runs |-> Versions(r)] /\ ~Are("damaged") /\ ~Are("legacy")
        BY <2>4, <3>1, EndOfJob DEF JobVerifies, Outcomes, Jobs
      <3>3. ASSUME NEW r \in Runs, rows[r] # None PROVE rows[r] = Row(Versions(r), "intact") /\ Versions(r) > 0
        <4>1. rows[r] \in Rows /\ rows[r].is \notin {"damaged", "legacy"}
          BY <3>2, <3>3 DEF Are, TypeOK, DiskOK
        <4>2. Versions(r) = rows[r].ver /\ rows[r].ver \in 1..MaxVersion
          BY <3>3, <4>1 DEF Versions, Rows
        <4> QED
          BY <4>1, <4>2, BoundsAssumption DEF Rows, Row, Histories
      <3> QED
        BY <3>2, <3>3 DEF Vouches
    <2> QED
      BY <1>1, <2>1, <2>2, <2>3, <2>4 DEF RoundMoves
  <1>6. WriteVouches'
    <2> SUFFICES ASSUME op' # None, op'.do = "finish", OwnWriteOnly' PROVE Vouches(Written, cache.complete) /\ UNCHANGED << cache, op >>
      BY <1>2 DEF WriteVouches, Vouches, Still, Written
    <2>1. UNCHANGED << cache, op >>
      BY <1>1 DEF OpMoves
    <2>2. OwnWriteOnly
      BY <1>2, <2>1 DEF OwnWriteOnly
    <2> QED
      BY <2>1, <2>2 DEF Vouching, WriteVouches
  <1>7. ReadVouches'
    <2>1. CASE op' = None
      BY <2>1 DEF ReadVouches
    <2>2. CASE UNCHANGED << cache, op >>
      BY <1>2, <2>2 DEF Vouching, ReadVouches, Intact
    <2>3. CASE op' # None /\ op'.do \in {"get", "history"} /\ op'.before = Stamp /\ Ready(cache) /\ UNCHANGED cache
      BY <2>3 DEF Ready, ReadVouches
    <2>4. CASE op' # None /\ op'.do = "receipt" /\ op'.changes = 1 /\ op'.runs = {}
      BY <2>4 DEF ReadVouches
    <2>5. ASSUME op # None, op' # None, op'.before = op.before, UNCHANGED cache, ReadRow \/ ReadHistory, op'.got = Selected(op.runs),
                 op'.do = "end" \/ (op'.do = "more" /\ op.do \in {"get", "history", "more"})
          PROVE  ReadVouches'
      <3>1. op.do \in {"get", "history", "more"} /\ op.runs \subseteq Runs
        BY <2>5, Fields DEF ReadRow, ReadHistory, Doing, Operations
      <3>2. cache.stamp = op.before /\ cache.complete
        BY <2>5, <3>1 DEF Vouching, ReadVouches
      <3>3. ASSUME op.before = Stamp PROVE Intact(Selected(op.runs))
        <4> SUFFICES ASSUME NEW r \in op.runs, rows[r] # None PROVE rows[r].is = "intact"
          BY DEF Intact, Selected
        <4>1. rows[r] = Row(cache.seen[r], "intact")
          BY <3>1, <3>2, <3>3 DEF Vouching, StampVouches
        <4> QED
          BY <4>1 DEF Row
      <3> QED
        BY <1>2, <2>5, <3>2, <3>3 DEF ReadVouches, Intact
    <2>6. CASE op # None /\ op' # None /\ ReadEnd /\ op'.do = "return" /\ op'.got = op.got /\ op.before = Stamp
      BY <2>6 DEF ReadEnd, Doing, Vouching, ReadVouches, Intact
    <2> QED
      BY <1>1, <2>1, <2>2, <2>3, <2>4, <2>5, <2>6 DEF OpMoves, ReadRow, Doing
  <1> QED
    BY <1>3, <1>4, <1>5, <1>6, <1>7 DEF Vouching

\* A write makes the past of every other stamp, and vouches for what it wrote
LEMMA WritesKeep == ASSUME TypeOK, TypeOK', Alive, Vouching, Writes PROVE Vouching'
  <1> DEFINE wrote == /\ own' > own /\ data' = data /\ UNCHANGED << cache, prep, job >>
                      /\ op' # None /\ op'.do = "finish"
                      /\ (op'.before = Stamp \/ (op # None /\ op'.before = op.before))
  <1>1. ASSUME wrote, WriteVouches' PROVE Vouching'
    <2>1. data \in Nat /\ own \in Nat /\ data' \in Nat /\ own' \in Nat /\ data' >= data /\ own' >= own /\ own' # own
      BY <1>1, Fields DEF TypeOK, DiskOK
    <2>2. \A x \in Stamps : Reached(x) => x # Stamp' /\ Reached(x)'
      BY <2>1, NeverAgain
    <2>3. Stamp \in Stamps /\ Reached(Stamp) /\ Stamp' \in Stamps
      BY <2>1 DEF Stamp, Stamps, Reached
    <2>4. cache.stamp # None => cache.stamp \in Stamps /\ Reached(cache.stamp)
      BY Fields DEF Vouching, Past
    <2>5. prep # None => prep.before \in Stamps /\ Reached(prep.before)
      BY Fields DEF Vouching, Past
    <2>6. op'.before \in Stamps /\ Reached(op'.before)
      BY <1>1, <2>3, Fields DEF Vouching, Past
    <2>7. Past'
      BY <1>1, <2>1, <2>2, <2>4, <2>5, <2>6 DEF Past, Reached
    <2>8. StampVouches'
      BY <1>1, <2>2, <2>3, <2>4, NoneAssumption DEF StampVouches
    <2>9. JobVouches'
      BY <1>1, <2>2, <2>5 DEF JobVouches
    <2>10. ReadVouches'
      BY <1>1 DEF ReadVouches
    <2> QED
      BY <1>1, <2>7, <2>8, <2>9, <2>10 DEF Vouching
  <1>2. CASE ReceiptStored
    <2>1. op # None /\ op.do = "receipt" /\ op \in Operations
      BY <1>2, Fields DEF ReceiptStored, Doing
    <2>2. op.changes = 1 /\ op.runs = {} /\ op.before \in Stamps /\ Reached(op.before)
      BY <2>1, Fields DEF Vouching, ReadVouches, Past
    <2>3. /\ op' \in Operations /\ op'.do = "finish" /\ op'.before = op.before /\ op'.changes = 1 /\ op'.runs = {}
      <3>1. op' = [op EXCEPT !.do = "finish"]
        BY <1>2 DEF ReceiptStored
      <3> QED
        BY <2>1, <2>2, <3>1 DEF Operations, Steps
    <2>4. own' = own + 1 /\ UNCHANGED << rows, data, cache, prep, job >> /\ own \in Nat /\ data \in Nat
      BY <1>2, Fields DEF ReceiptStored
    <2>5. WriteVouches'
      <3> SUFFICES ASSUME OwnWriteOnly' PROVE Vouches(Written, cache.complete)'
        BY DEF WriteVouches
      <3>1. cache.stamp = op.before /\ << data, own + 1 >> = << op.before[1], op.before[2] + 1 >>
        BY <2>3, <2>4 DEF OwnWriteOnly, Stamp
      <3>2. op.before[1] = data /\ op.before[2] = own
        BY <2>2, <2>4, <3>1 DEF Stamps
      <3>3. cache.stamp = Stamp
        BY <2>2, <3>1, <3>2, StampIs
      <3>4. Written' = [r \in Runs |-> cache.seen[r]]
        BY <2>3, <2>4 DEF Written
      <3> QED
        BY <2>4, <3>3, <3>4 DEF Vouching, StampVouches, Vouches
    <2>6. own' > own /\ op' # None
      BY <2>3, <2>4, NoneAssumption
    <2> QED
      BY <1>1, <2>1, <2>3, <2>4, <2>5, <2>6
  <1>3. ASSUME NEW c \in Callers, NEW r \in Runs, Save(c, r) PROVE Vouching'
    <2>1. /\ op' \in Operations /\ op'.do = "finish" /\ op'.before = Stamp /\ op'.changes = 2 /\ op'.runs = {r}
          /\ op'.ver = Versions(r) + 1 /\ UNCHANGED << data, cache, prep, job >>
          /\ own' = own + (IF trigger THEN 3 ELSE 2) /\ own \in Nat /\ data \in Nat
      <3>1. op' = [Operation("finish", {r}, 2) EXCEPT !.ver = Versions(r) + 1]
        BY <1>3 DEF Save
      <3>2. op' \in Operations
        <4>1. "finish" \in Steps /\ 2 \in 0..2 /\ {r} \in SUBSET Runs /\ DiskOK
          BY DEF Steps, TypeOK
        <4>2. Operation("finish", {r}, 2) \in Operations
          BY <4>1, OperationType
        <4>3. Versions(r) + 1 \in 0..MaxVersion
          BY <1>3, <4>1, VersionTypes, BoundsAssumption DEF Save
        <4> QED
          BY <3>1, <4>2, <4>3 DEF Operations
      <3> QED
        BY <1>3, <3>1, <3>2, Fields DEF Save, Operation
    <2>2. cache.stamp = Stamp /\ cache.complete /\ (rows[r] # None => cache.seen[r] = rows[r].ver)
      BY <1>3 DEF Save, Ready, Extends
    <2>3. rows[r] # None => rows[r] = Row(cache.seen[r], "intact")
      BY <2>2 DEF Vouching, StampVouches
    <2>4. rows[r] = None \/ rows[r].is # "damaged"
      BY <2>3 DEF Row
    <2>5. rows' = [rows EXCEPT ![r] = Append(Versions(r) + 1)]
      BY <1>3, <2>4 DEF Save
    <2>6. WriteVouches'
      <3> SUFFICES ASSUME OwnWriteOnly' PROVE Vouches(Written, cache.complete)'
        BY DEF WriteVouches
      <3>1. << data, own' >> = << data, own + 2 >>
        BY <2>1 DEF OwnWriteOnly, Stamp
      <3>2. ~trigger
        BY <2>1, <3>1
      <3>3. rows'[r] = Row(Versions(r) + 1, "intact") /\ \A u \in Runs \ {r} : rows'[u] = rows[u]
        BY <2>5, <3>2 DEF Append, TypeOK, DiskOK
      <3>4. Written'[r] = Versions(r) + 1 /\ \A u \in Runs \ {r} : Written'[u] = cache.seen[u]
        BY <2>1 DEF Written
      <3>5. Versions(r) + 1 > 0
        BY VersionTypes, BoundsAssumption DEF TypeOK
      <3> QED
        BY <2>1, <2>2, <3>3, <3>4, <3>5 DEF Vouching, StampVouches, Vouches
    <2>7. own' > own /\ op' # None
      BY <2>1, NoneAssumption
    <2> QED
      BY <1>1, <2>1, <2>6, <2>7
  <1>4. ASSUME NEW c \in Callers, NEW r \in Runs, Delete(c, r) PROVE Vouching'
    <2>1. /\ op' \in Operations /\ op'.do = "finish" /\ op'.before = Stamp /\ op'.runs = {r}
          /\ op'.ver = 0 /\ UNCHANGED << data, cache, prep, job >> /\ own' = own + 2 /\ own \in Nat
      <3>1. op' = Operation("finish", {r}, 2)
        BY <1>4 DEF Delete
      <3>2. op' \in Operations
        <4>1. "finish" \in Steps /\ 2 \in 0..2 /\ {r} \in SUBSET Runs /\ DiskOK
          BY DEF Steps, TypeOK
        <4> QED
          BY <3>1, <4>1, OperationType
      <3> QED
        BY <1>4, <3>1, <3>2, Fields DEF Delete, Operation
    <2>2. cache.stamp = Stamp
      BY <1>4 DEF Delete, Ready
    <2>3. rows'[r] = None /\ \A u \in Runs \ {r} : rows'[u] = rows[u]
      BY <1>4 DEF Delete, TypeOK, DiskOK
    <2>4. Written'[r] = 0 /\ \A u \in Runs \ {r} : Written'[u] = cache.seen[u]
      BY <2>1 DEF Written
    <2>5. WriteVouches'
      BY <2>1, <2>2, <2>3, <2>4 DEF Vouching, StampVouches, WriteVouches, Vouches
    <2>6. own' > own /\ op' # None
      BY <2>1, NoneAssumption
    <2> QED
      BY <1>1, <2>1, <2>5, <2>6
  <1> QED
    BY <1>2, <1>3, <1>4 DEF Writes

-----------------------------------------------------------------------------
(* The theorems                                                             *)

LEMMA InvInit == Init => Inv
  <1> SUFFICES ASSUME Init PROVE Inv
    OBVIOUS
  <1>1. TypeOK
    <2>1. \A r \in Runs : rows[r] \in {None} \cup Rows
      BY BoundsAssumption DEF Init, Row, Rows, Histories
    <2>2. DiskOK
      BY <2>1, BoundsAssumption DEF Init, DiskOK, Row, Rows, Histories
    <2>3. StoreOK
      BY CacheTypes DEF Init, StoreOK
    <2>5. FaultsOK
      <3>1. leak = FALSE /\ faults = 0
        BY DEF Init
      <3>2. 0 \in 0..MaxFaults
        BY BoundsAssumption
      <3> QED
        BY <3>1, <3>2 DEF FaultsOK
    <2>4. ServerOK
      BY DEF Init, ServerOK
    <2> QED
      BY <2>2, <2>3, <2>4, <2>5 DEF TypeOK
  <1>2. Alive /\ Accounts
    BY DEF Init, Alive, Accounts, Noted, Stages
  <1>3. Vouching
    BY DEF Init, Vouching, Past, StampVouches, JobVouches, WriteVouches, ReadVouches, Unverified
  <1> QED
    BY <1>1, <1>2, <1>3 DEF Inv

LEMMA InvStep == Inv /\ [Next]_vars => Inv'
  <1> SUFFICES ASSUME Inv, [Next]_vars PROVE Inv'
    OBVIOUS
  <1>1. TypeOK' /\ Alive'
    BY TypeStep, AliveStep DEF Inv
  <1>2. Accounts'
    BY StagesStep, NotedStep DEF Inv, Accounts
  <1>3. Vouching'
    BY <1>1, DiskSteps, StillKeeps, OutsideKeeps, WritesKeep DEF Inv
  <1> QED
    BY <1>1, <1>2, <1>3 DEF Inv

\* Types, the life of the runtime, what is remembered under which stamp, and
\* where each failure to close is noted
THEOREM Invariant == Spec => []Inv
  BY InvInit, InvStep, PTL DEF Spec

\* Whatever a read returns, and whatever the cache vouches for, is on disk as
\* it was verified, whoever else writes and at whatever moment
THEOREM AlwaysIntact == Spec => []VouchedIsIntact
  <1>1. Inv => VouchedIsIntact
    BY DEF Inv, Vouching, ReadVouches, Intact, VouchedIsIntact, ServedIsIntact
  <1> QED
    BY Invariant, <1>1, PTL

\* A new version is chained only to a history that was verified as it is
THEOREM AlwaysOnIntact == Spec => SavedOnIntact
  <1>1. Inv /\ [Next]_vars => [\A r \in Runs : own' > own /\ rows[r] # None /\ rows'[r] # rows[r] => rows[r].is = "intact"]_vars
    <2> SUFFICES ASSUME Inv, Inv', [Next]_vars, NEW r \in Runs, own' > own, rows[r] # None, rows'[r] # rows[r]
                 PROVE  rows[r].is = "intact"
      BY InvStep
    <2>1. own \in Nat /\ own' \in Nat
      BY Fields DEF Inv, TypeOK, DiskOK
    <2>2. Writes
      BY <2>1, DiskSteps DEF Inv, Still, Outside
    <2>3. PICK c \in Callers, u \in Runs : Save(c, u) \/ Delete(c, u)
      BY <2>2 DEF Writes, ReceiptStored
    <2>4. u = r
      BY <2>3 DEF Save, Delete, Inv, TypeOK, DiskOK
    <2>5. cache.stamp = Stamp /\ cache.complete
      BY <2>3 DEF Save, Delete, Ready
    <2>6. rows[r] = Row(cache.seen[r], "intact")
      BY <2>5 DEF Inv, Vouching, StampVouches
    <2> QED
      BY <2>6 DEF Row
  <1> QED
    BY Invariant, <1>1, PTL DEF Spec, SavedOnIntact

\* Exit code 0 only if nothing was left behind
THEOREM AlwaysCleanExit == Spec => []CleanExit
  <1>1. Inv => CleanExit
    BY DEF Inv, Accounts, Stages, CleanExit
  <1> QED
    BY Invariant, <1>1, PTL

=============================================================================
