------------------------- MODULE DashboardCommands -------------------------
(* How a command of the dashboard page reaches a run, and how its outcome   *)
(* comes back: the page's locks and its refresh loop (public/app.js), the   *)
(* HTTP route with its table of recent commands (server.js), the durable    *)
(* receipts (DashboardController.executeDurable over CodeChangeStore).  One *)
(* page, one server that may be restarted, a network that delays and loses. *)
(*                                                                          *)
(* Requests are numbered in the order the page sends them (in the code:     *)
(* uuids).  A request of kind "prep" is an operation on the preparation:    *)
(* the page locks it separately and PreparationService keeps its receipt.   *)
EXTENDS Naturals, Sequences, FiniteSets, SequencesExt

CONSTANTS
  Runs,          \* runs the page can show
  Kinds,         \* what its commands do (Command below)
  MaxReq,        \* requests the page sends
  MaxLives,      \* server processes, one after the other
  MaxReceipts,   \* size of the server's table of recent commands (256)
  MaxFaults      \* failed writes, snapshots without the runtime, and requests
                 \* that another client sends again
ASSUME NoRunAssumption == "none" \notin Runs
ASSUME KindsAssumption == Kinds \subseteq {"act", "steer", "note", "delete"}
ASSUME SizesAssumption == {MaxReq, MaxLives, MaxReceipts} \subseteq Nat \ {0} /\ MaxFaults \in Nat

Req == 1 .. MaxReq
NoRun == "none"
Independent == {"note"}

VARIABLES
  reqs,    \* the requests sent: kind, run, expected version, token
  disk,    \* the run store: receipts and versions (0: deleted)
  srv,     \* the process: runtime open, table of recent commands, executions
  net,     \* the page's POST of each request
  call,    \* the page's await of each request
  page,    \* what a reload of the page loses
  store,   \* sessionStorage: the run commands to recover, and whose they are
  faults,  \* so far
  hist     \* history: effects, what the page was told, a command met a restoration
vars == <<reqs, disk, srv, net, call, page, store, faults, hist>>

Sent == 1 .. Len(reqs)
Free == [st |-> "free", req |-> 0]
Locked(st, r) == [st |-> st, req |-> r]
NoView == [run |-> NoRun, ver |-> 0, runs |-> {}]
FreshPage == [tok |-> 0, scope |-> 0, lock |-> [u \in Runs |-> Free], prep |-> Free,
              view |-> NoView, conn |-> FALSE, rd |-> "idle", todo |-> {}]

Init ==
  /\ reqs = <<>>
  /\ disk = [rcpt |-> [r \in Req |-> "none"], ver |-> [u \in Runs |-> 1]]
  /\ srv = [life |-> 1, ready |-> FALSE, mem |-> <<>>,
            th |-> [r \in Req |-> "idle"], res |-> [r \in Req |-> "none"]]
  /\ net = [r \in Req |-> "none"] /\ call = [r \in Req |-> "none"]
  /\ page = FreshPage
  /\ store = [scope |-> 0, links |-> {}]
  /\ faults = 0
  /\ hist = [effects |-> [r \in Req |-> 0], told |-> [r \in Req |-> "none"], stray |-> FALSE]

Faulty == faults < MaxFaults /\ faults' = faults + 1

-----------------------------------------------------------------------------
(* The page's locks.  A value of saveRunCommands is what sessionStorage     *)
(* then holds: the locks there are, under the scope they belong to.         *)
Links(lock) == {[run |-> u, req |-> lock[u].req] : u \in {v \in Runs : lock[v].st # "free"}}
Save(lock, scope) == store' = [scope |-> scope, links |-> Links(lock)]

Blocked(u, k) == \/ page.lock[u].st # "free"
                 \/ k \notin Independent /\ \E v \in Runs : page.lock[v].st # "free"

(* A refresh supersedes the one in flight: `sequence` tells its answers     *)
(* from the old one's.  The digest of the token is not worth superseding.   *)
Refreshed(p) == IF p.rd = "digest" THEN p
                ELSE [p EXCEPT !.conn = FALSE, !.todo = {}, !.rd = IF p.tok = 0 THEN "session" ELSE "state"]

Offered(u) == page.conn /\ u # NoRun

(* command(): only on the run in view, at the version in view. *)
Command(k) ==
  LET u == page.view.run
      r == Len(reqs) + 1
      lock == [page.lock EXCEPT ![u] = Locked("RUNNING", r)] IN
  /\ Offered(u) /\ r \in Req /\ ~Blocked(u, k)
  /\ reqs' = Append(reqs, [kind |-> k, run |-> u, ver |-> page.view.ver, tok |-> page.tok])
  /\ net' = [net EXCEPT ![r] = "way"] /\ call' = [call EXCEPT ![r] = "waiting"]
  /\ page' = [page EXCEPT !.lock = lock]
  /\ Save(lock, page.scope)
  /\ hist' = [hist EXCEPT !.stray = @ \/ page.rd = "digest"]
  /\ UNCHANGED <<disk, srv, faults>>

(* preparationMutation(): its lock lives in the page only. *)
Prepare ==
  LET r == Len(reqs) + 1 IN
  /\ page.conn /\ page.prep.st = "free" /\ r \in Req
  /\ reqs' = Append(reqs, [kind |-> "prep", run |-> NoRun, ver |-> 0, tok |-> page.tok])
  /\ net' = [net EXCEPT ![r] = "way"] /\ call' = [call EXCEPT ![r] = "waiting"]
  /\ page' = [page EXCEPT !.prep = Locked("RUNNING", r)]
  /\ UNCHANGED <<disk, srv, store, faults, hist>>

(* The finally blocks of command() and preparationMutation(): the entry of  *)
(* the run goes, whoever's it is by now, unless its outcome is unknown.     *)
Settled(r, unknown) ==
  LET u == reqs[r].run
      mark(e) == IF unknown /\ e.st # "free" THEN [e EXCEPT !.st = "UNKNOWN"] ELSE e
      freed(e) == IF mark(e).st = "UNKNOWN" THEN mark(e) ELSE Free
      lock == IF u = NoRun THEN page.lock ELSE [page.lock EXCEPT ![u] = freed(@)] IN
  /\ call' = [call EXCEPT ![r] = "done"]
  /\ IF u = NoRun
     THEN page' = Refreshed([page EXCEPT !.prep = freed(@)]) /\ UNCHANGED store
     ELSE page' = Refreshed([page EXCEPT !.lock = lock]) /\ Save(lock, page.scope)

(* An answer arrives; what it says is in net. *)
Answers == {"ok", "err", "refused"}
Answer(r) ==
  /\ r \in Sent /\ call[r] = "waiting" /\ net[r] \in Answers
  /\ Settled(r, FALSE)
  /\ net' = [net EXCEPT ![r] = "none"]
  /\ hist' = [hist EXCEPT !.told[r] = net[r]]
  /\ UNCHANGED <<reqs, disk, srv, faults>>

(* request() gives up: a timeout, a connection closed, an answer lost.  The *)
(* POST may still be on its way: it arrives later, or never.                *)
Hung(r) == IF net[r] = "way" THEN "way" ELSE "none"
UnansweredForgotten(r) ==
  /\ r \in Sent /\ call[r] = "waiting"
  /\ Settled(r, FALSE)
  /\ net' = [net EXCEPT ![r] = IF @ = "way" THEN "way" ELSE "none"]
  /\ UNCHANGED <<reqs, disk, srv, faults, hist>>

Unanswered(r) ==
  /\ r \in Sent /\ call[r] = "waiting"
  /\ Settled(r, TRUE)
  /\ net' = [net EXCEPT ![r] = Hung(r)]
  /\ UNCHANGED <<reqs, disk, srv, faults, hist>>

Reload ==
  /\ page # FreshPage
  /\ page' = FreshPage
  /\ call' = [r \in Req |-> IF call[r] = "waiting" THEN "done" ELSE call[r]]
  /\ net' = [r \in Req |-> Hung(r)]
  /\ UNCHANGED <<reqs, disk, srv, store, faults, hist>>

-----------------------------------------------------------------------------
(* refresh(): every 2.5 s, and whenever the user or a command asks for it.  *)
Refresh == /\ page' = Refreshed(page) /\ page' # page
           /\ UNCHANGED <<reqs, disk, srv, net, call, store, faults, hist>>

ReadFails == /\ page.rd \in {"session", "state", "loop"}
             /\ page' = [page EXCEPT !.rd = "idle", !.conn = FALSE, !.todo = {}]
             /\ UNCHANGED <<reqs, disk, srv, net, call, store, faults, hist>>

ReadSession == /\ page.rd = "session"
               /\ page' = [page EXCEPT !.tok = srv.life, !.rd = "state"]
               /\ UNCHANGED <<reqs, disk, srv, net, call, store, faults, hist>>

(* 401: the token is dropped by the read of the state only. *)
ReadRefused ==
  /\ page.rd \in {"state", "loop"} /\ page.tok # srv.life
  /\ page.rd = "loop" => page.todo # {}
  /\ page' = [page EXCEPT !.rd = "idle", !.conn = FALSE, !.todo = {},
                          !.tok = IF page.rd = "state" THEN 0 ELSE @]
  /\ UNCHANGED <<reqs, disk, srv, net, call, store, faults, hist>>

(* What the refresh then asks for: the entries whose outcome is unknown. *)
Unknown(p) == {u \in Runs : p.lock[u].st = "UNKNOWN"}
              \cup (IF p.prep.st = "UNKNOWN" THEN {NoRun} ELSE {})
Looping(p) == [p EXCEPT !.rd = "loop", !.todo = Unknown(p)]

(* What the page takes from a snapshot: a run, its version, the known runs. *)
Existing == {v \in Runs : disk.ver[v] > 0}
Viewed(u) == [run |-> u, ver |-> IF u = NoRun THEN 0 ELSE disk.ver[u], runs |-> Existing]

(* A snapshot with the runtime open: one run in view.  The first one under  *)
(* a token starts the digest that restoreRunCommands() waits for.           *)
ReadState ==
  /\ page.rd = "state" /\ page.tok = srv.life
  /\ srv' = [srv EXCEPT !.ready = TRUE]
  /\ \E u \in Existing \cup {NoRun} :
       LET p == [page EXCEPT !.conn = TRUE, !.view = Viewed(u)] IN
       page' = IF p.scope = p.tok THEN Looping(p) ELSE [p EXCEPT !.rd = "digest"]
  /\ UNCHANGED <<reqs, disk, net, call, store, faults, hist>>

(* A snapshot while the runtime is not open (it fails, or is still opening) *)
(* names no run and offers nothing; the commands are not restored from it.  *)
ReadUnavailable ==
  /\ page.rd = "state" /\ page.tok = srv.life /\ ~srv.ready /\ Faulty
  /\ page' = Looping([page EXCEPT !.conn = TRUE, !.view = NoView])
  /\ UNCHANGED <<reqs, disk, srv, net, call, store, hist>>

RecoveredAny(scope, known) ==
  [u \in Runs |->
     LET kept == {l \in store.links : l.run = u /\ u \in known} IN
     IF kept = {} THEN Free ELSE Locked("UNKNOWN", (CHOOSE l \in kept : TRUE).req)]

(* restoreRunCommands() after the digest: the commands in memory go, those  *)
(* sessionStorage holds for the same token come back with unknown outcome,  *)
(* if their run is among those just read.                                   *)
Recovered(scope, known) ==
  [u \in Runs |->
     LET kept == {l \in store.links : l.run = u /\ u \in known /\ store.scope = scope} IN
     IF kept = {} THEN Free ELSE Locked("UNKNOWN", (CHOOSE l \in kept : TRUE).req)]
Restore ==
  LET lock == Recovered(page.tok, page.view.runs) IN
  /\ page.rd = "digest"
  /\ page' = Looping([page EXCEPT !.scope = page.tok, !.lock = lock])
  /\ Save(lock, page.tok)
  /\ hist' = [hist EXCEPT !.stray = @ \/ \E r \in Sent : call[r] = "waiting" /\ reqs[r].kind # "prep"]
  /\ UNCHANGED <<reqs, disk, srv, net, call, faults>>

(* GET /api/state?requestId: what the receipt says. *)
Status(r) == CASE disk.rcpt[r] = "ok" -> "COMPLETED" [] disk.rcpt[r] = "err" -> "FAILED"
               [] disk.rcpt[r] = "INTENT" -> "PROCESSING"
               [] reqs[r].kind # "prep" /\ ~srv.ready -> "UNAVAILABLE"
               [] OTHER -> "NOT_FOUND"
Told(s) == CASE s = "COMPLETED" -> "ok" [] s = "FAILED" -> "err" [] OTHER -> s
AskReceipt(u) ==
  LET entry == IF u = NoRun THEN page.prep ELSE page.lock[u]
      s == Status(entry.req)
      freed == s \in {"COMPLETED", "FAILED"} \/ (u = NoRun /\ s = "NOT_FOUND")
      lock == IF freed /\ u # NoRun THEN [page.lock EXCEPT ![u] = Free] ELSE page.lock IN
  /\ page.rd = "loop" /\ u \in page.todo /\ page.tok = srv.life
  /\ page' = [page EXCEPT !.todo = @ \ {u}, !.lock = lock,
                          !.prep = IF freed /\ u = NoRun THEN Free ELSE @]
  /\ IF freed /\ u # NoRun THEN Save(lock, page.scope) ELSE UNCHANGED store
  /\ hist' = IF freed THEN [hist EXCEPT !.told[entry.req] = Told(s)] ELSE hist
  /\ UNCHANGED <<reqs, disk, srv, net, call, faults>>

ReadDone == /\ page.rd = "loop" /\ page.todo = {}
            /\ page' = [page EXCEPT !.rd = "idle"]
            /\ UNCHANGED <<reqs, disk, srv, net, call, store, faults, hist>>

-----------------------------------------------------------------------------
(* POST /api/commands.  A command already in the table shares its answer;   *)
(* a full table drops the oldest settled command, or refuses.               *)
InMem(r) == \E i \in 1 .. Len(srv.mem) : srv.mem[i] = r
Done(r) == srv.th[r] = "idle"
Evictable == {i \in 1 .. Len(srv.mem) : Done(srv.mem[i])}

Evicted == IF Len(srv.mem) < MaxReceipts THEN srv.mem
           ELSE RemoveAt(srv.mem, CHOOSE i \in Evictable : \A j \in Evictable : i <= j)
Full == Len(srv.mem) >= MaxReceipts /\ Evictable = {}

(* PreparationService keeps its own receipts and needs no runtime; it       *)
(* executes one mutation at a time and refuses the others.                  *)
PrepBusy == \E r \in Sent : reqs[r].kind = "prep" /\ srv.th[r] # "idle"

(* Nobody hears what comes after the page gave up. *)
Heard(r, a) == IF call[r] = "waiting" THEN a ELSE "none"

(* The request is taken: by the table, or by the preparation. *)
Taken(r) ==
  IF reqs[r].kind = "prep"
  THEN /\ ~PrepBusy /\ disk.rcpt[r] = "none"
       /\ disk' = [disk EXCEPT !.rcpt[r] = "INTENT"]
       /\ srv' = [srv EXCEPT !.th[r] = "execute"]
  ELSE /\ ~InMem(r) /\ ~Full
       /\ srv' = [srv EXCEPT !.mem = Append(Evicted, r), !.th[r] = "runtime"]
       /\ UNCHANGED disk

Accept(r) ==
  /\ r \in Sent /\ net[r] = "way" /\ reqs[r].tok = srv.life
  /\ Taken(r)
  /\ net' = [net EXCEPT ![r] = Heard(r, "there")]
  /\ UNCHANGED <<reqs, call, page, store, faults, hist>>

(* The answer of the command in the table, now or once there is one. *)
Join(r) ==
  /\ r \in Sent /\ net[r] = "way" /\ reqs[r].tok = srv.life
  /\ reqs[r].kind # "prep" /\ InMem(r)
  /\ net' = [net EXCEPT ![r] = Heard(r, IF Done(r) THEN srv.res[r] ELSE "there")]
  /\ UNCHANGED <<reqs, disk, srv, call, page, store, faults, hist>>

(* 401 (token of an earlier process), 429 (table full), a busy preparation. *)
Refuse(r) ==
  /\ r \in Sent /\ net[r] = "way"
  /\ \/ reqs[r].tok # srv.life
     \/ reqs[r].kind = "prep" /\ PrepBusy
     \/ reqs[r].kind # "prep" /\ ~InMem(r) /\ Full
  /\ net' = [net EXCEPT ![r] = Heard(r, "refused")]
  /\ UNCHANGED <<reqs, disk, srv, call, page, store, faults, hist>>

(* Another client with the present token sends a run command again. *)
Copy(r) ==
  /\ r \in Sent /\ reqs[r].kind # "prep" /\ Faulty
  /\ Taken(r)
  /\ UNCHANGED <<reqs, net, call, page, store, hist>>

(* The execution ends with an answer: it stays in the table, and goes to    *)
(* whoever waits.                                                           *)
Replied(r, a) ==
  /\ srv' = [srv EXCEPT !.th[r] = "idle", !.res[r] = a]
  /\ net' = [net EXCEPT ![r] = IF @ = "there" THEN a ELSE @]

BeginAgain(r) ==
  /\ r \in Sent /\ srv.th[r] = "runtime" /\ disk.rcpt[r] \in {"none", "INTENT"}
  /\ disk' = [disk EXCEPT !.rcpt[r] = "INTENT"]
  /\ srv' = [srv EXCEPT !.th[r] = "execute", !.ready = TRUE]
  /\ UNCHANGED <<reqs, net, call, page, store, faults, hist>>

(* executeDurable(), from the await of the runtime to the INTENT receipt.   *)
Begin(r) ==
  /\ r \in Sent /\ srv.th[r] = "runtime" /\ disk.rcpt[r] = "none"
  /\ disk' = [disk EXCEPT !.rcpt[r] = "INTENT"]
  /\ srv' = [srv EXCEPT !.th[r] = "execute", !.ready = TRUE]
  /\ UNCHANGED <<reqs, net, call, page, store, faults, hist>>

(* There is a receipt already: its answer, or RECOVERY_REQUIRED. *)
Answered(r) == IF disk.rcpt[r] = "ok" THEN "ok" ELSE "err"
Replay(r) ==
  /\ r \in Sent /\ srv.th[r] = "runtime" /\ disk.rcpt[r] # "none"
  /\ Replied(r, Answered(r))
  /\ UNCHANGED <<reqs, disk, call, page, store, faults, hist>>

(* The runtime does not open: an answer in the table, and no receipt. *)
NoRuntime(r) ==
  /\ r \in Sent /\ srv.th[r] = "runtime" /\ ~srv.ready
  /\ Replied(r, "err")
  /\ UNCHANGED <<reqs, disk, call, page, store, faults, hist>>

(* execute(): the command takes effect, whole or in part (then it may still *)
(* fail).  A deletion removes the run and its settled receipts; "act"       *)
(* changes the record of the run; "steer" and "prep" act elsewhere.         *)
Deleted(u) ==
  LET gone(s) == s \in Sent /\ reqs[s].run = u /\ disk.rcpt[s] \in {"ok", "err"} IN
  [rcpt |-> [s \in Req |-> IF gone(s) THEN "none" ELSE disk.rcpt[s]],
   ver |-> [disk.ver EXCEPT ![u] = 0]]
Current(q) == q.kind # "prep" => disk.ver[q.run] > 0 /\ disk.ver[q.run] = q.ver
Execute(r) ==
  LET q == reqs[r] IN
  /\ r \in Sent /\ srv.th[r] = "execute" /\ Current(q)
  /\ disk' = CASE q.kind = "delete" -> Deleted(q.run)
               [] q.kind \in {"act", "note"} -> [disk EXCEPT !.ver[q.run] = @ + 1]
               [] OTHER -> disk
  /\ \E out \in {"ok", "err"} : srv' = [srv EXCEPT !.th[r] = out]
  /\ hist' = [hist EXCEPT !.effects[r] = @ + 1]
  /\ UNCHANGED <<reqs, net, call, page, store, faults>>

(* execute() rejects before it does anything: the version, the stage... *)
Reject(r) ==
  /\ r \in Sent /\ srv.th[r] = "execute"
  /\ srv' = [srv EXCEPT !.th[r] = "err"]
  /\ UNCHANGED <<reqs, disk, net, call, page, store, faults, hist>>

(* finishCommand(), and the answer; if the write fails the answer is its    *)
(* error and the receipt stays an intent.                                   *)
Finish(r) ==
  /\ r \in Sent /\ srv.th[r] \in {"ok", "err"}
  /\ disk' = [disk EXCEPT !.rcpt[r] = srv.th[r]]
  /\ Replied(r, srv.th[r])
  /\ UNCHANGED <<reqs, call, page, store, faults, hist>>
FinishFailsQuietly(r) ==
  /\ r \in Sent /\ srv.th[r] \in {"ok", "err"} /\ Faulty
  /\ Replied(r, srv.th[r])
  /\ UNCHANGED <<reqs, disk, call, page, store, hist>>

FinishFails(r) ==
  /\ r \in Sent /\ srv.th[r] \in {"ok", "err"} /\ Faulty
  /\ Replied(r, "err")
  /\ UNCHANGED <<reqs, disk, call, page, store, hist>>

(* The process goes, with its token, its table and its executions. *)
Restart ==
  /\ srv.life < MaxLives
  /\ srv' = [life |-> srv.life + 1, ready |-> FALSE, mem |-> <<>>,
             th |-> [r \in Req |-> "idle"], res |-> [r \in Req |-> "none"]]
  /\ net' = [r \in Req |-> IF net[r] = "there" THEN "none" ELSE net[r]]
  /\ UNCHANGED <<reqs, disk, call, page, store, faults, hist>>

-----------------------------------------------------------------------------
Next ==
  \/ \E k \in Kinds : Command(k)
  \/ Prepare \/ Reload
  \/ \E r \in Req : Answer(r) \/ Unanswered(r)
  \/ Refresh \/ ReadFails \/ ReadSession \/ ReadRefused \/ ReadState
  \/ ReadUnavailable \/ Restore \/ ReadDone
  \/ \E u \in Runs \cup {NoRun} : AskReceipt(u)
  \/ \E r \in Req : Accept(r) \/ Join(r) \/ Refuse(r) \/ Copy(r)
  \/ \E r \in Req : Begin(r) \/ Replay(r) \/ NoRuntime(r)
  \/ \E r \in Req : Execute(r) \/ Reject(r) \/ Finish(r) \/ FinishFails(r)
  \/ Restart

Spec == Init /\ [][Next]_vars

-----------------------------------------------------------------------------
TypeOK ==
  /\ reqs \in Seq([kind : Kinds \cup {"prep"}, run : Runs \cup {NoRun}, ver : Nat, tok : Nat])
  /\ disk.rcpt \in [Req -> {"none", "INTENT", "ok", "err"}] /\ disk.ver \in [Runs -> Nat]
  /\ srv.th \in [Req -> {"idle", "runtime", "execute", "ok", "err"}]
  /\ Len(srv.mem) <= MaxReceipts
  /\ net \in [Req -> {"none", "way", "there"} \cup Answers]
  /\ call \in [Req -> {"none", "waiting", "done"}]
  /\ page.rd \in {"idle", "session", "state", "digest", "loop"}
  /\ \A u \in Runs : page.lock[u] \in [st : {"free", "RUNNING", "UNKNOWN"}, req : 0 .. MaxReq]


(* A request takes effect at most once, however often it is delivered,      *)
(* whatever the table has forgotten, across restarts, and also when the     *)
(* deletion of its run has removed its receipt.                             *)
AtMostOnce == \A r \in Req : hist.effects[r] <= 1

(* What the page was told is so: a success took effect and is on record     *)
(* (unless the deletion of the run removed the record); a command the       *)
(* server refused before the table has no effect.                           *)
ToldIsTrue ==
  \A r \in Sent :
    /\ hist.told[r] = "ok" =>
         /\ hist.effects[r] = 1
         /\ disk.rcpt[r] = "ok" \/ (reqs[r].kind # "prep" /\ disk.ver[reqs[r].run] = 0)
    /\ hist.told[r] = "refused" /\ hist.effects[r] > 0 => faults > 0

(* A command the server has on record as begun, sent by this page under the *)
(* present token and of which it knows no end, is in sessionStorage as      *)
(* long as its run exists: a reload comes back to it and the run stays      *)
(* blocked.  This excludes pages where a command was open, or was sent, while the commands of another     *)
(* token were being restored (stray): restoring clears its entry.           *)
UndecidedIsLinked ==
  \A r \in Sent :
    (/\ reqs[r].kind # "prep" /\ reqs[r].tok = srv.life
     /\ disk.ver[reqs[r].run] > 0
     /\ hist.told[r] = "none" /\ disk.rcpt[r] = "INTENT" /\ ~hist.stray)
    => [run |-> reqs[r].run, req |-> r] \in store.links

(* A run is never blocked for a command sent to an earlier process, once    *)
(* the page has restored its commands under the present token.              *)
NoForeignLock ==
  page.tok # 0 /\ page.scope = page.tok =>
    \A u \in Runs : page.lock[u].st = "UNKNOWN" => reqs[page.lock[u].req].tok = page.tok

\* A run is blocked for every undecided command of this page, and for no other process's.
LocksAreJust == UndecidedIsLinked /\ NoForeignLock

=============================================================================
