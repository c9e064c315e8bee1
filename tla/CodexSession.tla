---------------------------- MODULE CodexSession ----------------------------
(***************************************************************************)
(* One Codex session: the session adapter (session-adapter.js), the        *)
(* process manager and JSON-RPC peer below it (process-manager.js,         *)
(* jsonl-rpc-peer.js), and the capture gate of a code-change worker above  *)
(* it (code-change-worker.js).  The app-server at the other end of the     *)
(* pipe is external: it answers requests in any order, writes its lines in *)
(* order, may be slow, and may die.                                        *)
(*                                                                         *)
(* Node runs one callback to its end and then the continuations of the     *)
(* promises that the callback settled.  A chunk of several lines is one    *)
(* callback: every line of it is handled before the await of a request     *)
(* that the first line answered goes on.  Hence Deliver may go on while an *)
(* operation is "REPLIED", and every other callback waits for Quiet.       *)
(***************************************************************************)
EXTENDS Naturals, FiniteSets, Sequences

CONSTANTS Subs,       \* the submissions of turns the client makes
          MaxGens     \* bound: processes spawned before spawn always fails

ASSUME SubsAssumption == IsFiniteSet(Subs) /\ Subs # {}
ASSUME GensAssumption == MaxGens \in Nat \ {0}

VARIABLES
  worker,    \* the session is used through the capture gate of a worker
  manager,   \* the process manager
  adapter,   \* the session adapter
  op,        \* the operations in progress: what each awaits
  sub,       \* what became of each submission
  gate,      \* bindCodeChangeCapture: busy, unavailable
  recorded,  \* the thread binding was persisted by the controller
  confirmed, \* turns whose interrupt was confirmed to the caller
  requests,  \* lines written to the server and not yet acted on
  lines,     \* lines of the server not yet handled, in order
  turns,     \* the turns of the thread, as the server stores them
  loaded     \* the server process has the thread in memory

vars == <<worker, manager, adapter, op, sub, gate, recorded, confirmed,
          requests, lines, turns, loaded>>

local == <<worker, gate, recorded, confirmed>>
server == <<turns, loaded>>

NoTurn == 0
Old    == "Old"      \* the turn that an earlier session left in the thread
NoSub  == "NoSub"    \* a recovered turn: nobody awaits its completion
Late   == "Late"     \* a request whose caller gave up

Ops == {"BIND", "INSPECT", "INTERRUPT"} \union Subs
MaxTurns == Cardinality(Subs) + 1
TurnIds == 1 .. MaxTurns

(* How a turn can end; "rejected" is completed without an answer that      *)
(* satisfies the output schema.                                            *)
Ends == {"completed", "rejected", "interrupted", "failed"}
Causes == {"none", "closed", "timeout", "refused"}

Inactive == [sub |-> NoSub, turn |-> NoTurn, interrupt |-> FALSE, on |-> FALSE]
Idle == [pc |-> "IDLE", what |-> "none", cg |-> 0, turn |-> NoTurn,
         cause |-> "none", view |-> <<>>]

Init ==
  /\ worker \in BOOLEAN
  /\ manager = [status |-> "STOPPED", process |-> "NONE", starting |-> "NO",
                startCg |-> 0, closing |-> FALSE, cg |-> 0, gens |-> 0]
  /\ adapter = [status |-> "CREATING", bound |-> FALSE, persisted |-> FALSE,
                active |-> Inactive,
                ambiguous |-> FALSE, terminal |-> {}, closed |-> FALSE]
  /\ op = [o \in Ops |-> Idle]
  /\ sub = [s \in Subs |-> [state |-> "UNUSED", turn |-> NoTurn, handle |-> FALSE,
                            settled |-> "NO", answer |-> NoTurn]]
  /\ gate = [busy |-> FALSE, unavailable |-> FALSE]
  /\ recorded \in BOOLEAN
  /\ worker => ~recorded
  /\ turns \in IF recorded
               THEN {<<>>} \union {<<[sub |-> Old, status |-> st]>> :
                                     st \in {"inProgress", "completed"}}
               ELSE {<<>>}
  /\ confirmed = {}
  /\ requests = {} /\ lines = <<>> /\ loaded = FALSE

-----------------------------------------------------------------------------
(* Continuations and callbacks. *)

Quiet ==
  /\ \A o \in Ops : op[o].pc \notin {"REPLIED", "STARTED"}
  /\ \A s \in Subs : ~ (sub[s].state = "OPEN" /\ sub[s].handle /\ sub[s].settled # "NO")

Ready == manager.status = "READY" /\ manager.process = "RUNNING"

Begin(o) == [Idle EXCEPT !.pc = "VERIFY", !.cg = manager.cg]

(* The request of operation o, once the server is ready. *)
Method(o) ==
  CASE o = "BIND"      -> "bind"
    [] o = "INSPECT"   -> "read"
    [] o = "INTERRUPT" -> "interrupt"
    [] OTHER           -> "turn"

Send(o, what, turn) ==
  /\ requests' = requests \union {[op |-> o, by |-> o, what |-> what, turn |-> turn]}
  /\ op' = [op EXCEPT ![o] = [Idle EXCEPT !.pc = "SENT", !.what = what]]

(* peer.close rejects every pending request. *)
Rejected(ops, cause) ==
  [o \in Ops |-> IF ops[o].pc = "SENT"
                 THEN [ops[o] EXCEPT !.pc = "REPLIED", !.cause = cause]
                 ELSE ops[o]]

(* The start() everybody awaits has settled. *)
Woken(ops) ==
  [o \in Ops |-> IF ops[o].pc = "STARTING" THEN [ops[o] EXCEPT !.pc = "STARTED"] ELSE ops[o]]

-----------------------------------------------------------------------------
(* What the adapter does to its turn.  Each operator gives the adapter and *)
(* the submissions after it.                                               *)

Settle(subs, s, how, answer) ==
  IF s \in Subs /\ subs[s].settled = "NO"
  THEN [subs EXCEPT ![s].settled = how, ![s].answer = answer]
  ELSE subs

(* #markAmbiguous: the outcome of the active turn is unknown. *)
Ambiguous(a) == [a EXCEPT !.active = Inactive, !.ambiguous = TRUE, !.status = "DISCONNECTED"]

(* #completeTurn: the active turn ended with the status given. *)
Completed(a, turn) ==
  [a EXCEPT !.active = Inactive, !.status = "READY", !.terminal = @ \union {turn}]

CompletedSubs(subs, a, turn, status) ==
  Settle(subs, a.active.sub,
         IF status = "completed" THEN "OK" ELSE "ERR",
         IF status = "completed" THEN turn ELSE NoTurn)

(* Mutant: every end of an interrupted turn confirms the interrupt. *)
Confirms_AnyEnd(a, turn, status) == IF a.active.interrupt THEN {turn} ELSE {}

Confirms(a, turn, status) ==
  IF a.active.interrupt /\ status = "interrupted" THEN {turn} ELSE {}

(* The gate of a worker: a submission is over. *)
Released(g, failed) ==
  IF worker THEN [busy |-> FALSE, unavailable |-> g.unavailable \/ failed]
            ELSE [g EXCEPT !.busy = FALSE]

-----------------------------------------------------------------------------
(* The calls of the client. *)

(* start() of a new thread or resume() of the recorded one: both clients   *)
(* call it once, when they have made the adapter.                          *)
Bind ==
  /\ Quiet /\ ~adapter.closed
  /\ adapter.status = "CREATING" /\ ~adapter.bound /\ op["BIND"].pc = "IDLE"
  /\ op' = [op EXCEPT !["BIND"] = Begin("BIND")]
  /\ UNCHANGED <<local, server, manager, adapter, sub, requests, lines>>

(* inspect(): a probe while a turn is awaited, or a look at what became of *)
(* an ambiguous turn.  No client inspects while it submits, or goes on     *)
(* after its binding was not persisted.                                    *)
Inspect ==
  /\ Quiet /\ ~adapter.closed
  /\ adapter.persisted /\ op["BIND"].pc = "IDLE"
  /\ op["INSPECT"].pc = "IDLE" /\ op["INTERRUPT"].pc = "IDLE"
  /\ \A s \in Subs : op[s].pc = "IDLE"
  /\ op' = [op EXCEPT !["INSPECT"] = Begin("INSPECT")]
  /\ UNCHANGED <<local, server, manager, adapter, sub, requests, lines>>

(* #assertReadyForTurn *)
ReadyForTurn ==
  /\ ~adapter.closed
  /\ adapter.bound /\ adapter.status = "READY"
  /\ ~adapter.active.on
  /\ ~adapter.ambiguous

(* Mutant: the gate does not look at busy. *)
GateOpen_Busy == ~gate.unavailable

GateOpen == ~gate.busy /\ ~gate.unavailable

(* submitTurn(): through the gate, which refuses while it is busy; the     *)
(* discussion dispatcher, which has no gate, awaits one turn at a time.    *)
Submit(s) ==
  /\ Quiet /\ sub[s].state = "UNUSED" /\ op["INSPECT"].pc = "IDLE"
  /\ GateOpen
  /\ IF ReadyForTurn
     THEN /\ sub' = [sub EXCEPT ![s].state = "OPEN"]
          /\ op' = [op EXCEPT ![s] = Begin(s)]
          /\ gate' = [gate EXCEPT !.busy = TRUE]
     ELSE /\ worker
          /\ sub' = [sub EXCEPT ![s].state = "FAILED"]
          /\ gate' = Released(gate, TRUE)
          /\ UNCHANGED op
  /\ UNCHANGED <<worker, recorded, confirmed, server, manager, adapter, requests, lines>>

(* interrupt() of the active turn *)
Interrupt ==
  /\ Quiet /\ ~adapter.closed /\ op["INTERRUPT"].pc = "IDLE" /\ op["INSPECT"].pc = "IDLE"
  /\ adapter.active.on /\ adapter.active.turn # NoTurn /\ ~adapter.active.interrupt
  /\ adapter' = [adapter EXCEPT !.active.interrupt = TRUE]
  /\ op' = [op EXCEPT !["INTERRUPT"] = [Begin("INTERRUPT") EXCEPT !.turn = adapter.active.turn]]
  /\ UNCHANGED <<local, server, manager, sub, requests, lines>>

(* close() of the session and then of the manager.  The listeners are gone *)
(* at once; the child is asked to end by closing its stdin.                *)
Close ==
  /\ Quiet /\ ~adapter.closed
  /\ adapter' = [adapter EXCEPT !.closed = TRUE, !.status = "CLOSED"]
  /\ gate' = [gate EXCEPT !.unavailable = @ \/ worker]
  /\ manager' = [manager EXCEPT !.closing = TRUE, !.cg = @ + 1,
                   !.process = IF @ = "RUNNING" THEN "CLOSING" ELSE "NONE",
                   !.status = IF manager.starting = "INIT" THEN "FAILED" ELSE @,
                   !.starting = IF @ = "INIT" THEN "NO" ELSE @]
  /\ op' = LET ops == Rejected(op, "closed")
           IN  IF manager.starting = "INIT" THEN Woken(ops) ELSE ops
  /\ requests' = {} /\ lines' = <<>>
  /\ UNCHANGED <<worker, recorded, confirmed, server, sub>>

(* The child ended, or was killed after 3 seconds. *)
CloseEnds ==
  /\ Quiet /\ manager.closing
  /\ manager' = [manager EXCEPT !.closing = FALSE, !.process = "NONE", !.status = "STOPPED"]
  /\ requests' = {} /\ lines' = <<>> /\ loaded' = FALSE
  /\ UNCHANGED <<local, turns, adapter, op, sub>>

-----------------------------------------------------------------------------
(* The process manager. *)

(* request() of operation o: what the adapter sets before it awaits. *)
Proceed(o) ==
  /\ Send(o, Method(o), op[o].turn)
  /\ adapter' = CASE o = "BIND"  -> [adapter EXCEPT !.status = "CREATING"]
                  [] o \in Subs  -> [adapter EXCEPT !.status = "RUNNING",
                                       !.active = [Inactive EXCEPT !.sub = o, !.on = TRUE]]
                  [] OTHER       -> adapter
  /\ UNCHANGED <<sub, gate>>

(* The handlers of an operation whose request failed, or was never sent:   *)
(* a transport that closed or a timeout leaves the outcome unknown.        *)
Failed(o, cause, sent) ==
  /\ op' = [op EXCEPT ![o] = Idle]
  /\ CASE o = "BIND" ->
            /\ adapter' = [adapter EXCEPT !.status =
                             IF @ = "DISCONNECTED" THEN @ ELSE "FAILED"]
            /\ UNCHANGED <<sub, gate>>
       [] o = "INSPECT" -> UNCHANGED <<adapter, sub, gate>>
       [] o = "INTERRUPT" ->
            /\ IF adapter.active.interrupt
               THEN IF cause = "refused"
                    THEN /\ adapter' = [adapter EXCEPT !.active.interrupt = FALSE]
                         /\ UNCHANGED sub
                    ELSE /\ adapter' = Ambiguous(adapter)
                         /\ sub' = Settle(sub, adapter.active.sub, "ERR", NoTurn)
               ELSE UNCHANGED <<adapter, sub>>
            /\ UNCHANGED gate
       [] OTHER ->
            /\ IF sent /\ adapter.active.on /\ adapter.active.sub = o
               THEN adapter' = IF cause = "refused"
                               THEN [adapter EXCEPT !.active = Inactive, !.status = "READY"]
                               ELSE Ambiguous(adapter)
               ELSE UNCHANGED adapter
            /\ sub' = [sub EXCEPT ![o].state = "FAILED", ![o].settled = "ERR"]
            /\ gate' = Released(gate, TRUE)

(* Mutant: an operation looks only at a close() still under way. *)
Overtaken_Closing(o) == manager.closing

(* ensureReadyForNewOperation() compared the executable with its pin,      *)
(* which may fail; an operation that a close() overtook ends here as well. *)
Overtaken(o) == manager.closing \/ op[o].cg # manager.cg

Verified(o) ==
  /\ Quiet /\ op[o].pc = "VERIFY"
  /\ \/ /\ Overtaken(o)
        /\ Failed(o, "closed", FALSE)
        /\ UNCHANGED <<manager, requests>>
     \/ /\ Failed(o, "refused", FALSE)
        /\ UNCHANGED <<manager, requests>>
     \/ /\ ~Overtaken(o) /\ Ready
        /\ Proceed(o)
        /\ UNCHANGED manager
     \/ /\ ~Overtaken(o) /\ ~Ready
        /\ manager' = IF manager.starting = "NO"
                      THEN [manager EXCEPT !.starting = "VERIFY", !.startCg = manager.cg]
                      ELSE manager
        /\ op' = [op EXCEPT ![o].pc = "STARTING"]
        /\ UNCHANGED <<adapter, sub, gate, requests>>
  /\ UNCHANGED <<worker, recorded, confirmed, server, lines>>

(* #startInternal up to the initialize request; spawn may throw. *)
StartOvertaken == manager.closing \/ manager.startCg # manager.cg

Spawn ==
  /\ Quiet /\ manager.starting = "VERIFY"
  /\ \/ /\ StartOvertaken
        /\ manager' = [manager EXCEPT !.starting = "NO"]
        /\ op' = Woken(op)
        /\ UNCHANGED <<requests, lines, loaded>>
     \/ /\ ~StartOvertaken
        /\ manager' = [manager EXCEPT !.starting = "NO", !.status = "FAILED"]
        /\ op' = Woken(op)
        /\ UNCHANGED <<requests, lines, loaded>>
     \/ /\ ~StartOvertaken /\ manager.gens < MaxGens
        /\ manager' = [manager EXCEPT !.starting = "INIT", !.status = "STARTING",
                         !.process = "RUNNING", !.gens = @ + 1]
        /\ requests' = {[op |-> "INIT", by |-> "INIT", what |-> "init", turn |-> NoTurn]}
        /\ lines' = <<>> /\ loaded' = FALSE
        /\ UNCHANGED op
  /\ UNCHANGED <<local, turns, adapter, sub>>

(* The initialize request timed out: the child is killed. *)
InitTimeout ==
  /\ Quiet /\ manager.starting = "INIT"
  /\ manager' = [manager EXCEPT !.starting = "NO", !.status = "FAILED", !.process = "NONE"]
  /\ op' = Woken(op)
  /\ requests' = {} /\ lines' = <<>> /\ loaded' = FALSE
  /\ UNCHANGED <<local, turns, adapter, sub>>

(* The operations that awaited the start go on. *)
Started(o) ==
  /\ op[o].pc = "STARTED"
  /\ IF Ready /\ op[o].cg = manager.cg
     THEN Proceed(o)
     ELSE /\ \E cause \in {"closed", "refused"} : Failed(o, cause, FALSE)
          /\ UNCHANGED requests
  /\ UNCHANGED <<worker, recorded, confirmed, server, manager, lines>>

(* #handleProcessEnd and #handleDisconnect.  A turn that ran stays in the  *)
(* thread as it was, or is stored as interrupted.                          *)
ProcessExit ==
  /\ Quiet /\ manager.process = "RUNNING"
  /\ manager' = [manager EXCEPT !.process = "NONE", !.status = "FAILED", !.starting = "NO"]
  /\ op' = LET ops == Rejected(op, "closed")
           IN  IF manager.starting = "INIT" THEN Woken(ops) ELSE ops
  /\ IF adapter.active.on
     THEN /\ adapter' = Ambiguous(adapter)
          /\ sub' = Settle(sub, adapter.active.sub, "ERR", NoTurn)
     ELSE /\ adapter' = [adapter EXCEPT !.status = "DISCONNECTED"]
          /\ UNCHANGED sub
  /\ requests' = {} /\ lines' = <<>> /\ loaded' = FALSE
  /\ \E kept \in {"inProgress", "interrupted"} :
       turns' = [t \in DOMAIN turns |->
                   IF turns[t].status = "inProgress" THEN [turns[t] EXCEPT !.status = kept]
                                                     ELSE turns[t]]
  /\ UNCHANGED local

(* A request timed out: a late answer to it will find no entry, but the    *)
(* server may still act on a turn/start, of which at most one (a bound)    *)
(* is late at a time.                                                      *)
MayBeLate == \A r \in requests : r.op # Late

GiveUp(o) ==
  /\ Quiet /\ op[o].pc = "SENT"
  /\ op' = [op EXCEPT ![o].pc = "REPLIED", ![o].cause = "timeout"]
  /\ requests' = {r \in requests : r.op # o} \union
                 {[r EXCEPT !.op = Late] :
                    r \in {q \in requests : q.op = o /\ q.what = "turn" /\ MayBeLate}}
  /\ lines' = SelectSeq(lines, LAMBDA l : ~ (l.kind = "reply" /\ l.op = o))
  /\ UNCHANGED <<local, server, manager, adapter, sub>>

RequestTimeout(o) == GiveUp(o)

-----------------------------------------------------------------------------
(* What comes back: lines, and the continuations of what they answer. *)

(* #applyInspection *)
Newest(view, statuses) ==
  LET found == {t \in DOMAIN view : view[t] \in statuses}
  IN  IF found = {} THEN NoTurn ELSE CHOOSE t \in found : \A u \in found : u <= t

Terminal(view) == {t \in DOMAIN view : view[t] \in Ends}

Applied(view) ==
  LET a    == [adapter EXCEPT !.terminal = @ \union Terminal(view)]
      last == Newest(view, Ends)
      runs == Newest(view, {"inProgress"})
  IN  IF a.active.on /\ a.active.turn # NoTurn /\ last = a.active.turn
      THEN /\ adapter' = Completed(a, last)
           /\ sub' = CompletedSubs(sub, a, last, view[last])
           /\ confirmed' = confirmed \union Confirms(a, last, view[last])
      ELSE IF runs # NoTurn
      THEN /\ adapter' = IF a.active.on /\ a.active.turn = runs
                         THEN [a EXCEPT !.status = "RUNNING"]
                         ELSE [a EXCEPT !.status = "RUNNING", !.ambiguous = FALSE,
                                 !.active = [Inactive EXCEPT !.turn = runs, !.on = TRUE]]
           /\ UNCHANGED <<sub, confirmed>>
      ELSE IF a.active.on
      THEN /\ adapter' = Ambiguous(a)
           /\ sub' = Settle(sub, a.active.sub, "ERR", NoTurn)
           /\ UNCHANGED confirmed
      ELSE /\ adapter' = IF \E t \in DOMAIN view : view[t] = "unlisted"
                         THEN [a EXCEPT !.ambiguous = TRUE, !.status = "DISCONNECTED"]
                         ELSE [a EXCEPT !.ambiguous = FALSE, !.status = "READY"]
           /\ UNCHANGED <<sub, confirmed>>

(* Mutant: a binding that was not persisted does not stop the session. *)
Bound_Unpersisted ==
  /\ adapter' = [adapter EXCEPT !.bound = TRUE, !.persisted = TRUE, !.status = "READY"]
  /\ op' = [op EXCEPT !["BIND"] = Idle]
  /\ UNCHANGED <<requests, recorded>>

(* The answer to thread/start or thread/resume: the binding is persisted   *)
(* before the session is ready; a resumed thread is read as well.          *)
Bound ==
  \/ /\ recorded
     /\ adapter' = [adapter EXCEPT !.bound = TRUE, !.persisted = TRUE]
     /\ IF Ready
        THEN Send("BIND", "read", NoTurn)
        ELSE op' = [op EXCEPT !["BIND"] = Idle] /\ UNCHANGED requests
     /\ UNCHANGED recorded
  \/ /\ ~recorded
     /\ adapter' = [adapter EXCEPT !.bound = TRUE, !.persisted = TRUE, !.status = "READY"]
     /\ recorded' = TRUE
     /\ op' = [op EXCEPT !["BIND"] = Idle]
     /\ UNCHANGED requests
  \/ /\ adapter' = [adapter EXCEPT !.bound = TRUE, !.status = "FAILED"]
     /\ op' = [op EXCEPT !["BIND"] = Idle]
     /\ UNCHANGED <<requests, recorded>>

(* Mutant: the turn observed meanwhile is not compared with the answer. *)
Answered_AnyTurn(s) ==
  /\ op' = [op EXCEPT ![s] = Idle]
  /\ sub' = [sub EXCEPT ![s].turn = op[s].turn, ![s].handle = TRUE]
  /\ adapter' = IF adapter.active.sub = s THEN [adapter EXCEPT !.active.turn = op[s].turn]
                                          ELSE adapter
  /\ UNCHANGED gate

(* The answer to turn/start names the turn; a turn that the session        *)
(* observed meanwhile must be the same.                                    *)
Answered(s) ==
  LET t == op[s].turn
  IN  /\ op' = [op EXCEPT ![s] = Idle]
      /\ IF sub[s].turn \in {NoTurn, t}
         THEN /\ sub' = [sub EXCEPT ![s].turn = t, ![s].handle = TRUE]
              /\ adapter' = IF adapter.active.sub = s
                            THEN [adapter EXCEPT !.active.turn = t] ELSE adapter
              /\ UNCHANGED gate
         ELSE /\ sub' = [sub EXCEPT ![s].state = "FAILED",
                           ![s].settled = IF @ = "NO" THEN "ERR" ELSE @]
              /\ adapter' = [Ambiguous(adapter) EXCEPT
                               !.active = IF adapter.active.sub = s THEN Inactive
                                                                    ELSE adapter.active]
              /\ gate' = Released(gate, TRUE)

Continue(o) ==
  /\ op[o].pc = "REPLIED"
  /\ \/ /\ op[o].cause # "none"
        /\ Failed(o, op[o].cause, TRUE)
        /\ UNCHANGED <<recorded, confirmed, requests>>
     \/ /\ op[o].cause = "none" /\ op[o].what = "bind"
        /\ Bound
        /\ UNCHANGED <<sub, gate, confirmed>>
     \/ /\ op[o].cause = "none" /\ op[o].what = "read"
        /\ Applied(op[o].view)
        /\ op' = [op EXCEPT ![o] = Idle]
        /\ UNCHANGED <<recorded, gate, requests>>
     \/ /\ op[o].cause = "none" /\ op[o].what = "interrupt"
        /\ op' = [op EXCEPT ![o] = Idle]
        /\ UNCHANGED <<adapter, sub, recorded, gate, confirmed, requests>>
     \/ /\ op[o].cause = "none" /\ op[o].what = "turn"
        /\ Answered(o)
        /\ UNCHANGED <<recorded, confirmed, requests>>
  /\ UNCHANGED <<worker, manager, server, lines>>

(* The completion of a submission settled: a worker captures the worktree  *)
(* and persists the capture (which may fail) before the caller has it.     *)
Capture(s) ==
  /\ sub[s].state = "OPEN" /\ sub[s].handle /\ sub[s].settled # "NO"
  /\ \/ /\ sub[s].settled = "OK"
        /\ worker => sub[s].answer = sub[s].turn /\ ~gate.unavailable
        /\ sub' = [sub EXCEPT ![s].state = "DONE"]
        /\ gate' = Released(gate, FALSE)
     \/ /\ sub[s].settled = "ERR" \/ worker
        /\ sub' = [sub EXCEPT ![s].state = "FAILED"]
        /\ gate' = Released(gate, TRUE)
  /\ UNCHANGED <<worker, recorded, confirmed, server, manager, adapter, op, requests, lines>>

(* #handleNotification: a line about a turn that ended, or about another   *)
(* turn than the active one, is dropped; the first line about a turn names *)
(* the turn of a submission that awaits its answer.                        *)
Concerns(a, t) ==
  /\ a.active.on
  /\ a.active.turn \in {NoTurn, t}
  /\ t \in a.terminal => a.active.turn = t

Notified(l) ==
  IF Concerns(adapter, l.turn) /\ ~adapter.closed
  THEN LET named == [adapter EXCEPT !.active.turn = l.turn]
           subs  == IF adapter.active.sub \in Subs
                    THEN [sub EXCEPT ![adapter.active.sub].turn = l.turn] ELSE sub
       IN  IF l.status \in Ends
           THEN /\ adapter' = Completed(named, l.turn)
                /\ sub' = CompletedSubs(subs, named, l.turn, l.status)
                /\ confirmed' = confirmed \union Confirms(named, l.turn, l.status)
           ELSE /\ adapter' = named /\ sub' = subs
                /\ UNCHANGED confirmed
  ELSE UNCHANGED <<adapter, sub, confirmed>>

(* A line: the first of a chunk is a callback of its own, the others are   *)
(* handled in the same callback.                                           *)
Deliver ==
  /\ manager.process = "RUNNING" /\ lines # <<>>
  /\ LET l == Head(lines)
     IN  /\ lines' = Tail(lines)
         /\ IF l.kind = "reply"
            THEN /\ op' = IF l.op = "INIT" THEN Woken(op)
                          ELSE [op EXCEPT ![l.op].pc = "REPLIED", ![l.op].turn = l.turn,
                                  ![l.op].view = l.view, ![l.op].cause = l.cause]
                 /\ manager' = IF l.op = "INIT"
                               THEN [manager EXCEPT !.starting = "NO", !.status = "READY"]
                               ELSE manager
                 /\ UNCHANGED <<adapter, sub, confirmed>>
            ELSE /\ Notified(l)
                 /\ UNCHANGED <<op, manager>>
  /\ UNCHANGED <<worker, gate, recorded, server, requests>>

-----------------------------------------------------------------------------
(* The app-server (external). *)

Running == {t \in DOMAIN turns : turns[t].status = "inProgress"}

Reply(r, cause, turn, view) ==
  IF r.op = Late THEN <<>>
  ELSE <<[kind |-> "reply", op |-> r.op, cause |-> cause, turn |-> turn, view |-> view,
          status |-> "none"]>>

Notice(turn, status) ==
  <<[kind |-> "turn", op |-> "none", cause |-> "none", turn |-> turn, view |-> <<>>,
     status |-> status]>>

(* thread/read: a turn in progress may not be listed yet, although the     *)
(* thread is reported as active.                                           *)
Views ==
  {[t \in DOMAIN turns |-> IF t \in unlisted THEN "unlisted" ELSE turns[t].status] :
     unlisted \in {{}, IF loaded THEN Running ELSE {}}}

Serve(r) ==
  \/ /\ r.what = "init"
     /\ lines' = lines \o Reply(r, "none", NoTurn, <<>>)
     /\ UNCHANGED server
  \/ /\ r.what = "bind"
     /\ lines' = lines \o Reply(r, "none", NoTurn, <<>>)
     /\ loaded' = TRUE /\ UNCHANGED turns
  \/ /\ r.what = "read"
     /\ \E view \in Views : lines' = lines \o Reply(r, "none", NoTurn, view)
     /\ UNCHANGED server
  \/ /\ r.what = "turn" /\ loaded /\ Running = {}
     /\ LET t == Len(turns) + 1
            started == Notice(t, "started")
        IN  /\ turns' = Append(turns, [sub |-> r.by, status |-> "inProgress"])
            /\ \/ lines' = lines \o Reply(r, "none", t, <<>>) \o started
               \/ lines' = lines \o started \o Reply(r, "none", t, <<>>)
     /\ UNCHANGED loaded
  \/ /\ r.what = "interrupt" /\ r.turn \in Running
     /\ turns' = [turns EXCEPT ![r.turn].status = "interrupted"]
     /\ lines' = lines \o Reply(r, "none", NoTurn, <<>>) \o Notice(r.turn, "interrupted")
     /\ UNCHANGED loaded
  \/ /\ r.what \in {"bind", "turn", "interrupt"}
     /\ lines' = lines \o Reply(r, "refused", NoTurn, <<>>)
     /\ UNCHANGED server

ServerAnswers ==
  /\ Quiet /\ manager.process = "RUNNING"
  /\ \E r \in requests :
       /\ requests' = requests \ {r}
       /\ Serve(r)
  /\ UNCHANGED <<local, manager, adapter, op, sub>>

TurnEnds ==
  /\ Quiet /\ manager.process = "RUNNING" /\ loaded
  /\ \E t \in Running, how \in Ends :
       /\ turns' = [turns EXCEPT ![t].status = how]
       /\ lines' = lines \o Notice(t, how)
  /\ UNCHANGED <<local, loaded, manager, adapter, op, sub, requests>>

-----------------------------------------------------------------------------
Next ==
  \/ Bind \/ Inspect \/ Interrupt \/ Close \/ CloseEnds
  \/ \E s \in Subs : Submit(s) \/ Capture(s)
  \/ \E o \in Ops : Verified(o) \/ Started(o) \/ Continue(o) \/ RequestTimeout(o)
  \/ Spawn \/ InitTimeout \/ ProcessExit
  \/ Deliver \/ ServerAnswers \/ TurnEnds

Spec == Init /\ [][Next]_vars

-----------------------------------------------------------------------------
(* Every variable keeps its type. *)

TypeOK ==
  /\ worker \in BOOLEAN /\ recorded \in BOOLEAN /\ loaded \in BOOLEAN
  /\ manager.status \in {"STOPPED", "STARTING", "READY", "FAILED"}
  /\ manager.process \in {"NONE", "RUNNING", "CLOSING"}
  /\ manager.starting \in {"NO", "VERIFY", "INIT"}
  /\ manager.gens \in 0 .. MaxGens
  /\ adapter.status \in {"CREATING", "READY", "RUNNING", "DISCONNECTED", "FAILED", "CLOSED"}
  /\ adapter.terminal \subseteq TurnIds
  /\ adapter.active.sub \in Subs \union {NoSub}
  /\ adapter.active.turn \in TurnIds \union {NoTurn}
  /\ \A o \in Ops : /\ op[o].pc \in {"IDLE", "VERIFY", "STARTING", "STARTED", "SENT", "REPLIED"}
                   /\ op[o].cause \in Causes
  /\ \A s \in Subs : /\ sub[s].state \in {"UNUSED", "OPEN", "DONE", "FAILED"}
                     /\ sub[s].turn \in TurnIds \union {NoTurn}
                     /\ sub[s].answer \in TurnIds \union {NoTurn}
  /\ confirmed \subseteq TurnIds
  /\ Len(turns) <= MaxTurns

(* Two submissions never wait for a turn of the thread at the same time:   *)
(* the second would take the place of the first, whose completion would    *)
(* never settle.                                                           *)
Waits(s) == sub[s].state = "OPEN" /\ (sub[s].handle \/ op[s].pc \in {"SENT", "REPLIED"})
OneTurnAtATime == \A s, u \in Subs : Waits(s) /\ Waits(u) => s = u

(* The answer a caller was given is that of the turn the server started    *)
(* for this very submission, whatever else was late.                       *)
AnswerIsOfItsTurn ==
  \A s \in Subs : sub[s].state = "DONE" => turns[sub[s].answer].sub = s

(* No turn runs in a thread that a restarted controller could not find. *)
NoTurnUnrecorded ==
  (turns # <<>> \/ \E r \in requests : r.what = "turn") => recorded

(* An interrupt is confirmed only of a turn that was interrupted. *)
InterruptConfirmedIsTrue ==
  \A t \in confirmed : turns[t].status = "interrupted"

\* What the caller is told of a turn is true of that very turn.
ToldIsTrue == AnswerIsOfItsTurn /\ InterruptConfirmedIsTrue

(* An operation that began before close() starts no server after it. *)
NoProcessAfterClose ==
  adapter.closed /\ ~manager.closing => manager.process = "NONE"

\* One turn at a time, in a thread a restart can find, and no server after close().
SessionIsSound == TypeOK /\ OneTurnAtATime /\ NoTurnUnrecorded /\ NoProcessAfterClose

=============================================================================
