---------------------------- MODULE Preparation ----------------------------
(* PreparationService: what the user and the designer agree on before a run *)
(* exists.  A command is executed one at a time, under a durable receipt;   *)
(* the message to ChatGPT is sent by a job of its own that outlives the     *)
(* command; every change is made in memory first and the WHOLE memory is    *)
(* written at each save, which may be kept waiting (other code runs         *)
(* meanwhile) and may fail.  A crash loses the memory.                      *)
(*                                                                          *)
(* A preparation, a delivery and a reserved run carry the number of the     *)
(* request that made them (in the code: fresh uuids).  Thread Cmd runs the  *)
(* command, thread p the job of preparation p; a thread whose pc is in      *)
(* Saving waits for its save and goes on from there.  A step may always be  *)
(* refused or fail: the inputs and the answers of the extension are not     *)
(* ours to choose.                                                          *)
EXTENDS Naturals, FiniteSets

CONSTANTS
  MaxReq,     \* requests a client issues
  MaxPreps,   \* preparations it starts
  MaxFaults   \* crashes and failed writes
ASSUME BoundsAssumption == MaxReq \in Nat \ {0} /\ MaxPreps \in Nat /\ MaxFaults \in Nat

Req == 1 .. MaxReq
Cmd == 0
Threads == {Cmd} \cup Req
Types == {"start", "reply", "approve", "cancel", "discard",
          "rebind", "inspect", "stop", "reconcile"}
(* A completed answer proposes requirements without open questions, asks    *)
(* questions, or has no valid proposal.                                     *)
Answers == {"ready", "ask", "bad"}

VARIABLES
  mem, disk,   \* this.data and the row of preparation_state
  th,          \* the command being executed and the jobs
  asked,       \* the content of every request a client issued
  x,           \* the extension: binding, owner, discard receipt
  xs,          \* the extension: what became of each prompt
  runs,        \* the runs CodeChangeService has accepted
  faults,
  typed, resent, acked, dispatched   \* history: prompts typed, handed over again, released; commands run
vars == <<mem, disk, th, asked, x, xs, runs, faults, typed, resent, acked, dispatched>>
world == <<x, xs, typed, resent, acked>>
client == <<asked, dispatched>>

NoCtx == [life |-> "NONE", state |-> "INITIALIZING", agree |-> "DISCUSSING", agreed |-> 0,
          active |-> 0, err |-> "none", diag |-> {}, reserved |-> 0, run |-> 0]
NoDl == [state |-> "NONE", unsent |-> FALSE, resp |-> "none", fmt |-> "none", proc |-> "none"]
Nothing == [cur |-> 0, ctx |-> [p \in Req |-> NoCtx], dl |-> [d \in Req |-> NoDl],
            rcpt |-> [r \in Req |-> "NONE"]]
Idle == [pc |-> "idle", req |-> 0, p |-> 0, d |-> 0, got |-> "none"]

Init ==
  /\ mem = Nothing /\ disk = Nothing
  /\ th = [t \in Threads |-> Idle]
  /\ asked = [r \in Req |-> [type |-> "none", p |-> 0]]
  /\ x = [sess |-> 0, owner |-> 0, disc |-> 0]
  /\ xs = [d \in Req |-> [at |-> "none", held |-> "none"]]
  /\ runs = {} /\ faults = 0
  /\ typed = {} /\ resent = {} /\ acked = {} /\ dispatched = [r \in Req |-> 0]

---------------------------------------------------------------------------
(* Threads and saves                                                        *)
Saving == {"claim", "reserve", "finish", "refused", "save", "a_reserved", "a_done", "a_failed",
           "d_intent", "r_save", "w_seen", "w_adopted", "w_rebound",
           "bind", "submit", "sent", "stored", "catch",
           "c_checked", "c_fail", "c_ack", "c_settled"}
At(t, pc) == th[t].pc = pc
Goto(t, pc) == th' = [th EXCEPT ![t].pc = pc]
JobIdle(p) == At(p, "idle")

(* A save goes through: the row holds the memory as it is now.              *)
Saved(t, pc) == At(t, pc) /\ disk' = mem

(* Mutant: the state of the delivery is not looked at.                      *)
UnsentByFlag(m, p) ==
  LET c == m.ctx[p]  d == m.ctx[p].active IN
  d # 0 /\ (m.dl[d].unsent \/ c.err \in {"tabs", "unsent"})

(* isUnsentFailure                                                          *)
Unsent(m, p) ==
  LET c == m.ctx[p]  d == m.ctx[p].active IN
  /\ d # 0 /\ m.dl[d].state = "FAILED"
  /\ m.dl[d].unsent \/ c.err \in {"tabs", "unsent"}

(* Mutant: whatever has no answer counts as unsent.                         *)
CaughtUnanswered(p, refused, tabs) ==
  LET d == th[p].d
      unsent == mem.dl[d].resp = "none" \/ refused
      choice == unsent /\ tabs
  IN [mem EXCEPT
        !.dl[d].unsent = unsent,
        !.dl[d].state = IF unsent THEN "FAILED" ELSE "RESPONSE_COMPLETED",
        !.ctx[p].state = IF unsent THEN "WEB_BLOCKED" ELSE "RECOVERY_REQUIRED",
        !.ctx[p].err = IF choice THEN "tabs" ELSE IF refused THEN "unsent" ELSE "other"]

(* The catch of a job: a delivery still RESERVED, or one the extension says *)
(* it never started, is a failed unsent one; the user may be given a choice *)
(* of tabs; anything else is uncertain.                                     *)
Caught(p, refused, tabs) ==
  LET d == th[p].d
      unsent == mem.dl[d].state = "RESERVED" \/ refused
      choice == unsent /\ tabs
  IN [mem EXCEPT
        !.dl[d].unsent = unsent,
        !.dl[d].state = IF unsent THEN "FAILED"
                        ELSE IF mem.dl[d].resp # "none" THEN "RESPONSE_COMPLETED"
                        ELSE "RECOVERY_REQUIRED",
        !.ctx[p].active = IF choice THEN d ELSE @,
        !.ctx[p].life = IF choice THEN "ACTIVE" ELSE @,
        !.ctx[p].state = IF unsent THEN "WEB_BLOCKED" ELSE "RECOVERY_REQUIRED",
        !.ctx[p].err = IF choice THEN "tabs" ELSE IF refused THEN "unsent" ELSE "other"]

Throw(t, refused) ==
  IF t = Cmd THEN Goto(Cmd, "refused") /\ UNCHANGED mem
  ELSE \E tabs \in BOOLEAN : mem' = Caught(t, refused, tabs) /\ Goto(t, "catch")

(* A save fails: the memory keeps what was not stored.  A job that cannot   *)
(* even store its failure stops, blocked in memory; a command that cannot   *)
(* store its result leaves its receipt PROCESSING.                          *)
SaveFails(t) ==
  /\ th[t].pc \in Saving
  /\ faults < MaxFaults /\ faults' = faults + 1
  /\ CASE th[t].pc = "catch" ->
            /\ mem' = [mem EXCEPT !.ctx[t].state = "RECOVERY_REQUIRED", !.ctx[t].err = "other"]
            /\ th' = [th EXCEPT ![t] = Idle]
       [] th[t].pc \in {"claim", "finish", "refused"} ->
            th' = [th EXCEPT ![t] = Idle] /\ UNCHANGED mem
       [] th[t].pc = "a_done" -> Goto(t, "save") /\ UNCHANGED mem
       [] OTHER -> Throw(t, FALSE)
  /\ UNCHANGED <<disk, runs, world, client>>

(* A call to the extension fails, whatever it did there.                    *)
Calling == {"resume", "answer", "c_inspect", "c_acking", "c_confirm", "k_inspect", "k_ack",
            "k_confirm", "d_inspect", "d_web", "r_web", "w_inspect", "w_stop", "w_resume"}
CallFails(t) ==
  /\ th[t].pc \in Calling
  /\ Throw(t, FALSE)
  /\ UNCHANGED <<disk, runs, faults, world, client>>

---------------------------------------------------------------------------
(* execute: receipts                                                        *)

(* The capabilities the state offers to the client                          *)
Current == mem.ctx[mem.cur]
Active == mem.dl[Current.active]
Open == Current.life = "ACTIVE" /\ Current.agree # "APPROVED"
Validated(d) == mem.dl[d].resp # "none" /\ mem.dl[d].fmt = "CONFIRMED" /\ mem.dl[d].proc = "ACK_PENDING"
Quiet == Current.active = 0 /\ JobIdle(mem.cur)
Offered(type) ==
  \/ type = "start"
  \/ /\ type = "approve" /\ mem.cur # 0
     /\ \/ Current.run # 0
        \/ Current.life = "ACTIVE" /\ Quiet /\ Current.agree \in {"READY", "APPROVED"}
  \/ /\ mem.cur # 0 /\ Open
     /\ \/ type = "reply" /\ Quiet
        \/ /\ type = "cancel" /\ JobIdle(mem.cur)
           /\ Current.active # 0 /\ ~ Unsent(mem, mem.cur) =>
                "rec" \in Current.diag /\ Validated(Current.active)
        \/ type = "discard" /\ JobIdle(mem.cur) /\ Current.active # 0
        \/ /\ type = "rebind" /\ JobIdle(mem.cur)
           /\ Current.err = "tabs" /\ Current.active # 0 /\ Active.state = "FAILED"
        \/ type = "stop" /\ "stop" \in Current.diag
        \/ type = "reconcile" /\ JobIdle(mem.cur) /\ Current.active # 0 /\ Active.resp # "none"
        \/ type = "inspect"

(* A client issues the requests in order, and issues again one that left no *)
(* receipt; the receipt is published when it is stored.  Bounds: MaxPreps   *)
(* starts, inspections only where there is one.                             *)
Issued(type) == {q \in Req : asked[q].type = type}
Execute(r) ==
  /\ At(Cmd, "idle") /\ mem.rcpt[r] = "NONE"
  /\ IF asked[r].type = "none"
     THEN /\ \A q \in Req : q < r => asked[q].type # "none"
          /\ \E type \in Types :
               /\ Offered(type)
               /\ type = "start" => Cardinality(Issued("start")) < MaxPreps /\ Issued("inspect") = {}
               /\ type = "inspect" => Cardinality(Issued("start")) = 1
               /\ asked' = [asked EXCEPT ![r] = [type |-> type, p |-> mem.cur]]
     ELSE UNCHANGED asked
  /\ th' = [th EXCEPT ![Cmd] = [Idle EXCEPT !.pc = "claim", !.req = r, !.p = mem.cur]]
  /\ UNCHANGED <<mem, disk, runs, faults, world, dispatched>>

Receipt(status) ==
  LET m == [mem EXCEPT !.rcpt[th[Cmd].req] = status] IN mem' = m /\ disk' = m

(* Mutant: the receipt is published without being stored.                   *)
ClaimedInMemory ==
  /\ At(Cmd, "claim") /\ Goto(Cmd, "dispatch")
  /\ mem' = [mem EXCEPT !.rcpt[th[Cmd].req] = "PROCESSING"] /\ UNCHANGED disk
  /\ UNCHANGED <<runs, faults, world, client>>

Claimed ==
  /\ At(Cmd, "claim") /\ Receipt("PROCESSING") /\ Goto(Cmd, "dispatch")
  /\ UNCHANGED <<runs, faults, world, client>>

Finished ==
  /\ th[Cmd].pc \in {"finish", "refused"}
  /\ Receipt(IF At(Cmd, "finish") THEN "COMPLETED" ELSE "FAILED")
  /\ th' = [th EXCEPT ![Cmd] = Idle]
  /\ UNCHANGED <<runs, faults, world, client>>

Request == asked[th[Cmd].req]
Dispatching(types) ==
  /\ At(Cmd, "dispatch") /\ Request.type \in types
  /\ dispatched' = [dispatched EXCEPT ![th[Cmd].req] = @ + 1]
  /\ Request.type # "start" => mem.cur = Request.p
  /\ Offered(Request.type)
  /\ UNCHANGED asked

(* A start whose input is not valid, an identity that changed, a capability *)
(* no longer offered, an unfinished run or a runtime that is not there.     *)
Refuse ==
  /\ \/ /\ At(Cmd, "dispatch") /\ dispatched' = [dispatched EXCEPT ![th[Cmd].req] = @ + 1]
        /\ Request.type # "start" => mem.cur # Request.p \/ ~ Offered(Request.type)
     \/ th[Cmd].pc \in {"start", "a_start"} /\ UNCHANGED dispatched
  /\ Goto(Cmd, "refused")
  /\ UNCHANGED <<mem, disk, asked, runs, faults, world>>

---------------------------------------------------------------------------
(* start and reply: the delivery is stored before its job is launched       *)
Reserve(m, p, d) ==
  [m EXCEPT !.ctx[p] = [@ EXCEPT !.err = "none", !.diag = {}, !.agree = "DISCUSSING",
                                 !.state = "INITIALIZING", !.active = d],
            !.dl[d] = [NoDl EXCEPT !.state = "RESERVED"]]

StartAsked ==
  /\ Dispatching({"start"})
  /\ ~ (mem.cur # 0 /\ Current.life = "ACTIVE" /\ Unsent(mem, mem.cur))
  /\ Goto(Cmd, "start")
  /\ UNCHANGED <<mem, disk, runs, faults, world>>

NoRunIsLive == \A run \in runs : ~ run.live

(* A new preparation takes the place of the current one, whatever that one  *)
(* is still waiting for.                                                    *)
Start ==
  LET r == th[Cmd].req
      m == [mem EXCEPT !.cur = r, !.ctx[r] = [NoCtx EXCEPT !.life = "ACTIVE"]]
  IN /\ At(Cmd, "start") /\ NoRunIsLive
     /\ mem' = Reserve(m, r, r)
     /\ th' = [th EXCEPT ![Cmd].pc = "reserve", ![Cmd].p = r]
     /\ UNCHANGED <<disk, runs, faults, world, client>>

Reply ==
  /\ Dispatching({"reply"})
  /\ mem' = Reserve(mem, mem.cur, th[Cmd].req)
  /\ Goto(Cmd, "reserve")
  /\ UNCHANGED <<disk, runs, faults, world>>

Launch(d, pc) ==
  th' = [th EXCEPT ![Cmd].pc = "finish", ![th[Cmd].p] = [Idle EXCEPT !.pc = pc, !.p = th[Cmd].p, !.d = d]]

Reserved ==
  /\ Saved(Cmd, "reserve") /\ Launch(mem.ctx[th[Cmd].p].active, "bind")
  /\ UNCHANGED <<mem, runs, faults, world, client>>

---------------------------------------------------------------------------
(* The job: bind, store the intent, submit, wait, store the answer          *)
PrepOf(d) == IF asked[d].type = "start" THEN d ELSE asked[d].p
Generating == x.owner # 0 /\ xs[x.owner].at = "gen"

(* web.resume and web.rebind: no other session may be in a delivery         *)
Bindable(p) == x.owner # 0 => PrepOf(x.owner) = p
Rebind(p) == Bindable(p) /\ x' = [x EXCEPT !.sess = p] /\ UNCHANGED <<xs, typed, resent, acked>>

Bind(p) ==
  /\ Saved(p, "bind") /\ Goto(p, "resume")
  /\ UNCHANGED <<mem, runs, faults, world, client>>

(* Mutant: the delivery is not marked before it is submitted.               *)
IntentUnmarked(p) == [mem EXCEPT !.ctx[p].state = "WAITING_WEB_RESPONSE"]

Intent(p) == [mem EXCEPT !.dl[th[p].d].state = "DISPATCHING", !.ctx[p].state = "WAITING_WEB_RESPONSE"]

Resume(p) ==
  /\ At(p, "resume") /\ Rebind(p)
  /\ \/ mem' = Intent(p) /\ Goto(p, "submit")
     \/ Throw(p, FALSE)
  /\ UNCHANGED <<disk, runs, faults, client>>

(* generate with the binding the user's tab was given                       *)
LaunchRebound(p) ==
  /\ At(p, "launch") /\ mem' = Intent(p) /\ Goto(p, "submit")
  /\ UNCHANGED <<disk, runs, faults, world, client>>

Submit(p) ==
  LET d == th[p].d IN
  /\ Saved(p, "submit")
  /\ x.sess = p
  /\ xs' = [xs EXCEPT ![d] = [at |-> "wire", held |-> "none"]]
  /\ resent' = IF xs[d].at \in {"none", "refused"} THEN resent ELSE resent \cup {d}
  /\ mem' = [mem EXCEPT !.dl[d].state = IF @ = "DISPATCHING" THEN "SUBMITTED" ELSE @]
  /\ Goto(p, "sent")
  /\ UNCHANGED <<x, typed, acked, runs, faults, client>>

(* The adapter's own checks say that nothing was started; a transport that  *)
(* is gone does not.                                                        *)
SubmitRejected(p) ==
  /\ Saved(p, "submit")
  /\ \E refused \in BOOLEAN : Throw(p, refused)
  /\ UNCHANGED <<runs, faults, world, client>>

Sent(p) ==
  /\ Saved(p, "sent") /\ Goto(p, "answer")
  /\ UNCHANGED <<mem, runs, faults, world, client>>

Answered(p) ==
  LET d == th[p].d IN
  /\ At(p, "answer") /\ xs[d].at = "done" /\ x.sess = p
  /\ mem' = [mem EXCEPT !.dl[d].resp = xs[d].held, !.dl[d].state = "RESPONSE_COMPLETED"]
  /\ Goto(p, "stored")
  /\ UNCHANGED <<disk, runs, faults, world, client>>

Refused(p) ==
  /\ At(p, "answer") /\ xs[th[p].d].at = "refused"
  /\ Throw(p, TRUE)
  /\ UNCHANGED <<disk, runs, faults, world, client>>

Stored(p) ==
  /\ Saved(p, "stored") /\ Goto(p, "c_inspect")
  /\ UNCHANGED <<mem, runs, faults, world, client>>

FailureStored(p) ==
  /\ Saved(p, "catch") /\ th' = [th EXCEPT ![p] = Idle]
  /\ UNCHANGED <<mem, runs, faults, world, client>>

(* The first characters of an answer are recorded, and so is everything     *)
(* else that is in memory.                                                  *)
TextDelta ==
  LET m == [mem EXCEPT !.dl[Current.active].state = "RESPONSE_STARTED"] IN
  /\ mem.cur # 0 /\ Current.active # 0
  /\ xs[Current.active].at = "gen" /\ Active.state \in {"DISPATCHING", "SUBMITTED"}
  /\ \/ mem' = m /\ disk' = m /\ UNCHANGED faults
     \/ /\ faults < MaxFaults /\ faults' = faults + 1
        /\ mem' = [m EXCEPT !.ctx[mem.cur].err = "other"] /\ UNCHANGED disk
  /\ UNCHANGED <<th, runs, world, client>>

---------------------------------------------------------------------------
(* complete: the job's last part and the end of a reconcile                 *)
Diagnostics(p, reachable) ==
  IF ~ (reachable /\ x.sess = p) THEN {}
  ELSE {"exact"} \cup (IF x.owner = 0 \/ x.owner # mem.ctx[p].active THEN {}
                       ELSE IF Generating THEN {"stop"} ELSE {"rec"})

(* The evidence is compared and the verdict stored.                         *)
Validate(t) ==
  LET p == th[t].p  d == th[t].d IN
  /\ At(t, "c_inspect")
  /\ \E evidence \in BOOLEAN :
       LET diag == Diagnostics(p, TRUE)
           ok == evidence /\ "exact" \in diag /\ x.owner \in {0, d} /\ ~ Generating
       IN /\ mem' = [mem EXCEPT !.ctx[p].diag = diag, !.dl[d].fmt = "none"]
          /\ Goto(t, IF ok THEN "c_checked" ELSE "c_fail")
  /\ UNCHANGED <<disk, runs, faults, world, client>>

Checked(t) ==
  LET d == th[t].d IN
  /\ Saved(t, "c_checked")
  /\ IF mem.dl[d].resp = "bad"
     THEN mem' = [mem EXCEPT !.dl[d].fmt = "INVALID"] /\ Goto(t, "c_fail")
     ELSE /\ mem' = [mem EXCEPT !.dl[d].fmt = "CONFIRMED", !.dl[d].proc = "ACK_PENDING"]
          /\ Goto(t, "c_ack")
  /\ UNCHANGED <<runs, faults, world, client>>

Unconfirmed(t) ==
  /\ Saved(t, "c_fail") /\ Throw(t, FALSE)
  /\ UNCHANGED <<runs, faults, world, client>>

(* Mutant: the answer is released before the intention is stored.           *)
AckUnstored(t) ==
  /\ At(t, "c_ack") /\ Goto(t, "c_acking")
  /\ UNCHANGED <<mem, disk, runs, faults, world, client>>

AckIntended(t) ==
  /\ Saved(t, "c_ack") /\ Goto(t, "c_acking")
  /\ UNCHANGED <<mem, runs, faults, world, client>>

(* web.acknowledgeDelivery, which may act and lose its reply                *)
Acknowledge(t) ==
  LET d == th[t].d IN
  /\ th[t].pc \in {"c_acking", "k_ack"}
  /\ \/ x.owner = d /\ x' = [x EXCEPT !.owner = 0] /\ acked' = acked \cup {d}
     \/ x.owner = 0 /\ d \in acked /\ UNCHANGED <<x, acked>>
  /\ \/ Goto(t, IF At(t, "k_ack") THEN "k_confirm" ELSE "c_confirm") /\ UNCHANGED mem
     \/ Throw(t, FALSE)
  /\ UNCHANGED <<disk, xs, typed, resent, runs, faults, client>>

Released(p) == x.owner = 0 /\ x.sess = p

(* Mutant: open questions do not keep the agreement open.                   *)
SettleEarly(t) ==
  LET p == th[t].p  d == th[t].d IN
  /\ At(t, "c_confirm") /\ Released(p)
  /\ mem' = [mem EXCEPT
       !.ctx[p] = [@ EXCEPT !.agree = "READY", !.agreed = d, !.state = "AGREEMENT_READY",
                            !.active = 0, !.err = "none", !.diag = Diagnostics(p, TRUE)],
       !.dl[d].state = "ACKNOWLEDGED", !.dl[d].proc = "COMPLETE"]
  /\ Goto(t, "c_settled")
  /\ UNCHANGED <<disk, runs, faults, world, client>>

(* The answer becomes the agreement only when its release is confirmed.     *)
Settle(t) ==
  LET p == th[t].p  d == th[t].d  ready == mem.dl[d].resp = "ready" IN
  /\ At(t, "c_confirm") /\ Released(p)
  /\ mem' = [mem EXCEPT
       !.ctx[p] = [@ EXCEPT !.agree = IF ready THEN "READY" ELSE "DISCUSSING", !.agreed = d,
                            !.state = IF ready THEN "AGREEMENT_READY" ELSE "DISCUSSING",
                            !.active = 0, !.err = "none", !.diag = Diagnostics(p, TRUE)],
       !.dl[d].state = "ACKNOWLEDGED", !.dl[d].proc = "COMPLETE"]
  /\ Goto(t, "c_settled")
  /\ UNCHANGED <<disk, runs, faults, world, client>>

Settled(t) ==
  /\ Saved(t, "c_settled")
  /\ IF t = Cmd THEN Goto(Cmd, "finish") ELSE th' = [th EXCEPT ![t] = Idle]
  /\ UNCHANGED <<mem, runs, faults, world, client>>

---------------------------------------------------------------------------
(* discard and cancel                                                       *)
Discard ==
  /\ Dispatching({"discard"})
  /\ th' = [th EXCEPT ![Cmd].pc = "d_inspect", ![Cmd].d = Current.active]
  /\ UNCHANGED <<mem, disk, runs, faults, world>>

Discarded(d) == x.owner = 0 /\ x.disc = d

DiscardInspected ==
  /\ At(Cmd, "d_inspect") /\ x.sess = th[Cmd].p
  /\ x.owner = th[Cmd].d \/ Discarded(th[Cmd].d)
  /\ ~ Generating
  /\ Goto(Cmd, "d_intent")
  /\ UNCHANGED <<mem, disk, runs, faults, world, client>>

DiscardIntended ==
  /\ Saved(Cmd, "d_intent") /\ Goto(Cmd, "d_web")
  /\ UNCHANGED <<mem, runs, faults, world, client>>

Abandon(m, p) == [m EXCEPT !.ctx[p].life = "ABANDONED", !.ctx[p].active = 0]

DiscardDelivery ==
  LET p == th[Cmd].p  d == th[Cmd].d IN
  /\ At(Cmd, "d_web")
  /\ \/ x.owner = d /\ ~ Generating /\ x' = [x EXCEPT !.owner = 0, !.disc = d]
     \/ Discarded(d) /\ UNCHANGED x
  /\ \/ /\ mem' = [Abandon(mem, p) EXCEPT !.dl[d].state = "RECOVERY_DISCARDED",
                     !.ctx[p].state = "RECOVERY_REQUIRED", !.ctx[p].err = "other"]
        /\ Goto(Cmd, "save")
     \/ Throw(Cmd, FALSE)
  /\ UNCHANGED <<disk, xs, typed, resent, acked, runs, faults, client>>

(* Nothing left to settle, or a delivery that was never sent: local.        *)
CancelLocal ==
  /\ Dispatching({"cancel"})
  /\ Current.active = 0 \/ Unsent(mem, mem.cur)
  /\ mem' = [Abandon(mem, mem.cur) EXCEPT
               !.ctx[mem.cur].err = IF Unsent(mem, mem.cur) THEN "other" ELSE @]
  /\ Goto(Cmd, "save")
  /\ UNCHANGED <<disk, runs, faults, world>>

(* A validated answer whose release was not confirmed: released first.      *)
Cancel ==
  LET d == Current.active IN
  /\ Dispatching({"cancel"})
  /\ d # 0 /\ ~ Unsent(mem, mem.cur)
  /\ th' = [th EXCEPT ![Cmd].pc = "k_inspect", ![Cmd].d = d]
  /\ UNCHANGED <<mem, disk, runs, faults, world>>

CancelInspected ==
  LET p == th[Cmd].p IN
  /\ At(Cmd, "k_inspect")
  /\ LET diag == Diagnostics(p, TRUE) IN
     /\ mem' = [mem EXCEPT !.ctx[p].diag = diag]
     /\ Goto(Cmd, IF "rec" \in diag /\ Validated(th[Cmd].d) THEN "k_ack" ELSE "refused")
  /\ UNCHANGED <<disk, runs, faults, world, client>>

CancelConfirmed ==
  LET p == th[Cmd].p  d == th[Cmd].d IN
  /\ At(Cmd, "k_confirm") /\ Released(p)
  /\ mem' = [Abandon(mem, p) EXCEPT !.dl[d].state = "ACKNOWLEDGED"]
  /\ Goto(Cmd, "save")
  /\ UNCHANGED <<disk, runs, faults, world, client>>

(* The last write of a command.                                             *)
CommandSaved ==
  /\ Saved(Cmd, "save") /\ Goto(Cmd, "finish")
  /\ UNCHANGED <<mem, runs, faults, world, client>>

---------------------------------------------------------------------------
(* approve: the run's identity is stored before the run is asked for        *)
RunOf(p) == {run \in runs : run.id = mem.ctx[p].reserved}
Adopt(p) == [mem EXCEPT !.ctx[p].run = mem.ctx[p].reserved, !.ctx[p].agree = "APPROVED",
                        !.ctx[p].life = "COMPLETED"]

ApproveAgain ==
  /\ Dispatching({"approve"}) /\ Current.run # 0
  /\ Goto(Cmd, "finish")
  /\ UNCHANGED <<mem, disk, runs, faults, world>>

Approve ==
  /\ Dispatching({"approve"}) /\ Current.run = 0
  /\ Goto(Cmd, "a_start")
  /\ UNCHANGED <<mem, disk, runs, faults, world>>

(* Mutant: every approval reserves a new run.                               *)
ReservationAnew(p) == th[Cmd].req

Reservation(p) == IF mem.ctx[p].reserved = 0 THEN th[Cmd].req ELSE mem.ctx[p].reserved

ApproveIntent ==
  LET p == th[Cmd].p IN
  /\ At(Cmd, "a_start") /\ NoRunIsLive
  /\ mem' = [mem EXCEPT !.ctx[p].state = "APPROVING", !.ctx[p].agree = "APPROVED",
                        !.ctx[p].reserved = Reservation(p)]
  /\ Goto(Cmd, "a_reserved")
  /\ UNCHANGED <<disk, runs, faults, world, client>>

ApproveIntended ==
  /\ Saved(Cmd, "a_reserved") /\ Goto(Cmd, "a_run")
  /\ UNCHANGED <<mem, runs, faults, world, client>>

(* startPrepared: the run of that identity, or a new one of the agreement   *)
StartPrepared ==
  LET p == th[Cmd].p IN
  /\ At(Cmd, "a_run")
  /\ \/ RunOf(p) # {} /\ UNCHANGED runs
     \/ /\ RunOf(p) = {} /\ NoRunIsLive
        /\ runs' = runs \cup {[id |-> mem.ctx[p].reserved, p |-> p, of |-> mem.ctx[p].agreed, live |-> TRUE]}
  /\ mem' = Adopt(p) /\ Goto(Cmd, "a_done")
  /\ UNCHANGED <<disk, faults, world, client>>

(* It failed: the run is looked for, which may fail as well.                *)
StartFailed ==
  LET p == th[Cmd].p IN
  /\ At(Cmd, "a_run")
  /\ \/ RunOf(p) # {} /\ mem' = Adopt(p) /\ Goto(Cmd, "save")
     \/ /\ RunOf(p) = {} /\ Goto(Cmd, "a_failed")
        /\ mem' = [mem EXCEPT !.ctx[p].state = "FAILED", !.ctx[p].err = "other"]
     \/ Throw(Cmd, FALSE)
  /\ UNCHANGED <<disk, runs, faults, world, client>>

ApproveSaved ==
  /\ \/ Saved(Cmd, "a_done") /\ Goto(Cmd, "finish")
     \/ Saved(Cmd, "a_failed") /\ Goto(Cmd, "refused")
  /\ UNCHANGED <<mem, runs, faults, world, client>>

(* project, on every reading of the state: a reserved run that exists is    *)
(* adopted, and the receipts that waited for it are completed.              *)
ProjectRun ==
  /\ mem.cur # 0 /\ Current.run = 0 /\ Current.reserved # 0 /\ RunOf(mem.cur) # {}
  /\ mem' = Adopt(mem.cur)
  /\ \/ disk' = mem' /\ UNCHANGED faults
     \/ faults < MaxFaults /\ faults' = faults + 1 /\ UNCHANGED disk
  /\ UNCHANGED <<th, runs, world, client>>

ProjectReceipt(r) ==
  LET m == [mem EXCEPT !.rcpt[r] = "COMPLETED"] IN
  /\ mem.cur # 0 /\ Current.run # 0
  /\ mem.rcpt[r] = "PROCESSING" /\ asked[r] = [type |-> "approve", p |-> mem.cur]
  /\ mem' = m /\ disk' = m
  /\ UNCHANGED <<th, runs, faults, world, client>>

---------------------------------------------------------------------------
(* rebind to the tab the user chose; inspect, stop and reconcile            *)
RebindAsked ==
  /\ Dispatching({"rebind"})
  /\ th' = [th EXCEPT ![Cmd].pc = "r_web", ![Cmd].d = Current.active]
  /\ UNCHANGED <<mem, disk, runs, faults, world>>

Rebound ==
  LET p == th[Cmd].p IN
  /\ At(Cmd, "r_web") /\ Rebind(p)
  /\ \/ /\ mem' = [mem EXCEPT !.ctx[p].err = "none", !.ctx[p].diag = {}, !.ctx[p].state = "INITIALIZING",
                             !.dl[th[Cmd].d].state = "RESERVED"]
        /\ Goto(Cmd, "r_save")
     \/ Throw(Cmd, FALSE)
  /\ UNCHANGED <<disk, runs, faults, client>>

ReboundStored ==
  /\ Saved(Cmd, "r_save") /\ Launch(th[Cmd].d, "launch")
  /\ UNCHANGED <<mem, runs, faults, world, client>>

WebAsked ==
  /\ Dispatching({"inspect", "stop", "reconcile"})
  /\ th' = [th EXCEPT ![Cmd].pc = "w_inspect", ![Cmd].d = Current.active]
  /\ UNCHANGED <<mem, disk, runs, faults, world>>

(* The completed answer the extension shows; a reconcile takes over what    *)
(* the user has asked by hand since.                                        *)
Shown(p, d) ==
  IF x.owner = 0 \/ x.owner # d \/ x.sess # p \/ xs[d].at # "done" THEN {"none"}
  ELSE IF Request.type = "reconcile" THEN Answers ELSE {xs[d].held}

WebInspected ==
  LET p == th[Cmd].p  d == th[Cmd].d IN
  /\ At(Cmd, "w_inspect")
  /\ \E reachable \in BOOLEAN, got \in Shown(p, d) :
       /\ mem' = [mem EXCEPT !.ctx[p].diag = Diagnostics(p, reachable)]
       /\ th' = [th EXCEPT ![Cmd].pc = "w_seen", ![Cmd].got = got]
       /\ xs' = IF got = "none" THEN xs ELSE [xs EXCEPT ![d].held = got]
  /\ UNCHANGED <<disk, x, typed, resent, acked, runs, faults, client>>

(* The rest of the command, from the diagnostics of that moment             *)
WebGoesOn(m) ==
  LET p == th[Cmd].p  d == th[Cmd].d IN
  IF Request.type = "inspect" THEN Goto(Cmd, "finish")
  ELSE IF m.ctx[p].active # d \/ "exact" \notin m.ctx[p].diag THEN Goto(Cmd, "refused")
  ELSE IF Request.type = "stop"
  THEN Goto(Cmd, IF "stop" \in m.ctx[p].diag THEN "w_stop" ELSE "refused")
  ELSE IF d = 0 \/ ~ JobIdle(p) THEN Goto(Cmd, "refused")
  ELSE IF m.dl[d].resp = "none" THEN Goto(Cmd, "refused")
  ELSE Goto(Cmd, "c_inspect") \/ Goto(Cmd, "w_resume")

WebSeen ==
  LET p == th[Cmd].p  d == th[Cmd].d  got == th[Cmd].got IN
  /\ Saved(Cmd, "w_seen")
  /\ IF /\ got # "none" /\ mem.ctx[p].active = d
        /\ mem.dl[d].resp = "none" \/ Request.type = "reconcile"
     THEN /\ mem' = [mem EXCEPT !.dl[d].resp = got, !.dl[d].state = "RESPONSE_COMPLETED"]
          /\ Goto(Cmd, "w_adopted")
     ELSE UNCHANGED mem /\ WebGoesOn(mem)
  /\ UNCHANGED <<runs, faults, world, client>>

WebAdopted ==
  /\ Saved(Cmd, "w_adopted") /\ WebGoesOn(mem)
  /\ UNCHANGED <<mem, runs, faults, world, client>>

StopDelivery ==
  LET p == th[Cmd].p  d == th[Cmd].d IN
  /\ At(Cmd, "w_stop") /\ x.owner = d /\ x.sess = p
  /\ xs' = IF Generating THEN [xs EXCEPT ![d].at = "quiet"] ELSE xs
  /\ \/ mem' = [mem EXCEPT !.ctx[p].diag = {"exact", "rec"}] /\ Goto(Cmd, "save")
     \/ Throw(Cmd, FALSE)
  /\ UNCHANGED <<disk, x, typed, resent, acked, runs, faults, client>>

ReconcileResumed ==
  /\ At(Cmd, "w_resume") /\ Rebind(th[Cmd].p)
  /\ UNCHANGED mem
  /\ Goto(Cmd, "w_rebound") \/ Goto(Cmd, "refused")
  /\ UNCHANGED <<disk, runs, faults, client>>

ReconcileBound ==
  /\ Saved(Cmd, "w_rebound") /\ Goto(Cmd, "c_inspect")
  /\ UNCHANGED <<mem, runs, faults, world, client>>

---------------------------------------------------------------------------
(* The extension, the runs, and a crash with the next start of the server   *)
Takes(d) ==
  /\ xs[d].at = "wire" /\ x.owner = 0 /\ x.sess = PrepOf(d)
  /\ x' = [x EXCEPT !.owner = d]
  /\ xs' = [xs EXCEPT ![d].at = "gen"] /\ typed' = typed \cup {d}
  /\ UNCHANGED <<mem, disk, th, runs, faults, resent, acked, client>>

RefusesPrompt(d) ==
  /\ xs[d].at = "wire" /\ xs' = [xs EXCEPT ![d].at = "refused"]
  /\ UNCHANGED <<mem, disk, th, runs, faults, x, typed, resent, acked, client>>

Ends(d) ==
  /\ xs[d].at = "gen"
  /\ \/ \E answer \in Answers : xs' = [xs EXCEPT ![d] = [at |-> "done", held |-> answer]]
     \/ xs' = [xs EXCEPT ![d].at = "quiet"]
  /\ UNCHANGED <<mem, disk, th, runs, faults, x, typed, resent, acked, client>>

RunEnds ==
  /\ \E run \in runs : run.live /\ runs' = (runs \ {run}) \cup {[run EXCEPT !.live = FALSE]}
  /\ UNCHANGED <<mem, disk, th, faults, world, client>>

Recovered(m) ==
  [m EXCEPT !.ctx = [p \in Req |->
     LET c == m.ctx[p] IN
     IF /\ c.life = "ACTIVE" /\ c.run = 0 /\ ~ Unsent(m, p)
        /\ c.active # 0 \/ c.state = "APPROVING"
     THEN [c EXCEPT !.state = "RECOVERY_REQUIRED"] ELSE c]]

Crash ==
  /\ faults < MaxFaults /\ faults' = faults + 1
  /\ mem' = Recovered(disk) /\ disk' = Recovered(disk)
  /\ th' = [t \in Threads |-> Idle]
  /\ UNCHANGED <<runs, world, client>>

---------------------------------------------------------------------------
Command ==
  \/ \E r \in Req : Execute(r)
  \/ Claimed \/ Finished \/ Refuse \/ StartAsked \/ Start \/ Reply \/ Reserved \/ CommandSaved
  \/ Discard \/ DiscardInspected \/ DiscardIntended \/ DiscardDelivery
  \/ CancelLocal \/ Cancel \/ CancelInspected \/ CancelConfirmed
  \/ ApproveAgain \/ Approve \/ ApproveIntent \/ ApproveIntended \/ StartPrepared \/ StartFailed
  \/ ApproveSaved
  \/ RebindAsked \/ Rebound \/ ReboundStored
  \/ WebAsked \/ WebInspected \/ WebSeen \/ WebAdopted \/ StopDelivery
  \/ ReconcileResumed \/ ReconcileBound

Job(p) ==
  \/ Bind(p) \/ Resume(p) \/ LaunchRebound(p) \/ Submit(p) \/ SubmitRejected(p) \/ Sent(p)
  \/ Answered(p) \/ Refused(p) \/ Stored(p) \/ FailureStored(p)

Complete(t) ==
  \/ Validate(t) \/ Checked(t) \/ Unconfirmed(t) \/ AckIntended(t) \/ Acknowledge(t)
  \/ Settle(t) \/ Settled(t) \/ SaveFails(t) \/ CallFails(t)

Extension(d) == Takes(d) \/ RefusesPrompt(d) \/ Ends(d)

Next ==
  \/ Command \/ (\E p \in Req : Job(p)) \/ (\E t \in Threads : Complete(t))
  \/ TextDelta \/ ProjectRun \/ (\E r \in Req : ProjectReceipt(r))
  \/ (\E d \in Req : Extension(d)) \/ RunEnds \/ Crash

Spec == Init /\ [][Next]_vars

---------------------------------------------------------------------------
PrepStates == {"INITIALIZING", "WAITING_WEB_RESPONSE", "WEB_BLOCKED", "RECOVERY_REQUIRED", "DISCUSSING",
               "AGREEMENT_READY", "APPROVING", "FAILED"}
DeliveryStates == {"NONE", "RESERVED", "DISPATCHING", "SUBMITTED", "RESPONSE_STARTED",
                   "RESPONSE_COMPLETED", "ACKNOWLEDGED", "FAILED", "RECOVERY_REQUIRED", "RECOVERY_DISCARDED"}
Ctx == [life : {"NONE", "ACTIVE", "COMPLETED", "ABANDONED"}, state : PrepStates,
        agree : {"DISCUSSING", "READY", "APPROVED"}, agreed : 0 .. MaxReq, active : 0 .. MaxReq,
        err : {"none", "tabs", "unsent", "other"}, diag : SUBSET {"exact", "rec", "stop"},
        reserved : 0 .. MaxReq, run : 0 .. MaxReq]
Delivery == [state : DeliveryStates, unsent : BOOLEAN, resp : Answers \cup {"none"},
             fmt : {"none", "CONFIRMED", "INVALID"}, proc : {"none", "ACK_PENDING", "COMPLETE"}]
Memory == [cur : 0 .. MaxReq, ctx : [Req -> Ctx], dl : [Req -> Delivery],
           rcpt : [Req -> {"NONE", "PROCESSING", "COMPLETED", "FAILED"}]]

(* Types of the memory, the row, the threads and the world.                 *)
TypeOK ==
  /\ mem \in Memory /\ disk \in Memory
  /\ th \in [Threads -> [pc : Saving \cup Calling \cup {"idle", "dispatch", "start", "a_start", "a_run",
                                                        "submit", "launch"},
                         req : 0 .. MaxReq, p : 0 .. MaxReq, d : 0 .. MaxReq, got : Answers \cup {"none"}]]
  /\ asked \in [Req -> [type : Types \cup {"none"}, p : 0 .. MaxReq]]
  /\ x \in [sess : 0 .. MaxReq, owner : 0 .. MaxReq, disc : 0 .. MaxReq]
  /\ xs \in [Req -> [at : {"none", "wire", "refused", "gen", "done", "quiet"}, held : Answers \cup {"none"}]]
  /\ runs \subseteq [id : Req, p : Req, of : 0 .. MaxReq, live : BOOLEAN]
  /\ faults \in 0 .. MaxFaults
  /\ typed \subseteq Req /\ resent \subseteq Req /\ acked \subseteq Req /\ dispatched \in [Req -> Nat]

(* A prompt is handed to the extension again only when the extension        *)
(* refused it unread: never by the retry of a command, the choice of        *)
(* another tab, a reconcile or the server that starts after a crash.        *)
NeverResent == resent = {}

(* A prompt that is, or may still be, typed into the page is known as sent, *)
(* in memory and in the row: never as one that is only reserved, or failed  *)
(* before it left and may therefore be cancelled without asking anyone.     *)
SentIsRecorded ==
  \A d \in Req : d \in typed \/ xs[d].at = "wire" =>
    \A m \in {mem, disk} : m.dl[d].state \notin {"NONE", "RESERVED", "FAILED"}

(* The extension is told to forget an answer only when the answer is in the *)
(* row; and the intention to release it too, unless a cancel of the user    *)
(* released it, which trusts the memory (a write that failed stays there).  *)
CancelRan(p) == \E r \in Req : asked[r] = [type |-> "cancel", p |-> p] /\ dispatched[r] > 0
ReleasedIsStored ==
  \A d \in acked : /\ disk.dl[d].resp # "none"
                  /\ (disk.dl[d].proc # "none" \/ CancelRan(PrepOf(d)))

(* An agreement that can be approved is the proposal of one answer, whose   *)
(* format was confirmed and which the extension has released.               *)
AgreementIsAnswered ==
  \A m \in {mem, disk}, p \in Req : m.ctx[p].agree \in {"READY", "APPROVED"} =>
    LET d == m.ctx[p].agreed IN
    d \in acked /\ PrepOf(d) = p /\ m.dl[d].resp = "ready" /\ m.dl[d].fmt = "CONFIRMED"

(* A preparation yields at most one run, through lost writes, crashes,      *)
(* retries and readings of the state; that run was reserved and approved in *)
(* the row before it was asked for, and it is built from the agreement.     *)
OneApprovedRun ==
  /\ \A r, s \in runs : r.p = s.p => r = s
  /\ \A r \in runs : disk.ctx[r.p].reserved = r.id /\ disk.ctx[r.p].agree = "APPROVED"
                     /\ disk.ctx[r.p].life # "ABANDONED" /\ r.of = disk.ctx[r.p].agreed

\* A run comes from one answered agreement, once.
RunIsAgreed == TypeOK /\ AgreementIsAnswered /\ OneApprovedRun

(* A command runs at most once for a request, and a stored COMPLETED tells  *)
(* the truth: the delivery or the run it promised is in the row.            *)
ReceiptsAreTrue ==
  \A r \in Req :
    /\ dispatched[r] <= 1
    /\ disk.rcpt[r] = "COMPLETED" =>
         CASE asked[r].type \in {"start", "reply"} -> disk.dl[r].state # "NONE"
           [] asked[r].type = "approve" -> disk.ctx[asked[r].p].run # 0
           [] OTHER -> TRUE

(* A preparation that is cancelled or discarded does not leave the          *)
(* extension waiting for one of its deliveries.                             *)
AbandonedIsReleased ==
  \A p \in Req : mem.ctx[p].life = "ABANDONED" /\ x.owner # 0 => PrepOf(x.owner) # p

\* The record of a delivery never claims less than what happened to it.
DeliveryIsRecorded == SentIsRecorded /\ ReleasedIsStored /\ AbandonedIsReleased

=============================================================================
