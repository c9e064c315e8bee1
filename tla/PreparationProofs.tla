-------------------------- MODULE PreparationProofs --------------------------
(***************************************************************************)
(* Proofs about Preparation, for any number of requests, preparations,     *)
(* crashes and failed writes.                                              *)
(***************************************************************************)
EXTENDS Preparation, TLAPS

Starting == {"bind", "resume", "launch", "submit"}
Acking == {"c_ack", "c_acking", "c_confirm"}
Checking == {"c_inspect", "c_checked", "c_fail"} \cup Acking
JobPcs == Starting \cup Checking \cup {"idle", "sent", "answer", "stored", "catch", "c_settled"}
Discarding == {"d_inspect", "d_intent", "d_web"}
Cancelling == {"k_inspect", "k_ack", "k_confirm"}
Rebinding == {"r_web", "r_save"}
Looking == {"w_inspect", "w_seen", "w_adopted", "w_rebound", "w_stop", "w_resume"}
Approving == {"a_start", "a_reserved", "a_run", "a_done", "a_failed"}
Owning == Checking \cup Discarding \cup Cancelling \cup Rebinding
CmdPcs == {"idle", "claim", "dispatch", "start", "reserve", "finish", "refused", "save", "c_settled"}
          \cup Owning \cup Looking \cup Approving

(* The prompt of d is not, and will not be, typed into the page.            *)
Unhanded(d) == xs[d].at \in {"none", "refused"}
(* The extension has the prompt of d, or will take it.                      *)
Held(d) == xs[d].at = "wire" \/ x.owner = d
(* Nothing was made for request d yet.                                      *)
Fresh(d) == dispatched[d] = 0 \/ (At(Cmd, "start") /\ th[Cmd].req = d)
(* d is a delivery of preparation p.                                        *)
Delivers(d, p) == d \in Req /\ ~ Fresh(d) /\ asked[d].type \in {"start", "reply"} /\ PrepOf(d) = p

Requests ==
  \A r \in Req :
    /\ dispatched[r] <= 1
    /\ dispatched[r] > 0 => asked[r].type # "none"
    /\ Fresh(r) => xs[r].at = "none" /\ JobIdle(r)

(* A preparation that waits for a delivery has no agreement to approve, one *)
(* that reserved a run is approved, and an agreement is a released answer.  *)
CtxOK(m, p) ==
  LET c == m.ctx[p] IN
  /\ Fresh(p) => c = NoCtx
  /\ c.active # 0 => Delivers(c.active, p) /\ c.agree = "DISCUSSING" /\ c.life # "ABANDONED"
  /\ c.reserved # 0 => c.agree = "APPROVED"
  /\ c.agree # "DISCUSSING" =>
       c.agreed \in acked /\ PrepOf(c.agreed) = p /\ m.dl[c.agreed].resp = "ready"
       /\ m.dl[c.agreed].fmt = "CONFIRMED"

(* What the record of a delivery says of the extension; a delivery that the *)
(* extension has is the active one.                                         *)
DlOK(m, d) ==
  LET e == m.dl[d] IN
  /\ e.resp # "none" => xs[d].at = "done"
  /\ ~ Unhanded(d) => e.state \notin {"NONE", "RESERVED", "FAILED"}
  /\ Held(d) => asked[d].type \in {"start", "reply"} /\ PrepOf(d) \in Req /\ m.ctx[PrepOf(d)].active = d
  /\ d \in acked => e.resp # "none" /\ (e.proc # "none" \/ CancelRan(PrepOf(d)))

RcptOK(m, r) ==
  /\ m.rcpt[r] # "NONE" => asked[r].type # "none"
  /\ dispatched[r] > 0 => m.rcpt[r] # "NONE"
  /\ m.rcpt[r] = "COMPLETED" =>
       /\ asked[r].type \in {"start", "reply"} => m.dl[r].state # "NONE"
       /\ asked[r].type = "approve" => asked[r].p \in Req /\ m.ctx[asked[r].p].run # 0

RunOK(m, run) ==
  LET c == m.ctx[run.p] IN
  c.reserved = run.id /\ c.agree = "APPROVED" /\ c.life # "ABANDONED" /\ run.of = c.agreed

(* The memory and the row, each by itself                                   *)
MemOK(m) ==
  /\ m.cur # 0 => ~ Fresh(m.cur)
  /\ \A p \in Req : CtxOK(m, p)
  /\ \A d \in Req : DlOK(m, d)
  /\ \A r \in Req : RcptOK(m, r)
  /\ \A run \in runs : RunOK(m, run)

(* An answer whose format was confirmed is in the memory and in the row.    *)
Confirmed ==
  \A d \in Req : mem.dl[d].fmt = "CONFIRMED" \/ disk.dl[d].fmt = "CONFIRMED" =>
                   mem.dl[d].resp # "none" /\ disk.dl[d].resp # "none"

World ==
  /\ \A d \in Req : xs[d].at = "done" => xs[d].held # "none"
  /\ \A d \in Req : d \in typed \/ x.owner = d => xs[d].at \in {"gen", "done", "quiet"}
  /\ x.disc # 0 => xs[x.disc].at \in {"done", "quiet"}
  /\ resent = {}

(* A thread that checks and settles its delivery                            *)
Settles(t) ==
  LET d == th[t].d IN
  /\ th[t].pc \in Checking \cup {"c_settled"} => mem.dl[d].resp # "none"
  /\ th[t].pc \in Acking => mem.dl[d].fmt = "CONFIRMED" /\ mem.dl[d].proc # "none"
  /\ th[t].pc = "c_acking" => disk.dl[d].proc # "none"
  /\ th[t].pc = "c_confirm" => d \in acked

JobOK(p) ==
  LET d == th[p].d IN
  /\ th[p].pc \in JobPcs
  /\ th[p].pc # "idle" => th[p].p = p /\ Delivers(d, p)
  /\ th[p].pc \notin {"idle", "catch", "c_settled"} => mem.ctx[p].active = d
  /\ th[p].pc \in Starting => Unhanded(d)
  /\ th[p].pc = "submit" => mem.dl[d].state = "DISPATCHING"
  /\ th[p].pc = "stored" => mem.dl[d].resp # "none"
  /\ Settles(p)

Type == asked[th[Cmd].req].type

(* The command runs for the current preparation.                            *)
Running ==
  LET c == th[Cmd] IN
  /\ c.pc \in CmdPcs
  /\ c.pc # "idle" => c.p = mem.cur /\ c.req \in Req /\ Type # "none"
  /\ c.pc \in {"claim", "dispatch"} => dispatched[c.req] = 0
  /\ c.pc = "dispatch" => mem.rcpt[c.req] # "NONE" /\ disk.rcpt[c.req] # "NONE"
  /\ c.pc \notin {"idle", "claim", "dispatch", "start", "finish", "refused", "save"} => c.p \in Req

(* What a command of each type may be doing                                 *)
Typed ==
  LET c == th[Cmd] IN
  /\ c.pc = "start" => Type = "start" /\ dispatched[c.req] > 0
  /\ c.pc = "reserve" => Type \in {"start", "reply"}
  /\ c.pc \in Looking => Type \in {"inspect", "stop", "reconcile"}
  /\ c.pc \in Checking \cup {"c_settled", "w_resume", "w_rebound"} => Type = "reconcile"
  /\ c.pc \in Cancelling => Type = "cancel" /\ asked[c.req].p = c.p /\ dispatched[c.req] > 0
  /\ c.pc \in Discarding => Type = "discard"
  /\ c.pc \in Rebinding => Type = "rebind"
  /\ c.pc \in Approving => Type = "approve" /\ asked[c.req].p = c.p
  /\ c.pc = "save" => Type \notin {"start", "reply"}

(* The command has the preparation to itself.                               *)
Alone == LET c == th[Cmd] IN
         \/ c.pc \in {"reserve", "c_settled"} \cup Owning \cup Approving
         \/ c.pc \in Looking /\ Type = "reconcile"

(* What the command holds of its preparation and its delivery               *)
Holding ==
  LET c == th[Cmd]  p == th[Cmd].p  d == th[Cmd].d IN
  /\ Alone => JobIdle(p)
  /\ c.pc = "reserve" => mem.ctx[p].active = c.req /\ mem.dl[c.req].state = "RESERVED"
  /\ (c.pc \in Owning) \/ (c.pc \in Looking /\ Type = "reconcile") => d \in Req /\ mem.ctx[p].active = d
  /\ c.pc \in Looking => (d # 0 => Delivers(d, p))
  /\ c.pc = "w_seen" => (c.got # "none" => d \in Req /\ xs[d].at = "done")
  /\ c.pc \in {"w_resume", "w_rebound"} => mem.dl[d].resp # "none"
  /\ c.pc = "c_settled" => d \in Req
  /\ c.pc = "k_ack" => mem.dl[d].fmt = "CONFIRMED"
  /\ c.pc = "k_confirm" => d \in acked
  /\ c.pc \in {"d_intent", "d_web"} => xs[d].at \in {"done", "quiet"}
  /\ c.pc \in Rebinding => Unhanded(d)
  /\ Settles(Cmd)

(* An approval, and what a command has done when its end is recorded        *)
Approval ==
  LET c == th[Cmd]  p == th[Cmd].p IN
  /\ c.pc \in Approving => mem.ctx[p].agree \in {"READY", "APPROVED"} /\ mem.ctx[p].life # "ABANDONED"
  /\ c.pc \in Approving \ {"a_start"} => mem.ctx[p].reserved # 0
  /\ c.pc = "a_run" => LET e == disk.ctx[p] IN
       e.reserved = mem.ctx[p].reserved /\ e.agree = "APPROVED" /\ e.life # "ABANDONED" /\ e.agreed = mem.ctx[p].agreed
  /\ c.pc = "a_done" => mem.ctx[p].run # 0
  /\ c.pc \in {"save", "finish"} /\ Type = "approve" => asked[c.req].p \in Req /\ mem.ctx[asked[c.req].p].run # 0
  /\ c.pc = "finish" /\ Type \in {"start", "reply"} => mem.dl[c.req].state # "NONE"

Jobs == \A p \in Req : JobOK(p)
Cmds == Running /\ Typed /\ Holding /\ Approval
IInv == TypeOK /\ Requests /\ MemOK(mem) /\ MemOK(disk) /\ Confirmed /\ World /\ Jobs /\ Cmds

-----------------------------------------------------------------------------
(* Updates of the memory, and of a thread                                   *)
ThreadPcs == Saving \cup Calling \cup {"idle", "dispatch", "start", "a_start", "a_run", "submit", "launch"}
Thread == [pc : ThreadPcs, req : 0 .. MaxReq, p : 0 .. MaxReq, d : 0 .. MaxReq, got : Answers \cup {"none"}]

(* The memory after a step that changes at most preparation p and the       *)
(* deliveries of D                                                          *)
Touches(m, n, p, D) ==
  /\ n \in Memory /\ n.cur = m.cur /\ n.rcpt = m.rcpt
  /\ \A q \in Req : q # p => n.ctx[q] = m.ctx[q]
  /\ \A e \in Req : e \notin D => n.dl[e] = m.dl[e]

Ids == 0 .. MaxReq
Lives == {"NONE", "ACTIVE", "COMPLETED", "ABANDONED"}
Errs == {"none", "tabs", "unsent", "other"}
Diags == SUBSET {"exact", "rec", "stop"}
Flags == {TRUE, FALSE}
LEMMA Numbers == 0 \in Ids /\ 0 \notin Req /\ \A r \in Req : r \in Ids
  BY BoundsAssumption DEF Req, Ids

(* The memory with another preparation p, with another delivery d           *)
PutC(m, p, c) == [m EXCEPT !.ctx = [m.ctx EXCEPT ![p] = c]]
PutD(m, d, e) == [m EXCEPT !.dl = [m.dl EXCEPT ![d] = e]]
PutB(m, p, c, d, e) == [m EXCEPT !.ctx = [m.ctx EXCEPT ![p] = c], !.dl = [m.dl EXCEPT ![d] = e]]
PutE(m, d, e, p, c) == [m EXCEPT !.dl = [m.dl EXCEPT ![d] = e], !.ctx = [m.ctx EXCEPT ![p] = c]]

Puts(m, n, p, c, d, e) == Touches(m, n, p, {d}) /\ n.ctx[p] = c /\ n.dl[d] = e

LEMMA PutBoth ==
  ASSUME mem \in Memory, NEW p \in Req, NEW c \in Ctx, NEW d \in Req, NEW e \in Delivery,
         mem' = PutB(mem, p, c, d, e) \/ mem' = PutE(mem, d, e, p, c)
  PROVE  Puts(mem, mem', p, c, d, e)
<1>1. CASE mem' = PutB(mem, p, c, d, e)
  BY <1>1 DEF Memory, Touches, Puts, PutB
<1>2. CASE mem' = PutE(mem, d, e, p, c)
  BY <1>2 DEF Memory, Touches, Puts, PutE
<1> QED
  BY <1>1, <1>2

PutsC(m, n, p, c) == Touches(m, n, p, {}) /\ n.ctx[p] = c

LEMMA PutCtx ==
  ASSUME mem \in Memory, NEW p \in Req, NEW c \in Ctx, mem' = PutC(mem, p, c)
  PROVE  PutsC(mem, mem', p, c)
  BY DEF Memory, Touches, PutC, PutsC

LEMMA PutDl ==
  ASSUME mem \in Memory, NEW p, NEW d \in Req, NEW e \in Delivery, mem' = PutD(mem, d, e)
  PROVE  Touches(mem, mem', p, {d}) /\ mem'.dl[d] = e /\ mem'.ctx = mem.ctx
  BY DEF Memory, Touches, PutD

(* What the agreement, the deliveries and the run of a preparation are      *)
Same(c, e) ==
  /\ c.life = e.life /\ c.agree = e.agree /\ c.agreed = e.agreed /\ c.active = e.active
  /\ c.reserved = e.reserved /\ c.run = e.run

Step(h, k, t, pc) ==
  /\ k \in [Threads -> Thread]
  /\ k[t].pc = pc /\ k[t].p = h[t].p /\ k[t].d = h[t].d /\ k[t].req = h[t].req /\ k[t].got = h[t].got
  /\ \A u \in Threads : u # t => k[u] = h[u]

LEMMA Goes ==
  ASSUME th \in [Threads -> Thread], NEW t \in Threads, NEW pc \in ThreadPcs, Goto(t, pc)
  PROVE  Step(th, th', t, pc)
<1>1. th' = [th EXCEPT ![t] = [th[t] EXCEPT !.pc = pc]]
  BY DEF Goto
<1>2. [th[t] EXCEPT !.pc = pc] \in Thread /\ [th[t] EXCEPT !.pc = pc].pc = pc
      /\ [th[t] EXCEPT !.pc = pc].p = th[t].p /\ [th[t] EXCEPT !.pc = pc].d = th[t].d
      /\ [th[t] EXCEPT !.pc = pc].req = th[t].req /\ [th[t] EXCEPT !.pc = pc].got = th[t].got
  BY DEF Thread
<1> QED
  BY <1>1, <1>2 DEF Step

LEMMA Types0 == TypeOK => mem \in Memory /\ disk \in Memory /\ th \in [Threads -> Thread]
  BY DEF TypeOK, Thread, ThreadPcs

-----------------------------------------------------------------------------
(* What the steps that change the memory make of it                         *)

(* A job fails; it may give the preparation back to an unsent delivery.     *)
Catches(m, n, p, d, refused) ==
  LET unsent == m.dl[d].state = "RESERVED" \/ refused
      c == m.ctx[p]  k == n.ctx[p]  e == m.dl[d]  f == n.dl[d]
  IN /\ Touches(m, n, p, {d})
     /\ f.resp = e.resp /\ f.fmt = e.fmt /\ f.proc = e.proc
     /\ f.state \in {"FAILED", "RESPONSE_COMPLETED", "RECOVERY_REQUIRED"} /\ (f.state = "FAILED" => unsent)
     /\ k.agree = c.agree /\ k.agreed = c.agreed /\ k.reserved = c.reserved /\ k.run = c.run
     /\ \/ k.active = c.active /\ k.life = c.life
        \/ unsent /\ k.active = d /\ k.life = "ACTIVE"

Fallen(c, a, l, s, e) == [c EXCEPT !.active = a, !.life = l, !.state = s, !.err = e]
Failed(e, u, s) == [e EXCEPT !.unsent = u, !.state = s]
FailedJob(m, p, d, a, l, s, e, u, f) ==
  [m EXCEPT !.dl[d].unsent = u, !.dl[d].state = f,
              !.ctx[p].active = a, !.ctx[p].life = l, !.ctx[p].state = s, !.ctx[p].err = e]

LEMMA FailedJobIs ==
  ASSUME mem \in Memory, NEW p \in Req, NEW d \in Req, NEW a, NEW l, NEW s, NEW e, NEW u, NEW f,
         mem' = FailedJob(mem, p, d, a, l, s, e, u, f),
         Fallen(mem.ctx[p], a, l, s, e) \in Ctx, Failed(mem.dl[d], u, f) \in Delivery
  PROVE  /\ Touches(mem, mem', p, {d})
         /\ mem'.ctx[p] = Fallen(mem.ctx[p], a, l, s, e) /\ mem'.dl[d] = Failed(mem.dl[d], u, f)
<1>1. mem'.ctx = [mem.ctx EXCEPT ![p] = Fallen(mem.ctx[p], a, l, s, e)]
  BY DEF FailedJob, Fallen, Memory, Ctx
<1>2. mem'.dl = [mem.dl EXCEPT ![d] = Failed(mem.dl[d], u, f)]
  BY DEF FailedJob, Failed, Memory, Delivery
<1>3. mem.ctx \in [Req -> Ctx] /\ mem.dl \in [Req -> Delivery]
  BY DEF Memory
<1>4. mem'.ctx \in [Req -> Ctx] /\ mem'.dl \in [Req -> Delivery]
  BY <1>1, <1>2, <1>3
<1>5. mem' \in Memory /\ mem'.cur = mem.cur /\ mem'.rcpt = mem.rcpt
  BY <1>4 DEF FailedJob, Memory
<1> QED
  BY <1>1, <1>2, <1>3, <1>5 DEF Touches

LEMMA FallenFields ==
  ASSUME NEW c \in Ctx, NEW a \in Ids, NEW l \in Lives,
         NEW s \in PrepStates, NEW e \in Errs
  PROVE  LET n == Fallen(c, a, l, s, e) IN
         /\ n \in Ctx /\ n.active = a /\ n.life = l
         /\ n.agree = c.agree /\ n.agreed = c.agreed /\ n.reserved = c.reserved /\ n.run = c.run
  BY DEF Ctx, Fallen, Ids, Lives, Errs

LEMMA FailedFields ==
  ASSUME NEW e \in Delivery, NEW u \in Flags, NEW s \in DeliveryStates
  PROVE  LET f == Failed(e, u, s) IN
         f \in Delivery /\ f.state = s /\ f.resp = e.resp /\ f.fmt = e.fmt /\ f.proc = e.proc
  BY DEF Delivery, Failed, Flags

Fails(m, n, p, d, a, l, f) ==
  LET c == m.ctx[p]  k == n.ctx[p]  e == m.dl[d]  h == n.dl[d] IN
  /\ Touches(m, n, p, {d})
  /\ h.state = f /\ h.resp = e.resp /\ h.fmt = e.fmt /\ h.proc = e.proc
  /\ k.active = a /\ k.life = l
  /\ k.agree = c.agree /\ k.agreed = c.agreed /\ k.reserved = c.reserved /\ k.run = c.run

LEMMA FailedJobMoves ==
  ASSUME mem \in Memory, NEW p \in Req, NEW d \in Req,
         NEW a \in Ids, NEW l \in Lives,
         NEW s \in PrepStates, NEW e \in Errs,
         NEW u \in Flags, NEW f \in DeliveryStates, mem' = FailedJob(mem, p, d, a, l, s, e, u, f)
  PROVE  Fails(mem, mem', p, d, a, l, f)
<1>1. mem.ctx[p] \in Ctx /\ mem.dl[d] \in Delivery
  BY DEF Memory
<1>2. Fallen(mem.ctx[p], a, l, s, e) \in Ctx /\ Failed(mem.dl[d], u, f) \in Delivery
  BY <1>1, FallenFields, FailedFields
<1>3. Touches(mem, mem', p, {d}) /\ mem'.ctx[p] = Fallen(mem.ctx[p], a, l, s, e) /\ mem'.dl[d] = Failed(mem.dl[d], u, f)
  BY <1>2, FailedJobIs
<1> QED
  BY <1>1, <1>3, FallenFields, FailedFields DEF Fails

LEMMA CatchMoves ==
  ASSUME mem \in Memory, NEW p \in Req, th[p].d \in Req, NEW refused \in BOOLEAN, NEW tabs \in BOOLEAN,
         mem' = Caught(p, refused, tabs)
  PROVE  Catches(mem, mem', p, th[p].d, refused)
<1>1. PICK d \in Req : d = th[p].d
  OBVIOUS
<1>2. mem.ctx[p].active \in Ids /\ mem.ctx[p].life \in Lives
      /\ d \in Ids
  BY Numbers DEF Memory, Ctx, Ids, Lives
<1>7. PICK e \in Errs : e = IF refused THEN "unsent" ELSE "other"
  BY DEF Errs
<1>3. "tabs" \in Errs /\ "other" \in Errs /\ "ACTIVE" \in Lives /\ "WEB_BLOCKED" \in PrepStates /\ "RECOVERY_REQUIRED" \in PrepStates
      /\ "FAILED" \in DeliveryStates /\ "RESPONSE_COMPLETED" \in DeliveryStates /\ "RECOVERY_REQUIRED" \in DeliveryStates
  BY DEF PrepStates, DeliveryStates, Errs, Lives, Flags
<1>4. CASE (mem.dl[d].state = "RESERVED" \/ refused) /\ tabs
  <2>1. PICK u \in Flags : mem' = FailedJob(mem, p, d, d, "ACTIVE", "WEB_BLOCKED", "tabs", u, "FAILED")
    BY <1>1, <1>4 DEF Caught, FailedJob, Flags
  <2>2. Fails(mem, mem', p, d, d, "ACTIVE", "FAILED")
    BY <1>2, <1>3, <2>1, FailedJobMoves
  <2> QED
    BY <1>1, <1>4, <2>2 DEF Catches, Fails
<1>5. CASE (mem.dl[d].state = "RESERVED" \/ refused) /\ ~ tabs
  <2>1. PICK u \in Flags : mem' = FailedJob(mem, p, d, mem.ctx[p].active, mem.ctx[p].life, "WEB_BLOCKED", e, u, "FAILED")
    BY <1>1, <1>5, <1>7 DEF Caught, FailedJob, Flags
  <2>3. Fails(mem, mem', p, d, mem.ctx[p].active, mem.ctx[p].life, "FAILED")
    BY <1>2, <1>3, <2>1, FailedJobMoves
  <2> QED
    BY <1>1, <1>5, <2>3 DEF Catches, Fails
<1>6. CASE ~ (mem.dl[d].state = "RESERVED" \/ refused)
  <2>2. PICK f \in DeliveryStates : /\ f = IF mem.dl[d].resp # "none" THEN "RESPONSE_COMPLETED" ELSE "RECOVERY_REQUIRED"
                                   /\ f \in {"RESPONSE_COMPLETED", "RECOVERY_REQUIRED"}
    BY DEF DeliveryStates
  <2>1. PICK u \in Flags : mem' = FailedJob(mem, p, d, mem.ctx[p].active, mem.ctx[p].life, "RECOVERY_REQUIRED", "other", u, f)
    BY <1>1, <1>6, <2>2 DEF Caught, FailedJob, Flags
  <2>3. Fails(mem, mem', p, d, mem.ctx[p].active, mem.ctx[p].life, f)
    BY <1>2, <1>3, <2>1, <2>2, FailedJobMoves
  <2> QED
    BY <1>1, <1>6, <2>3, <2>2 DEF Catches, Fails
<1> QED
  BY <1>4, <1>5, <1>6

(* Only how the preparation looks changes.                                  *)
Dresses(m, n, p) == Touches(m, n, p, {}) /\ Same(n.ctx[p], m.ctx[p])
(* ... and the record of its delivery                                       *)
Marks(m, n, p, d, state, resp, fmt, proc) ==
  /\ Touches(m, n, p, {d}) /\ Same(n.ctx[p], m.ctx[p])
  /\ n.dl[d].state = state /\ n.dl[d].resp = resp /\ n.dl[d].fmt = fmt /\ n.dl[d].proc = proc

LEMMA IntentMoves ==
  ASSUME mem \in Memory, NEW p \in Req, NEW d \in Req, th[p].d = d, mem' = Intent(p)
  PROVE  Marks(mem, mem', p, d, "DISPATCHING", mem.dl[d].resp, mem.dl[d].fmt, mem.dl[d].proc)
<1> DEFINE c == [mem.ctx[p] EXCEPT !.state = "WAITING_WEB_RESPONSE"]
           e == [mem.dl[d] EXCEPT !.state = "DISPATCHING"]
<1>1. mem' = PutB(mem, p, c, d, e)
  BY DEF Intent, PutB
<1>2. mem.ctx[p] \in Ctx /\ mem.dl[d] \in Delivery /\ "WAITING_WEB_RESPONSE" \in PrepStates /\ "DISPATCHING" \in DeliveryStates
  BY DEF Memory, PrepStates, DeliveryStates
<1>3. c \in Ctx /\ Same(c, mem.ctx[p])
  BY <1>2 DEF Ctx, Same
<1>4. /\ e \in Delivery /\ e.state = "DISPATCHING"
      /\ e.resp = mem.dl[d].resp /\ e.fmt = mem.dl[d].fmt /\ e.proc = mem.dl[d].proc
  BY <1>2 DEF Delivery
<1>5. Puts(mem, mem', p, c, d, e)
  <2> HIDE DEF c, e
  <2> QED BY <1>1, <1>3, <1>4, PutBoth
<1> HIDE DEF c, e
<1> QED BY <1>3, <1>4, <1>5 DEF Marks, Puts

LEMMA MarkState ==
  ASSUME mem \in Memory, NEW p \in Req, NEW d \in Req, NEW s \in DeliveryStates,
         mem' = [mem EXCEPT !.dl[d].state = s]
  PROVE  Marks(mem, mem', p, d, s, mem.dl[d].resp, mem.dl[d].fmt, mem.dl[d].proc)
<1> DEFINE e == [mem.dl[d] EXCEPT !.state = s]
<1>1. mem' = PutD(mem, d, e)
  BY DEF PutD
<1>2. mem.ctx[p] \in Ctx /\ mem.dl[d] \in Delivery
  BY DEF Memory
<1>4. /\ e \in Delivery /\ e.state = s
      /\ e.resp = mem.dl[d].resp /\ e.fmt = mem.dl[d].fmt /\ e.proc = mem.dl[d].proc
  BY <1>2 DEF Delivery, DeliveryStates
<1>5. Touches(mem, mem', p, {d}) /\ mem'.dl[d] = e /\ mem'.ctx = mem.ctx
  <2> HIDE DEF e
  <2> QED BY <1>1, <1>4, PutDl
<1> HIDE DEF e
<1> QED BY <1>4, <1>5 DEF Marks, Same

LEMMA MarkAnswer ==
  ASSUME mem \in Memory, NEW p \in Req, NEW d \in Req, NEW r \in Answers \cup {"none"},
         mem' = [mem EXCEPT !.dl[d].resp = r, !.dl[d].state = "RESPONSE_COMPLETED"]
  PROVE  Marks(mem, mem', p, d, "RESPONSE_COMPLETED", r, mem.dl[d].fmt, mem.dl[d].proc)
<1> DEFINE e == [mem.dl[d] EXCEPT !.resp = r, !.state = "RESPONSE_COMPLETED"]
<1>1. mem' = PutD(mem, d, e)
  BY DEF PutD
<1>2. mem.ctx[p] \in Ctx /\ mem.dl[d] \in Delivery
  BY DEF Memory
<1>4. /\ e \in Delivery /\ e.state = "RESPONSE_COMPLETED"
      /\ e.resp = r /\ e.fmt = mem.dl[d].fmt /\ e.proc = mem.dl[d].proc
  BY <1>2 DEF Delivery, DeliveryStates
<1>5. Touches(mem, mem', p, {d}) /\ mem'.dl[d] = e /\ mem'.ctx = mem.ctx
  <2> HIDE DEF e
  <2> QED BY <1>1, <1>4, PutDl
<1> HIDE DEF e
<1> QED BY <1>4, <1>5 DEF Marks, Same

LEMMA MarkFormat ==
  ASSUME mem \in Memory, NEW p \in Req, NEW d \in Req, NEW g \in Diags,
         mem' = [mem EXCEPT !.ctx[p].diag = g, !.dl[d].fmt = "none"]
  PROVE  Marks(mem, mem', p, d, mem.dl[d].state, mem.dl[d].resp, "none", mem.dl[d].proc)
<1> DEFINE c == [mem.ctx[p] EXCEPT !.diag = g]
           e == [mem.dl[d] EXCEPT !.fmt = "none"]
<1>1. mem' = PutB(mem, p, c, d, e)
  BY DEF PutB
<1>2. mem.ctx[p] \in Ctx /\ mem.dl[d] \in Delivery
  BY DEF Memory
<1>3. c \in Ctx /\ Same(c, mem.ctx[p])
  BY <1>2 DEF Ctx, Same, PrepStates, Errs, Diags
<1>4. /\ e \in Delivery /\ e.state = mem.dl[d].state
      /\ e.resp = mem.dl[d].resp /\ e.fmt = "none" /\ e.proc = mem.dl[d].proc
  BY <1>2 DEF Delivery, DeliveryStates
<1>5. Puts(mem, mem', p, c, d, e)
  <2> HIDE DEF c, e
  <2>1. c \in Ctx /\ e \in Delivery
    BY <1>3, <1>4
  <2> QED BY <1>1, <2>1, PutBoth
<1> HIDE DEF c, e
<1> QED BY <1>3, <1>4, <1>5 DEF Marks, Puts

LEMMA MarkInvalid ==
  ASSUME mem \in Memory, NEW p \in Req, NEW d \in Req, mem' = [mem EXCEPT !.dl[d].fmt = "INVALID"]
  PROVE  Marks(mem, mem', p, d, mem.dl[d].state, mem.dl[d].resp, "INVALID", mem.dl[d].proc)
<1> DEFINE e == [mem.dl[d] EXCEPT !.fmt = "INVALID"]
<1>1. mem' = PutD(mem, d, e)
  BY DEF PutD
<1>2. mem.ctx[p] \in Ctx /\ mem.dl[d] \in Delivery
  BY DEF Memory
<1>4. /\ e \in Delivery /\ e.state = mem.dl[d].state
      /\ e.resp = mem.dl[d].resp /\ e.fmt = "INVALID" /\ e.proc = mem.dl[d].proc
  BY <1>2 DEF Delivery, DeliveryStates
<1>5. Touches(mem, mem', p, {d}) /\ mem'.dl[d] = e /\ mem'.ctx = mem.ctx
  <2> HIDE DEF e
  <2> QED BY <1>1, <1>4, PutDl
<1> HIDE DEF e
<1> QED BY <1>4, <1>5 DEF Marks, Same

LEMMA MarkConfirmed ==
  ASSUME mem \in Memory, NEW p \in Req, NEW d \in Req, mem' = [mem EXCEPT !.dl[d].fmt = "CONFIRMED", !.dl[d].proc = "ACK_PENDING"]
  PROVE  Marks(mem, mem', p, d, mem.dl[d].state, mem.dl[d].resp, "CONFIRMED", "ACK_PENDING")
<1> DEFINE e == [mem.dl[d] EXCEPT !.fmt = "CONFIRMED", !.proc = "ACK_PENDING"]
<1>1. mem' = PutD(mem, d, e)
  BY DEF PutD
<1>2. mem.ctx[p] \in Ctx /\ mem.dl[d] \in Delivery
  BY DEF Memory
<1>4. /\ e \in Delivery /\ e.state = mem.dl[d].state
      /\ e.resp = mem.dl[d].resp /\ e.fmt = "CONFIRMED" /\ e.proc = "ACK_PENDING"
  BY <1>2 DEF Delivery, DeliveryStates
<1>5. Touches(mem, mem', p, {d}) /\ mem'.dl[d] = e /\ mem'.ctx = mem.ctx
  <2> HIDE DEF e
  <2> QED BY <1>1, <1>4, PutDl
<1> HIDE DEF e
<1> QED BY <1>4, <1>5 DEF Marks, Same

LEMMA MarkRebound ==
  ASSUME mem \in Memory, NEW p \in Req, NEW d \in Req, 
         mem' = [mem EXCEPT !.ctx[p].err = "none", !.ctx[p].diag = {}, !.ctx[p].state = "INITIALIZING",
                            !.dl[d].state = "RESERVED"]
  PROVE  Marks(mem, mem', p, d, "RESERVED", mem.dl[d].resp, mem.dl[d].fmt, mem.dl[d].proc)
<1> DEFINE c == [mem.ctx[p] EXCEPT !.err = "none", !.diag = {}, !.state = "INITIALIZING"]
           e == [mem.dl[d] EXCEPT !.state = "RESERVED"]
<1>1. mem' = PutB(mem, p, c, d, e)
  BY DEF PutB
<1>2. mem.ctx[p] \in Ctx /\ mem.dl[d] \in Delivery
  BY DEF Memory
<1>3. c \in Ctx /\ Same(c, mem.ctx[p])
  BY <1>2 DEF Ctx, Same, PrepStates, Errs, Diags
<1>4. /\ e \in Delivery /\ e.state = "RESERVED"
      /\ e.resp = mem.dl[d].resp /\ e.fmt = mem.dl[d].fmt /\ e.proc = mem.dl[d].proc
  BY <1>2 DEF Delivery, DeliveryStates
<1>5. Puts(mem, mem', p, c, d, e)
  <2> HIDE DEF c, e
  <2>1. c \in Ctx /\ e \in Delivery
    BY <1>3, <1>4
  <2> QED BY <1>1, <2>1, PutBoth
<1> HIDE DEF c, e
<1> QED BY <1>3, <1>4, <1>5 DEF Marks, Puts

(* The answer of d is the agreement, or keeps it open.                      *)
Agrees(m, n, p, d) ==
  LET c == m.ctx[p]  k == n.ctx[p]  e == m.dl[d]  h == n.dl[d] IN
  /\ Touches(m, n, p, {d})
  /\ h.state = "ACKNOWLEDGED" /\ h.resp = e.resp /\ h.fmt = e.fmt /\ h.proc = "COMPLETE"
  /\ k.agree \in {"READY", "DISCUSSING"} /\ (k.agree = "READY" => e.resp = "ready")
  /\ k.agreed = d /\ k.active = 0 /\ k.life = c.life /\ k.reserved = c.reserved /\ k.run = c.run

(* The preparation is given up.                                             *)
Abandons(m, n, p, D) ==
  LET c == m.ctx[p]  k == n.ctx[p] IN
  /\ Touches(m, n, p, D)
  /\ \A d \in D : LET e == m.dl[d]  h == n.dl[d] IN
       /\ h.state \in {"ACKNOWLEDGED", "RECOVERY_DISCARDED"}
       /\ h.resp = e.resp /\ h.fmt = e.fmt /\ h.proc = e.proc
  /\ k.life = "ABANDONED" /\ k.active = 0
  /\ k.agree = c.agree /\ k.agreed = c.agreed /\ k.reserved = c.reserved /\ k.run = c.run

(* A run is reserved, and taken over.                                       *)
Approves(m, n, p, r) ==
  LET c == m.ctx[p]  k == n.ctx[p] IN
  /\ Touches(m, n, p, {})
  /\ k.agree = "APPROVED" /\ k.reserved = r
  /\ k.life = c.life /\ k.agreed = c.agreed /\ k.active = c.active /\ k.run = c.run
Adopts(m, n, p) ==
  LET c == m.ctx[p]  k == n.ctx[p] IN
  /\ Touches(m, n, p, {})
  /\ k.agree = "APPROVED" /\ k.run = c.reserved /\ k.life = "COMPLETED"
  /\ k.agreed = c.agreed /\ k.active = c.active /\ k.reserved = c.reserved

(* A delivery d is made.                                                    *)
Reserves(m, n, p, d) ==
  LET c == m.ctx[p]  k == n.ctx[p]  h == n.dl[d] IN
  /\ Touches(m, n, p, {d})
  /\ h.state = "RESERVED" /\ h.resp = "none" /\ h.fmt = "none" /\ h.proc = "none"
  /\ k.agree = "DISCUSSING" /\ k.active = d
  /\ k.life = c.life /\ k.agreed = c.agreed /\ k.reserved = c.reserved /\ k.run = c.run

LEMMA DressDiag ==
  ASSUME mem \in Memory, NEW p \in Req, NEW g \in Diags, mem' = [mem EXCEPT !.ctx[p].diag = g]
  PROVE  Dresses(mem, mem', p)
<1> DEFINE c == [mem.ctx[p] EXCEPT !.diag = g]
<1>1. mem' = PutC(mem, p, c)
  BY DEF PutC
<1>2. mem.ctx[p] \in Ctx
  BY DEF Memory
<1>3. c \in Ctx /\ Same(c, mem.ctx[p])
  BY <1>2, Numbers DEF Ctx, Same, PrepStates, Errs, Diags, Lives, Ids
<1>4. PutsC(mem, mem', p, c)
  <2> HIDE DEF c
  <2> QED BY <1>1, <1>3, PutCtx
<1> HIDE DEF c
<1> QED BY <1>3, <1>4 DEF Dresses, PutsC

LEMMA DressState ==
  ASSUME mem \in Memory, NEW p \in Req, NEW s \in PrepStates, NEW e \in Errs,
         mem' = [mem EXCEPT !.ctx[p].state = s, !.ctx[p].err = e]
  PROVE  Dresses(mem, mem', p)
<1> DEFINE c == [mem.ctx[p] EXCEPT !.state = s, !.err = e]
<1>1. mem' = PutC(mem, p, c)
  BY DEF PutC
<1>2. mem.ctx[p] \in Ctx
  BY DEF Memory
<1>3. c \in Ctx /\ Same(c, mem.ctx[p])
  BY <1>2, Numbers DEF Ctx, Same, PrepStates, Errs, Diags, Lives, Ids
<1>4. PutsC(mem, mem', p, c)
  <2> HIDE DEF c
  <2> QED BY <1>1, <1>3, PutCtx
<1> HIDE DEF c
<1> QED BY <1>3, <1>4 DEF Dresses, PutsC

LEMMA ApproveMoves ==
  ASSUME mem \in Memory, NEW p \in Req, NEW r \in Req,
         mem' = [mem EXCEPT !.ctx[p].state = "APPROVING", !.ctx[p].agree = "APPROVED", !.ctx[p].reserved = r]
  PROVE  Approves(mem, mem', p, r)
<1> DEFINE c == [mem.ctx[p] EXCEPT !.state = "APPROVING", !.agree = "APPROVED", !.reserved = r]
<1>1. mem' = PutC(mem, p, c)
  BY DEF PutC
<1>2. mem.ctx[p] \in Ctx
  BY DEF Memory
<1>3. c \in Ctx /\ c.agree = "APPROVED" /\ c.reserved = r /\ c.life = mem.ctx[p].life
      /\ c.agreed = mem.ctx[p].agreed /\ c.active = mem.ctx[p].active /\ c.run = mem.ctx[p].run
  BY <1>2, Numbers DEF Ctx, Same, PrepStates, Errs, Diags, Lives, Ids
<1>4. PutsC(mem, mem', p, c)
  <2> HIDE DEF c
  <2> QED BY <1>1, <1>3, PutCtx
<1> HIDE DEF c
<1> QED BY <1>3, <1>4 DEF Approves, PutsC

LEMMA AdoptMoves ==
  ASSUME mem \in Memory, NEW p \in Req, mem' = Adopt(p)
  PROVE  Adopts(mem, mem', p)
<1> DEFINE c == [mem.ctx[p] EXCEPT !.run = mem.ctx[p].reserved, !.agree = "APPROVED", !.life = "COMPLETED"]
<1>1. mem' = PutC(mem, p, c)
  BY DEF PutC, Adopt
<1>2. mem.ctx[p] \in Ctx
  BY DEF Memory
<1>3. c \in Ctx /\ c.agree = "APPROVED" /\ c.run = mem.ctx[p].reserved /\ c.life = "COMPLETED"
      /\ c.agreed = mem.ctx[p].agreed /\ c.active = mem.ctx[p].active /\ c.reserved = mem.ctx[p].reserved
  BY <1>2, Numbers DEF Ctx, Same, PrepStates, Errs, Diags, Lives, Ids
<1>4. PutsC(mem, mem', p, c)
  <2> HIDE DEF c
  <2> QED BY <1>1, <1>3, PutCtx
<1> HIDE DEF c
<1> QED BY <1>3, <1>4 DEF Adopts, PutsC

LEMMA AbandonMoves ==
  ASSUME mem \in Memory, NEW p \in Req, NEW e \in Errs, mem' = [Abandon(mem, p) EXCEPT !.ctx[p].err = e]
  PROVE  Abandons(mem, mem', p, {})
<1> DEFINE c == [mem.ctx[p] EXCEPT !.life = "ABANDONED", !.active = 0, !.err = e]
<1>1. mem' = PutC(mem, p, c)
  BY DEF PutC, Abandon
<1>2. mem.ctx[p] \in Ctx
  BY DEF Memory
<1>3. c \in Ctx /\ c.life = "ABANDONED" /\ c.active = 0 /\ c.agree = mem.ctx[p].agree
      /\ c.agreed = mem.ctx[p].agreed /\ c.reserved = mem.ctx[p].reserved /\ c.run = mem.ctx[p].run
  BY <1>2, Numbers DEF Ctx, Same, PrepStates, Errs, Diags, Lives, Ids
<1>4. PutsC(mem, mem', p, c)
  <2> HIDE DEF c
  <2> QED BY <1>1, <1>3, PutCtx
<1> HIDE DEF c
<1> QED BY <1>3, <1>4 DEF Abandons, PutsC

LEMMA SettleMoves ==
  ASSUME mem \in Memory, NEW p \in Req, NEW d \in Req, NEW g \in Diags,
         mem' = [mem EXCEPT
           !.ctx[p] = [@ EXCEPT !.agree = IF mem.dl[d].resp = "ready" THEN "READY" ELSE "DISCUSSING", !.agreed = d,
                                !.state = IF mem.dl[d].resp = "ready" THEN "AGREEMENT_READY" ELSE "DISCUSSING",
                                !.active = 0, !.err = "none", !.diag = g],
           !.dl[d].state = "ACKNOWLEDGED", !.dl[d].proc = "COMPLETE"]
  PROVE  Agrees(mem, mem', p, d)
<1> DEFINE a == IF mem.dl[d].resp = "ready" THEN "READY" ELSE "DISCUSSING"
           s == IF mem.dl[d].resp = "ready" THEN "AGREEMENT_READY" ELSE "DISCUSSING"
           c == [mem.ctx[p] EXCEPT !.agree = a, !.agreed = d, !.state = s, !.active = 0, !.err = "none", !.diag = g]
           e == [mem.dl[d] EXCEPT !.state = "ACKNOWLEDGED", !.proc = "COMPLETE"]
<1>1. mem' = PutB(mem, p, c, d, e)
  BY DEF PutB
<1>2. mem.ctx[p] \in Ctx /\ mem.dl[d] \in Delivery
  BY DEF Memory
<1>3. c \in Ctx /\ c.agree = a /\ c.agreed = d /\ c.active = 0 /\ c.life = mem.ctx[p].life
      /\ c.reserved = mem.ctx[p].reserved /\ c.run = mem.ctx[p].run
  BY <1>2, Numbers DEF Ctx, PrepStates, Diags, Ids
<1>4. /\ e \in Delivery /\ e.state = "ACKNOWLEDGED" /\ e.proc = "COMPLETE"
      /\ e.resp = mem.dl[d].resp /\ e.fmt = mem.dl[d].fmt
  BY <1>2 DEF Delivery, DeliveryStates
<1>5. Puts(mem, mem', p, c, d, e)
  <2> HIDE DEF c, e
  <2> QED BY <1>1, <1>3, <1>4, PutBoth
<1>6. a \in {"READY", "DISCUSSING"} /\ (a = "READY" => mem.dl[d].resp = "ready")
  OBVIOUS
<1> HIDE DEF c, e, a
<1> QED BY <1>3, <1>4, <1>5, <1>6 DEF Agrees, Puts

LEMMA ReplyMoves ==
  ASSUME mem \in Memory, NEW p \in Req, NEW d \in Req, mem' = Reserve(mem, p, d)
  PROVE  Reserves(mem, mem', p, d)
<1> DEFINE c == [mem.ctx[p] EXCEPT !.err = "none", !.diag = {}, !.agree = "DISCUSSING",
                                   !.state = "INITIALIZING", !.active = d]
           e == [NoDl EXCEPT !.state = "RESERVED"]
<1>1. mem' = PutB(mem, p, c, d, e)
  BY DEF PutB, Reserve
<1>2. mem.ctx[p] \in Ctx
  BY DEF Memory
<1>3. c \in Ctx /\ c.agree = "DISCUSSING" /\ c.agreed = mem.ctx[p].agreed /\ c.active = d /\ c.life = mem.ctx[p].life
      /\ c.reserved = mem.ctx[p].reserved /\ c.run = mem.ctx[p].run
  BY <1>2, Numbers DEF Ctx, PrepStates, Ids
<1>4. e \in Delivery /\ e.state = "RESERVED" /\ e.proc = "none" /\ e.resp = "none" /\ e.fmt = "none"
  BY DEF Delivery, DeliveryStates, NoDl
<1>5. Puts(mem, mem', p, c, d, e)
  <2> HIDE DEF c, e
  <2> QED BY <1>1, <1>3, <1>4, PutBoth
<1> HIDE DEF c, e
<1> QED BY <1>3, <1>4, <1>5 DEF Reserves, Puts

LEMMA PutParts ==
  ASSUME mem \in Memory, NEW p \in Req, NEW c \in Ctx, NEW d \in Req, NEW e \in Delivery,
         mem'.ctx = [mem.ctx EXCEPT ![p] = c] /\ mem'.dl = [mem.dl EXCEPT ![d] = e],
         mem' = [cur |-> mem.cur, ctx |-> mem'.ctx, dl |-> mem'.dl, rcpt |-> mem.rcpt]
  PROVE  Puts(mem, mem', p, c, d, e)
<1>1. mem.ctx \in [Req -> Ctx] /\ mem.dl \in [Req -> Delivery]
  BY DEF Memory
<1>2. mem'.ctx \in [Req -> Ctx] /\ mem'.dl \in [Req -> Delivery]
  BY <1>1
<1>3. mem' \in Memory /\ mem'.cur = mem.cur /\ mem'.rcpt = mem.rcpt
  BY <1>2 DEF Memory
<1> QED
  BY <1>1, <1>3 DEF Puts, Touches

(* A discard and a confirmed cancel give up the delivery as well.           *)
LEMMA DiscardMoves ==
  ASSUME mem \in Memory, NEW p \in Req, NEW d \in Req,
         mem' = [Abandon(mem, p) EXCEPT !.dl[d].state = "RECOVERY_DISCARDED",
                   !.ctx[p].state = "RECOVERY_REQUIRED", !.ctx[p].err = "other"]
  PROVE  Abandons(mem, mem', p, {d})
<1> DEFINE c == [mem.ctx[p] EXCEPT !.life = "ABANDONED", !.active = 0, !.state = "RECOVERY_REQUIRED", !.err = "other"]
           e == [mem.dl[d] EXCEPT !.state = "RECOVERY_DISCARDED"]
<1>2. mem.ctx[p] \in Ctx /\ mem.dl[d] \in Delivery /\ mem.ctx \in [Req -> Ctx]
  BY DEF Memory
<1>6. mem'.ctx = [mem.ctx EXCEPT ![p] = c] /\ mem'.dl = [mem.dl EXCEPT ![d] = e]
  BY <1>2 DEF Abandon, Memory, Ctx
<1>7. mem' = [cur |-> mem.cur, ctx |-> mem'.ctx, dl |-> mem'.dl, rcpt |-> mem.rcpt]
  BY <1>2 DEF Abandon, Memory
<1>3. c \in Ctx /\ c.life = "ABANDONED" /\ c.active = 0 /\ c.agree = mem.ctx[p].agree
      /\ c.agreed = mem.ctx[p].agreed /\ c.reserved = mem.ctx[p].reserved /\ c.run = mem.ctx[p].run
  BY <1>2, Numbers DEF Ctx, PrepStates, Ids
<1>4. /\ e \in Delivery /\ e.state = "RECOVERY_DISCARDED"
      /\ e.resp = mem.dl[d].resp /\ e.fmt = mem.dl[d].fmt /\ e.proc = mem.dl[d].proc
  BY <1>2 DEF Delivery, DeliveryStates
<1>5. Puts(mem, mem', p, c, d, e)
  <2> HIDE DEF c, e
  <2>1. c \in Ctx /\ e \in Delivery
    BY <1>3, <1>4
  <2> QED BY <1>6, <1>7, <2>1, PutParts
<1> HIDE DEF c, e
<1> QED BY <1>3, <1>4, <1>5 DEF Abandons, Puts

LEMMA CancelMoves ==
  ASSUME mem \in Memory, NEW p \in Req, NEW d \in Req,
         mem' = [Abandon(mem, p) EXCEPT !.dl[d].state = "ACKNOWLEDGED"]
  PROVE  Abandons(mem, mem', p, {d})
<1> DEFINE c == [mem.ctx[p] EXCEPT !.life = "ABANDONED", !.active = 0]
           e == [mem.dl[d] EXCEPT !.state = "ACKNOWLEDGED"]
<1>2. mem.ctx[p] \in Ctx /\ mem.dl[d] \in Delivery /\ mem.ctx \in [Req -> Ctx]
  BY DEF Memory
<1>1. mem' = PutE(mem, d, e, p, c)
  BY <1>2 DEF PutE, Abandon, Memory
<1>3. c \in Ctx /\ c.life = "ABANDONED" /\ c.active = 0 /\ c.agree = mem.ctx[p].agree
      /\ c.agreed = mem.ctx[p].agreed /\ c.reserved = mem.ctx[p].reserved /\ c.run = mem.ctx[p].run
  BY <1>2, Numbers DEF Ctx, PrepStates, Ids
<1>4. /\ e \in Delivery /\ e.state = "ACKNOWLEDGED"
      /\ e.resp = mem.dl[d].resp /\ e.fmt = mem.dl[d].fmt /\ e.proc = mem.dl[d].proc
  BY <1>2 DEF Delivery, DeliveryStates
<1>5. Puts(mem, mem', p, c, d, e)
  <2> HIDE DEF c, e
  <2> QED BY <1>1, <1>3, <1>4, PutBoth
<1> HIDE DEF c, e
<1> QED BY <1>3, <1>4, <1>5 DEF Abandons, Puts

LEMMA MarkBegun ==
  ASSUME mem \in Memory, NEW p \in Req, NEW d \in Req,
         mem' = [[mem EXCEPT !.dl[d].state = "RESPONSE_STARTED"] EXCEPT !.ctx[p].err = "other"]
  PROVE  Marks(mem, mem', p, d, "RESPONSE_STARTED", mem.dl[d].resp, mem.dl[d].fmt, mem.dl[d].proc)
<1> DEFINE c == [mem.ctx[p] EXCEPT !.err = "other"]
           e == [mem.dl[d] EXCEPT !.state = "RESPONSE_STARTED"]
<1>2. mem.ctx[p] \in Ctx /\ mem.dl[d] \in Delivery
  BY DEF Memory
<1>1. mem' = PutE(mem, d, e, p, c)
  BY DEF PutE, Memory
<1>3. c \in Ctx /\ Same(c, mem.ctx[p])
  BY <1>2 DEF Ctx, Same
<1>4. /\ e \in Delivery /\ e.state = "RESPONSE_STARTED"
      /\ e.resp = mem.dl[d].resp /\ e.fmt = mem.dl[d].fmt /\ e.proc = mem.dl[d].proc
  BY <1>2 DEF Delivery, DeliveryStates
<1>5. Puts(mem, mem', p, c, d, e)
  <2> HIDE DEF c, e
  <2>1. c \in Ctx /\ e \in Delivery
    BY <1>3, <1>4
  <2> QED BY <1>1, <2>1, PutBoth
<1> HIDE DEF c, e
<1> QED BY <1>3, <1>4, <1>5 DEF Marks, Puts

(* A preparation is made, with its first delivery.                          *)
Begins(m, n, r) ==
  LET c == n.ctx[r]  h == n.dl[r] IN
  /\ n \in Memory /\ n.cur = r /\ n.rcpt = m.rcpt
  /\ \A q \in Req : q # r => n.ctx[q] = m.ctx[q] /\ n.dl[q] = m.dl[q]
  /\ h.state = "RESERVED" /\ h.resp = "none" /\ h.fmt = "none" /\ h.proc = "none"
  /\ c.agree = "DISCUSSING" /\ c.active = r /\ c.life = "ACTIVE" /\ c.agreed = 0 /\ c.reserved = 0 /\ c.run = 0

LEMMA StartMoves ==
  ASSUME mem \in Memory, NEW r \in Req,
         mem' = Reserve([mem EXCEPT !.cur = r, !.ctx[r] = [NoCtx EXCEPT !.life = "ACTIVE"]], r, r)
  PROVE  Begins(mem, mem', r)
<1> DEFINE c == [NoCtx EXCEPT !.life = "ACTIVE", !.err = "none", !.diag = {}, !.agree = "DISCUSSING",
                              !.state = "INITIALIZING", !.active = r]
           e == [NoDl EXCEPT !.state = "RESERVED"]
<1>1. c \in Ctx /\ c.agree = "DISCUSSING" /\ c.active = r /\ c.life = "ACTIVE" /\ c.agreed = 0 /\ c.reserved = 0 /\ c.run = 0
  BY Numbers DEF NoCtx, Ctx, PrepStates, Ids
<1>2. e \in Delivery /\ e.state = "RESERVED" /\ e.proc = "none" /\ e.resp = "none" /\ e.fmt = "none"
  BY DEF Delivery, DeliveryStates, NoDl
<1>3. mem.ctx \in [Req -> Ctx] /\ mem.dl \in [Req -> Delivery] /\ r \in Ids
  BY Numbers DEF Memory
<1>4. mem'.ctx = [mem.ctx EXCEPT ![r] = c] /\ mem'.dl = [mem.dl EXCEPT ![r] = e]
      /\ mem' = [cur |-> r, ctx |-> mem'.ctx, dl |-> mem'.dl, rcpt |-> mem.rcpt]
  BY <1>3 DEF Reserve, NoCtx, Memory
<1>5. mem'.ctx \in [Req -> Ctx] /\ mem'.dl \in [Req -> Delivery]
  <2> HIDE DEF c, e
  <2> QED BY <1>1, <1>2, <1>3, <1>4
<1>6. mem' \in Memory
  BY <1>3, <1>4, <1>5 DEF Memory, Ids
<1>7. mem'.cur = r /\ mem'.rcpt = mem.rcpt
  BY <1>4
<1> HIDE DEF c, e
<1> QED BY <1>1, <1>2, <1>3, <1>4, <1>6, <1>7 DEF Begins

(* What the server finds after a crash                                      *)
Recovers(m, n) ==
  /\ n \in Memory /\ n.cur = m.cur /\ n.dl = m.dl /\ n.rcpt = m.rcpt
  /\ \A p \in Req : Same(n.ctx[p], m.ctx[p]) /\ (m.ctx[p] = NoCtx => n.ctx[p] = NoCtx)

LEMMA RecoverMoves ==
  ASSUME disk \in Memory, NEW n, n = Recovered(disk)
  PROVE  Recovers(disk, n)
<1> DEFINE c(p) == IF /\ disk.ctx[p].life = "ACTIVE" /\ disk.ctx[p].run = 0 /\ ~ Unsent(disk, p)
                      /\ disk.ctx[p].active # 0 \/ disk.ctx[p].state = "APPROVING"
                   THEN [disk.ctx[p] EXCEPT !.state = "RECOVERY_REQUIRED"] ELSE disk.ctx[p]
           f == [p \in Req |-> c(p)]
<1>1. n = [disk EXCEPT !.ctx = f]
  BY DEF Recovered
<1>2. \A p \in Req : disk.ctx[p] \in Ctx
  BY DEF Memory
<1>3. ASSUME NEW p \in Req
      PROVE  c(p) \in Ctx /\ Same(c(p), disk.ctx[p]) /\ (disk.ctx[p] = NoCtx => c(p) = NoCtx)
  <2>1. disk.ctx[p] \in Ctx
    BY <1>2, <1>3
  <2>2. CASE c(p) = disk.ctx[p]
    BY <2>1, <2>2 DEF Same
  <2>3. CASE disk.ctx[p].life = "ACTIVE" /\ c(p) = [disk.ctx[p] EXCEPT !.state = "RECOVERY_REQUIRED"]
    <3>1. disk.ctx[p] # NoCtx
      BY <2>3 DEF NoCtx
    <3>2. [disk.ctx[p] EXCEPT !.state = "RECOVERY_REQUIRED"] \in Ctx /\ Same([disk.ctx[p] EXCEPT !.state = "RECOVERY_REQUIRED"], disk.ctx[p])
      BY <2>1 DEF Ctx, Same, PrepStates
    <3> QED
      BY <2>3, <3>1, <3>2
  <2> QED
    BY <2>2, <2>3
<1> HIDE DEF c
<1>4. f \in [Req -> Ctx] /\ \A p \in Req : f[p] = c(p)
  BY <1>3
<1> HIDE DEF f
<1>5. n \in Memory /\ n.cur = disk.cur /\ n.dl = disk.dl /\ n.rcpt = disk.rcpt /\ n.ctx = f
  BY <1>1, <1>4 DEF Memory
<1> QED
  BY <1>3, <1>4, <1>5 DEF Recovers

(* A thread gets another state.                                             *)
Sets(h, k, t, c) == k \in [Threads -> Thread] /\ k[t] = c /\ \A u \in Threads : u # t => k[u] = h[u]
LEMMA Setting ==
  ASSUME th \in [Threads -> Thread], NEW t \in Threads, NEW c \in Thread, th' = [th EXCEPT ![t] = c]
  PROVE  Sets(th, th', t, c)
  BY DEF Sets

-----------------------------------------------------------------------------
(* The memory and the row in a step of the world                            *)

(* What no step takes back                                                  *)
Frame ==
  \A r \in Req :
    /\ Fresh(r)' => Fresh(r)
    /\ asked[r].type # "none" => asked'[r] = asked[r]
    /\ r \in acked => r \in acked'
    /\ xs[r].at = "done" => xs'[r].at = "done"
    /\ dispatched[r] > 0 => dispatched'[r] > 0

(* The step of the world agrees with the memory m.                          *)
Suits(m) ==
  /\ \A d \in Req :
       /\ d \in acked' => d \in acked \/ (m.dl[d].resp # "none" /\ (m.dl[d].proc # "none" \/ CancelRan(PrepOf(d))))
       /\ ~ Unhanded(d)' => ~ Unhanded(d) \/ m.dl[d].state \notin {"NONE", "RESERVED", "FAILED"}
       /\ Held(d)' => \/ Held(d)
                      \/ asked[d].type \in {"start", "reply"} /\ PrepOf(d) \in Req /\ m.ctx[PrepOf(d)].active = d
       /\ dispatched'[d] > 0 => dispatched[d] > 0 \/ m.rcpt[d] # "NONE"
  /\ \A run \in runs' : RunOK(m, run)

LEMMA Asked ==
  ASSUME TypeOK, Requests, NEW r \in Req, ~ Fresh(r)
  PROVE  asked[r].type # "none" /\ dispatched[r] > 0
  BY DEF TypeOK, Requests, Fresh

LEMMA DeliversStays ==
  ASSUME TypeOK, Requests, Frame, NEW d, NEW p, Delivers(d, p)
  PROVE  Delivers(d, p)' /\ PrepOf(d)' = p
<1>1. d \in Req /\ ~ Fresh(d) /\ asked[d].type \in {"start", "reply"} /\ PrepOf(d) = p
  BY DEF Delivers
<1>2. asked'[d] = asked[d] /\ ~ Fresh(d)'
  BY <1>1 DEF Frame
<1>3. PrepOf(d)' = PrepOf(d)
  BY <1>2 DEF PrepOf
<1> QED
  BY <1>1, <1>2, <1>3 DEF Delivers

LEMMA CancelStays ==
  ASSUME TypeOK, Requests, Frame, NEW p, CancelRan(p)
  PROVE  CancelRan(p)'
<1>1. PICK r \in Req : asked[r] = [type |-> "cancel", p |-> p] /\ dispatched[r] > 0
  BY DEF CancelRan
<1>2. asked'[r] = asked[r] /\ dispatched'[r] > 0
  BY <1>1 DEF Frame
<1> QED
  BY <1>1, <1>2 DEF CancelRan

LEMMA Keeps ==
  ASSUME TypeOK, Requests, Frame, NEW m, m \in Memory, MemOK(m), Suits(m)
  PROVE  MemOK(m)'
<1>0. acked \subseteq Req /\ \A d \in Req : asked[d].type \in {"start", "reply"} => asked'[d] = asked[d] /\ PrepOf(d)' = PrepOf(d)
  BY DEF Frame, TypeOK, PrepOf
<1>1. (m.cur # 0 => ~ Fresh(m.cur))'
  <2>1. m.cur \in 0 .. MaxReq
    BY DEF Memory
  <2> QED
    BY <2>1 DEF MemOK, Frame, Req
<1>2. ASSUME NEW p \in Req
      PROVE  CtxOK(m, p)'
  <2>1. CtxOK(m, p)
    BY DEF MemOK
  <2>2. (Fresh(p) => m.ctx[p] = NoCtx)'
    BY <2>1 DEF CtxOK, Frame
  <2>3. m.ctx[p].active # 0 => Delivers(m.ctx[p].active, p)'
    BY <2>1, DeliversStays DEF CtxOK
  <2>4. ASSUME m.ctx[p].agree # "DISCUSSING"
        PROVE  m.ctx[p].agreed \in acked' /\ PrepOf(m.ctx[p].agreed)' = p
    <3>1. m.ctx[p].agreed \in acked /\ PrepOf(m.ctx[p].agreed) = p /\ m.ctx[p].agreed \in Req
      BY <1>0, <2>1, <2>4 DEF CtxOK
    <3>2. xs[m.ctx[p].agreed].at = "done"
      BY <3>1 DEF MemOK, DlOK
    <3>3. ~ Fresh(m.ctx[p].agreed)
      BY <3>1, <3>2 DEF Requests
    <3>4. asked'[m.ctx[p].agreed] = asked[m.ctx[p].agreed]
      BY <3>1, <3>3, Asked DEF Frame
    <3> QED
      BY <3>1, <3>4 DEF Frame, PrepOf
  <2> QED
    BY <2>1, <2>2, <2>3, <2>4 DEF CtxOK
<1>3. ASSUME NEW d \in Req
      PROVE  DlOK(m, d)'
  <2>1. DlOK(m, d)
    BY DEF MemOK
  <2>2. (m.dl[d].resp # "none" => xs[d].at = "done")'
    BY <2>1 DEF DlOK, Frame
  <2>3. (~ Unhanded(d) => m.dl[d].state \notin {"NONE", "RESERVED", "FAILED"})'
    BY <2>1 DEF DlOK, Suits
  <2>4. (Held(d) => asked[d].type \in {"start", "reply"} /\ PrepOf(d) \in Req /\ m.ctx[PrepOf(d)].active = d)'
    BY <1>0, <2>1 DEF DlOK, Suits
  <2>5. (d \in acked => m.dl[d].resp # "none" /\ (m.dl[d].proc # "none" \/ CancelRan(PrepOf(d))))'
    <3>1. SUFFICES ASSUME d \in acked'
                   PROVE  m.dl[d].resp # "none" /\ (m.dl[d].proc # "none" \/ CancelRan(PrepOf(d))')
      OBVIOUS
    <3>2. m.dl[d].resp # "none" /\ (m.dl[d].proc # "none" \/ CancelRan(PrepOf(d)))
      BY <3>1, <2>1 DEF DlOK, Suits
    <3>3. ~ Fresh(d)
      BY <2>1, <3>2 DEF DlOK, Requests
    <3>4. PrepOf(d)' = PrepOf(d)
      BY <3>3, Asked DEF Frame, PrepOf
    <3> QED
      BY <3>2, <3>4, CancelStays
  <2> QED
    BY <2>2, <2>3, <2>4, <2>5 DEF DlOK
<1>4. ASSUME NEW r \in Req
      PROVE  RcptOK(m, r)'
  <2>1. RcptOK(m, r)
    BY DEF MemOK
  <2> QED
    BY <2>1 DEF RcptOK, Frame, Suits
<1>5. ASSUME NEW run \in runs'
      PROVE  RunOK(m, run)'
  BY DEF Suits, RunOK
<1> QED
  BY <1>1, <1>2, <1>3, <1>4, <1>5 DEF MemOK

-----------------------------------------------------------------------------
(* The memory n that a move makes of m                                      *)

(* What is to be shown of a move that touches p and its deliveries D        *)
Local(m, n, p, D) ==
  /\ CtxOK(n, p)
  /\ \A d \in D : d \in Req /\ DlOK(n, d) /\ PrepOf(d) = p /\ n.dl[d].state # "NONE"
  /\ \A d \in Req : Held(d) /\ PrepOf(d) = p => n.ctx[p].active = d
  /\ m.ctx[p].run # 0 => n.ctx[p].run # 0
  /\ \A run \in runs : run.p = p => RunOK(n, run)

LEMMA Touched ==
  ASSUME TypeOK', NEW m, NEW n, m \in Memory, NEW p \in Req, NEW D, Touches(m, n, p, D), MemOK(m)', Local(m, n, p, D)'
  PROVE  MemOK(n)'
<1>1. (n.cur # 0 => ~ Fresh(n.cur))'
  BY DEF MemOK, Touches
<1>2. ASSUME NEW q \in Req
      PROVE  CtxOK(n, q)'
  <2>1. CASE q = p
    BY <2>1 DEF Local
  <2>2. CASE q # p
    <3>1. CtxOK(m, q)' /\ n.ctx[q] = m.ctx[q]
      BY <2>2 DEF MemOK, Touches
    <3>2. ASSUME m.ctx[q].agree # "DISCUSSING"
          PROVE  n.dl[m.ctx[q].agreed] = m.dl[m.ctx[q].agreed]
      <4>1. (PrepOf(m.ctx[q].agreed) = q /\ m.ctx[q].agreed \in Req)'
        BY <3>1, <3>2 DEF CtxOK, TypeOK
      <4> QED
        BY <4>1, <2>2 DEF Touches, Local
    <3> QED
      BY <3>1, <3>2 DEF CtxOK
  <2> QED
    BY <2>1, <2>2
<1>3. ASSUME NEW d \in Req
      PROVE  DlOK(n, d)'
  <2>1. CASE d \in D
    BY <2>1 DEF Local
  <2>2. CASE d \notin D
    <3>1. DlOK(m, d)' /\ n.dl[d] = m.dl[d]
      BY <2>2 DEF MemOK, Touches
    <3>2. ASSUME Held(d)'
          PROVE  n.ctx[PrepOf(d)'].active = d
      <4>1. PrepOf(d)' \in Req /\ m.ctx[PrepOf(d)'].active = d
        BY <3>1, <3>2 DEF DlOK
      <4> QED
        BY <3>2, <4>1 DEF Touches, Local
    <3> QED
      BY <3>1, <3>2 DEF DlOK
  <2> QED
    BY <2>1, <2>2
<1>4. ASSUME NEW r \in Req
      PROVE  RcptOK(n, r)'
  <2>1. RcptOK(m, r)' /\ n.rcpt = m.rcpt
    BY DEF MemOK, Touches
  <2>2. m.dl[r].state # "NONE" => n.dl[r].state # "NONE"
    BY DEF Touches, Local
  <2>3. \A q \in Req : m.ctx[q].run # 0 => n.ctx[q].run # 0
    BY DEF Touches, Local
  <2> QED
    BY <2>1, <2>2, <2>3 DEF RcptOK
<1>5. ASSUME NEW run \in runs'
      PROVE  RunOK(n, run)'
  <2>1. run.p \in Req /\ RunOK(m, run)'
    BY DEF TypeOK, MemOK
  <2>2. CASE run.p = p
    BY <2>2 DEF Local
  <2>3. CASE run.p # p
    BY <2>1, <2>3 DEF RunOK, Touches
  <2> QED
    BY <2>2, <2>3
<1> QED
  BY <1>1, <1>2, <1>3, <1>4, <1>5 DEF MemOK

LEMMA Dressed ==
  ASSUME TypeOK', NEW m, NEW n, m \in Memory, NEW p \in Req, Dresses(m, n, p), MemOK(m)', ~ Fresh(p)'
  PROVE  MemOK(n)'
<1>1. Touches(m, n, p, {}) /\ Same(n.ctx[p], m.ctx[p]) /\ CtxOK(m, p)'
  BY DEF Dresses, MemOK
<1>2. n.dl = m.dl
  BY <1>1 DEF Touches, Memory
<1>3. CtxOK(n, p)'
  BY <1>1, <1>2 DEF CtxOK, Same
<1>4. (\A d \in Req : Held(d) /\ PrepOf(d) = p => n.ctx[p].active = d)'
  BY <1>1 DEF MemOK, DlOK, Same
<1>5. (\A run \in runs : run.p = p => RunOK(n, run))'
  BY <1>1 DEF MemOK, RunOK, Same
<1> QED
  BY <1>1, <1>3, <1>4, <1>5, Touched DEF Local, Same

LEMMA Marked ==
  ASSUME TypeOK', NEW m, NEW n, m \in Memory, NEW p \in Req, NEW d \in Req,
         NEW state, NEW resp, NEW fmt, NEW proc, Marks(m, n, p, d, state, resp, fmt, proc), MemOK(m)',
         ~ Fresh(p)', PrepOf(d)' = p, state # "NONE",
         resp # "none" => xs'[d].at = "done",
         Unhanded(d)' \/ state \notin {"RESERVED", "FAILED"},
         d \in acked' => resp # "none" /\ (proc # "none" \/ CancelRan(p)'),
         m.ctx[p].agree = "DISCUSSING" \/ (resp = m.dl[d].resp /\ fmt = m.dl[d].fmt)
  PROVE  MemOK(n)'
<1>1. Touches(m, n, p, {d}) /\ Same(n.ctx[p], m.ctx[p]) /\ CtxOK(m, p)' /\ DlOK(m, d)'
  BY DEF Marks, MemOK
<1>2. n.dl[d].state = state /\ n.dl[d].resp = resp /\ n.dl[d].fmt = fmt /\ n.dl[d].proc = proc
  BY DEF Marks
<1>3. CtxOK(n, p)'
  <2>1. \A e \in Req : e # d => n.dl[e] = m.dl[e]
    BY <1>1 DEF Touches
  <2>2. ASSUME m.ctx[p].agree # "DISCUSSING"
        PROVE  n.dl[m.ctx[p].agreed].resp = m.dl[m.ctx[p].agreed].resp /\ n.dl[m.ctx[p].agreed].fmt = m.dl[m.ctx[p].agreed].fmt
    <3>1. m.ctx[p].agreed \in Req
      BY <1>1, <2>2 DEF CtxOK, TypeOK
    <3> QED
      BY <1>2, <2>1, <2>2, <3>1
  <2> QED
    BY <1>1, <2>2 DEF CtxOK, Same
<1>4. (\A e \in Req : Held(e) /\ PrepOf(e) = p => n.ctx[p].active = e)'
  BY <1>1 DEF MemOK, DlOK, Same
<1>5. (\A run \in runs : run.p = p => RunOK(n, run))'
  BY <1>1 DEF MemOK, RunOK, Same
<1>6. DlOK(n, d)'
  BY <1>1, <1>2, <1>4 DEF DlOK
<1> QED
  BY <1>1, <1>2, <1>3, <1>4, <1>5, <1>6, Touched DEF Local, Same

LEMMA CaughtOK ==
  ASSUME TypeOK', NEW m, NEW n, m \in Memory, NEW p \in Req, NEW d, NEW refused, Catches(m, n, p, d, refused), MemOK(m)',
         Delivers(d, p)', ~ Fresh(p)', refused => Unhanded(d)',
         m.dl[d].state = "RESERVED" \/ refused => m.ctx[p].active = d
  PROVE  MemOK(n)'
<1>1. Touches(m, n, p, {d}) /\ CtxOK(m, p)' /\ DlOK(m, d)' /\ d \in Req /\ PrepOf(d)' = p
  BY DEF Catches, MemOK, Delivers
<1>2. /\ n.dl[d].resp = m.dl[d].resp /\ n.dl[d].fmt = m.dl[d].fmt /\ n.dl[d].proc = m.dl[d].proc
      /\ n.dl[d].state \in {"FAILED", "RESPONSE_COMPLETED", "RECOVERY_REQUIRED"}
      /\ n.dl[d].state = "FAILED" => m.dl[d].state = "RESERVED" \/ refused
  BY DEF Catches
<1>3. /\ n.ctx[p].agree = m.ctx[p].agree /\ n.ctx[p].agreed = m.ctx[p].agreed
      /\ n.ctx[p].reserved = m.ctx[p].reserved /\ n.ctx[p].run = m.ctx[p].run /\ n.ctx[p].active = m.ctx[p].active
      /\ n.ctx[p].life = m.ctx[p].life \/ (n.ctx[p].life = "ACTIVE" /\ m.ctx[p].active = d)
  BY DEF Catches
<1>4. d # 0 /\ d \in Req
  BY <1>1, Numbers
<1>5. CtxOK(n, p)'
  <2>1. \A e \in Req : e # d => n.dl[e] = m.dl[e]
    BY <1>1 DEF Touches
  <2>2. ASSUME m.ctx[p].agree # "DISCUSSING"
        PROVE  n.dl[m.ctx[p].agreed].resp = m.dl[m.ctx[p].agreed].resp /\ n.dl[m.ctx[p].agreed].fmt = m.dl[m.ctx[p].agreed].fmt
    <3>1. m.ctx[p].agreed \in Req
      BY <1>1, <2>2 DEF CtxOK, TypeOK
    <3> QED
      BY <1>2, <2>1, <3>1
  <2> QED
    BY <1>1, <1>3, <1>4, <2>2 DEF CtxOK
<1>6. (\A e \in Req : Held(e) /\ PrepOf(e) = p => n.ctx[p].active = e)'
  BY <1>1, <1>3 DEF MemOK, DlOK
<1>7. (\A run \in runs : run.p = p => RunOK(n, run))'
  BY <1>1, <1>3, <1>4 DEF MemOK, RunOK, CtxOK
<1>8. n.dl[d].state = "FAILED" => Unhanded(d)'
  BY <1>1, <1>2 DEF DlOK
<1>9. DlOK(n, d)'
  BY <1>1, <1>2, <1>6, <1>8 DEF DlOK
<1> QED
  BY <1>1, <1>2, <1>3, <1>5, <1>6, <1>7, <1>9, Touched DEF Local

LEMMA AgreedOK ==
  ASSUME TypeOK', NEW m, NEW n, m \in Memory, NEW p \in Req, NEW d, Agrees(m, n, p, d), MemOK(m)',
         Delivers(d, p)', ~ Fresh(p)', ~ Held(d)', d \in acked', m.ctx[p].active = d, m.dl[d].fmt = "CONFIRMED"
  PROVE  MemOK(n)'
<1>1. Touches(m, n, p, {d}) /\ CtxOK(m, p)' /\ DlOK(m, d)' /\ d \in Req /\ PrepOf(d)' = p /\ d # 0
  BY Numbers DEF Agrees, MemOK, Delivers
<1>2. /\ n.dl[d].resp = m.dl[d].resp /\ n.dl[d].fmt = m.dl[d].fmt /\ n.dl[d].proc = "COMPLETE"
      /\ n.dl[d].state = "ACKNOWLEDGED"
  BY DEF Agrees
<1>3. /\ n.ctx[p].agree \in {"READY", "DISCUSSING"} /\ (n.ctx[p].agree = "READY" => m.dl[d].resp = "ready")
      /\ n.ctx[p].agreed = d /\ n.ctx[p].active = 0
      /\ n.ctx[p].reserved = m.ctx[p].reserved /\ n.ctx[p].run = m.ctx[p].run
  BY DEF Agrees
<1>4. m.ctx[p].reserved = 0 /\ m.ctx[p].agree = "DISCUSSING"
  BY <1>1 DEF CtxOK
<1>5. CtxOK(n, p)'
  BY <1>1, <1>2, <1>3, <1>4 DEF CtxOK
<1>6. (\A e \in Req : Held(e) /\ PrepOf(e) = p => n.ctx[p].active = e)'
  BY <1>1 DEF MemOK, DlOK
<1>7. (\A run \in runs : run.p = p => RunOK(n, run))'
  BY <1>4 DEF MemOK, RunOK
<1>8. DlOK(n, d)'
  BY <1>1, <1>2 DEF DlOK
<1> QED
  BY <1>1, <1>2, <1>3, <1>5, <1>6, <1>7, <1>8, Touched DEF Local

LEMMA AbandonedOK ==
  ASSUME TypeOK', NEW m, NEW n, m \in Memory, NEW p \in Req, NEW D, Abandons(m, n, p, D), MemOK(m)',
         \A d \in D : d \in Req /\ PrepOf(d)' = p,
         ~ Fresh(p)', m.ctx[p].agree # "APPROVED", m.ctx[p].active # 0 => ~ Held(m.ctx[p].active)'
  PROVE  MemOK(n)'
<1>1. Touches(m, n, p, D) /\ CtxOK(m, p)'
  BY DEF Abandons, MemOK
<1>2. \A d \in D : d \in Req /\ n.dl[d].resp = m.dl[d].resp /\ n.dl[d].fmt = m.dl[d].fmt /\ n.dl[d].proc = m.dl[d].proc
                   /\ n.dl[d].state \in {"ACKNOWLEDGED", "RECOVERY_DISCARDED"}
  BY DEF Abandons
<1>3. /\ n.ctx[p].agree = m.ctx[p].agree /\ n.ctx[p].agreed = m.ctx[p].agreed /\ n.ctx[p].active = 0
      /\ n.ctx[p].reserved = m.ctx[p].reserved /\ n.ctx[p].run = m.ctx[p].run
  BY DEF Abandons
<1>4. \A e \in Req : n.dl[e].resp = m.dl[e].resp /\ n.dl[e].fmt = m.dl[e].fmt
  BY <1>1, <1>2 DEF Touches
<1>5. CtxOK(n, p)'
  BY <1>1, <1>3, <1>4 DEF CtxOK, TypeOK
<1>6. ASSUME NEW e \in Req, Held(e)', PrepOf(e)' = p
      PROVE  FALSE
  <2>1. m.ctx[p].active = e
    BY <1>6 DEF MemOK, DlOK
  <2> QED
    BY <1>6, <2>1, Numbers
<1>7. (\A run \in runs : run.p = p => RunOK(n, run))'
  BY DEF MemOK, RunOK
<1>8. ASSUME NEW d \in D
      PROVE  DlOK(n, d)'
  <2>1. d \in Req /\ DlOK(m, d)' /\ ~ Held(d)'
    BY <1>6 DEF MemOK
  <2>2. n.dl[d].resp = m.dl[d].resp /\ n.dl[d].proc = m.dl[d].proc /\ n.dl[d].state \in {"ACKNOWLEDGED", "RECOVERY_DISCARDED"}
    BY <1>2
  <2> QED
    BY <2>1, <2>2 DEF DlOK
<1> QED
  BY <1>1, <1>2, <1>3, <1>5, <1>6, <1>7, <1>8, Touched DEF Local

LEMMA ApprovedOK ==
  ASSUME TypeOK', NEW m, NEW n, m \in Memory, NEW p \in Req, NEW r, Approves(m, n, p, r), MemOK(m)',
         ~ Fresh(p)', m.ctx[p].agree \in {"READY", "APPROVED"}, m.ctx[p].reserved # 0 => r = m.ctx[p].reserved
  PROVE  MemOK(n)'
<1>1. Touches(m, n, p, {}) /\ CtxOK(m, p)'
  BY DEF Approves, MemOK
<1>2. /\ n.ctx[p].agree = "APPROVED" /\ n.ctx[p].reserved = r /\ n.ctx[p].life = m.ctx[p].life
      /\ n.ctx[p].agreed = m.ctx[p].agreed /\ n.ctx[p].active = m.ctx[p].active /\ n.ctx[p].run = m.ctx[p].run
  BY DEF Approves
<1>3. n.dl = m.dl /\ m.ctx[p].active = 0
  BY <1>1 DEF Touches, Memory, CtxOK
<1>4. CtxOK(n, p)'
  BY <1>1, <1>2, <1>3 DEF CtxOK
<1>5. (\A d \in Req : Held(d) /\ PrepOf(d) = p => n.ctx[p].active = d)'
  BY <1>2 DEF MemOK, DlOK
<1>6. (\A run \in runs : run.p = p => RunOK(n, run))'
  BY <1>2, Numbers DEF MemOK, RunOK, TypeOK
<1> QED
  BY <1>1, <1>2, <1>4, <1>5, <1>6, Touched DEF Local

LEMMA AdoptedOK ==
  ASSUME TypeOK', NEW m, NEW n, m \in Memory, NEW p \in Req, Adopts(m, n, p), MemOK(m)',
         ~ Fresh(p)', m.ctx[p].reserved # 0
  PROVE  MemOK(n)'
<1>1. Touches(m, n, p, {}) /\ CtxOK(m, p)'
  BY DEF Adopts, MemOK
<1>2. /\ n.ctx[p].agree = "APPROVED" /\ n.ctx[p].run = m.ctx[p].reserved /\ n.ctx[p].life = "COMPLETED"
      /\ n.ctx[p].agreed = m.ctx[p].agreed /\ n.ctx[p].active = m.ctx[p].active /\ n.ctx[p].reserved = m.ctx[p].reserved
  BY DEF Adopts
<1>3. n.dl = m.dl /\ m.ctx[p].agree = "APPROVED" /\ m.ctx[p].active = 0
  BY <1>1 DEF Touches, Memory, CtxOK
<1>4. CtxOK(n, p)'
  BY <1>1, <1>2, <1>3 DEF CtxOK
<1>5. (\A d \in Req : Held(d) /\ PrepOf(d) = p => n.ctx[p].active = d)'
  BY <1>2 DEF MemOK, DlOK
<1>6. (\A run \in runs : run.p = p => RunOK(n, run))'
  BY <1>2 DEF MemOK, RunOK
<1> QED
  BY <1>1, <1>2, <1>4, <1>5, <1>6, Touched DEF Local

LEMMA ReservedOK ==
  ASSUME TypeOK', NEW m, NEW n, m \in Memory, NEW p \in Req, NEW d, Reserves(m, n, p, d), MemOK(m)',
         Delivers(d, p)', ~ Fresh(p)', Unhanded(d)', d \notin acked', m.ctx[p].active = 0,
         m.ctx[p].agree # "APPROVED", m.ctx[p].life # "ABANDONED"
  PROVE  MemOK(n)'
<1>1. Touches(m, n, p, {d}) /\ CtxOK(m, p)' /\ DlOK(m, d)' /\ d \in Req /\ PrepOf(d)' = p /\ d # 0
  BY Numbers DEF Reserves, MemOK, Delivers
<1>2. n.dl[d].resp = "none" /\ n.dl[d].state = "RESERVED"
  BY DEF Reserves
<1>3. /\ n.ctx[p].agree = "DISCUSSING" /\ n.ctx[p].active = d /\ n.ctx[p].life = m.ctx[p].life
      /\ n.ctx[p].reserved = m.ctx[p].reserved /\ n.ctx[p].run = m.ctx[p].run
  BY DEF Reserves
<1>4. m.ctx[p].reserved = 0
  BY <1>1 DEF CtxOK
<1>5. CtxOK(n, p)'
  BY <1>1, <1>3, <1>4 DEF CtxOK
<1>6. ASSUME NEW e \in Req, Held(e)', PrepOf(e)' = p
      PROVE  FALSE
  <2>1. m.ctx[p].active = e
    BY <1>6 DEF MemOK, DlOK
  <2> QED
    BY <2>1, Numbers
<1>7. (\A run \in runs : run.p = p => RunOK(n, run))'
  BY DEF MemOK, RunOK
<1>8. DlOK(n, d)'
  BY <1>1, <1>2, <1>6 DEF DlOK
<1> QED
  BY <1>1, <1>2, <1>3, <1>5, <1>6, <1>7, <1>8, Touched DEF Local

LEMMA BegunOK ==
  ASSUME TypeOK', NEW m, NEW n, m \in Memory, NEW r \in Req, Begins(m, n, r), MemOK(m)',
         m.ctx[r] = NoCtx, xs'[r].at = "none", x'.owner # r, asked'[r].type = "start", ~ Fresh(r)'
  PROVE  MemOK(n)'
<1>1. PrepOf(r)' = r /\ r # 0 /\ Delivers(r, r)'
  BY Numbers DEF PrepOf, Delivers
<1>2. \A q \in Req : q # r => n.ctx[q] = m.ctx[q] /\ n.dl[q] = m.dl[q]
  BY DEF Begins
<1>3. n.ctx[r].agree = "DISCUSSING" /\ n.ctx[r].active = r /\ n.ctx[r].life = "ACTIVE" /\ n.ctx[r].reserved = 0
      /\ n.dl[r].state = "RESERVED" /\ n.dl[r].resp = "none" /\ n.cur = r /\ n.rcpt = m.rcpt
  BY DEF Begins
<1>4. m.ctx[r].active = 0 /\ m.ctx[r].run = 0 /\ m.ctx[r].agree = "DISCUSSING" /\ m.ctx[r].reserved = 0
  BY DEF NoCtx
<1>5. r \notin acked'
  BY DEF MemOK, DlOK
<1>6. ASSUME NEW q \in Req
      PROVE  CtxOK(n, q)'
  <2>1. CASE q = r
    BY <1>1, <1>3, <2>1 DEF CtxOK
  <2>2. CASE q # r
    <3>1. CtxOK(m, q)' /\ n.ctx[q] = m.ctx[q]
      BY <1>2, <2>2 DEF MemOK
    <3>2. ASSUME m.ctx[q].agree # "DISCUSSING"
          PROVE  n.dl[m.ctx[q].agreed] = m.dl[m.ctx[q].agreed]
      BY <1>2, <1>5, <3>1, <3>2 DEF CtxOK, TypeOK
    <3> QED
      BY <3>1, <3>2 DEF CtxOK
  <2> QED
    BY <2>1, <2>2
<1>7. ASSUME NEW d \in Req
      PROVE  DlOK(n, d)'
  <2>1. CASE d = r
    <3>1. Unhanded(r)' /\ ~ Held(r)'
      BY DEF Unhanded, Held
    <3> QED
      BY <1>3, <1>5, <2>1, <3>1 DEF DlOK
  <2>2. CASE d # r
    <3>1. DlOK(m, d)' /\ n.dl[d] = m.dl[d]
      BY <1>2, <2>2 DEF MemOK
    <3>2. ASSUME Held(d)'
          PROVE  n.ctx[PrepOf(d)'].active = d
      BY <1>2, <1>4, <3>1, <3>2, Numbers DEF DlOK
    <3> QED
      BY <3>1, <3>2 DEF DlOK
  <2> QED
    BY <2>1, <2>2
<1>8. ASSUME NEW q \in Req
      PROVE  RcptOK(n, q)'
  <2>1. RcptOK(m, q)' /\ n.rcpt = m.rcpt
    BY <1>3 DEF MemOK
  <2>2. m.dl[q].state # "NONE" => n.dl[q].state # "NONE"
    BY <1>2, <1>3
  <2>3. \A p \in Req : m.ctx[p].run # 0 => n.ctx[p].run # 0
    BY <1>2, <1>4
  <2> QED
    BY <2>1, <2>2, <2>3 DEF RcptOK
<1>9. ASSUME NEW run \in runs'
      PROVE  RunOK(n, run)'
  BY <1>2, <1>4 DEF MemOK, TypeOK, RunOK
<1> QED
  BY <1>1, <1>3, <1>6, <1>7, <1>8, <1>9 DEF MemOK, Delivers

LEMMA RecoveredOK ==
  ASSUME TypeOK', NEW m, NEW n, m \in Memory, Recovers(m, n), MemOK(m)'
  PROVE  MemOK(n)'
<1>1. n.cur = m.cur /\ n.dl = m.dl /\ n.rcpt = m.rcpt
      /\ \A p \in Req : Same(n.ctx[p], m.ctx[p]) /\ (m.ctx[p] = NoCtx => n.ctx[p] = NoCtx)
  BY DEF Recovers
<1>2. ASSUME NEW q \in Req
      PROVE  CtxOK(n, q)'
  BY <1>1 DEF MemOK, CtxOK, Same
<1>3. ASSUME NEW d \in Req
      PROVE  DlOK(n, d)'
  BY <1>1 DEF MemOK, DlOK, Same
<1>4. ASSUME NEW q \in Req
      PROVE  RcptOK(n, q)'
  BY <1>1 DEF MemOK, RcptOK, Same
<1>5. ASSUME NEW run \in runs'
      PROVE  RunOK(n, run)'
  BY <1>1 DEF MemOK, RunOK, Same, TypeOK
<1> QED
  BY <1>1, <1>2, <1>3, <1>4, <1>5 DEF MemOK

(* No answer is lost from the memory, and none is confirmed.                *)
Grows(m, n) ==
  \A d \in Req : (m.dl[d].resp # "none" => n.dl[d].resp # "none") /\ (n.dl[d].fmt = "CONFIRMED" => m.dl[d].fmt = "CONFIRMED")

LEMMA ConfirmedStays ==
  ASSUME Confirmed, Grows(mem, mem'), disk' = disk \/ disk' = mem \/ disk' = mem'
  PROVE  Confirmed'
  BY DEF Confirmed, Grows

-----------------------------------------------------------------------------
(* The threads that do not act                                              *)

(* A step leaves job q what it goes on from.                                *)
JobKept(q) ==
  LET d == th[q].d IN
  th[q].pc # "idle" =>
    /\ mem'.ctx[q].active = mem.ctx[q].active
    /\ mem.dl[d].resp # "none" => mem'.dl[d].resp # "none"
    /\ mem.dl[d].fmt = "CONFIRMED" => mem'.dl[d].fmt = "CONFIRMED"
    /\ mem.dl[d].proc # "none" => mem'.dl[d].proc # "none"
    /\ th[q].pc \in Starting => Unhanded(d)' /\ mem'.dl[d].state = mem.dl[d].state
    /\ disk.dl[d].proc # "none" /\ mem.dl[d].proc # "none" => disk'.dl[d].proc # "none"

LEMMA JobStays ==
  ASSUME TypeOK, Requests, Frame, NEW q \in Req, JobOK(q), th'[q] = th[q], JobKept(q)
  PROVE  JobOK(q)'
<1>1. CASE th[q].pc = "idle"
  BY <1>1 DEF JobOK, Settles, Checking, Acking, Starting
<1>2. CASE th[q].pc # "idle"
  <2>1. Delivers(th[q].d, q) /\ th[q].p = q
    BY <1>2 DEF JobOK
  <2>5. Delivers(th[q].d, q)'
    <3>1. PICK d : d = th[q].d
      OBVIOUS
    <3>2. Delivers(d, q)'
      BY <2>1, <3>1, DeliversStays
    <3> QED
      BY <3>1, <3>2
  <2>2. (Delivers(th[q].d, q))'
    BY <2>5
  <2>3. th[q].d \in acked => th[q].d \in acked'
    BY <2>1 DEF Delivers, Frame
  <2>4. Settles(q)'
    BY <1>2, <2>3 DEF JobOK, Settles, JobKept, Acking
  <2>6. (th[q].pc \in JobPcs /\ th[q].p = q)'
    BY <1>2 DEF JobOK
  <2>7. (th[q].pc \notin {"idle", "catch", "c_settled"} => mem.ctx[q].active = th[q].d)'
    BY <1>2 DEF JobOK, JobKept
  <2>8. (th[q].pc \in Starting => Unhanded(th[q].d))'
    BY <1>2 DEF JobKept, Unhanded
  <2>9. (th[q].pc = "submit" => mem.dl[th[q].d].state = "DISPATCHING")'
    BY <1>2 DEF JobOK, JobKept, Starting
  <2>10. (th[q].pc = "stored" => mem.dl[th[q].d].resp # "none")'
    BY <1>2 DEF JobOK, JobKept
  <2> QED
    BY <2>2, <2>4, <2>6, <2>7, <2>8, <2>9, <2>10 DEF JobOK
<1> QED
  BY <1>1, <1>2

(* What a step leaves the command                                           *)
CmdKept ==
  LET c == th[Cmd]  p == th[Cmd].p  d == th[Cmd].d IN
  /\ mem'.cur = mem.cur
  /\ asked' = asked /\ dispatched' = dispatched
  /\ c.req \in Req =>
       /\ mem.rcpt[c.req] # "NONE" => mem'.rcpt[c.req] # "NONE"
       /\ mem.rcpt[c.req] # "NONE" /\ disk.rcpt[c.req] # "NONE" => disk'.rcpt[c.req] # "NONE"
       /\ mem.dl[c.req].state # "NONE" => mem'.dl[c.req].state # "NONE"
       /\ asked[c.req].p \in Req /\ mem.ctx[asked[c.req].p].run # 0 => mem'.ctx[asked[c.req].p].run # 0
  /\ d \in Req => (mem.dl[d].resp # "none" => mem'.dl[d].resp # "none")
  /\ p \in Req /\ mem.ctx[p].run # 0 => mem'.ctx[p].run # 0
  /\ Alone /\ p \in Req =>
       /\ JobIdle(p)'
       /\ mem'.ctx[p].active = mem.ctx[p].active /\ mem'.ctx[p].reserved = mem.ctx[p].reserved
       /\ mem'.ctx[p].agreed = mem.ctx[p].agreed
       /\ mem.ctx[p].agree \in {"READY", "APPROVED"} => mem'.ctx[p].agree \in {"READY", "APPROVED"}
       /\ mem.ctx[p].life # "ABANDONED" => mem'.ctx[p].life # "ABANDONED"
       /\ c.pc = "reserve" => mem'.dl[c.req].state = "RESERVED"
       /\ c.pc = "a_run" => LET e == disk'.ctx[p] IN
            e.reserved = mem.ctx[p].reserved /\ e.agree = "APPROVED" /\ e.life # "ABANDONED" /\ e.agreed = mem.ctx[p].agreed
       /\ c.pc \in Owning /\ d \in Req =>
            /\ mem.dl[d].fmt = "CONFIRMED" => mem'.dl[d].fmt = "CONFIRMED"
            /\ mem.dl[d].proc # "none" => mem'.dl[d].proc # "none"
            /\ disk.dl[d].proc # "none" /\ mem.dl[d].proc # "none" => disk'.dl[d].proc # "none"
            /\ xs[d].at \in {"done", "quiet"} => xs'[d].at \in {"done", "quiet"}
            /\ c.pc \in Rebinding => Unhanded(d)'

LEMMA CmdStays ==
  ASSUME TypeOK, Requests, Frame, Cmds, th'[Cmd] = th[Cmd], CmdKept
  PROVE  Cmds'
<1> DEFINE c == th[Cmd]
<1>1. th[Cmd] = th'[Cmd] /\ asked' = asked /\ dispatched' = dispatched
  BY DEF CmdKept
<1>2. Type' = Type /\ (Alone <=> Alone')
  BY <1>1 DEF Type, Alone
<1>3. Running'
  BY <1>1, <1>2 DEF Cmds, Running, CmdKept
<1>4. Typed'
  BY <1>1, <1>2 DEF Cmds, Typed
<1>5. c.pc \notin {"idle", "claim", "dispatch", "start", "finish", "refused", "save"} => c.p \in Req /\ c.req \in Req
  BY DEF Cmds, Running
<1>6. Alone => c.p \in Req
  BY <1>5 DEF Alone, Owning, Checking, Acking, Discarding, Cancelling, Rebinding, Approving, Looking
<1>8. Holding'
  <2>1. (Alone => JobIdle(th[Cmd].p))'
    BY <1>1, <1>2, <1>6 DEF CmdKept
  <2>2. (c.pc = "reserve" => mem.ctx[c.p].active = c.req /\ mem.dl[c.req].state = "RESERVED")'
    BY <1>1, <1>6 DEF Cmds, Holding, CmdKept, Alone
  <2>3. ((c.pc \in Owning) \/ (c.pc \in Looking /\ Type = "reconcile") => c.d \in Req /\ mem.ctx[c.p].active = c.d)'
    BY <1>1, <1>2, <1>6 DEF Cmds, Holding, CmdKept, Alone
  <2>4. (c.pc \in Looking => (c.d # 0 => Delivers(c.d, c.p)))'
    BY <1>1, DeliversStays DEF Cmds, Holding
  <2>5. (c.pc = "w_seen" => (c.got # "none" => c.d \in Req /\ xs[c.d].at = "done"))'
    BY <1>1 DEF Cmds, Holding, Frame
  <2>6. (c.pc \in {"w_resume", "w_rebound"} => mem.dl[c.d].resp # "none")'
    BY <1>1, <1>2 DEF Cmds, Holding, CmdKept, Looking, Typed
  <2>7. (c.pc = "c_settled" => c.d \in Req)'
    BY <1>1 DEF Cmds, Holding
  <2>8. (c.pc = "k_ack" => mem.dl[c.d].fmt = "CONFIRMED")'
    BY <1>1, <1>6 DEF Cmds, Holding, CmdKept, Alone, Owning, Cancelling
  <2>9. (c.pc = "k_confirm" => c.d \in acked)'
    BY <1>1 DEF Cmds, Holding, Frame, Owning, Cancelling
  <2>10. (c.pc \in {"d_intent", "d_web"} => xs[c.d].at \in {"done", "quiet"})'
    BY <1>1, <1>6 DEF Cmds, Holding, CmdKept, Alone, Owning, Discarding
  <2>11. (c.pc \in Rebinding => Unhanded(c.d))'
    BY <1>1, <1>6 DEF Cmds, Holding, CmdKept, Alone, Owning
  <2>12. Settles(Cmd)'
    <3>1. (c.pc \in Checking \cup {"c_settled"} => mem.dl[c.d].resp # "none")'
      BY <1>1 DEF Cmds, Holding, CmdKept, Settles, Owning
    <3>2. (c.pc \in Acking => mem.dl[c.d].fmt = "CONFIRMED" /\ mem.dl[c.d].proc # "none")'
      BY <1>1, <1>6 DEF Cmds, Holding, CmdKept, Settles, Alone, Owning, Checking
    <3>3. (c.pc = "c_acking" => disk.dl[c.d].proc # "none")'
      BY <1>1, <1>6 DEF Cmds, Holding, CmdKept, Settles, Alone, Owning, Checking, Acking
    <3>4. (c.pc = "c_confirm" => c.d \in acked)'
      BY <1>1 DEF Cmds, Holding, Settles, Frame, Owning, Checking, Acking
    <3> QED
      BY <3>1, <3>2, <3>3, <3>4 DEF Settles
  <2> QED
    BY <2>1, <2>2, <2>3, <2>4, <2>5, <2>6, <2>7, <2>8, <2>9, <2>10, <2>11, <2>12 DEF Holding
<1>9. Approval'
  <2>1. (c.pc \in Approving => mem.ctx[c.p].agree \in {"READY", "APPROVED"} /\ mem.ctx[c.p].life # "ABANDONED")'
    BY <1>1, <1>6 DEF Cmds, Approval, CmdKept, Alone
  <2>2. (c.pc \in Approving \ {"a_start"} => mem.ctx[c.p].reserved # 0)'
    BY <1>1, <1>6 DEF Cmds, Approval, CmdKept, Alone
  <2>3. (c.pc = "a_run" => LET e == disk.ctx[c.p] IN
       e.reserved = mem.ctx[c.p].reserved /\ e.agree = "APPROVED" /\ e.life # "ABANDONED" /\ e.agreed = mem.ctx[c.p].agreed)'
    BY <1>1, <1>6 DEF Cmds, Approval, CmdKept, Alone, Approving
  <2>4. (c.pc = "a_done" => mem.ctx[c.p].run # 0)'
    BY <1>1, <1>6 DEF Cmds, Approval, CmdKept, Alone, Approving
  <2>5. (c.pc \in {"save", "finish"} /\ Type = "approve" => asked[c.req].p \in Req /\ mem.ctx[asked[c.req].p].run # 0)'
    BY <1>1, <1>2 DEF Cmds, Approval, CmdKept, Running
  <2>6. (c.pc = "finish" /\ Type \in {"start", "reply"} => mem.dl[c.req].state # "NONE")'
    BY <1>1, <1>2 DEF Cmds, Approval, CmdKept, Running
  <2> QED
    BY <2>1, <2>2, <2>3, <2>4, <2>5, <2>6 DEF Approval
<1> QED
  BY <1>3, <1>4, <1>8, <1>9 DEF Cmds

-----------------------------------------------------------------------------
(* A step of thread t for preparation p and its deliveries D                *)
Acts(t, p, D) ==
  /\ Touches(mem, mem', p, D)
  /\ \A d \in D : d \in Req => PrepOf(d) = p
  /\ disk' = disk \/ disk' = mem \/ disk' = mem'
  /\ \A u \in Threads : u # t => th'[u] = th[u]
  /\ \A d \in Req :
       /\ Unhanded(d) /\ PrepOf(d) # p => Unhanded(d)'
       /\ xs[d].at \in {"done", "quiet"} => xs'[d].at \in {"done", "quiet"}
       /\ mem.dl[d].resp # "none" => mem'.dl[d].resp # "none"
       /\ mem.dl[d].state # "NONE" => mem'.dl[d].state # "NONE"
       /\ mem.ctx[d].run # 0 => mem'.ctx[d].run # 0

LEMMA Others ==
  ASSUME IInv, Frame, NEW p \in Req, NEW t \in {p, Cmd}, NEW D, Acts(t, p, D), t = Cmd => JobIdle(p)
  PROVE  \A q \in Req : q # t => JobOK(q)'
<1> SUFFICES ASSUME NEW q \in Req, q # t
             PROVE  JobOK(q)'
  OBVIOUS
<1>1. JobOK(q) /\ th'[q] = th[q] /\ TypeOK /\ Requests
  BY DEF IInv, Jobs, Acts, Threads
<1>2. JobKept(q)
  <2>1. CASE th[q].pc = "idle"
    BY <2>1 DEF JobKept
  <2>2. CASE th[q].pc # "idle"
    <3>1. q # p /\ th[q].d \in Req /\ PrepOf(th[q].d) = q
      BY <1>1, <2>2 DEF JobOK, Delivers, JobIdle, At
    <3>2. mem'.ctx[q] = mem.ctx[q] /\ mem'.dl[th[q].d] = mem.dl[th[q].d]
      BY <3>1 DEF Acts, Touches
    <3>3. th[q].pc \in Starting => Unhanded(th[q].d)'
      <4>1. PICK d \in Req : d = th[q].d
        BY <3>1
      <4>2. th[q].pc \in Starting => Unhanded(d)
        BY <1>1, <4>1 DEF JobOK
      <4>3. th[q].pc \in Starting => Unhanded(d)'
        BY <3>1, <4>1, <4>2 DEF Acts
      <4> QED
        BY <1>1, <4>1, <4>3
    <3>4. disk.dl[th[q].d].proc # "none" /\ mem.dl[th[q].d].proc # "none" => disk'.dl[th[q].d].proc # "none"
      BY <3>2 DEF Acts
    <3> QED
      BY <1>1, <3>2, <3>3, <3>4 DEF JobKept
  <2> QED
    BY <2>1, <2>2
<1> QED
  BY <1>1, <1>2, JobStays

LEMMA Idles ==
  ASSUME NEW q \in Req, th'[q].pc = "idle"
  PROVE  JobOK(q)'
  BY DEF JobOK, JobPcs, Settles, Starting, Checking, Acking

LEMMA CmdAside ==
  ASSUME IInv, Frame, NEW p \in Req, NEW D, Acts(p, p, D), ~ JobIdle(p), asked' = asked, dispatched' = dispatched
  PROVE  Cmds'
<1> DEFINE c == th[Cmd]
<1>1. TypeOK /\ Requests /\ Cmds /\ th'[Cmd] = th[Cmd] /\ Cmd # p
  BY Numbers DEF IInv, Acts, Threads, Cmd
<1>2. Alone => c.p # p /\ c.p \in Req
  BY <1>1 DEF Cmds, Holding, Running, Alone, Owning, Checking, Acking, Discarding, Cancelling, Rebinding, Approving, Looking
<1>3. \A q \in Req : q # p => mem'.ctx[q] = mem.ctx[q]
  BY DEF Acts, Touches
<1>4. \A d \in Req : PrepOf(d) # p => mem'.dl[d] = mem.dl[d]
  BY DEF Acts, Touches
<1>5. mem'.cur = mem.cur /\ mem'.rcpt = mem.rcpt /\ (disk' = disk \/ disk' = mem \/ disk' = mem')
  BY DEF Acts, Touches
<1>6. ASSUME Alone
      PROVE  JobIdle(c.p)'
  <2>1. th'[c.p] = th[c.p] /\ JobIdle(c.p)
    BY <1>1, <1>2, <1>6 DEF Acts, Threads, Cmds, Holding
  <2> QED
    BY <1>1, <2>1 DEF JobIdle, At
<1>7. ASSUME c.pc = "reserve"
      PROVE  mem'.dl[c.req].state = "RESERVED"
  <2>1. c.req \in Req /\ mem.ctx[c.p].active = c.req /\ c.p \in Req /\ c.p # p /\ mem.dl[c.req].state = "RESERVED"
    BY <1>1, <1>2, <1>7 DEF Cmds, Holding, Running, Alone
  <2>2. Delivers(c.req, c.p)
    BY <2>1, Numbers DEF IInv, MemOK, CtxOK
  <2> QED
    BY <1>4, <2>1, <2>2 DEF Delivers
<1>8. ASSUME c.pc = "a_run"
      PROVE  LET e == disk'.ctx[c.p] IN
             e.reserved = mem.ctx[c.p].reserved /\ e.agree = "APPROVED" /\ e.life # "ABANDONED" /\ e.agreed = mem.ctx[c.p].agreed
  <2>1. Alone /\ mem.ctx[c.p].life # "ABANDONED" /\ mem.ctx[c.p].reserved # 0
    BY <1>1, <1>8 DEF Cmds, Approval, Approving, Alone
  <2>2. mem'.ctx[c.p] = mem.ctx[c.p] /\ mem.ctx[c.p].agree = "APPROVED"
    BY <1>2, <1>3, <2>1 DEF IInv, MemOK, CtxOK
  <2>3. LET e == disk.ctx[c.p] IN
             e.reserved = mem.ctx[c.p].reserved /\ e.agree = "APPROVED" /\ e.life # "ABANDONED" /\ e.agreed = mem.ctx[c.p].agreed
    BY <1>1, <1>8 DEF Cmds, Approval
  <2> QED
    BY <1>5, <2>1, <2>2, <2>3
<1>9. ASSUME c.pc \in Owning
      PROVE  /\ c.d \in Req /\ PrepOf(c.d) # p /\ mem'.dl[c.d] = mem.dl[c.d]
             /\ disk.dl[c.d].proc # "none" /\ mem.dl[c.d].proc # "none" => disk'.dl[c.d].proc # "none"
             /\ xs[c.d].at \in {"done", "quiet"} => xs'[c.d].at \in {"done", "quiet"}
             /\ c.pc \in Rebinding => Unhanded(c.d)'
  <2>1. c.d \in Req /\ mem.ctx[c.p].active = c.d /\ c.p # p /\ c.p \in Req
    BY <1>1, <1>2, <1>9 DEF Cmds, Holding, Alone
  <2>2. PrepOf(c.d) = c.p
    BY <2>1, Numbers DEF IInv, MemOK, CtxOK, Delivers
  <2>3. mem'.dl[c.d] = mem.dl[c.d]
    BY <1>4, <2>1, <2>2
  <2>4. c.pc \in Rebinding => Unhanded(c.d)'
    <3>1. PICK d \in Req : d = c.d
      BY <2>1
    <3>2. c.pc \in Rebinding => Unhanded(d)
      BY <1>1, <3>1 DEF Cmds, Holding
    <3>3. c.pc \in Rebinding => Unhanded(d)'
      BY <2>1, <2>2, <3>1, <3>2 DEF Acts
    <3> QED
      BY <1>1, <3>1, <3>3
  <2> QED
    BY <1>5, <2>1, <2>2, <2>3, <2>4 DEF Acts
<1>10. /\ \A d \in Req : (mem.dl[d].resp # "none" => mem'.dl[d].resp # "none") /\ (mem.dl[d].state # "NONE" => mem'.dl[d].state # "NONE")
       /\ \A q \in Req : mem.ctx[q].run # 0 => mem'.ctx[q].run # 0
  BY DEF Acts
<1>11. CmdKept
  BY <1>2, <1>3, <1>5, <1>6, <1>7, <1>8, <1>9, <1>10 DEF CmdKept
<1> QED
  BY <1>1, <1>11, CmdStays

(* The extension and the runs do nothing that the memory and the row would  *)
(* have to know.                                                            *)
Still ==
  /\ \A d \in Req : (Unhanded(d) => Unhanded(d)') /\ (Held(d)' => Held(d))
  /\ acked' = acked /\ runs' = runs
  /\ \A r \in Req : dispatched'[r] > 0 => dispatched[r] > 0 \/ (mem.rcpt[r] # "NONE" /\ disk.rcpt[r] # "NONE")

LEMMA Base ==
  ASSUME IInv, Frame, Still, NEW m, m = mem \/ m = disk
  PROVE  m \in Memory /\ MemOK(m) /\ MemOK(m)'
<1>1. m \in Memory /\ MemOK(m) /\ TypeOK /\ Requests
  BY DEF IInv, TypeOK, MemOK
<1>2. Suits(m)
  BY <1>1 DEF Still, Suits, MemOK
<1> QED
  BY <1>1, <1>2, Keeps

LEMMA Rows ==
  ASSUME IInv, Frame, Suits(mem), disk' = disk => Suits(disk), MemOK(mem)', disk' = disk \/ disk' = mem \/ disk' = mem'
  PROVE  MemOK(disk)'
<1>1. TypeOK /\ Requests
  BY DEF IInv
<1>2. CASE disk' = disk
  <2>1. PICK m : m = disk
    OBVIOUS
  <2>2. m \in Memory /\ MemOK(m) /\ Suits(m)
    BY <1>2, <2>1 DEF IInv, TypeOK, MemOK, Suits
  <2>3. MemOK(m)' /\ disk' = m
    BY <1>1, <1>2, <2>1, <2>2, Keeps
  <2> QED
    BY <2>3 DEF MemOK
<1>3. CASE disk' = mem
  <2>1. PICK m : m = mem
    OBVIOUS
  <2>2. m \in Memory /\ MemOK(m) /\ Suits(m)
    BY <1>2, <2>1 DEF IInv, TypeOK, MemOK, Suits
  <2>3. MemOK(m)' /\ disk' = m
    BY <1>1, <1>3, <2>1, <2>2, Keeps
  <2> QED
    BY <2>3 DEF MemOK
<1>4. CASE disk' = mem'
  BY <1>4 DEF MemOK, CtxOK, DlOK, RcptOK, RunOK
<1> QED
  BY <1>2, <1>3, <1>4

-----------------------------------------------------------------------------
(* How a step is put together                                               *)

(* The types of everything but the memory, the row and the threads          *)
WorldType ==
  /\ asked \in [Req -> [type : Types \cup {"none"}, p : 0 .. MaxReq]]
  /\ x \in [sess : 0 .. MaxReq, owner : 0 .. MaxReq, disc : 0 .. MaxReq]
  /\ xs \in [Req -> [at : {"none", "wire", "refused", "gen", "done", "quiet"}, held : Answers \cup {"none"}]]
  /\ runs \subseteq [id : Req, p : Req, of : 0 .. MaxReq, live : BOOLEAN]
  /\ faults \in 0 .. MaxFaults
  /\ typed \subseteq Req /\ resent \subseteq Req /\ acked \subseteq Req /\ dispatched \in [Req -> Nat]

LEMMA Types2 ==
  ASSUME mem' \in Memory, disk' \in Memory, th' \in [Threads -> Thread], WorldType'
  PROVE  TypeOK'
  BY DEF TypeOK, WorldType, Thread, ThreadPcs

(* The extension, the runs and the requests after the step                  *)
Sound == Frame /\ Suits(mem) /\ (disk' = disk => Suits(disk)) /\ World' /\ Requests' /\ WorldType'

LEMMA Suited ==
  ASSUME IInv, Frame, Still
  PROVE  Suits(mem) /\ Suits(disk)
  BY DEF IInv, MemOK, Still, Suits

(* A step of a thread that the extension and the runs know nothing of       *)
LEMMA Calm ==
  ASSUME IInv, NEW t \in Threads, t = Cmd \/ ~ JobIdle(t),
         \A u \in Threads : u # t => th'[u] = th[u],
         t = Cmd => th'[Cmd].pc # "start",
         UNCHANGED <<xs, runs, typed, resent, acked, asked, dispatched>>, x'.owner = x.owner /\ x'.disc = x.disc, WorldType'
  PROVE  Sound
<1>1. th'[Cmd] = th[Cmd] \/ th'[Cmd].pc # "start"
  BY DEF Threads
<1>2. \A r \in Req : Fresh(r)' => Fresh(r)
  BY <1>1 DEF Fresh, At
<1>3. Frame
  BY <1>2 DEF Frame
<1>4. Still
  BY DEF Still, Unhanded, Held
<1>5. World'
  BY DEF IInv, World
<1>6. Requests'
  <2>1. \A r \in Req : Fresh(r)' => Fresh(r) /\ xs[r].at = "none" /\ JobIdle(r) /\ r # t
    BY <1>2, Numbers DEF IInv, Requests, Cmd
  <2>2. \A r \in Req : Fresh(r)' => th'[r] = th[r]
    BY <2>1 DEF Threads
  <2> QED
    BY <2>1, <2>2 DEF IInv, Requests, JobIdle, At
<1> QED
  BY <1>3, <1>4, <1>5, <1>6, Suited DEF Sound

LEMMA WorldTyped ==
  ASSUME TypeOK, UNCHANGED <<asked, x, xs, runs, typed, resent, acked, dispatched>>,
         faults' = faults \/ (faults < MaxFaults /\ faults' = faults + 1)
  PROVE  WorldType'
<1>1. faults \in 0 .. MaxFaults /\ MaxFaults \in Nat
  BY BoundsAssumption DEF TypeOK
<1>2. faults' \in 0 .. MaxFaults
  BY <1>1
<1> QED
  BY <1>2 DEF TypeOK, WorldType

LEMMA Kept ==
  ASSUME IInv, Sound, NEW m, m = mem
  PROVE  m \in Memory /\ MemOK(m) /\ MemOK(m)'
<1>1. m \in Memory /\ MemOK(m) /\ TypeOK /\ Requests
  BY DEF IInv, TypeOK, MemOK
<1>2. Suits(m) /\ Frame
  BY DEF Sound, Suits
<1> QED
  BY <1>1, <1>2, Keeps

LEMMA MemStill ==
  ASSUME IInv, Sound, mem' = mem
  PROVE  MemOK(mem)' /\ Grows(mem, mem') /\ \A p \in Req : Touches(mem, mem', p, {})
<1>1. PICK m : m = mem
  OBVIOUS
<1>2. m \in Memory /\ MemOK(m)'
  BY <1>1, Kept
<1>3. mem' = m
  BY <1>1
<1>4. MemOK(mem)'
  BY <1>2, <1>3 DEF MemOK
<1> QED
  BY <1>1, <1>2, <1>4 DEF Grows, Touches

(* A step of the job of p                                                   *)
LEMMA JobEnd ==
  ASSUME IInv, Sound, UNCHANGED <<asked, dispatched>>, NEW p \in Req, ~ JobIdle(p), NEW D, Acts(p, p, D),
         th' \in [Threads -> Thread], MemOK(mem)', Confirmed', JobOK(p)'
  PROVE  IInv'
<1>1. mem' \in Memory /\ (disk' = disk \/ disk' = mem \/ disk' = mem')
  BY DEF Acts, Touches
<1>6. disk' \in Memory /\ WorldType'
  BY <1>1 DEF Sound, IInv, TypeOK
<1>2. TypeOK'
  BY <1>1, <1>6, Types2
<1>3. MemOK(disk)'
  BY <1>1, Rows DEF Sound
<1>4. \A q \in Req : q # p => JobOK(q)'
  BY Others, Numbers DEF Sound, Cmd
<1>5. Cmds'
  BY CmdAside DEF Sound
<1>7. Jobs'
  BY <1>4 DEF Jobs
<1> QED
  BY <1>2, <1>3, <1>5, <1>7 DEF IInv, Sound

LEMMA JobNext ==
  ASSUME IInv, Frame, NEW p \in Req, ~ JobIdle(p), NEW pc, Step(th, th', p, pc), pc \in JobPcs, pc # "idle",
         NEW d, d = th[p].d,
         pc \notin {"catch", "c_settled"} => mem'.ctx[p].active = d,
         pc \in Starting => xs'[d].at \in {"none", "refused"},
         pc = "submit" => mem'.dl[d].state = "DISPATCHING",
         pc = "stored" \/ pc \in Checking \cup {"c_settled"} => mem'.dl[d].resp # "none",
         pc \in Acking => mem'.dl[d].fmt = "CONFIRMED" /\ mem'.dl[d].proc # "none",
         pc = "c_acking" => disk'.dl[d].proc # "none",
         pc = "c_confirm" => d \in acked'
  PROVE  JobOK(p)'
<1>1. Delivers(d, p) /\ th[p].p = p
  BY DEF IInv, Jobs, JobOK, JobIdle, At
<1>2. Delivers(d, p)'
  BY <1>1, DeliversStays DEF IInv
<1>3. th'[p].pc = pc /\ th'[p].p = p /\ th'[p].d = d
  BY <1>1 DEF Step
<1>4. Delivers(th[p].d, p)'
  BY <1>2, <1>3
<1>5. Unhanded(th[p].d)' <=> xs'[d].at \in {"none", "refused"}
  BY <1>3 DEF Unhanded
<1>6. Settles(p)'
  BY <1>3 DEF Settles
<1> QED
  BY <1>3, <1>4, <1>5, <1>6 DEF JobOK

JobFacts(p, d) ==
  /\ d \in Req /\ Delivers(d, p) /\ PrepOf(d) = p /\ th[p].p = p /\ ~ Fresh(p) /\ p \in Threads
  /\ th[p].pc \notin {"catch", "c_settled"} => mem.ctx[p].active = d
  /\ mem.dl[d] \in Delivery /\ mem.ctx[p] \in Ctx

LEMMA JobHas ==
  ASSUME IInv, NEW p \in Req, ~ JobIdle(p)
  PROVE  JobFacts(p, th[p].d)
<1>1. Delivers(th[p].d, p) /\ th[p].p = p
  BY DEF IInv, Jobs, JobOK, JobIdle, At
<1>2. ~ Fresh(p)
  BY DEF IInv, Requests
<1>3. th[p].d \in Req /\ PrepOf(th[p].d) = p
  BY <1>1 DEF Delivers
<1>4. mem.dl[th[p].d] \in Delivery /\ mem.ctx[p] \in Ctx
  BY <1>3 DEF IInv, TypeOK, Memory
<1>5. th[p].pc \notin {"catch", "c_settled"} => mem.ctx[p].active = th[p].d
  BY DEF IInv, Jobs, JobOK, JobIdle, At
<1> QED
  BY <1>1, <1>2, <1>3, <1>4, <1>5 DEF JobFacts, Threads

-----------------------------------------------------------------------------
(* The steps of a job                                                       *)

LEMMA Confirms ==
  ASSUME IInv, Grows(mem, mem'), disk' = disk \/ disk' = mem \/ disk' = mem'
  PROVE  Confirmed'
  BY ConfirmedStays DEF IInv

(* A save of a job goes through, and nothing else happens.                  *)
LEMMA JobSaves ==
  ASSUME IInv, NEW p \in Req, ~ JobIdle(p), mem' = mem, disk' = disk \/ disk' = mem,
         \A u \in Threads : u # p => th'[u] = th[u], th' \in [Threads -> Thread],
         UNCHANGED <<runs, faults, world, client>>, Sound => JobOK(p)'
  PROVE  IInv'
<1>1. UNCHANGED <<x, xs, typed, resent, acked, asked, dispatched, runs, faults>> /\ p \in Threads /\ p # Cmd
  BY Numbers DEF world, client, Threads, Cmd
<1>2. WorldType'
  BY <1>1, WorldTyped DEF IInv
<1>3. Sound
  BY <1>1, <1>2, Calm
<1>4. MemOK(mem)' /\ Grows(mem, mem') /\ Touches(mem, mem', p, {})
  BY <1>3, MemStill
<1>5. Acts(p, p, {})
  BY <1>1, <1>4 DEF Acts, Unhanded
<1>6. Confirmed'
  BY <1>4, Confirms
<1> QED
  BY <1>1, <1>3, <1>4, <1>5, <1>6, JobEnd

LEMMA SavedPcs == Saving \subseteq ThreadPcs /\ Calling \subseteq ThreadPcs
                  /\ {"idle", "dispatch", "start", "a_start", "a_run", "submit", "launch"} \subseteq ThreadPcs
  BY DEF ThreadPcs

LEMMA IdleTyped == Idle \in Thread
  BY Numbers, SavedPcs DEF Idle, Thread, Ids

LEMMA Bind_Keeps ==
  ASSUME IInv, NEW p \in Req, Bind(p)
  PROVE  IInv'
<1>1. th[p].pc = "bind" /\ disk' = mem /\ mem' = mem /\ Goto(p, "resume") /\ UNCHANGED <<runs, faults, world, client>>
  BY DEF Bind, Saved, At
<1>2. Step(th, th', p, "resume") /\ ~ JobIdle(p) /\ p \in Threads
  BY <1>1, Goes, Types0, SavedPcs DEF IInv, Calling, Threads, JobIdle, At
<1>3. PICK d : d = th[p].d
  OBVIOUS
<1>4. JobFacts(p, d) /\ Unhanded(d)
  BY <1>1, <1>2, <1>3, JobHas DEF IInv, Jobs, JobOK, Starting
<1>5. mem'.ctx[p].active = d /\ xs'[d].at \in {"none", "refused"}
  BY <1>1, <1>4 DEF JobFacts, Unhanded, world
<1>6. Sound => JobOK(p)'
  BY <1>2, <1>3, <1>5, JobNext DEF Sound, JobPcs, Starting, Checking, Acking
<1> QED
  BY <1>1, <1>2, <1>6, JobSaves DEF Step

LEMMA Sent_Keeps ==
  ASSUME IInv, NEW p \in Req, Sent(p)
  PROVE  IInv'
<1>1. th[p].pc = "sent" /\ disk' = mem /\ mem' = mem /\ Goto(p, "answer") /\ UNCHANGED <<runs, faults, world, client>>
  BY DEF Sent, Saved, At
<1>2. Step(th, th', p, "answer") /\ ~ JobIdle(p) /\ p \in Threads
  BY <1>1, Goes, Types0, SavedPcs DEF IInv, Calling, Threads, JobIdle, At
<1>3. PICK d : d = th[p].d
  OBVIOUS
<1>4. JobFacts(p, d)
  BY <1>2, <1>3, JobHas
<1>5. mem'.ctx[p].active = d
  BY <1>1, <1>4 DEF JobFacts
<1>6. Sound => JobOK(p)'
  BY <1>2, <1>3, <1>5, JobNext DEF Sound, JobPcs, Starting, Checking, Acking
<1> QED
  BY <1>1, <1>2, <1>6, JobSaves DEF Step

LEMMA Stored_Keeps ==
  ASSUME IInv, NEW p \in Req, Stored(p)
  PROVE  IInv'
<1>1. th[p].pc = "stored" /\ disk' = mem /\ mem' = mem /\ Goto(p, "c_inspect") /\ UNCHANGED <<runs, faults, world, client>>
  BY DEF Stored, Saved, At
<1>2. Step(th, th', p, "c_inspect") /\ ~ JobIdle(p) /\ p \in Threads
  BY <1>1, Goes, Types0, SavedPcs DEF IInv, Calling, Threads, JobIdle, At
<1>3. PICK d : d = th[p].d
  OBVIOUS
<1>4. JobFacts(p, d) /\ mem.dl[d].resp # "none"
  BY <1>1, <1>2, <1>3, JobHas DEF IInv, Jobs, JobOK
<1>5. mem'.ctx[p].active = d /\ mem'.dl[d].resp # "none"
  BY <1>1, <1>4 DEF JobFacts
<1>6. Sound => JobOK(p)'
  BY <1>2, <1>3, <1>5, JobNext DEF Sound, JobPcs, Starting, Checking, Acking
<1> QED
  BY <1>1, <1>2, <1>6, JobSaves DEF Step

LEMMA JobAckIntended_Keeps ==
  ASSUME IInv, NEW p \in Req, AckIntended(p)
  PROVE  IInv'
<1>1. th[p].pc = "c_ack" /\ disk' = mem /\ mem' = mem /\ Goto(p, "c_acking") /\ UNCHANGED <<runs, faults, world, client>>
  BY DEF AckIntended, Saved, At
<1>2. Step(th, th', p, "c_acking") /\ ~ JobIdle(p) /\ p \in Threads
  BY <1>1, Goes, Types0, SavedPcs DEF IInv, Calling, Threads, JobIdle, At
<1>3. PICK d : d = th[p].d
  OBVIOUS
<1>4. JobFacts(p, d) /\ mem.dl[d].resp # "none" /\ mem.dl[d].fmt = "CONFIRMED" /\ mem.dl[d].proc # "none"
  BY <1>1, <1>2, <1>3, JobHas DEF IInv, Jobs, JobOK, Settles, Checking, Acking
<1>5. mem'.ctx[p].active = d /\ mem'.dl[d].resp # "none" /\ mem'.dl[d].fmt = "CONFIRMED" /\ mem'.dl[d].proc # "none"
      /\ disk'.dl[d].proc # "none"
  BY <1>1, <1>4 DEF JobFacts
<1>6. Sound => JobOK(p)'
  BY <1>2, <1>3, <1>5, JobNext DEF Sound, JobPcs, Starting, Checking, Acking
<1> QED
  BY <1>1, <1>2, <1>6, JobSaves DEF Step

LEMMA JobRests ==
  ASSUME IInv, NEW p \in Req, ~ JobIdle(p), mem' = mem, disk' = mem, th' = [th EXCEPT ![p] = Idle],
         UNCHANGED <<runs, faults, world, client>>
  PROVE  IInv'
<1>1. Sets(th, th', p, Idle)
  BY Setting, Types0, IdleTyped DEF IInv, Threads
<1>2. JobOK(p)'
  BY <1>1, Idles DEF Sets, Idle
<1> QED
  BY <1>1, <1>2, JobSaves DEF Sets

LEMMA FailureStored_Keeps ==
  ASSUME IInv, NEW p \in Req, FailureStored(p)
  PROVE  IInv'
  BY JobRests DEF FailureStored, Saved, At, JobIdle

LEMMA JobSettled_Keeps ==
  ASSUME IInv, NEW p \in Req, Settled(p)
  PROVE  IInv'
  BY JobRests, Numbers DEF Settled, Saved, At, JobIdle, Cmd

(* A step of the world that leaves everything but the memory as it is       *)
LEMMA JobCalm ==
  ASSUME IInv, NEW p \in Req, ~ JobIdle(p), \A u \in Threads : u # p => th'[u] = th[u],
         UNCHANGED <<runs, xs, typed, resent, acked, client>>, x'.owner = x.owner /\ x'.disc = x.disc, WorldType'
  PROVE  Sound
  BY Calm, Numbers DEF client, Threads, Cmd

(* A job fails.                                                             *)
LEMMA JobThrows ==
  ASSUME IInv, NEW p \in Req, th[p].pc \notin {"idle", "catch"}, NEW refused \in BOOLEAN, Throw(p, refused),
         refused => Unhanded(th[p].d) /\ th[p].pc # "c_settled", disk' = disk \/ disk' = mem,
         UNCHANGED <<client>>, Step(th, th', p, "catch") => Sound,
         \A d \in Req : Unhanded(d) /\ PrepOf(d) # p => Unhanded(d)',
         xs' = xs
  PROVE  IInv'
<1>1. PICK tabs \in BOOLEAN : mem' = Caught(p, refused, tabs) /\ Goto(p, "catch")
  BY Numbers DEF Throw, Cmd
<1>2. Step(th, th', p, "catch") /\ ~ JobIdle(p)
  BY <1>1, Goes, Types0, SavedPcs DEF IInv, Saving, Threads, JobIdle, At
<1>3. Sound
  BY <1>2
<1>4. PICK d \in Req : d = th[p].d
  BY <1>2, JobHas DEF JobFacts
<1>5. JobFacts(p, d)
  BY <1>2, <1>4, JobHas
<1>6. mem \in Memory /\ TypeOK
  BY Types0 DEF IInv
<1>7. PICK m : m = mem
  OBVIOUS
<1>8. PICK n : n = mem'
  OBVIOUS
<1>9. Catches(m, n, p, d, refused)
  BY <1>1, <1>4, <1>6, <1>7, <1>8, CatchMoves
<1>10. m \in Memory /\ MemOK(m) /\ MemOK(m)'
  BY <1>3, <1>7, Kept
<1>11. refused => Unhanded(d)
  BY <1>4
<1>12. refused => Unhanded(d)'
  BY <1>11 DEF Unhanded
<1>13. m.dl[d].state = "RESERVED" \/ refused => m.ctx[p].active = d
  <2>1. th[p].pc = "c_settled" => mem.dl[d].resp # "none"
    BY <1>2, <1>4 DEF IInv, Jobs, JobOK, Settles
  <2>2. th[p].pc = "c_settled" => m.dl[d].state # "RESERVED"
    BY <1>7, <1>10, <2>1 DEF MemOK, DlOK, Unhanded
  <2> QED
    BY <1>5, <1>7, <2>2 DEF JobFacts
<1>14. Delivers(d, p)' /\ ~ Fresh(p)'
  BY <1>3, <1>5, <1>6, DeliversStays DEF JobFacts, Sound, Frame, IInv
<1>15. TypeOK'
  BY <1>2, <1>3, <1>6, <1>8, <1>9, Types2 DEF Sound, Step, Catches, Touches, IInv, TypeOK
<1>16. MemOK(n)'
  BY <1>9, <1>10, <1>12, <1>13, <1>14, <1>15, CaughtOK
<1>17. MemOK(mem)'
  BY <1>8, <1>16 DEF MemOK
<1>18. Touches(m, n, p, {d}) /\ n.dl[d].resp = m.dl[d].resp /\ n.dl[d].fmt = m.dl[d].fmt /\ n.dl[d].proc = m.dl[d].proc
       /\ n.dl[d].state # "NONE" /\ n.ctx[p].run = m.ctx[p].run
  BY <1>9 DEF Catches
<1>19. Grows(mem, mem')
  BY <1>7, <1>8, <1>18 DEF Grows, Touches
<1>20. Acts(p, p, {d})
  BY <1>2, <1>5, <1>7, <1>8, <1>18 DEF Acts, Touches, Step, JobFacts
<1>21. Confirmed'
  BY <1>19, Confirms
<1>22. JobOK(p)'
  BY <1>2, <1>3, <1>4, JobNext DEF Sound, JobPcs, Starting, Checking, Acking
<1> QED
  BY <1>2, <1>3, <1>17, <1>20, <1>21, <1>22, JobEnd DEF client, Step

-----------------------------------------------------------------------------
(* The memory after each kind of move                                       *)

LEMMA Types3 ==
  ASSUME TypeOK, mem' \in Memory, disk' = disk \/ disk' = mem \/ disk' = mem', th' \in [Threads -> Thread], WorldType'
  PROVE  TypeOK'
<1>1. disk' \in Memory
  BY DEF TypeOK
<1> QED
  BY <1>1, Types2

LEMMA StaysMade ==
  ASSUME IInv, Sound, NEW p \in Req, ~ Fresh(p)
  PROVE  ~ Fresh(p)'
  BY DEF Sound, Frame

LEMMA MemDresses ==
  ASSUME IInv, Sound, TypeOK', NEW p \in Req, ~ Fresh(p), Dresses(mem, mem', p)
  PROVE  MemOK(mem)' /\ Grows(mem, mem')
<1>1. PICK m : m = mem
  OBVIOUS
<1>2. PICK n : n = mem'
  OBVIOUS
<1>3. m \in Memory /\ MemOK(m)' /\ ~ Fresh(p)' /\ Dresses(m, n, p)
  BY <1>1, <1>2, Kept, StaysMade
<1>4. MemOK(n)'
  BY <1>3, Dressed
<1> QED
  BY <1>1, <1>2, <1>3, <1>4 DEF MemOK, Grows, Dresses, Touches

LEMMA MemMarks ==
  ASSUME IInv, Sound, TypeOK', NEW p \in Req, ~ Fresh(p), NEW d \in Req, Delivers(d, p),
         NEW state, NEW resp, NEW fmt, NEW proc, Marks(mem, mem', p, d, state, resp, fmt, proc),
         state # "NONE",
         resp # "none" => xs'[d].at = "done",
         xs'[d].at \in {"none", "refused"} \/ state \notin {"RESERVED", "FAILED"},
         d \in acked' => resp # "none" /\ (proc # "none" \/ CancelRan(p)'),
         mem.ctx[p].agree = "DISCUSSING" \/ (resp = mem.dl[d].resp /\ fmt = mem.dl[d].fmt)
  PROVE  MemOK(mem)'
<1>1. PICK m : m = mem
  OBVIOUS
<1>2. PICK n : n = mem'
  OBVIOUS
<1>3. m \in Memory /\ MemOK(m)' /\ ~ Fresh(p)' /\ Marks(m, n, p, d, state, resp, fmt, proc)
  BY <1>1, <1>2, Kept, StaysMade
<1>4. PrepOf(d)' = p
  BY DeliversStays DEF IInv, Sound
<1>5. Unhanded(d)' \/ state \notin {"RESERVED", "FAILED"}
  BY DEF Unhanded
<1>6. m.ctx[p].agree = "DISCUSSING" \/ (resp = m.dl[d].resp /\ fmt = m.dl[d].fmt)
  BY <1>1
<1>7. MemOK(n)'
  BY <1>3, <1>4, <1>5, <1>6, Marked
<1> QED
  BY <1>2, <1>7 DEF MemOK

LEMMA MemAgrees ==
  ASSUME IInv, Sound, TypeOK', NEW p \in Req, ~ Fresh(p), NEW d, Delivers(d, p), Agrees(mem, mem', p, d),
         xs'[d].at # "wire", x'.owner # d, d \in acked', mem.ctx[p].active = d, mem.dl[d].fmt = "CONFIRMED"
  PROVE  MemOK(mem)'
<1>1. PICK m : m = mem
  OBVIOUS
<1>2. PICK n : n = mem'
  OBVIOUS
<1>3. m \in Memory /\ MemOK(m)' /\ ~ Fresh(p)' /\ Agrees(m, n, p, d) /\ m.ctx[p].active = d /\ m.dl[d].fmt = "CONFIRMED"
  BY <1>1, <1>2, Kept, StaysMade
<1>4. Delivers(d, p)'
  BY DeliversStays DEF IInv, Sound
<1>5. ~ Held(d)'
  BY DEF Held
<1>6. MemOK(n)'
  BY <1>3, <1>4, <1>5, AgreedOK
<1> QED
  BY <1>2, <1>6 DEF MemOK

LEMMA MemAbandons ==
  ASSUME IInv, Sound, TypeOK', NEW p \in Req, ~ Fresh(p), NEW D, Abandons(mem, mem', p, D),
         \A d \in D : Delivers(d, p),
         mem.ctx[p].agree # "APPROVED", mem.ctx[p].active # 0 => xs'[mem.ctx[p].active].at # "wire" /\ x'.owner # mem.ctx[p].active
  PROVE  MemOK(mem)'
<1>1. PICK m : m = mem
  OBVIOUS
<1>2. PICK n : n = mem'
  OBVIOUS
<1>3. m \in Memory /\ MemOK(m) /\ MemOK(m)' /\ ~ Fresh(p)' /\ Abandons(m, n, p, D) /\ m.ctx[p].agree # "APPROVED"
  BY <1>1, <1>2, Kept, StaysMade
<1>4. \A d \in D : d \in Req /\ PrepOf(d)' = p
  BY DeliversStays DEF IInv, Sound, Delivers
<1>5. m.ctx[p].active # 0 => ~ Held(m.ctx[p].active)'
  BY <1>1 DEF Held
<1>6. MemOK(n)'
  BY <1>3, <1>4, <1>5, AbandonedOK
<1> QED
  BY <1>2, <1>6 DEF MemOK

LEMMA MemApproves ==
  ASSUME IInv, Sound, TypeOK', NEW p \in Req, ~ Fresh(p), NEW r, Approves(mem, mem', p, r),
         mem.ctx[p].agree \in {"READY", "APPROVED"}, mem.ctx[p].reserved # 0 => r = mem.ctx[p].reserved
  PROVE  MemOK(mem)'
<1>1. PICK m : m = mem
  OBVIOUS
<1>2. PICK n : n = mem'
  OBVIOUS
<1>3. m \in Memory /\ MemOK(m)' /\ ~ Fresh(p)' /\ Approves(m, n, p, r)
      /\ m.ctx[p].agree \in {"READY", "APPROVED"} /\ (m.ctx[p].reserved # 0 => r = m.ctx[p].reserved)
  BY <1>1, <1>2, Kept, StaysMade
<1>4. MemOK(n)'
  BY <1>3, ApprovedOK
<1> QED
  BY <1>2, <1>4 DEF MemOK

LEMMA MemAdopts ==
  ASSUME IInv, Sound, TypeOK', NEW p \in Req, ~ Fresh(p), Adopts(mem, mem', p), mem.ctx[p].reserved # 0
  PROVE  MemOK(mem)'
<1>1. PICK m : m = mem
  OBVIOUS
<1>2. PICK n : n = mem'
  OBVIOUS
<1>3. m \in Memory /\ MemOK(m)' /\ ~ Fresh(p)' /\ Adopts(m, n, p) /\ m.ctx[p].reserved # 0
  BY <1>1, <1>2, Kept, StaysMade
<1>4. MemOK(n)'
  BY <1>3, AdoptedOK
<1> QED
  BY <1>2, <1>4 DEF MemOK

LEMMA MemReserves ==
  ASSUME IInv, Sound, TypeOK', NEW p \in Req, ~ Fresh(p), NEW d \in Req, Reserves(mem, mem', p, d), Delivers(d, p)',
         xs'[d].at = "none", d \notin acked', mem.ctx[p].active = 0,
         mem.ctx[p].agree # "APPROVED", mem.ctx[p].life # "ABANDONED"
  PROVE  MemOK(mem)'
<1>1. PICK m : m = mem
  OBVIOUS
<1>2. PICK n : n = mem'
  OBVIOUS
<1>3. m \in Memory /\ MemOK(m)' /\ ~ Fresh(p)' /\ Reserves(m, n, p, d) /\ m.ctx[p].active = 0
      /\ m.ctx[p].agree # "APPROVED" /\ m.ctx[p].life # "ABANDONED"
  BY <1>1, <1>2, Kept, StaysMade
<1>4. Unhanded(d)'
  BY DEF Unhanded
<1>5. MemOK(n)'
  BY <1>3, <1>4, ReservedOK
<1> QED
  BY <1>2, <1>5 DEF MemOK

LEMMA MemBegins ==
  ASSUME IInv, Sound, TypeOK', NEW r \in Req, Begins(mem, mem', r), mem.ctx[r] = NoCtx,
         xs'[r].at = "none", x'.owner # r, asked'[r].type = "start", ~ Fresh(r)'
  PROVE  MemOK(mem)'
<1>1. PICK m : m = mem
  OBVIOUS
<1>2. PICK n : n = mem'
  OBVIOUS
<1>3. m \in Memory /\ MemOK(m)' /\ Begins(m, n, r) /\ m.ctx[r] = NoCtx
  BY <1>1, <1>2, Kept
<1>4. MemOK(n)'
  BY <1>3, BegunOK
<1> QED
  BY <1>2, <1>4 DEF MemOK

(* A job changes the record of its delivery.                                *)
JobMark(p, d, pc, state, resp, fmt, proc) ==
  /\ Marks(mem, mem', p, d, state, resp, fmt, proc)
  /\ state # "NONE"
  /\ resp # "none" => xs'[d].at = "done"
  /\ xs'[d].at \in {"none", "refused"} \/ state \notin {"RESERVED", "FAILED"}
  /\ d \in acked' => resp # "none" /\ (proc # "none" \/ CancelRan(p)')
  /\ mem.dl[d].resp # "none" => resp # "none"
  /\ fmt = "CONFIRMED" => mem.dl[d].fmt = "CONFIRMED" \/ (disk' = mem /\ mem.dl[d].resp # "none")
  /\ disk' = disk \/ disk' = mem
  /\ \A e \in Req : Unhanded(e) /\ PrepOf(e) # p => Unhanded(e)'
  /\ \A e \in Req : xs[e].at \in {"done", "quiet"} => xs'[e].at \in {"done", "quiet"}

LEMMA ConfirmsMark ==
  ASSUME IInv, TypeOK', NEW p \in Req, NEW d \in Req, NEW state, NEW resp, NEW fmt, NEW proc,
         Marks(mem, mem', p, d, state, resp, fmt, proc), mem.dl[d].resp # "none" => resp # "none",
         fmt = "CONFIRMED" => mem.dl[d].fmt = "CONFIRMED" \/ (disk' = mem /\ mem.dl[d].resp # "none"),
         disk' = disk \/ disk' = mem
  PROVE  Confirmed'
<1> SUFFICES ASSUME NEW e \in Req, mem'.dl[e].fmt = "CONFIRMED" \/ disk'.dl[e].fmt = "CONFIRMED"
             PROVE  mem'.dl[e].resp # "none" /\ disk'.dl[e].resp # "none"
  BY DEF Confirmed
<1>1. mem.dl[e].fmt = "CONFIRMED" \/ disk.dl[e].fmt = "CONFIRMED" => mem.dl[e].resp # "none" /\ disk.dl[e].resp # "none"
  BY DEF IInv, Confirmed
<1>2. e # d => mem'.dl[e] = mem.dl[e]
  BY DEF Marks, Touches
<1>3. mem'.dl[d].fmt = fmt /\ mem'.dl[d].resp = resp
  BY DEF Marks
<1>4. mem.dl[e].resp # "none" => mem'.dl[e].resp # "none"
  BY <1>2, <1>3
<1>5. mem'.dl[e].fmt = "CONFIRMED" => mem.dl[e].fmt = "CONFIRMED" \/ (disk' = mem /\ mem.dl[e].resp # "none")
  BY <1>2, <1>3
<1> QED
  BY <1>1, <1>4, <1>5

LEMMA JobMarks ==
  ASSUME IInv, Sound, UNCHANGED client, NEW p \in Req, th[p].pc \notin {"idle", "catch", "c_settled"}, NEW d, d = th[p].d,
         NEW pc, Step(th, th', p, pc),
         NEW state, NEW resp, NEW fmt, NEW proc, JobMark(p, d, pc, state, resp, fmt, proc), JobOK(p)'
  PROVE  IInv'
<1>1. ~ JobIdle(p) /\ TypeOK
  BY DEF JobIdle, At, IInv
<1>2. JobFacts(p, d)
  BY <1>1, JobHas
<1>3. mem.ctx[p].agree = "DISCUSSING"
  BY <1>2, Numbers DEF JobFacts, IInv, MemOK, CtxOK
<1>4. Touches(mem, mem', p, {d}) /\ Same(mem'.ctx[p], mem.ctx[p])
      /\ mem'.dl[d].state = state /\ mem'.dl[d].resp = resp /\ mem'.dl[d].fmt = fmt
  BY DEF JobMark, Marks
<1>5. TypeOK'
  BY <1>1, <1>4, Types3 DEF Sound, Step, JobMark, Touches
<1>6. MemOK(mem)'
  BY <1>2, <1>3, <1>5, MemMarks DEF JobMark, JobFacts
<1>7. Confirmed'
  BY <1>2, <1>5, ConfirmsMark DEF JobMark, JobFacts
<1>8. Acts(p, p, {d})
  BY <1>2, <1>4 DEF Acts, Touches, JobMark, JobFacts, Step, Same
<1> QED
  BY <1>1, <1>6, <1>7, <1>8, JobEnd DEF client, Step

LEMMA JobAnswered_Keeps ==
  ASSUME IInv, NEW p \in Req, Answered(p)
  PROVE  IInv'
<1>1. /\ th[p].pc = "answer" /\ xs[th[p].d].at = "done" /\ Goto(p, "stored") /\ disk' = disk
      /\ mem' = [mem EXCEPT !.dl[th[p].d].resp = xs[th[p].d].held, !.dl[th[p].d].state = "RESPONSE_COMPLETED"]
      /\ UNCHANGED <<runs, faults, world, client>>
  BY DEF Answered, At
<1>2. PICK d : d = th[p].d
  OBVIOUS
<1>3. Step(th, th', p, "stored") /\ ~ JobIdle(p) /\ TypeOK
  BY <1>1, Goes, Types0, SavedPcs DEF IInv, Saving, Threads, JobIdle, At
<1>4. JobFacts(p, d)
  BY <1>2, <1>3, JobHas
<1>5. Sound
  <2>1. UNCHANGED <<x, xs, typed, resent, acked, asked, dispatched, runs, faults>>
    BY <1>1 DEF world, client
  <2>2. WorldType'
    BY <1>3, <2>1, WorldTyped
  <2> QED
    BY <1>1, <1>3, <2>1, <2>2, JobCalm DEF Step
<1>6. PICK r \in Answers \cup {"none"} : r = xs[d].held
  BY <1>3, <1>4 DEF TypeOK, JobFacts
<1>7. r # "none"
  BY <1>1, <1>2, <1>4, <1>6 DEF IInv, World, JobFacts
<1>8. Marks(mem, mem', p, d, "RESPONSE_COMPLETED", r, mem.dl[d].fmt, mem.dl[d].proc)
  <2>1. mem' = [mem EXCEPT !.dl[d].resp = r, !.dl[d].state = "RESPONSE_COMPLETED"]
    BY <1>1, <1>2, <1>6
  <2>2. mem \in Memory /\ d \in Req
    BY <1>3, <1>4 DEF JobFacts, TypeOK
  <2> QED
    BY <2>1, <2>2, MarkAnswer
<1>9. d \in acked' => mem.dl[d].proc # "none" \/ CancelRan(p)'
  <2>1. d \in acked' => mem.dl[d].proc # "none" \/ CancelRan(PrepOf(d))
    BY <1>1, <1>4 DEF world, IInv, MemOK, DlOK, JobFacts
  <2>2. CancelRan(p) => CancelRan(p)'
    BY <1>3, <1>5, CancelStays DEF Sound, IInv
  <2> QED
    BY <1>4, <2>1, <2>2 DEF JobFacts
<1>10. JobMark(p, d, "stored", "RESPONSE_COMPLETED", r, mem.dl[d].fmt, mem.dl[d].proc)
  BY <1>1, <1>2, <1>7, <1>8, <1>9 DEF JobMark, world, Unhanded
<1>11. JobOK(p)'
  <2>1. mem'.ctx[p].active = d /\ mem'.dl[d].resp # "none"
    BY <1>1, <1>4, <1>7, <1>8 DEF Marks, Same, JobFacts
  <2> QED
    BY <1>2, <1>3, <1>5, <2>1, JobNext DEF Sound, JobPcs, Starting, Checking, Acking
<1> QED
  BY <1>1, <1>2, <1>3, <1>5, <1>10, <1>11, JobMarks DEF world

LEMMA Rebinds ==
  ASSUME TypeOK, NEW p \in Req, Rebind(p), UNCHANGED <<runs, faults, client>>
  PROVE  WorldType' /\ x'.owner = x.owner /\ x'.disc = x.disc /\ UNCHANGED <<xs, typed, resent, acked, asked, dispatched, runs, faults>>
<1>1. x' = [x EXCEPT !.sess = p] /\ UNCHANGED <<xs, typed, resent, acked, asked, dispatched, runs, faults>>
  BY DEF Rebind, client
<1>2. x \in [sess : Ids, owner : Ids, disc : Ids] /\ p \in Ids
  BY Numbers DEF TypeOK, Ids
<1>3. x' \in [sess : Ids, owner : Ids, disc : Ids] /\ x'.owner = x.owner /\ x'.disc = x.disc
  BY <1>1, <1>2
<1> QED
  BY <1>1, <1>3 DEF TypeOK, WorldType, Ids

LEMMA JobIntends ==
  ASSUME IInv, NEW p \in Req, th[p].pc \in {"resume", "launch"}, mem' = Intent(p), Goto(p, "submit"), disk' = disk,
         UNCHANGED <<xs, typed, resent, acked, runs, client>>, x'.owner = x.owner /\ x'.disc = x.disc, WorldType'
  PROVE  IInv'
<1>1. PICK d : d = th[p].d
  OBVIOUS
<1>2. Step(th, th', p, "submit") /\ ~ JobIdle(p) /\ TypeOK
  BY Goes, Types0, SavedPcs DEF IInv, Threads, JobIdle, At
<1>3. JobFacts(p, d) /\ Unhanded(d)
  BY <1>1, <1>2, JobHas DEF IInv, Jobs, JobOK, Starting
<1>4. Sound
  BY <1>2, JobCalm DEF Step
<1>5. Marks(mem, mem', p, d, "DISPATCHING", mem.dl[d].resp, mem.dl[d].fmt, mem.dl[d].proc)
  BY <1>1, <1>2, <1>3, IntentMoves DEF JobFacts, TypeOK
<1>6. mem.dl[d].resp = "none" /\ d \notin acked'
  BY <1>3 DEF IInv, MemOK, DlOK, Unhanded, JobFacts
<1>7. JobMark(p, d, "submit", "DISPATCHING", mem.dl[d].resp, mem.dl[d].fmt, mem.dl[d].proc)
  BY <1>5, <1>6 DEF JobMark, Unhanded
<1>8. JobOK(p)'
  <2>1. mem'.ctx[p].active = d /\ mem'.dl[d].state = "DISPATCHING" /\ xs'[d].at \in {"none", "refused"}
    BY <1>3, <1>5 DEF Marks, Same, JobFacts, Unhanded
  <2> QED
    BY <1>1, <1>2, <1>4, <2>1, JobNext DEF Sound, JobPcs, Starting, Checking, Acking
<1> QED
  BY <1>1, <1>2, <1>4, <1>7, <1>8, JobMarks

LEMMA Resume_Keeps ==
  ASSUME IInv, NEW p \in Req, Resume(p)
  PROVE  IInv'
<1>1. /\ th[p].pc = "resume" /\ disk' = disk /\ UNCHANGED client
      /\ (mem' = Intent(p) /\ Goto(p, "submit")) \/ Throw(p, FALSE)
  BY DEF Resume, At
<1>2. /\ WorldType' /\ x'.owner = x.owner /\ x'.disc = x.disc /\ UNCHANGED <<xs, typed, resent, acked, asked, dispatched, runs, faults>>
  BY Rebinds DEF Resume, IInv
<1>3. CASE mem' = Intent(p) /\ Goto(p, "submit")
  BY <1>1, <1>2, <1>3, JobIntends
<1>4. CASE Throw(p, FALSE)
  <2>1. Step(th, th', p, "catch") => Sound
    BY <1>1, <1>2, JobCalm DEF Step, JobIdle, At
  <2> QED
    BY <1>1, <1>2, <1>4, <2>1, JobThrows DEF Unhanded
<1> QED
  BY <1>1, <1>3, <1>4

LEMMA CalmTyped ==
  ASSUME IInv, UNCHANGED <<runs, world, client>>,
         faults' = faults \/ (faults < MaxFaults /\ faults' = faults + 1)
  PROVE  WorldType' /\ x'.owner = x.owner /\ x'.disc = x.disc /\ UNCHANGED <<x, xs, typed, resent, acked, asked, dispatched, runs>>
<1>1. UNCHANGED <<x, xs, typed, resent, acked, asked, dispatched, runs>> /\ TypeOK
  BY DEF world, client, IInv
<1> QED
  BY <1>1, WorldTyped

LEMMA LaunchRebound_Keeps ==
  ASSUME IInv, NEW p \in Req, LaunchRebound(p)
  PROVE  IInv'
<1>1. /\ th[p].pc = "launch" /\ disk' = disk /\ mem' = Intent(p) /\ Goto(p, "submit")
      /\ UNCHANGED <<runs, faults, world, client>>
  BY DEF LaunchRebound, At
<1>2. WorldType' /\ x'.owner = x.owner /\ x'.disc = x.disc /\ UNCHANGED <<x, xs, typed, resent, acked, asked, dispatched, runs>>
  BY <1>1, CalmTyped
<1> QED
  BY <1>1, <1>2, JobIntends

(* A job throws, and nothing else happens.                                  *)
LEMMA JobFails ==
  ASSUME IInv, NEW p \in Req, th[p].pc \notin {"idle", "catch"}, NEW refused \in BOOLEAN, Throw(p, refused),
         refused => Unhanded(th[p].d) /\ th[p].pc # "c_settled", disk' = disk \/ disk' = mem,
         UNCHANGED <<runs, world, client>>,
         faults' = faults \/ (faults < MaxFaults /\ faults' = faults + 1)
  PROVE  IInv'
<1>1. WorldType' /\ x'.owner = x.owner /\ x'.disc = x.disc /\ UNCHANGED <<x, xs, typed, resent, acked, asked, dispatched, runs>>
  BY CalmTyped
<1>2. Step(th, th', p, "catch") => Sound
  BY <1>1, JobCalm DEF Step, JobIdle, At
<1> QED
  BY <1>1, <1>2, JobThrows DEF Unhanded

LEMMA SubmitRejected_Keeps ==
  ASSUME IInv, NEW p \in Req, SubmitRejected(p)
  PROVE  IInv'
<1>1. PICK refused \in BOOLEAN : Throw(p, refused)
  BY DEF SubmitRejected
<1>2. th[p].pc = "submit" /\ disk' = mem /\ UNCHANGED <<runs, faults, world, client>>
  BY DEF SubmitRejected, Saved, At
<1>3. Unhanded(th[p].d)
  BY <1>2 DEF IInv, Jobs, JobOK, Starting
<1> QED
  BY <1>1, <1>2, <1>3, JobFails

LEMMA Refused_Keeps ==
  ASSUME IInv, NEW p \in Req, Refused(p)
  PROVE  IInv'
<1>1. th[p].pc = "answer" /\ Throw(p, TRUE) /\ disk' = disk /\ UNCHANGED <<runs, faults, world, client>>
      /\ Unhanded(th[p].d)
  BY DEF Refused, At, Unhanded
<1> QED
  BY <1>1, JobFails

LEMMA JobUnconfirmed_Keeps ==
  ASSUME IInv, NEW p \in Req, Unconfirmed(p)
  PROVE  IInv'
<1>1. th[p].pc = "c_fail" /\ Throw(p, FALSE) /\ disk' = mem /\ UNCHANGED <<runs, faults, world, client>>
  BY DEF Unconfirmed, Saved, At
<1> QED
  BY <1>1, JobFails

LEMMA JobCallFails_Keeps ==
  ASSUME IInv, NEW p \in Req, CallFails(p)
  PROVE  IInv'
<1>1. th[p].pc \in Calling /\ Throw(p, FALSE) /\ disk' = disk /\ UNCHANGED <<runs, faults, world, client>>
  BY DEF CallFails
<1> QED
  BY <1>1, JobFails DEF Calling

LEMMA JobSaveFails_Keeps ==
  ASSUME IInv, NEW p \in Req, SaveFails(p)
  PROVE  IInv'
<1>1. /\ th[p].pc \in Saving /\ disk' = disk /\ UNCHANGED <<runs, world, client>>
      /\ faults < MaxFaults /\ faults' = faults + 1
  BY DEF SaveFails
<1>2. th[p].pc \in JobPcs /\ th[p].pc # "idle"
  BY <1>1 DEF IInv, Jobs, JobOK, Saving
<1>3. CASE th[p].pc = "catch"
  <2>1. /\ mem' = [mem EXCEPT !.ctx[p].state = "RECOVERY_REQUIRED", !.ctx[p].err = "other"]
        /\ th' = [th EXCEPT ![p] = Idle]
    BY <1>3 DEF SaveFails
  <2>2. Dresses(mem, mem', p) /\ TypeOK
    BY <2>1, DressState DEF PrepStates, Errs, IInv, TypeOK
  <2>3. Sets(th, th', p, Idle) /\ ~ JobIdle(p)
    BY <1>3, <2>1, Setting, Types0, IdleTyped DEF IInv, Threads, JobIdle, At
  <2>4. WorldType' /\ x'.owner = x.owner /\ x'.disc = x.disc /\ UNCHANGED <<x, xs, typed, resent, acked, asked, dispatched, runs>>
    BY <1>1, CalmTyped
  <2>5. Sound
    BY <1>1, <2>3, <2>4, JobCalm DEF Sets
  <2>6. TypeOK'
    BY <1>1, <2>2, <2>3, <2>4, Types3 DEF Sets, Dresses, Touches
  <2>7. ~ Fresh(p)
    BY <2>3, JobHas DEF JobFacts
  <2>8. MemOK(mem)' /\ Grows(mem, mem')
    BY <2>2, <2>5, <2>6, <2>7, MemDresses
  <2>9. Acts(p, p, {})
    BY <1>1, <2>2, <2>3, <2>4 DEF Acts, Dresses, Touches, Sets, Same, Unhanded
  <2>10. Confirmed' /\ JobOK(p)'
    BY <1>1, <2>3, <2>8, Confirms, Idles DEF Sets, Idle
  <2> QED
    BY <2>3, <2>4, <2>5, <2>8, <2>9, <2>10, JobEnd DEF Sets
<1>4. CASE th[p].pc # "catch"
  <2>1. Throw(p, FALSE)
    BY <1>2, <1>4 DEF SaveFails, JobPcs, Starting, Checking, Acking
  <2> QED
    BY <1>1, <1>2, <1>4, <2>1, JobFails
<1> QED
  BY <1>3, <1>4

(* The prompt is handed to the extension: the row knows that it was going   *)
(* to be.                                                                   *)
LEMMA Submit_Keeps ==
  ASSUME IInv, NEW p \in Req, Submit(p)
  PROVE  IInv'
<1>1. PICK d : d = th[p].d
  OBVIOUS
<1>2. /\ th[p].pc = "submit" /\ disk' = mem /\ Goto(p, "sent")
      /\ xs' = [xs EXCEPT ![d] = [at |-> "wire", held |-> "none"]]
      /\ resent' = IF xs[d].at \in {"none", "refused"} THEN resent ELSE resent \cup {d}
      /\ mem' = [mem EXCEPT !.dl[d].state = IF mem.dl[d].state = "DISPATCHING" THEN "SUBMITTED" ELSE mem.dl[d].state]
      /\ UNCHANGED <<x, typed, acked, runs, faults, client>>
  BY <1>1 DEF Submit, Saved, At
<1>3. Step(th, th', p, "sent") /\ ~ JobIdle(p) /\ TypeOK /\ p # Cmd
  BY <1>2, Goes, Types0, SavedPcs, Numbers DEF IInv, Saving, Threads, JobIdle, At, Cmd
<1>4. JobFacts(p, d) /\ Unhanded(d) /\ mem.dl[d].state = "DISPATCHING"
  BY <1>1, <1>2, <1>3, JobHas DEF IInv, Jobs, JobOK, Starting
<1>5. d \in Req /\ Delivers(d, p) /\ PrepOf(d) = p /\ ~ Fresh(d) /\ ~ Fresh(p) /\ mem.ctx[p].active = d
      /\ asked[d].type \in {"start", "reply"}
  BY <1>2, <1>4 DEF JobFacts, Delivers
<1>6. UNCHANGED <<asked, dispatched>> /\ resent' = resent /\ th'[Cmd] = th[Cmd]
  BY <1>2, <1>3, <1>4 DEF client, Unhanded, Step, Threads
<1>7. xs'[d].at = "wire" /\ \A e \in Req : e # d => xs'[e] = xs[e]
  BY <1>2, <1>3, <1>5 DEF TypeOK
<1>8. \A r \in Req : Fresh(r)' => Fresh(r)
  BY <1>6 DEF Fresh, At
<1>9. Frame
  BY <1>2, <1>4, <1>6, <1>7, <1>8 DEF Frame, Unhanded
<1>10. \A e \in Req : e # d => (Unhanded(e)' <=> Unhanded(e)) /\ (Held(e)' <=> Held(e))
  BY <1>2, <1>7 DEF Unhanded, Held
<1>11. Suits(mem)
  <2>1. \A run \in runs' : RunOK(mem, run)
    BY <1>2 DEF IInv, MemOK, RunOK
  <2>2. ~ Unhanded(d)' => mem.dl[d].state \notin {"NONE", "RESERVED", "FAILED"}
    BY <1>4
  <2>3. mem.ctx[PrepOf(d)].active = d
    BY <1>5
  <2> QED
    BY <1>2, <1>5, <1>6, <1>10, <2>1, <2>2, <2>3 DEF Suits
<1>12. disk' = disk => Suits(disk)
  BY <1>2, <1>11 DEF Suits, RunOK
<1>13. World'
  <2>1. x'.owner # d
    BY <1>2, <1>4, <1>5 DEF IInv, World, Unhanded
  <2>2. d \notin typed
    BY <1>4, <1>5 DEF IInv, World, Unhanded
  <2> QED
    BY <1>2, <1>6, <1>7, <2>1, <2>2 DEF IInv, World
<1>14. Requests'
  <2>1. \A r \in Req : Fresh(r)' => r # d /\ xs'[r].at = "none" /\ JobIdle(r) /\ r # p
    BY <1>5, <1>7, <1>8 DEF IInv, Requests
  <2>2. \A r \in Req : Fresh(r)' => th'[r] = th[r]
    BY <1>3, <2>1 DEF Step, Threads
  <2> QED
    BY <1>6, <2>1, <2>2 DEF IInv, Requests, JobIdle, At
<1>15. WorldType'
  <2>1. xs' \in [Req -> [at : {"none", "wire", "refused", "gen", "done", "quiet"}, held : Answers \cup {"none"}]]
    BY <1>2, <1>3 DEF TypeOK
  <2> QED
    BY <1>2, <1>3, <1>6, <2>1 DEF TypeOK, WorldType
<1>16. Sound
  BY <1>9, <1>11, <1>12, <1>13, <1>14, <1>15 DEF Sound
<1>17. Marks(mem, mem', p, d, "SUBMITTED", mem.dl[d].resp, mem.dl[d].fmt, mem.dl[d].proc)
  <2>1. mem' = [mem EXCEPT !.dl[d].state = "SUBMITTED"]
    BY <1>2, <1>4
  <2>2. mem \in Memory /\ "SUBMITTED" \in DeliveryStates
    BY <1>3 DEF TypeOK, DeliveryStates
  <2> QED
    BY <1>5, <2>1, <2>2, MarkState
<1>18. mem.dl[d].resp = "none" /\ d \notin acked'
  BY <1>2, <1>4, <1>5 DEF IInv, MemOK, DlOK, Unhanded
<1>19. JobMark(p, d, "sent", "SUBMITTED", mem.dl[d].resp, mem.dl[d].fmt, mem.dl[d].proc)
  <2>1. \A e \in Req : Unhanded(e) /\ PrepOf(e) # p => Unhanded(e)'
    BY <1>5, <1>10
  <2>2. \A e \in Req : xs[e].at \in {"done", "quiet"} => xs'[e].at \in {"done", "quiet"}
    BY <1>4, <1>7 DEF Unhanded
  <2> QED
    BY <1>2, <1>17, <1>18, <2>1, <2>2 DEF JobMark
<1>20. JobOK(p)'
  <2>1. mem'.ctx[p].active = d
    BY <1>5, <1>17 DEF Marks, Same
  <2> QED
    BY <1>1, <1>3, <1>9, <2>1, JobNext DEF JobPcs, Starting, Checking, Acking
<1> QED
  BY <1>1, <1>2, <1>3, <1>16, <1>19, <1>20, JobMarks

-----------------------------------------------------------------------------
(* The steps of the command                                                 *)

LEMMA CmdEnd ==
  ASSUME IInv, Sound, NEW p \in Req, JobIdle(p), NEW D, Acts(Cmd, p, D),
         th' \in [Threads -> Thread], MemOK(mem)', Confirmed', Cmds'
  PROVE  IInv'
<1>1. mem' \in Memory /\ (disk' = disk \/ disk' = mem \/ disk' = mem')
  BY DEF Acts, Touches
<1>2. TypeOK'
  BY <1>1, Types3 DEF Sound, IInv
<1>3. MemOK(disk)'
  BY <1>1, Rows DEF Sound
<1>4. \A q \in Req : JobOK(q)'
  BY Others, Numbers DEF Sound, Cmd
<1>5. Jobs'
  BY <1>4 DEF Jobs
<1> QED
  BY <1>2, <1>3, <1>5 DEF IInv, Sound

(* Only how the preparation looks changes, or nothing.                      *)
LEMMA CmdWatches ==
  ASSUME IInv, Sound, \A d \in Req : Unhanded(d) => Unhanded(d)', (mem' = mem) \/ (\E p \in Req : Dresses(mem, mem', p) /\ ~ Fresh(p)), disk' = disk \/ disk' = mem,
         \A q \in Req : th'[q] = th[q], th' \in [Threads -> Thread], Cmds'
  PROVE  IInv'
<1>1. /\ mem' \in Memory /\ mem'.dl = mem.dl /\ mem'.cur = mem.cur /\ mem'.rcpt = mem.rcpt
      /\ \A q \in Req : mem'.ctx[q].active = mem.ctx[q].active
  <2>1. CASE mem' = mem
    BY <2>1 DEF IInv, TypeOK
  <2>2. CASE \E p \in Req : Dresses(mem, mem', p)
    <3>1. PICK p \in Req : Touches(mem, mem', p, {}) /\ Same(mem'.ctx[p], mem.ctx[p])
      BY <2>2 DEF Dresses
    <3>2. mem' \in Memory /\ mem \in Memory /\ mem'.cur = mem.cur /\ mem'.rcpt = mem.rcpt
      BY <3>1 DEF Touches, IInv, TypeOK
    <3>3. mem'.dl \in [Req -> Delivery] /\ mem.dl \in [Req -> Delivery]
      BY <3>2 DEF Memory
    <3>4. \A e \in Req : mem'.dl[e] = mem.dl[e]
      BY <3>1 DEF Touches
    <3>5. mem'.dl = mem.dl
      BY <3>3, <3>4
    <3>6. \A q \in Req : mem'.ctx[q].active = mem.ctx[q].active
      BY <3>1 DEF Touches, Same
    <3> QED
      BY <3>2, <3>5, <3>6
  <2> QED
    BY <2>1, <2>2
<1>2. TypeOK'
  BY <1>1, Types3 DEF Sound, IInv
<1>3. MemOK(mem)' /\ Grows(mem, mem')
  BY <1>2, MemStill, MemDresses
<1>4. MemOK(disk)'
  BY <1>3, Rows DEF Sound
<1>5. Confirmed'
  BY <1>3, Confirms
<1>6. ASSUME NEW q \in Req
      PROVE  JobOK(q)'
  <2>1. JobOK(q) /\ th'[q] = th[q] /\ Frame /\ TypeOK /\ Requests
    BY DEF IInv, Jobs, Sound
  <2>2. th[q].pc \in Starting => Unhanded(th[q].d)'
    BY <2>1 DEF JobOK, Delivers, Starting
  <2>3. JobKept(q)
    BY <1>1, <2>1, <2>2 DEF JobKept
  <2> QED
    BY <2>1, <2>3, JobStays
<1>7. Jobs'
  BY <1>6 DEF Jobs
<1> QED
  BY <1>2, <1>3, <1>4, <1>5, <1>7 DEF IInv, Sound

LEMMA CmdDresses ==
  ASSUME IInv, Sound, UNCHANGED <<xs>>, (mem' = mem) \/ (\E p \in Req : Dresses(mem, mem', p) /\ ~ Fresh(p)), disk' = disk \/ disk' = mem,
         \A q \in Req : th'[q] = th[q], th' \in [Threads -> Thread], Cmds'
  PROVE  IInv'
<1>1. \A d \in Req : Unhanded(d) => Unhanded(d)'
  BY DEF Unhanded
<1> QED
  BY <1>1, CmdWatches

(* The command comes to its end.                                            *)
LEMMA CmdEnds ==
  ASSUME IInv, UNCHANGED <<asked>>, mem'.cur = mem.cur, th[Cmd].pc # "idle",
         NEW pc \in {"finish", "refused", "save"}, th'[Cmd].pc = pc, th'[Cmd].req = th[Cmd].req, th'[Cmd].p = th[Cmd].p,
         pc = "save" => Type \notin {"start", "reply"},
         pc # "refused" /\ Type = "approve" => asked[th[Cmd].req].p \in Req /\ mem'.ctx[asked[th[Cmd].req].p].run # 0,
         pc = "finish" /\ Type \in {"start", "reply"} => mem'.dl[th[Cmd].req].state # "NONE"
  PROVE  Cmds'
<1>1. th'[Cmd].pc = pc /\ th'[Cmd].req = th[Cmd].req /\ th'[Cmd].p = th[Cmd].p
  OBVIOUS
<1>2. Type' = Type
  BY <1>1 DEF Type
<1>3. Running
  BY DEF IInv, Cmds
<1>4. Running'
  BY <1>1, <1>2, <1>3 DEF Running, CmdPcs
<1>5. Typed'
  BY <1>1, <1>2 DEF Typed, Looking, Checking, Acking, Cancelling, Discarding, Rebinding, Approving
<1>6. Holding'
  BY <1>1, <1>2 DEF Holding, Alone, Settles, Looking, Owning, Checking, Acking, Cancelling, Discarding, Rebinding, Approving
<1>7. Approval'
  BY <1>1, <1>2 DEF Approval, Approving
<1> QED
  BY <1>4, <1>5, <1>6, <1>7 DEF Cmds

(* A reconcile checks and settles its delivery.                             *)
LEMMA CmdChecks ==
  ASSUME IInv, UNCHANGED <<asked>>, mem'.cur = mem.cur, th[Cmd].pc # "idle", Type = "reconcile",
         NEW p \in Req, NEW d \in Req, th[Cmd].p = p, th[Cmd].d = d,
         NEW pc \in Checking \cup {"c_settled"}, Step(th, th', Cmd, pc), th'[p].pc = "idle",
         pc # "c_settled" => mem'.ctx[p].active = d,
         mem'.dl[d].resp # "none",
         pc \in Acking => mem'.dl[d].fmt = "CONFIRMED" /\ mem'.dl[d].proc # "none",
         pc = "c_acking" => disk'.dl[d].proc # "none",
         pc = "c_confirm" => d \in acked'
  PROVE  Cmds'
<1>1. th'[Cmd].pc = pc /\ th'[Cmd].req = th[Cmd].req /\ th'[Cmd].p = p /\ th'[Cmd].d = d
  BY DEF Step
<1>2. Type' = Type
  BY <1>1 DEF Type
<1>3. Running
  BY DEF IInv, Cmds
<1>4. Running'
  BY <1>1, <1>2, <1>3 DEF Running, CmdPcs, Owning, Checking, Acking
<1>5. Typed'
  BY <1>1, <1>2 DEF Typed, Looking, Checking, Acking, Cancelling, Discarding, Rebinding, Approving
<1>6. JobIdle(p)'
  BY DEF JobIdle, At
<1>7. Settles(Cmd)'
  BY <1>1 DEF Settles
<1>8. Holding'
  BY <1>1, <1>2, <1>6, <1>7 DEF Holding, Alone, Looking, Owning, Checking, Acking, Cancelling, Discarding, Rebinding, Approving, JobIdle, At
<1>9. Approval'
  BY <1>1, <1>2 DEF Approval, Approving, Checking, Acking
<1> QED
  BY <1>4, <1>5, <1>8, <1>9 DEF Cmds

(* What the command holds of its preparation and its delivery               *)
CmdFacts(p, d) ==
  /\ th[Cmd].p = p /\ p \in Req /\ p \in Threads /\ ~ Fresh(p) /\ mem.cur = p
  /\ d \in Req /\ Delivers(d, p) /\ PrepOf(d) = p /\ mem.ctx[p].active = d
  /\ mem.ctx[p].agree = "DISCUSSING" /\ mem.ctx[p].reserved = 0 /\ mem.ctx[p].life # "ABANDONED"
  /\ mem.dl[d] \in Delivery /\ JobIdle(p)
  /\ th[Cmd].req \in Req

LEMMA CmdHas ==
  ASSUME IInv, (th[Cmd].pc \in Owning) \/ (th[Cmd].pc \in Looking /\ Type = "reconcile")
  PROVE  CmdFacts(th[Cmd].p, th[Cmd].d)
<1>1. Cmds
  BY DEF IInv
<1>2. th[Cmd].p \in Req /\ th[Cmd].p = mem.cur /\ th[Cmd].req \in Req
  BY <1>1 DEF Cmds, Running, Owning, Looking, Checking, Acking, Cancelling, Discarding, Rebinding
<1>3. th[Cmd].d \in Req /\ mem.ctx[th[Cmd].p].active = th[Cmd].d /\ JobIdle(th[Cmd].p)
  BY <1>1 DEF Cmds, Holding, Alone
<1>4. ~ Fresh(th[Cmd].p)
  BY <1>2, Numbers DEF IInv, MemOK
<1>5. CtxOK(mem, th[Cmd].p) /\ th[Cmd].d # 0
  BY <1>2, <1>3, Numbers DEF IInv, MemOK
<1>6. Delivers(th[Cmd].d, th[Cmd].p) /\ mem.ctx[th[Cmd].p].agree = "DISCUSSING" /\ mem.ctx[th[Cmd].p].reserved = 0
      /\ mem.ctx[th[Cmd].p].life # "ABANDONED"
  BY <1>3, <1>5 DEF CtxOK
<1>7. PrepOf(th[Cmd].d) = th[Cmd].p
  BY <1>6 DEF Delivers
<1>8. mem.dl[th[Cmd].d] \in Delivery
  BY <1>3 DEF IInv, TypeOK, Memory
<1> QED
  BY <1>2, <1>3, <1>4, <1>6, <1>7, <1>8 DEF CmdFacts, Threads

(* The command changes the record of its delivery.                          *)
LEMMA CmdMarks ==
  ASSUME IInv, Sound, NEW p \in Req, NEW d, CmdFacts(p, d),
         NEW pc, Step(th, th', Cmd, pc),
         NEW state, NEW resp, NEW fmt, NEW proc, JobMark(p, d, pc, state, resp, fmt, proc), Cmds'
  PROVE  IInv'
<1>1. TypeOK /\ d \in Req /\ JobIdle(p)
  BY DEF IInv, CmdFacts
<1>4. Touches(mem, mem', p, {d}) /\ Same(mem'.ctx[p], mem.ctx[p])
      /\ mem'.dl[d].state = state /\ mem'.dl[d].resp = resp /\ mem'.dl[d].fmt = fmt
  BY DEF JobMark, Marks
<1>5. TypeOK'
  BY <1>1, <1>4, Types3 DEF Sound, Step, JobMark, Touches
<1>6. MemOK(mem)'
  BY <1>5, MemMarks DEF JobMark, CmdFacts
<1>7. Confirmed'
  BY <1>1, <1>5, ConfirmsMark DEF JobMark
<1>8. Acts(Cmd, p, {d})
  BY <1>4 DEF Acts, Touches, JobMark, CmdFacts, Step, Same
<1> QED
  BY <1>1, <1>6, <1>7, <1>8, CmdEnd DEF Step

LEMMA JobValidate_Keeps ==
  ASSUME IInv, NEW p \in Req, Validate(p)
  PROVE  IInv'
<1>1. PICK d : d = th[p].d
  OBVIOUS
<1>2. th[p].pc = "c_inspect" /\ disk' = disk /\ UNCHANGED <<runs, faults, world, client>>
  BY DEF Validate, At
<1>3. ~ JobIdle(p) /\ TypeOK
  BY <1>2 DEF JobIdle, At, IInv
<1>4. JobFacts(p, d) /\ mem.dl[d].resp # "none"
  BY <1>1, <1>2, <1>3, JobHas DEF IInv, Jobs, JobOK, Settles, Checking
<1>14. PICK g : g = Diagnostics(p, TRUE)
  OBVIOUS
<1>5. PICK pc \in {"c_checked", "c_fail"} :
        mem' = [mem EXCEPT !.ctx[p].diag = g, !.dl[d].fmt = "none"] /\ Goto(p, pc)
  <2>1. th[p].p = p
    BY <1>4 DEF JobFacts
  <2>2. PICK evidence \in BOOLEAN :
          /\ mem' = [mem EXCEPT !.ctx[p].diag = g, !.dl[d].fmt = "none"]
          /\ Goto(p, IF evidence /\ "exact" \in g /\ x.owner \in {0, d} /\ ~ Generating THEN "c_checked" ELSE "c_fail")
    BY <1>1, <1>14, <2>1 DEF Validate
  <2> QED
    BY <2>2
<1>6. g \in Diags
  BY <1>14 DEF Diagnostics, Diags
<1>7. Step(th, th', p, pc)
  BY <1>3, <1>4, <1>5, Goes, Types0, SavedPcs DEF Saving, JobFacts
<1>8. Sound
  <2>1. WorldType' /\ x'.owner = x.owner /\ x'.disc = x.disc /\ UNCHANGED <<x, xs, typed, resent, acked, asked, dispatched, runs>>
    BY <1>2, CalmTyped
  <2> QED
    BY <1>2, <1>3, <1>7, <2>1, JobCalm DEF Step
<1>9. Marks(mem, mem', p, d, mem.dl[d].state, mem.dl[d].resp, "none", mem.dl[d].proc)
  <2>1. mem \in Memory /\ d \in Req
    BY <1>3, <1>4 DEF JobFacts, TypeOK
  <2> QED
    BY <1>5, <1>6, <2>1, MarkFormat
<1>10. xs[d].at = "done" /\ d \in Req /\ mem.dl[d].state \notin {"NONE", "RESERVED", "FAILED"}
  BY <1>4 DEF IInv, MemOK, DlOK, JobFacts, Unhanded
<1>11. d \in acked' => mem.dl[d].proc # "none" \/ CancelRan(p)'
  <2>1. d \in acked' => mem.dl[d].proc # "none" \/ CancelRan(PrepOf(d))
    BY <1>2, <1>4 DEF world, IInv, MemOK, DlOK, JobFacts
  <2>2. CancelRan(p) => CancelRan(p)'
    BY <1>3, <1>8, CancelStays DEF Sound, IInv
  <2> QED
    BY <1>4, <2>1, <2>2 DEF JobFacts
<1>12. JobMark(p, d, pc, mem.dl[d].state, mem.dl[d].resp, "none", mem.dl[d].proc)
  BY <1>2, <1>4, <1>9, <1>10, <1>11 DEF JobMark, world, Unhanded
<1>13. JobOK(p)'
  <2>1. mem'.ctx[p].active = d /\ mem'.dl[d].resp # "none"
    BY <1>2, <1>4, <1>9 DEF Marks, Same, JobFacts
  <2> QED
    BY <1>1, <1>3, <1>7, <1>8, <2>1, JobNext DEF Sound, JobPcs, Starting, Checking, Acking
<1> QED
  BY <1>1, <1>2, <1>7, <1>8, <1>12, <1>13, JobMarks

(* The verdict on the format of an answer                                   *)
Judges(t, p, d, fmt, proc, pc) ==
  /\ Marks(mem, mem', p, d, mem.dl[d].state, mem.dl[d].resp, fmt, proc) /\ Goto(t, pc) /\ pc \in {"c_fail", "c_ack"}
  /\ pc = "c_ack" => fmt = "CONFIRMED" /\ proc = "ACK_PENDING"
  /\ proc # mem.dl[d].proc => proc # "none"

LEMMA Verdict ==
  ASSUME mem \in Memory, NEW t \in Threads, NEW p \in Req, NEW d \in Req, th[t].d = d, Checked(t)
  PROVE  \E fmt, proc, pc : Judges(t, p, d, fmt, proc, pc)
<1>1. CASE mem' = [mem EXCEPT !.dl[d].fmt = "INVALID"] /\ Goto(t, "c_fail")
  <2>1. Marks(mem, mem', p, d, mem.dl[d].state, mem.dl[d].resp, "INVALID", mem.dl[d].proc)
    BY <1>1, MarkInvalid
  <2>2. Judges(t, p, d, "INVALID", mem.dl[d].proc, "c_fail")
    BY <1>1, <2>1 DEF Judges
  <2> QED
    BY <2>2
<1>2. CASE mem' = [mem EXCEPT !.dl[d].fmt = "CONFIRMED", !.dl[d].proc = "ACK_PENDING"] /\ Goto(t, "c_ack")
  <2>1. Marks(mem, mem', p, d, mem.dl[d].state, mem.dl[d].resp, "CONFIRMED", "ACK_PENDING")
    BY <1>2, MarkConfirmed
  <2>2. Judges(t, p, d, "CONFIRMED", "ACK_PENDING", "c_ack")
    BY <1>2, <2>1 DEF Judges
  <2> QED
    BY <2>2
<1> QED
  BY <1>1, <1>2 DEF Checked

LEMMA JobChecked_Keeps ==
  ASSUME IInv, NEW p \in Req, Checked(p)
  PROVE  IInv'
<1>1. PICK d : d = th[p].d
  OBVIOUS
<1>2. th[p].pc = "c_checked" /\ disk' = mem /\ UNCHANGED <<runs, faults, world, client>>
  BY DEF Checked, Saved, At
<1>3. ~ JobIdle(p) /\ TypeOK
  BY <1>2 DEF JobIdle, At, IInv
<1>4. JobFacts(p, d) /\ mem.dl[d].resp # "none"
  BY <1>1, <1>2, <1>3, JobHas DEF IInv, Jobs, JobOK, Settles, Checking
<1>5. PICK fmt, proc, pc : Judges(p, p, d, fmt, proc, pc)
  BY <1>1, <1>3, <1>4, Verdict DEF JobFacts, TypeOK
<1>6. /\ Marks(mem, mem', p, d, mem.dl[d].state, mem.dl[d].resp, fmt, proc) /\ Goto(p, pc) /\ pc \in {"c_fail", "c_ack"}
      /\ pc = "c_ack" => fmt = "CONFIRMED" /\ proc = "ACK_PENDING"
      /\ proc # mem.dl[d].proc => proc # "none"
  BY <1>5 DEF Judges
<1>7. Step(th, th', p, pc)
  BY <1>3, <1>4, <1>6, Goes, Types0, SavedPcs DEF Saving, JobFacts
<1>8. Sound
  <2>1. WorldType' /\ x'.owner = x.owner /\ x'.disc = x.disc /\ UNCHANGED <<x, xs, typed, resent, acked, asked, dispatched, runs>>
    BY <1>2, CalmTyped
  <2> QED
    BY <1>2, <1>3, <1>7, <2>1, JobCalm DEF Step
<1>10. xs[d].at = "done" /\ d \in Req /\ mem.dl[d].state \notin {"NONE", "RESERVED", "FAILED"}
  BY <1>4 DEF IInv, MemOK, DlOK, JobFacts, Unhanded
<1>11. d \in acked' => proc # "none" \/ CancelRan(p)'
  <2>1. d \in acked' => mem.dl[d].proc # "none" \/ CancelRan(PrepOf(d))
    BY <1>2, <1>4 DEF world, IInv, MemOK, DlOK, JobFacts
  <2>2. CancelRan(p) => CancelRan(p)'
    BY <1>3, <1>8, CancelStays DEF Sound, IInv
  <2> QED
    BY <1>4, <1>6, <2>1, <2>2 DEF JobFacts
<1>12. JobMark(p, d, pc, mem.dl[d].state, mem.dl[d].resp, fmt, proc)
  BY <1>2, <1>4, <1>6, <1>10, <1>11 DEF JobMark, world, Unhanded
<1>13. JobOK(p)'
  <2>1. mem'.ctx[p].active = d /\ mem'.dl[d].resp # "none" /\ mem'.dl[d].fmt = fmt /\ mem'.dl[d].proc = proc
    BY <1>2, <1>4, <1>6 DEF Marks, Same, JobFacts
  <2> QED
    BY <1>1, <1>3, <1>6, <1>7, <1>8, <2>1, JobNext DEF Sound, JobPcs, Starting, Checking, Acking
<1> QED
  BY <1>1, <1>2, <1>7, <1>8, <1>12, <1>13, JobMarks

-----------------------------------------------------------------------------
(* The release of an answer                                                 *)

(* What the memory and the row know when the release is asked for           *)
Releasable(p, d) ==
  /\ d \in Req /\ PrepOf(d) = p
  /\ mem.dl[d].resp # "none" /\ disk.dl[d].resp # "none"
  /\ (mem.dl[d].proc # "none" /\ disk.dl[d].proc # "none") \/ CancelRan(p)

Releasing(d) ==
  \/ x.owner = d /\ x' = [x EXCEPT !.owner = 0] /\ acked' = acked \cup {d}
  \/ x.owner = 0 /\ d \in acked /\ UNCHANGED <<x, acked>>

LEMMA Releases ==
  ASSUME IInv, NEW t \in Threads, t = Cmd \/ ~ JobIdle(t), \A u \in Threads : u # t => th'[u] = th[u],
         t = Cmd => th'[Cmd].pc # "start",
         NEW p, NEW d, Releasable(p, d), Releasing(d), UNCHANGED <<xs, typed, resent, runs, faults, client>>
  PROVE  Sound /\ d \in acked'
<1>1. UNCHANGED <<asked, dispatched>> /\ TypeOK
  BY DEF client, IInv
<1>2. d \in Req /\ d \in acked' /\ acked \subseteq acked' /\ acked' \subseteq acked \cup {d}
  BY DEF Releasing, Releasable
<1>3. x.owner \in Ids /\ x \in [sess : Ids, owner : Ids, disc : Ids]
  BY <1>1 DEF TypeOK, Ids
<1>4. x' \in [sess : Ids, owner : Ids, disc : Ids] /\ (x'.owner = 0 \/ x'.owner = x.owner) /\ x'.disc = x.disc
  BY <1>3, Numbers DEF Releasing
<1>5. th'[Cmd] = th[Cmd] \/ th'[Cmd].pc # "start"
  BY DEF Threads
<1>6. \A r \in Req : Fresh(r)' => Fresh(r)
  BY <1>1, <1>5 DEF Fresh, At
<1>7. Frame
  BY <1>1, <1>2, <1>6 DEF Frame
<1>8. \A e \in Req : (Unhanded(e)' <=> Unhanded(e)) /\ (Held(e)' => Held(e))
  BY <1>4, Numbers DEF Unhanded, Held
<1>9. ASSUME NEW m, m = mem \/ m = disk
      PROVE  Suits(m)
  <2>1. d \in acked' => m.dl[d].resp # "none" /\ (m.dl[d].proc # "none" \/ CancelRan(PrepOf(d)))
    BY <1>9 DEF Releasable
  <2>2. \A run \in runs' : RunOK(m, run)
    BY <1>9 DEF IInv, MemOK
  <2> QED
    BY <1>1, <1>2, <1>8, <2>1, <2>2 DEF Suits
<1>10. World'
  BY <1>4, Numbers DEF IInv, World
<1>11. Requests'
  <2>1. \A r \in Req : Fresh(r)' => Fresh(r) /\ xs[r].at = "none" /\ JobIdle(r) /\ r # t
    BY <1>6, Numbers DEF IInv, Requests, Cmd
  <2>2. \A r \in Req : Fresh(r)' => th'[r] = th[r]
    BY <2>1 DEF Threads
  <2> QED
    BY <1>1, <2>1, <2>2 DEF IInv, Requests, JobIdle, At
<1>12. WorldType'
  BY <1>1, <1>2, <1>4 DEF TypeOK, WorldType, Ids
<1>13. Suits(mem) /\ Suits(disk)
  <2>1. PICK m : m = mem
    OBVIOUS
  <2>2. PICK n : n = disk
    OBVIOUS
  <2>3. Suits(m) /\ Suits(n)
    BY <1>9, <2>1, <2>2
  <2> QED
    BY <2>1, <2>2, <2>3
<1> QED
  BY <1>2, <1>7, <1>10, <1>11, <1>12, <1>13 DEF Sound

(* A job goes on without changing the memory.                               *)
LEMMA JobGoesOn ==
  ASSUME IInv, Sound, NEW p \in Req, ~ JobIdle(p), mem' = mem, disk' = disk \/ disk' = mem,
         \A u \in Threads : u # p => th'[u] = th[u], th' \in [Threads -> Thread],
         UNCHANGED <<xs, client>>, JobOK(p)'
  PROVE  IInv'
<1>1. MemOK(mem)' /\ Grows(mem, mem') /\ Touches(mem, mem', p, {})
  BY MemStill
<1>2. Acts(p, p, {})
  BY <1>1 DEF Acts, Unhanded
<1>3. Confirmed'
  BY <1>1, Confirms
<1> QED
  BY <1>1, <1>2, <1>3, JobEnd DEF client

LEMMA JobAcknowledge_Keeps ==
  ASSUME IInv, NEW p \in Req, Acknowledge(p)
  PROVE  IInv'
<1>1. PICK d : d = th[p].d
  OBVIOUS
<1>2. /\ th[p].pc \in {"c_acking", "k_ack"} /\ disk' = disk /\ Releasing(d)
      /\ UNCHANGED <<xs, typed, resent, runs, faults, client>>
      /\ (Goto(p, IF At(p, "k_ack") THEN "k_confirm" ELSE "c_confirm") /\ mem' = mem) \/ Throw(p, FALSE)
  BY <1>1 DEF Acknowledge, Releasing
<1>3. th[p].pc = "c_acking" /\ ~ JobIdle(p) /\ p \in Threads /\ p # Cmd
  <2>1. th[p].pc \in JobPcs
    BY DEF IInv, Jobs, JobOK
  <2> QED
    BY <1>2, <2>1, Numbers DEF JobPcs, Starting, Checking, Acking, JobIdle, At, Threads, Cmd
<1>4. JobFacts(p, d) /\ mem.dl[d].resp # "none" /\ mem.dl[d].fmt = "CONFIRMED" /\ mem.dl[d].proc # "none" /\ disk.dl[d].proc # "none"
  BY <1>1, <1>3, JobHas DEF IInv, Jobs, JobOK, Settles, Checking, Acking
<1>5. Releasable(p, d)
  BY <1>4 DEF Releasable, JobFacts, IInv, Confirmed
<1>6. ASSUME NEW pc, Step(th, th', p, pc)
      PROVE  Sound /\ d \in acked'
  BY <1>2, <1>3, <1>5, <1>6, Releases DEF Step
<1>7. CASE Goto(p, "c_confirm") /\ mem' = mem
  <2>1. Step(th, th', p, "c_confirm")
    BY <1>3, <1>7, Goes, Types0, SavedPcs DEF Calling, IInv
  <2>2. Sound /\ d \in acked'
    BY <1>6, <2>1
  <2>3. JobOK(p)'
    <3>1. mem'.ctx[p].active = d /\ mem'.dl[d].resp # "none" /\ mem'.dl[d].fmt = "CONFIRMED" /\ mem'.dl[d].proc # "none"
      BY <1>3, <1>4, <1>7 DEF JobFacts
    <3> QED
      BY <1>1, <1>3, <2>1, <2>2, <3>1, JobNext DEF Sound, JobPcs, Starting, Checking, Acking
  <2> QED
    BY <1>2, <1>3, <1>7, <2>1, <2>2, <2>3, JobGoesOn DEF Step
<1>8. CASE Throw(p, FALSE)
  <2>1. Step(th, th', p, "catch") => Sound
    BY <1>6
  <2> QED
    BY <1>2, <1>3, <1>8, <2>1, JobThrows DEF Unhanded
<1> QED
  BY <1>2, <1>3, <1>7, <1>8 DEF At

(* What the settled answer makes of the preparation                         *)
LEMMA SettleIs ==
  ASSUME IInv, NEW t \in Threads, NEW p \in Req, NEW d \in Req, th[t].p = p, th[t].d = d, Settle(t)
  PROVE  Agrees(mem, mem', p, d) /\ th[t].pc = "c_confirm" /\ x.owner = 0 /\ disk' = disk
         /\ Goto(t, "c_settled") /\ UNCHANGED <<runs, faults, world, client>>
<1>1. PICK g : g = Diagnostics(p, TRUE)
  OBVIOUS
<1>2. g \in Diags
  BY <1>1 DEF Diagnostics, Diags
<1>3. mem' = [mem EXCEPT
           !.ctx[p] = [@ EXCEPT !.agree = IF mem.dl[d].resp = "ready" THEN "READY" ELSE "DISCUSSING", !.agreed = d,
                                !.state = IF mem.dl[d].resp = "ready" THEN "AGREEMENT_READY" ELSE "DISCUSSING",
                                !.active = 0, !.err = "none", !.diag = g],
           !.dl[d].state = "ACKNOWLEDGED", !.dl[d].proc = "COMPLETE"]
  BY <1>1 DEF Settle
<1>4. mem \in Memory
  BY DEF IInv, TypeOK
<1>5. Agrees(mem, mem', p, d)
  BY <1>2, <1>3, <1>4, SettleMoves
<1> QED
  BY <1>5 DEF Settle, Released, At

LEMMA JobSettle_Keeps ==
  ASSUME IInv, NEW p \in Req, Settle(p)
  PROVE  IInv'
<1>1. PICK d : d = th[p].d
  OBVIOUS
<1>2. ~ JobIdle(p) /\ TypeOK /\ th[p].pc = "c_confirm"
  BY DEF Settle, JobIdle, At, IInv
<1>3. JobFacts(p, d) /\ mem.dl[d].resp # "none" /\ mem.dl[d].fmt = "CONFIRMED" /\ mem.dl[d].proc # "none" /\ d \in acked
  BY <1>1, <1>2, JobHas DEF IInv, Jobs, JobOK, Settles, Checking, Acking
<1>4. Agrees(mem, mem', p, d) /\ x.owner = 0 /\ disk' = disk /\ Goto(p, "c_settled") /\ UNCHANGED <<runs, faults, world, client>>
  BY <1>1, <1>3, SettleIs DEF JobFacts
<1>5. Step(th, th', p, "c_settled")
  BY <1>2, <1>3, <1>4, Goes, Types0, SavedPcs DEF Saving, JobFacts
<1>6. UNCHANGED <<x, xs, typed, resent, acked, asked, dispatched, runs>> /\ WorldType' /\ x'.owner = x.owner /\ x'.disc = x.disc
  BY <1>4, CalmTyped
<1>7. Sound
  BY <1>2, <1>4, <1>5, <1>6, JobCalm DEF Step
<1>8. Touches(mem, mem', p, {d}) /\ mem'.dl[d].state = "ACKNOWLEDGED" /\ mem'.dl[d].resp = mem.dl[d].resp
      /\ mem'.dl[d].fmt = mem.dl[d].fmt /\ mem'.ctx[p].run = mem.ctx[p].run /\ mem'.dl[d].proc = "COMPLETE"
  BY <1>4 DEF Agrees
<1>9. TypeOK'
  BY <1>2, <1>4, <1>5, <1>6, <1>8, Types3 DEF Step, Touches
<1>10. MemOK(mem)'
  <2>1. xs[d].at = "done" /\ d \in Req /\ d # 0
    BY <1>3, Numbers DEF IInv, MemOK, DlOK, JobFacts
  <2>2. xs'[d].at # "wire" /\ x'.owner # d /\ d \in acked'
    BY <1>3, <1>4, <1>6, <2>1
  <2>3. mem.ctx[p].active = d
    BY <1>2, <1>3 DEF JobFacts
  <2> QED
    BY <1>3, <1>4, <1>7, <1>9, <2>2, <2>3, MemAgrees DEF JobFacts
<1>11. Confirmed'
  BY <1>4, <1>8, Confirms DEF Grows, Touches
<1>12. Acts(p, p, {d})
  BY <1>3, <1>4, <1>5, <1>6, <1>8 DEF Acts, Touches, Step, JobFacts, Unhanded
<1>13. JobOK(p)'
  <2>1. mem'.dl[d].resp # "none"
    BY <1>3, <1>8
  <2> QED
    BY <1>1, <1>2, <1>5, <1>7, <2>1, JobNext DEF Sound, JobPcs, Starting, Checking, Acking
<1> QED
  BY <1>2, <1>5, <1>6, <1>7, <1>10, <1>11, <1>12, <1>13, JobEnd DEF Step

-----------------------------------------------------------------------------
(* The command checks and settles its delivery, or fails                    *)

LEMMA CmdCalm ==
  ASSUME IInv, \A u \in Threads : u # Cmd => th'[u] = th[u], th'[Cmd].pc # "start",
         UNCHANGED <<runs, world, client>>,
         faults' = faults \/ (faults < MaxFaults /\ faults' = faults + 1)
  PROVE  Sound /\ UNCHANGED <<x, xs, typed, resent, acked, asked, dispatched, runs>>
<1>1. UNCHANGED <<x, xs, typed, resent, acked, asked, dispatched, runs>> /\ WorldType' /\ x'.owner = x.owner /\ x'.disc = x.disc
  BY CalmTyped
<1>2. Cmd \in Threads
  BY DEF Threads
<1> QED
  BY <1>1, <1>2, Calm

LEMMA CmdStep ==
  ASSUME IInv, NEW pc \in ThreadPcs, Goto(Cmd, pc)
  PROVE  Step(th, th', Cmd, pc) /\ (\A u \in Threads : u # Cmd => th'[u] = th[u])
         /\ (\A q \in Req : th'[q] = th[q]) /\ th'[Cmd].pc = pc /\ th' \in [Threads -> Thread]
<1>1. Cmd \in Threads /\ \A q \in Req : q \in Threads /\ q # Cmd
  BY Numbers DEF Threads, Cmd
<1>2. Step(th, th', Cmd, pc)
  BY <1>1, Goes, Types0 DEF IInv
<1> QED
  BY <1>1, <1>2 DEF Step

(* The memory stays, and the command comes to its end.                      *)
LEMMA CmdCloses ==
  ASSUME IInv, NEW pc \in {"finish", "refused", "save"}, Goto(Cmd, pc), th[Cmd].pc # "idle", mem' = mem,
         disk' = disk \/ disk' = mem, Sound, UNCHANGED <<xs, asked>>,
         pc = "save" => Type \notin {"start", "reply"},
         pc # "refused" /\ Type = "approve" => asked[th[Cmd].req].p \in Req /\ mem'.ctx[asked[th[Cmd].req].p].run # 0,
         pc = "finish" /\ Type \in {"start", "reply"} => mem'.dl[th[Cmd].req].state # "NONE"
  PROVE  IInv'
<1>1. pc \in ThreadPcs
  BY SavedPcs DEF Saving
<1>2. Step(th, th', Cmd, pc) /\ (\A q \in Req : th'[q] = th[q]) /\ th' \in [Threads -> Thread]
  BY <1>1, CmdStep
<1>3. Cmds'
  BY <1>2, CmdEnds DEF Step
<1> QED
  BY <1>2, <1>3, CmdDresses

LEMMA CmdThrows ==
  ASSUME IInv, NEW refused, Throw(Cmd, refused), th[Cmd].pc # "idle",
         disk' = disk \/ disk' = mem, UNCHANGED <<runs, world, client>>,
         faults' = faults \/ (faults < MaxFaults /\ faults' = faults + 1)
  PROVE  IInv'
<1>1. Goto(Cmd, "refused") /\ mem' = mem /\ "refused" \in ThreadPcs
  BY SavedPcs DEF Throw, Saving
<1>2. Sound /\ UNCHANGED <<xs, asked>>
  BY <1>1, CmdStep, CmdCalm
<1> QED
  BY <1>1, <1>2, CmdCloses

LEMMA CmdUnconfirmed_Keeps ==
  ASSUME IInv, Unconfirmed(Cmd)
  PROVE  IInv'
<1>1. th[Cmd].pc = "c_fail" /\ disk' = mem /\ Throw(Cmd, FALSE) /\ UNCHANGED <<runs, faults, world, client>>
  BY DEF Unconfirmed, Saved, At
<1> QED
  BY <1>1, CmdThrows

LEMMA CmdCallFails_Keeps ==
  ASSUME IInv, CallFails(Cmd)
  PROVE  IInv'
<1>1. th[Cmd].pc \in Calling /\ disk' = disk /\ Throw(Cmd, FALSE) /\ UNCHANGED <<runs, faults, world, client>>
  BY DEF CallFails
<1> QED
  BY <1>1, CmdThrows DEF Calling

(* The command is over.                                                     *)
LEMMA CmdRests ==
  ASSUME th'[Cmd].pc = "idle"
  PROVE  Cmds'
<1>1. Running' /\ Typed' /\ Approval'
  BY DEF Running, Typed, Approval, CmdPcs, Looking, Checking, Acking, Cancelling, Discarding, Rebinding, Approving
<1>2. Settles(Cmd)'
  BY DEF Settles, Checking, Acking
<1>3. Holding'
  BY <1>2 DEF Holding, Alone, Owning, Looking, Checking, Acking, Cancelling, Discarding, Rebinding, Approving
<1> QED
  BY <1>1, <1>3 DEF Cmds

LEMMA CmdSaveFails_Keeps ==
  ASSUME IInv, SaveFails(Cmd)
  PROVE  IInv'
<1>1. /\ th[Cmd].pc \in Saving /\ disk' = disk /\ UNCHANGED <<runs, world, client>>
      /\ faults < MaxFaults /\ faults' = faults + 1
  BY DEF SaveFails
<1>2. th[Cmd].pc \in CmdPcs /\ th[Cmd].pc # "idle" /\ Cmds /\ Cmd \in Threads /\ \A q \in Req : q # Cmd /\ q \in Threads
  BY <1>1, Numbers DEF IInv, Cmds, Running, Saving, Threads, Cmd
<1>3. CASE th[Cmd].pc \in {"claim", "finish", "refused"}
  <2>1. th' = [th EXCEPT ![Cmd] = Idle] /\ mem' = mem
    BY <1>3 DEF SaveFails
  <2>2. Sets(th, th', Cmd, Idle)
    BY <1>2, <2>1, Setting, Types0, IdleTyped DEF IInv
  <2>3. (\A u \in Threads : u # Cmd => th'[u] = th[u]) /\ th'[Cmd].pc = "idle" /\ th' \in [Threads -> Thread]
        /\ \A q \in Req : th'[q] = th[q]
    BY <1>2, <2>2 DEF Sets, Idle
  <2>4. Sound /\ UNCHANGED xs
    BY <1>1, <2>3, CmdCalm
  <2> QED
    BY <1>1, <2>1, <2>3, <2>4, CmdRests, CmdDresses
<1>4. CASE th[Cmd].pc = "a_done"
  <2>1. Goto(Cmd, "save") /\ mem' = mem /\ "save" \in ThreadPcs
    BY <1>4, SavedPcs DEF SaveFails, Saving
  <2>2. Sound /\ UNCHANGED <<xs, asked>>
    BY <1>1, <2>1, CmdStep, CmdCalm
  <2>3. Type = "approve" /\ asked[th[Cmd].req].p = th[Cmd].p /\ th[Cmd].p \in Req /\ mem.ctx[th[Cmd].p].run # 0
    BY <1>2, <1>4 DEF Cmds, Typed, Running, Approval, Approving
  <2> QED
    BY <1>1, <1>2, <2>1, <2>2, <2>3, CmdCloses
<1>5. CASE th[Cmd].pc \notin {"claim", "finish", "refused", "a_done"}
  <2>1. th[Cmd].pc # "catch"
    BY <1>2 DEF CmdPcs, Owning, Looking, Checking, Acking, Cancelling, Discarding, Rebinding, Approving
  <2>2. Throw(Cmd, FALSE)
    BY <1>5, <2>1 DEF SaveFails
  <2> QED
    BY <1>1, <1>2, <2>2, CmdThrows
<1> QED
  BY <1>3, <1>4, <1>5

LEMMA CmdSettled_Keeps ==
  ASSUME IInv, Settled(Cmd)
  PROVE  IInv'
<1>1. /\ th[Cmd].pc = "c_settled" /\ disk' = mem /\ mem' = mem /\ Goto(Cmd, "finish")
      /\ UNCHANGED <<runs, faults, world, client>> /\ "finish" \in ThreadPcs
  BY SavedPcs DEF Settled, Saved, At, Saving
<1>2. Type = "reconcile"
  BY <1>1 DEF IInv, Cmds, Typed
<1>3. Sound /\ UNCHANGED <<xs, asked>>
  BY <1>1, CmdStep, CmdCalm
<1> QED
  BY <1>1, <1>2, <1>3, CmdCloses

LEMMA CmdValidate_Keeps ==
  ASSUME IInv, Validate(Cmd)
  PROVE  IInv'
<1>1. PICK d, p : d = th[Cmd].d /\ p = th[Cmd].p
  OBVIOUS
<1>2. th[Cmd].pc = "c_inspect" /\ disk' = disk /\ UNCHANGED <<runs, faults, world, client>>
  BY DEF Validate, At
<1>3. CmdFacts(p, d) /\ mem.dl[d].resp # "none" /\ Type = "reconcile" /\ TypeOK
  BY <1>1, <1>2, CmdHas DEF IInv, Cmds, Typed, Holding, Settles, Checking, Owning
<1>4. d \in Req /\ p \in Req /\ PrepOf(d) = p /\ th[p].pc = "idle" /\ mem.ctx[p].active = d
  BY <1>3 DEF CmdFacts, JobIdle, At
<1>5. PICK g : g = Diagnostics(p, TRUE)
  OBVIOUS
<1>6. PICK pc \in {"c_checked", "c_fail"} :
        mem' = [mem EXCEPT !.ctx[p].diag = g, !.dl[d].fmt = "none"] /\ Goto(Cmd, pc)
  <2>1. PICK evidence \in BOOLEAN :
          /\ mem' = [mem EXCEPT !.ctx[p].diag = g, !.dl[d].fmt = "none"]
          /\ Goto(Cmd, IF evidence /\ "exact" \in g /\ x.owner \in {0, d} /\ ~ Generating THEN "c_checked" ELSE "c_fail")
    BY <1>1, <1>5 DEF Validate
  <2> QED
    BY <2>1
<1>7. g \in Diags /\ mem \in Memory
  BY <1>3, <1>5 DEF Diagnostics, Diags, TypeOK
<1>8. Marks(mem, mem', p, d, mem.dl[d].state, mem.dl[d].resp, "none", mem.dl[d].proc)
  BY <1>4, <1>6, <1>7, MarkFormat
<1>9. Step(th, th', Cmd, pc) /\ (\A u \in Threads : u # Cmd => th'[u] = th[u]) /\ (\A q \in Req : th'[q] = th[q]) /\ th'[Cmd].pc = pc
  BY <1>6, CmdStep, SavedPcs DEF Saving
<1>10. Sound /\ UNCHANGED <<x, xs, typed, resent, acked, asked, dispatched, runs>>
  BY <1>2, <1>9, CmdCalm
<1>11. JobMark(p, d, pc, mem.dl[d].state, mem.dl[d].resp, "none", mem.dl[d].proc)
  <2>1. xs[d].at = "done" /\ mem.dl[d].state \notin {"NONE", "RESERVED", "FAILED"}
    BY <1>3, <1>4 DEF IInv, MemOK, DlOK, Unhanded
  <2>2. d \in acked' => mem.dl[d].proc # "none" \/ CancelRan(p)
    BY <1>4, <1>10 DEF IInv, MemOK, DlOK
  <2>3. CancelRan(p) => CancelRan(p)'
    BY <1>3, <1>10, CancelStays DEF Sound, IInv
  <2> QED
    BY <1>2, <1>3, <1>8, <1>10, <2>1, <2>2, <2>3 DEF JobMark, Unhanded
<1>12. Cmds'
  <2>1. mem'.ctx[p].active = d /\ mem'.dl[d].resp # "none" /\ mem'.cur = mem.cur
    BY <1>3, <1>4, <1>8 DEF Marks, Same, Touches
  <2>2. pc \in Checking /\ pc \notin Acking
    BY DEF Checking, Acking
  <2>3. th'[p].pc = "idle" /\ th[Cmd].pc # "idle"
    BY <1>2, <1>4, <1>9
  <2> QED
    BY <1>1, <1>3, <1>4, <1>9, <1>10, <2>1, <2>2, <2>3, CmdChecks DEF Checking, Acking
<1> QED
  BY <1>3, <1>4, <1>9, <1>10, <1>11, <1>12, CmdMarks

LEMMA CmdChecked_Keeps ==
  ASSUME IInv, Checked(Cmd)
  PROVE  IInv'
<1>1. PICK d, p : d = th[Cmd].d /\ p = th[Cmd].p
  OBVIOUS
<1>2. th[Cmd].pc = "c_checked" /\ disk' = mem /\ UNCHANGED <<runs, faults, world, client>>
  BY DEF Checked, Saved, At
<1>3. CmdFacts(p, d) /\ mem.dl[d].resp # "none" /\ Type = "reconcile" /\ TypeOK
  BY <1>1, <1>2, CmdHas DEF IInv, Cmds, Typed, Holding, Settles, Checking, Owning
<1>4. d \in Req /\ p \in Req /\ PrepOf(d) = p /\ th[p].pc = "idle" /\ mem.ctx[p].active = d
  BY <1>3 DEF CmdFacts, JobIdle, At
<1>5. PICK fmt, proc, pc : Judges(Cmd, p, d, fmt, proc, pc)
  <2>1. Cmd \in Threads /\ mem \in Memory
    BY <1>3 DEF Threads, TypeOK
  <2> QED
    BY <1>1, <1>4, <2>1, Verdict
<1>6. /\ Marks(mem, mem', p, d, mem.dl[d].state, mem.dl[d].resp, fmt, proc) /\ Goto(Cmd, pc) /\ pc \in {"c_fail", "c_ack"}
      /\ pc = "c_ack" => fmt = "CONFIRMED" /\ proc = "ACK_PENDING"
      /\ proc # mem.dl[d].proc => proc # "none"
  BY <1>5 DEF Judges
<1>9. Step(th, th', Cmd, pc) /\ (\A u \in Threads : u # Cmd => th'[u] = th[u]) /\ (\A q \in Req : th'[q] = th[q]) /\ th'[Cmd].pc = pc
  BY <1>6, CmdStep, SavedPcs DEF Saving
<1>10. Sound /\ UNCHANGED <<x, xs, typed, resent, acked, asked, dispatched, runs>>
  BY <1>2, <1>6, <1>9, CmdCalm
<1>11. JobMark(p, d, pc, mem.dl[d].state, mem.dl[d].resp, fmt, proc)
  <2>1. xs[d].at = "done" /\ mem.dl[d].state \notin {"NONE", "RESERVED", "FAILED"}
    BY <1>3, <1>4 DEF IInv, MemOK, DlOK, Unhanded
  <2>2. d \in acked' => proc # "none" \/ CancelRan(p)
    BY <1>4, <1>6, <1>10 DEF IInv, MemOK, DlOK
  <2>3. CancelRan(p) => CancelRan(p)'
    BY <1>3, <1>10, CancelStays DEF Sound, IInv
  <2> QED
    BY <1>2, <1>3, <1>6, <1>10, <2>1, <2>2, <2>3 DEF JobMark, Unhanded
<1>12. Cmds'
  <2>1. mem'.ctx[p].active = d /\ mem'.dl[d].resp # "none" /\ mem'.cur = mem.cur /\ mem'.dl[d].fmt = fmt /\ mem'.dl[d].proc = proc
    BY <1>3, <1>4, <1>6 DEF Marks, Same, Touches
  <2>2. pc \in Checking /\ (pc \in Acking => pc = "c_ack") /\ pc \notin {"c_acking", "c_confirm", "c_settled"}
    BY <1>6 DEF Checking, Acking
  <2>3. th'[p].pc = "idle" /\ th[Cmd].pc # "idle"
    BY <1>2, <1>4, <1>9
  <2> QED
    BY <1>1, <1>3, <1>4, <1>6, <1>9, <1>10, <2>1, <2>2, <2>3, CmdChecks
<1> QED
  BY <1>3, <1>4, <1>9, <1>10, <1>11, <1>12, CmdMarks

LEMMA CmdAckIntended_Keeps ==
  ASSUME IInv, AckIntended(Cmd)
  PROVE  IInv'
<1>1. PICK d, p : d = th[Cmd].d /\ p = th[Cmd].p
  OBVIOUS
<1>2. th[Cmd].pc = "c_ack" /\ disk' = mem /\ mem' = mem /\ Goto(Cmd, "c_acking") /\ UNCHANGED <<runs, faults, world, client>>
  BY DEF AckIntended, Saved, At
<1>3. CmdFacts(p, d) /\ mem.dl[d].resp # "none" /\ mem.dl[d].fmt = "CONFIRMED" /\ mem.dl[d].proc # "none" /\ Type = "reconcile"
  BY <1>1, <1>2, CmdHas DEF IInv, Cmds, Typed, Holding, Settles, Checking, Acking, Owning
<1>4. d \in Req /\ p \in Req /\ th[p].pc = "idle" /\ mem.ctx[p].active = d
  BY <1>3 DEF CmdFacts, JobIdle, At
<1>5. "c_acking" \in ThreadPcs
  BY SavedPcs DEF Calling
<1>9. Step(th, th', Cmd, "c_acking") /\ (\A u \in Threads : u # Cmd => th'[u] = th[u]) /\ (\A q \in Req : th'[q] = th[q])
      /\ th'[Cmd].pc = "c_acking" /\ th' \in [Threads -> Thread]
  BY <1>2, <1>5, CmdStep
<1>10. Sound /\ UNCHANGED <<x, xs, typed, resent, acked, asked, dispatched, runs>>
  BY <1>2, <1>9, CmdCalm
<1>12. Cmds'
  <2>1. "c_acking" \in Checking /\ th'[p].pc = "idle" /\ th[Cmd].pc # "idle"
    BY <1>2, <1>4, <1>9 DEF Checking, Acking
  <2> QED
    BY <1>1, <1>2, <1>3, <1>4, <1>9, <1>10, <2>1, CmdChecks
<1> QED
  BY <1>2, <1>9, <1>10, <1>12, CmdDresses

(* A cancel, a discard or a rebind goes on with its delivery.               *)
LEMMA CmdOwns ==
  ASSUME IInv, UNCHANGED <<asked>>, mem'.cur = mem.cur, th[Cmd].pc # "idle", NEW p \in Req, NEW d \in Req, th[Cmd].p = p,
         NEW pc \in Cancelling \cup Discarding \cup Rebinding,
         th'[Cmd].pc = pc, th'[Cmd].req = th[Cmd].req, th'[Cmd].p = p, th'[Cmd].d = d,
         th'[p].pc = "idle", mem'.ctx[p].active = d,
         pc \in Cancelling => Type = "cancel" /\ asked[th[Cmd].req].p = p /\ dispatched'[th[Cmd].req] > 0,
         pc \in Discarding => Type = "discard", pc \in Rebinding => Type = "rebind",
         pc = "k_ack" => mem'.dl[d].fmt = "CONFIRMED", pc = "k_confirm" => d \in acked',
         pc \in {"d_intent", "d_web"} => xs'[d].at \in {"done", "quiet"},
         pc \in Rebinding => xs'[d].at \in {"none", "refused"}
  PROVE  Cmds'
<1>1. Running
  BY DEF IInv, Cmds
<1>2. Type' = Type
  BY DEF Type
<1>3. Running'
  BY <1>1, <1>2 DEF Running, CmdPcs, Owning, Cancelling, Discarding, Rebinding
<1>4. Typed'
  BY <1>2 DEF Typed, Looking, Checking, Acking, Cancelling, Discarding, Rebinding, Approving
<1>5. JobIdle(p)'
  BY DEF JobIdle, At
<1>6. Settles(Cmd)'
  BY DEF Settles, Checking, Acking, Cancelling, Discarding, Rebinding
<1>7. pc \in Rebinding => Unhanded(th[Cmd].d)'
  BY DEF Unhanded
<1>8. Holding'
  BY <1>2, <1>5, <1>6, <1>7 DEF Holding, Alone, Looking, Owning, Checking, Acking, Cancelling, Discarding, Rebinding, Approving
<1>9. Approval'
  BY DEF Approval, Approving, Cancelling, Discarding, Rebinding
<1> QED
  BY <1>3, <1>4, <1>8, <1>9 DEF Cmds

LEMMA CmdAcknowledge_Keeps ==
  ASSUME IInv, Acknowledge(Cmd)
  PROVE  IInv'
<1>1. PICK d, p : d = th[Cmd].d /\ p = th[Cmd].p
  OBVIOUS
<1>2. /\ th[Cmd].pc \in {"c_acking", "k_ack"} /\ disk' = disk /\ Releasing(d) /\ mem' = mem
      /\ UNCHANGED <<xs, typed, resent, runs, faults, client>>
      /\ Goto(Cmd, IF At(Cmd, "k_ack") THEN "k_confirm" ELSE "c_confirm") \/ Goto(Cmd, "refused")
  BY <1>1 DEF Acknowledge, Releasing, Throw
<1>3. PICK pc \in {"c_confirm", "k_confirm", "refused"} :
        /\ Goto(Cmd, pc) /\ (pc = "c_confirm" => th[Cmd].pc = "c_acking") /\ (pc = "k_confirm" => th[Cmd].pc = "k_ack")
  BY <1>2 DEF At
<1>4. CmdFacts(p, d) /\ mem.dl[d].fmt = "CONFIRMED"
  BY <1>1, <1>2, CmdHas DEF IInv, Cmds, Holding, Settles, Checking, Acking, Cancelling, Owning
<1>5. /\ th[Cmd].pc = "c_acking" => mem.dl[d].resp # "none" /\ mem.dl[d].proc # "none" /\ disk.dl[d].proc # "none" /\ Type = "reconcile"
      /\ th[Cmd].pc = "k_ack" => Type = "cancel" /\ asked[th[Cmd].req].p = p /\ dispatched[th[Cmd].req] > 0
  BY <1>1 DEF IInv, Cmds, Typed, Holding, Settles, Checking, Acking, Cancelling
<1>6. d \in Req /\ p \in Req /\ th[p].pc = "idle" /\ mem.ctx[p].active = d /\ PrepOf(d) = p
  BY <1>4 DEF CmdFacts, JobIdle, At
<1>7. th[Cmd].pc = "k_ack" => CancelRan(p)
  <2>1. th[Cmd].req \in Req
    BY <1>4 DEF CmdFacts
  <2>2. th[Cmd].pc = "k_ack" => asked[th[Cmd].req] = [type |-> "cancel", p |-> p]
    BY <1>5, <2>1 DEF IInv, TypeOK, Type
  <2> QED
    BY <1>5, <2>1, <2>2 DEF CancelRan
<1>8. Releasable(p, d)
  BY <1>2, <1>4, <1>5, <1>6, <1>7 DEF Releasable, IInv, Confirmed
<1>9. Step(th, th', Cmd, pc) /\ (\A u \in Threads : u # Cmd => th'[u] = th[u]) /\ (\A q \in Req : th'[q] = th[q])
      /\ th'[Cmd].pc = pc /\ th' \in [Threads -> Thread]
  BY <1>3, CmdStep, SavedPcs DEF Saving, Calling
<1>10. Sound /\ d \in acked' /\ UNCHANGED <<asked, dispatched, xs>>
  <2>1. Cmd \in Threads
    BY DEF Threads
  <2> QED
    BY <1>2, <1>8, <1>9, <2>1, Releases DEF client
<1>11. CASE pc = "refused"
  BY <1>2, <1>3, <1>10, <1>11, CmdCloses
<1>12. CASE pc = "c_confirm"
  <2>1. "c_confirm" \in Checking /\ th'[p].pc = "idle" /\ th[Cmd].pc # "idle"
    BY <1>2, <1>6, <1>9 DEF Checking, Acking
  <2>2. Cmds'
    BY <1>1, <1>2, <1>3, <1>4, <1>5, <1>6, <1>9, <1>10, <1>12, <2>1, CmdChecks
  <2> QED
    BY <1>2, <1>9, <1>10, <2>2, CmdDresses
<1>13. CASE pc = "k_confirm"
  <2>1. pc \in Cancelling /\ pc \notin Discarding \cup Rebinding /\ th'[p].pc = "idle" /\ th[Cmd].pc # "idle"
    BY <1>2, <1>6, <1>9, <1>13 DEF Cancelling, Discarding, Rebinding
  <2>2. th'[Cmd].req = th[Cmd].req /\ th'[Cmd].p = p /\ th'[Cmd].d = d
    BY <1>1, <1>9 DEF Step
  <2>3. Cmds'
    BY <1>1, <1>2, <1>3, <1>5, <1>6, <1>9, <1>10, <1>13, <2>1, <2>2, CmdOwns
  <2> QED
    BY <1>2, <1>9, <1>10, <2>3, CmdDresses
<1> QED
  BY <1>11, <1>12, <1>13

LEMMA CmdSettle_Keeps ==
  ASSUME IInv, Settle(Cmd)
  PROVE  IInv'
<1>1. PICK d, p : d = th[Cmd].d /\ p = th[Cmd].p
  OBVIOUS
<1>2. th[Cmd].pc = "c_confirm"
  BY DEF Settle, At
<1>3. CmdFacts(p, d) /\ mem.dl[d].resp # "none" /\ mem.dl[d].fmt = "CONFIRMED" /\ Type = "reconcile" /\ d \in acked /\ TypeOK
  BY <1>1, <1>2, CmdHas DEF IInv, Cmds, Typed, Holding, Settles, Checking, Acking, Owning
<1>4. d \in Req /\ p \in Req /\ PrepOf(d) = p /\ th[p].pc = "idle" /\ mem.ctx[p].active = d /\ Delivers(d, p) /\ ~ Fresh(p) /\ Cmd \in Threads
  BY <1>3 DEF CmdFacts, JobIdle, At, Threads
<1>5. Agrees(mem, mem', p, d) /\ x.owner = 0 /\ disk' = disk /\ Goto(Cmd, "c_settled") /\ UNCHANGED <<runs, faults, world, client>>
  BY <1>1, <1>4, SettleIs
<1>6. Step(th, th', Cmd, "c_settled") /\ (\A u \in Threads : u # Cmd => th'[u] = th[u]) /\ (\A q \in Req : th'[q] = th[q])
      /\ th'[Cmd].pc = "c_settled" /\ th' \in [Threads -> Thread]
  BY <1>5, CmdStep, SavedPcs DEF Saving
<1>7. Sound /\ UNCHANGED <<x, xs, typed, resent, acked, asked, dispatched, runs>>
  BY <1>5, <1>6, CmdCalm
<1>8. Touches(mem, mem', p, {d}) /\ mem'.dl[d].state = "ACKNOWLEDGED" /\ mem'.dl[d].resp = mem.dl[d].resp
      /\ mem'.dl[d].fmt = mem.dl[d].fmt /\ mem'.ctx[p].run = mem.ctx[p].run /\ mem'.dl[d].proc = "COMPLETE"
  BY <1>5 DEF Agrees
<1>9. TypeOK'
  BY <1>3, <1>5, <1>6, <1>7, <1>8, Types3 DEF Sound, Touches
<1>10. MemOK(mem)'
  <2>1. xs[d].at = "done" /\ d # 0
    BY <1>3, <1>4, Numbers DEF IInv, MemOK, DlOK
  <2>2. xs'[d].at # "wire" /\ x'.owner # d /\ d \in acked'
    BY <1>3, <1>5, <1>7, <2>1
  <2> QED
    BY <1>3, <1>4, <1>5, <1>7, <1>9, <2>2, MemAgrees
<1>11. Confirmed'
  BY <1>5, <1>8, Confirms DEF Grows, Touches
<1>12. Acts(Cmd, p, {d})
  BY <1>4, <1>5, <1>6, <1>7, <1>8 DEF Acts, Touches, Unhanded
<1>13. Cmds'
  <2>1. mem'.dl[d].resp # "none" /\ mem'.cur = mem.cur /\ th'[p].pc = "idle" /\ th[Cmd].pc # "idle" /\ "c_settled" \notin Acking
    BY <1>2, <1>3, <1>4, <1>6, <1>8 DEF Touches, Acking
  <2> QED
    BY <1>1, <1>3, <1>4, <1>6, <1>7, <2>1, CmdChecks
<1> QED
  BY <1>4, <1>6, <1>7, <1>10, <1>11, <1>12, <1>13, CmdEnd DEF JobIdle, At

-----------------------------------------------------------------------------
(* The receipt of a request                                                 *)

LEMMA RcptMoves ==
  ASSUME mem \in Memory, NEW r \in Req, NEW s \in {"PROCESSING", "COMPLETED", "FAILED"}, mem' = [mem EXCEPT !.rcpt[r] = s]
  PROVE  /\ mem' \in Memory /\ mem'.cur = mem.cur /\ mem'.ctx = mem.ctx /\ mem'.dl = mem.dl
         /\ mem'.rcpt[r] = s /\ \A q \in Req : q # r => mem'.rcpt[q] = mem.rcpt[q]
<1>1. mem'.rcpt = [mem.rcpt EXCEPT ![r] = s] /\ mem'.cur = mem.cur /\ mem'.ctx = mem.ctx /\ mem'.dl = mem.dl
  BY DEF Memory
<1>2. mem.rcpt \in [Req -> {"NONE", "PROCESSING", "COMPLETED", "FAILED"}]
  BY DEF Memory
<1>3. mem'.rcpt \in [Req -> {"NONE", "PROCESSING", "COMPLETED", "FAILED"}]
  BY <1>1, <1>2
<1>4. mem' \in Memory
  BY <1>1, <1>3 DEF Memory
<1> QED
  BY <1>1, <1>2, <1>4

LEMMA RcptChanges ==
  ASSUME IInv, Sound, UNCHANGED <<xs, asked>>, NEW r \in Req, NEW s \in {"PROCESSING", "COMPLETED", "FAILED"},
         mem' = [mem EXCEPT !.rcpt[r] = s], disk' = mem',
         \A q \in Req : th'[q] = th[q], th' \in [Threads -> Thread], asked[r].type # "none",
         s = "COMPLETED" => /\ asked[r].type \in {"start", "reply"} => mem.dl[r].state # "NONE"
                            /\ asked[r].type = "approve" => asked[r].p \in Req /\ mem.ctx[asked[r].p].run # 0,
         Cmds'
  PROVE  IInv'
<1>1. /\ mem' \in Memory /\ mem'.cur = mem.cur /\ mem'.ctx = mem.ctx /\ mem'.dl = mem.dl
      /\ mem'.rcpt[r] = s /\ \A q \in Req : q # r => mem'.rcpt[q] = mem.rcpt[q]
  BY RcptMoves DEF IInv, TypeOK
<1>2. TypeOK'
  BY <1>1, Types3 DEF Sound, IInv
<1>3. MemOK(mem)'
  <2>1. PICK m : m = mem
    OBVIOUS
  <2>2. PICK n : n = mem'
    OBVIOUS
  <2>3. MemOK(m)' /\ n.cur = m.cur /\ n.ctx = m.ctx /\ n.dl = m.dl /\ n.rcpt[r] = s /\ \A q \in Req : q # r => n.rcpt[q] = m.rcpt[q]
    BY <1>1, <2>1, <2>2, Kept
  <2>4. ASSUME NEW q \in Req
        PROVE  RcptOK(n, q)'
    <3>1. CASE q = r
      BY <1>1, <2>1, <2>3, <3>1 DEF RcptOK
    <3>2. CASE q # r
      BY <2>3, <3>2 DEF RcptOK, MemOK
    <3> QED
      BY <3>1, <3>2
  <2>5. MemOK(n)'
    BY <2>3, <2>4 DEF MemOK, CtxOK, DlOK, RunOK
  <2> QED
    BY <2>2, <2>5 DEF MemOK
<1>4. MemOK(disk)'
  BY <1>3, Rows DEF Sound
<1>5. Confirmed'
  BY <1>1, Confirms DEF Grows
<1>6. ASSUME NEW q \in Req
      PROVE  JobOK(q)'
  <2>1. JobOK(q) /\ th'[q] = th[q] /\ Frame /\ TypeOK /\ Requests
    BY DEF IInv, Jobs, Sound
  <2>2. th[q].pc \in Starting => Unhanded(th[q].d)'
    BY <2>1 DEF JobOK, Unhanded
  <2>3. JobKept(q)
    BY <1>1, <2>1, <2>2 DEF JobKept
  <2> QED
    BY <2>1, <2>3, JobStays
<1>7. Jobs'
  BY <1>6 DEF Jobs
<1> QED
  BY <1>2, <1>3, <1>4, <1>5, <1>7 DEF IInv, Sound

(* The command begins, and a thread that only begins holds nothing.         *)
LEMMA CmdOpens ==
  ASSUME NEW pc \in {"claim", "dispatch", "start"}, th'[Cmd].pc = pc, th'[Cmd].p = mem'.cur, th'[Cmd].req \in Req, Type' # "none",
         pc # "start" => dispatched'[th'[Cmd].req] = 0,
         pc = "dispatch" => mem'.rcpt[th'[Cmd].req] # "NONE" /\ disk'.rcpt[th'[Cmd].req] # "NONE",
         pc = "start" => Type' = "start" /\ dispatched'[th'[Cmd].req] > 0
  PROVE  Cmds'
<1>1. Running'
  BY DEF Running, CmdPcs
<1>2. Typed' /\ Approval'
  BY DEF Typed, Approval, Looking, Checking, Acking, Cancelling, Discarding, Rebinding, Approving
<1>3. Settles(Cmd)'
  BY DEF Settles, Checking, Acking
<1>4. Holding'
  BY <1>3 DEF Holding, Alone, Owning, Looking, Checking, Acking, Cancelling, Discarding, Rebinding, Approving
<1> QED
  BY <1>1, <1>2, <1>4 DEF Cmds

LEMMA Claimed_Keeps ==
  ASSUME IInv, Claimed
  PROVE  IInv'
<1>1. PICK r : r = th[Cmd].req
  OBVIOUS
<1>2. /\ th[Cmd].pc = "claim" /\ mem' = [mem EXCEPT !.rcpt[r] = "PROCESSING"] /\ disk' = mem' /\ Goto(Cmd, "dispatch")
      /\ UNCHANGED <<runs, faults, world, client>>
  BY <1>1 DEF Claimed, Receipt, At
<1>3. r \in Req /\ asked[r].type # "none" /\ dispatched[r] = 0 /\ th[Cmd].p = mem.cur
  BY <1>1, <1>2 DEF IInv, Cmds, Running, Type
<1>4. Step(th, th', Cmd, "dispatch") /\ (\A u \in Threads : u # Cmd => th'[u] = th[u]) /\ (\A q \in Req : th'[q] = th[q])
      /\ th'[Cmd].pc = "dispatch" /\ th' \in [Threads -> Thread]
  BY <1>2, CmdStep, SavedPcs
<1>5. Sound /\ UNCHANGED <<x, xs, typed, resent, acked, asked, dispatched, runs>>
  BY <1>2, <1>4, CmdCalm
<1>6. mem'.cur = mem.cur /\ mem'.rcpt[r] = "PROCESSING"
  BY <1>2, <1>3, RcptMoves DEF IInv, TypeOK
<1>7. th'[Cmd].p = mem'.cur /\ th'[Cmd].req = r /\ Type' # "none"
  BY <1>1, <1>3, <1>4, <1>5, <1>6 DEF Step, Type
<1>8. Cmds'
  BY <1>2, <1>3, <1>4, <1>5, <1>6, <1>7, CmdOpens
<1> QED
  BY <1>2, <1>3, <1>4, <1>5, <1>8, RcptChanges

LEMMA Finished_Keeps ==
  ASSUME IInv, Finished
  PROVE  IInv'
<1>1. PICK r : r = th[Cmd].req
  OBVIOUS
<1>2. PICK s \in {"COMPLETED", "FAILED"} :
        /\ s = IF At(Cmd, "finish") THEN "COMPLETED" ELSE "FAILED"
        /\ th[Cmd].pc \in {"finish", "refused"} /\ mem' = [mem EXCEPT !.rcpt[r] = s] /\ disk' = mem' /\ th' = [th EXCEPT ![Cmd] = Idle]
        /\ UNCHANGED <<runs, faults, world, client>>
  BY <1>1 DEF Finished, Receipt
<1>3. r \in Req /\ asked[r].type # "none"
  BY <1>1, <1>2 DEF IInv, Cmds, Running, Type
<1>4. s = "COMPLETED" => /\ asked[r].type \in {"start", "reply"} => mem.dl[r].state # "NONE"
                         /\ asked[r].type = "approve" => asked[r].p \in Req /\ mem.ctx[asked[r].p].run # 0
  BY <1>1, <1>2 DEF IInv, Cmds, Approval, Type, At
<1>5. Sets(th, th', Cmd, Idle) /\ Cmd \in Threads /\ \A q \in Req : q # Cmd /\ q \in Threads
  BY <1>2, Setting, Types0, IdleTyped, Numbers DEF IInv, Threads, Cmd
<1>6. (\A u \in Threads : u # Cmd => th'[u] = th[u]) /\ th'[Cmd].pc = "idle" /\ th' \in [Threads -> Thread]
      /\ \A q \in Req : th'[q] = th[q]
  BY <1>5 DEF Sets, Idle
<1>7. Sound /\ UNCHANGED <<xs, asked>>
  BY <1>2, <1>6, CmdCalm
<1> QED
  BY <1>2, <1>3, <1>4, <1>6, <1>7, CmdRests, RcptChanges

(* A client issues a request.                                               *)
LEMMA Execute_Keeps ==
  ASSUME IInv, NEW r \in Req, Execute(r)
  PROVE  IInv'
<1>1. /\ th[Cmd].pc = "idle" /\ mem.rcpt[r] = "NONE" /\ mem' = mem /\ disk' = disk
      /\ th' = [th EXCEPT ![Cmd] = [Idle EXCEPT !.pc = "claim", !.req = r, !.p = mem.cur]]
      /\ UNCHANGED <<x, xs, typed, resent, acked, runs, faults, dispatched>>
  BY DEF Execute, At, world
<1>2. TypeOK /\ Requests /\ mem.cur \in Ids /\ r \in Ids /\ Cmd \in Threads /\ \A q \in Req : q # Cmd /\ q \in Threads
  BY Numbers DEF IInv, TypeOK, Memory, Ids, Threads, Cmd
<1>3. [Idle EXCEPT !.pc = "claim", !.req = r, !.p = mem.cur] \in Thread
  <2>1. "claim" \in ThreadPcs
    BY SavedPcs DEF Saving
  <2> QED
    BY <1>2, <2>1, Numbers DEF Idle, Thread, Ids
<1>4. Sets(th, th', Cmd, [Idle EXCEPT !.pc = "claim", !.req = r, !.p = mem.cur])
  BY <1>1, <1>2, <1>3, Setting, Types0
<1>5. (\A u \in Threads : u # Cmd => th'[u] = th[u]) /\ (\A q \in Req : th'[q] = th[q]) /\ th' \in [Threads -> Thread]
      /\ th'[Cmd].pc = "claim" /\ th'[Cmd].req = r /\ th'[Cmd].p = mem.cur
  BY <1>2, <1>4 DEF Sets, Idle
<1>6. /\ asked' \in [Req -> [type : Types \cup {"none"}, p : 0 .. MaxReq]]
      /\ asked'[r].type # "none" /\ \A q \in Req : asked[q].type # "none" => asked'[q] = asked[q]
  <2>1. asked \in [Req -> [type : Types \cup {"none"}, p : Ids]] /\ "none" \notin Types
    BY <1>2 DEF TypeOK, Ids, Types
  <2>2. CASE asked[r].type = "none"
    <3>1. PICK type \in Types : asked' = [asked EXCEPT ![r] = [type |-> type, p |-> mem.cur]]
      BY <2>2 DEF Execute
    <3>2. [type |-> type, p |-> mem.cur] \in [type : Types \cup {"none"}, p : Ids]
      BY <1>2
    <3> QED
      BY <2>1, <2>2, <3>1, <3>2 DEF Ids
  <2>3. CASE asked[r].type # "none"
    BY <2>1, <2>3 DEF Execute, Ids
  <2> QED
    BY <2>2, <2>3
<1>7. dispatched[r] = 0
  BY <1>1, <1>2 DEF TypeOK, IInv, MemOK, RcptOK
<1>8. \A q \in Req : Fresh(q)' <=> Fresh(q)
  BY <1>1, <1>5 DEF Fresh, At
<1>9. Frame
  BY <1>1, <1>6, <1>8 DEF Frame
<1>10. Still
  BY <1>1 DEF Still, Unhanded, Held
<1>11. World'
  BY <1>1 DEF IInv, World
<1>12. Requests'
  <2>1. \A q \in Req : JobIdle(q)' <=> JobIdle(q)
    BY <1>5 DEF JobIdle, At
  <2> QED
    BY <1>1, <1>2, <1>6, <1>8, <2>1 DEF Requests
<1>13. WorldType'
  BY <1>1, <1>2, <1>6 DEF TypeOK, WorldType
<1>14. Sound
  BY <1>9, <1>10, <1>11, <1>12, <1>13, Suited DEF Sound
<1>15. Cmds'
  <2>1. Type' # "none" /\ th'[Cmd].p = mem'.cur /\ dispatched'[th'[Cmd].req] = 0 /\ th'[Cmd].req \in Req
    BY <1>1, <1>5, <1>6, <1>7 DEF Type
  <2> QED
    BY <1>5, <2>1, CmdOpens
<1> QED
  BY <1>1, <1>5, <1>14, <1>15, CmdDresses

-----------------------------------------------------------------------------
(* A command is dispatched: it counts as made from now on, a start once it  *)
(* has its preparation.                                                     *)
LEMMA Dispatches ==
  ASSUME IInv, th[Cmd].pc = "dispatch", NEW r, r = th[Cmd].req, dispatched' = [dispatched EXCEPT ![r] = @ + 1],
         UNCHANGED <<asked, runs, faults, world>>, \A u \in Threads : u # Cmd => th'[u] = th[u],
         th'[Cmd].pc = "start" => th'[Cmd].req = r
  PROVE  /\ Sound /\ UNCHANGED <<x, xs, typed, resent, acked, asked, runs>>
         /\ r \in Req /\ asked[r].type # "none" /\ dispatched'[r] > 0 /\ dispatched[r] = 0 /\ th[Cmd].p = mem.cur
         /\ (th'[Cmd].pc # "start" => ~ Fresh(r)')
<1>1. r \in Req /\ asked[r].type # "none" /\ dispatched[r] = 0 /\ mem.rcpt[r] # "NONE" /\ disk.rcpt[r] # "NONE" /\ th[Cmd].p = mem.cur
  BY DEF IInv, Cmds, Running, Type
<1>2. UNCHANGED <<x, xs, typed, resent, acked, asked, runs, faults>> /\ TypeOK /\ Requests
  BY DEF world, IInv
<1>3. dispatched \in [Req -> Nat]
  BY <1>2 DEF TypeOK
<1>4. dispatched'[r] = 1 /\ (\A q \in Req : q # r => dispatched'[q] = dispatched[q]) /\ dispatched' \in [Req -> Nat]
  BY <1>1, <1>3
<1>5. \A q \in Req : Fresh(q)' => Fresh(q)
  BY <1>1, <1>4 DEF Fresh, At
<1>6. \A q \in Req : dispatched[q] > 0 => dispatched'[q] > 0
  BY <1>1, <1>4
<1>7. Frame
  BY <1>2, <1>5, <1>6 DEF Frame
<1>8. Still
  BY <1>1, <1>2, <1>4 DEF Still, Unhanded, Held
<1>9. World'
  BY <1>2 DEF IInv, World
<1>10. Requests'
  <2>1. \A q \in Req : th'[q] = th[q]
    BY Numbers DEF Threads, Cmd
  <2>2. \A q \in Req : dispatched'[q] <= 1 /\ (dispatched'[q] > 0 => asked'[q].type # "none")
    BY <1>1, <1>2, <1>4 DEF Requests
  <2> QED
    BY <1>2, <1>5, <2>1, <2>2 DEF Requests, JobIdle, At
<1>11. WorldType'
  BY <1>2, <1>4 DEF TypeOK, WorldType
<1>12. Sound
  BY <1>7, <1>8, <1>9, <1>10, <1>11, Suited DEF Sound
<1>13. th'[Cmd].pc # "start" => ~ Fresh(r)'
  BY <1>4 DEF Fresh, At
<1> QED
  BY <1>1, <1>2, <1>4, <1>12, <1>13

LEMMA Refuse_Keeps ==
  ASSUME IInv, Refuse
  PROVE  IInv'
<1>1. Goto(Cmd, "refused") /\ UNCHANGED <<mem, disk, asked, runs, faults, world>> /\ "refused" \in ThreadPcs
  BY SavedPcs DEF Refuse, Saving
<1>2. (\A u \in Threads : u # Cmd => th'[u] = th[u]) /\ th'[Cmd].pc = "refused"
  BY <1>1, CmdStep
<1>3. CASE th[Cmd].pc = "dispatch" /\ dispatched' = [dispatched EXCEPT ![th[Cmd].req] = @ + 1]
  <2>1. Sound /\ UNCHANGED xs
    BY <1>1, <1>2, <1>3, Dispatches
  <2> QED
    BY <1>1, <1>3, <2>1, CmdCloses
<1>4. CASE th[Cmd].pc \in {"start", "a_start"} /\ UNCHANGED dispatched
  <2>1. UNCHANGED client
    BY <1>1, <1>4 DEF client
  <2>2. Sound /\ UNCHANGED xs
    BY <1>1, <1>2, <2>1, CmdCalm
  <2> QED
    BY <1>1, <1>4, <2>2, CmdCloses
<1> QED
  BY <1>3, <1>4 DEF Refuse, At

(* What dispatching a command of one of the types says                      *)
LEMMA Dispatched ==
  ASSUME IInv, NEW types, Dispatching(types), UNCHANGED <<runs, faults, world>>, \A u \in Threads : u # Cmd => th'[u] = th[u],
         th'[Cmd].pc = "start" => th'[Cmd].req = th[Cmd].req
  PROVE  /\ Sound /\ UNCHANGED <<x, xs, typed, resent, acked, asked, runs>>
         /\ th[Cmd].req \in Req /\ Type \in types /\ dispatched'[th[Cmd].req] > 0 /\ dispatched[th[Cmd].req] = 0
         /\ th[Cmd].p = mem.cur /\ th[Cmd].pc = "dispatch" /\ Type # "none" /\ Offered(Type)
         /\ (Type # "start" => mem.cur = asked[th[Cmd].req].p)
         /\ \A r \in Req : r = th[Cmd].req /\ th'[Cmd].pc # "start" => ~ Fresh(r)'
<1>1. th[Cmd].pc = "dispatch" /\ dispatched' = [dispatched EXCEPT ![th[Cmd].req] = @ + 1] /\ UNCHANGED asked
      /\ Type \in types /\ Offered(Type) /\ (Type # "start" => mem.cur = asked[th[Cmd].req].p)
  BY DEF Dispatching, Request, Type, At
<1>2. PICK r : r = th[Cmd].req
  OBVIOUS
<1>3. dispatched' = [dispatched EXCEPT ![r] = @ + 1]
  BY <1>1, <1>2
<1>4. /\ Sound /\ UNCHANGED <<x, xs, typed, resent, acked, asked, runs>>
      /\ r \in Req /\ asked[r].type # "none" /\ dispatched'[r] > 0 /\ dispatched[r] = 0 /\ th[Cmd].p = mem.cur
      /\ (th'[Cmd].pc # "start" => ~ Fresh(r)')
  BY <1>1, <1>2, <1>3, Dispatches
<1> QED
  BY <1>1, <1>2, <1>4 DEF Type

LEMMA StartAsked_Keeps ==
  ASSUME IInv, StartAsked
  PROVE  IInv'
<1>1. Dispatching({"start"}) /\ Goto(Cmd, "start") /\ UNCHANGED <<mem, disk, runs, faults, world>> /\ "start" \in ThreadPcs
  BY SavedPcs DEF StartAsked
<1>2. Step(th, th', Cmd, "start") /\ (\A u \in Threads : u # Cmd => th'[u] = th[u]) /\ (\A q \in Req : th'[q] = th[q])
      /\ th'[Cmd].pc = "start" /\ th' \in [Threads -> Thread] /\ th'[Cmd].req = th[Cmd].req /\ th'[Cmd].p = th[Cmd].p
  BY <1>1, CmdStep DEF Step
<1>3. Sound /\ UNCHANGED <<xs, asked>> /\ th[Cmd].req \in Req /\ Type = "start" /\ th[Cmd].p = mem.cur /\ dispatched'[th[Cmd].req] > 0
  BY <1>1, <1>2, Dispatched
<1>4. Cmds'
  <2>1. Type' = "start" /\ th'[Cmd].p = mem'.cur /\ dispatched'[th'[Cmd].req] > 0
    BY <1>1, <1>2, <1>3 DEF Type
  <2> QED
    BY <1>2, <1>3, <2>1, CmdOpens
<1> QED
  BY <1>1, <1>2, <1>3, <1>4, CmdDresses

-----------------------------------------------------------------------------
(* start and reply                                                          *)

LEMMA CurrentIs ==
  ASSUME IInv, mem.cur # 0
  PROVE  mem.cur \in Req /\ ~ Fresh(mem.cur)
<1>1. mem.cur \in 0 .. MaxReq /\ MaxReq \in Nat
  BY BoundsAssumption DEF IInv, TypeOK, Memory
<1>2. mem.cur \in Req
  BY <1>1 DEF Req
<1> QED
  BY <1>2 DEF IInv, MemOK

LEMMA CmdReserves ==
  ASSUME NEW p \in Req, NEW d \in Req, th'[Cmd].pc = "reserve", th'[Cmd].p = p, th'[Cmd].req = d, mem'.cur = p,
         Type' \in {"start", "reply"}, th'[p].pc = "idle", mem'.ctx[p].active = d, mem'.dl[d].state = "RESERVED"
  PROVE  Cmds'
<1>1. Type' # "none"
  OBVIOUS
<1>2. Running'
  BY <1>1 DEF Running, CmdPcs
<1>3. Typed' /\ Approval'
  BY DEF Typed, Approval, Looking, Checking, Acking, Cancelling, Discarding, Rebinding, Approving
<1>4. Settles(Cmd)' /\ JobIdle(p)'
  BY DEF Settles, Checking, Acking, JobIdle, At
<1>5. Holding'
  BY <1>4 DEF Holding, Alone, Owning, Looking, Checking, Acking, Cancelling, Discarding, Rebinding, Approving
<1> QED
  BY <1>2, <1>3, <1>5 DEF Cmds

LEMMA Start_Keeps ==
  ASSUME IInv, Start
  PROVE  IInv'
<1>1. PICK r : r = th[Cmd].req
  OBVIOUS
<1>2. /\ th[Cmd].pc = "start" /\ disk' = disk /\ UNCHANGED <<runs, faults, world, client>>
      /\ mem' = Reserve([mem EXCEPT !.cur = r, !.ctx[r] = [NoCtx EXCEPT !.life = "ACTIVE"]], r, r)
      /\ th' = [th EXCEPT ![Cmd].pc = "reserve", ![Cmd].p = r]
  BY <1>1 DEF Start, At
<1>3. r \in Req /\ asked[r].type = "start" /\ dispatched[r] > 0 /\ Fresh(r) /\ TypeOK /\ Requests
  BY <1>1, <1>2 DEF IInv, Cmds, Running, Typed, Type, Fresh, At
<1>4. Cmd \in Threads /\ (\A q \in Req : q # Cmd /\ q \in Threads) /\ th \in [Threads -> Thread]
  BY <1>3, Numbers, Types0 DEF Threads, Cmd
<1>5. /\ th' \in [Threads -> Thread] /\ th'[Cmd].pc = "reserve" /\ th'[Cmd].p = r /\ th'[Cmd].req = r
      /\ \A u \in Threads : u # Cmd => th'[u] = th[u]
  <2> DEFINE c == [th[Cmd] EXCEPT !.pc = "reserve", !.p = r]
  <2>1. th' = [th EXCEPT ![Cmd] = c]
    BY <1>2, <1>4
  <2>2. "reserve" \in ThreadPcs /\ r \in 0 .. MaxReq
    BY <1>3, SavedPcs, Numbers DEF Saving, Ids
  <2>3. c \in Thread /\ c.pc = "reserve" /\ c.p = r /\ c.req = r
    BY <1>1, <1>4, <2>2 DEF Thread
  <2> HIDE DEF c
  <2> QED
    BY <1>4, <2>1, <2>3
<1>6. \A q \in Req : th'[q] = th[q]
  BY <1>4, <1>5
<1>7. Sound /\ UNCHANGED <<x, xs, typed, resent, acked, asked, dispatched, runs>>
  BY <1>2, <1>5, CmdCalm
<1>8. Begins(mem, mem', r)
  BY <1>2, <1>3, StartMoves DEF TypeOK
<1>9. mem.ctx[r] = NoCtx /\ xs[r].at = "none" /\ x.owner # r /\ JobIdle(r)
  BY <1>3 DEF IInv, MemOK, CtxOK, Requests, World
<1>10. ~ Fresh(r)'
  BY <1>3, <1>5, <1>7 DEF Fresh, At
<1>11. TypeOK'
  <2>1. mem' \in Memory
    BY <1>8 DEF Begins
  <2> QED
    BY <1>2, <1>3, <1>5, <1>7, <2>1, Types3 DEF Sound
<1>12. MemOK(mem)'
  BY <1>3, <1>7, <1>8, <1>9, <1>10, <1>11, MemBegins
<1>13. MemOK(disk)'
  BY <1>2, <1>7, <1>12, Rows DEF Sound
<1>14. mem'.dl[r].resp = "none" /\ mem'.dl[r].fmt = "none" /\ mem'.dl[r].state = "RESERVED" /\ mem'.ctx[r].active = r /\ mem'.cur = r
       /\ \A q \in Req : q # r => mem'.ctx[q] = mem.ctx[q] /\ mem'.dl[q] = mem.dl[q]
  BY <1>8 DEF Begins
<1>15. Confirmed'
  <2>1. mem.dl[r].resp = "none" /\ disk.dl[r].resp = "none"
    BY <1>3, <1>9 DEF IInv, MemOK, DlOK
  <2> QED
    BY <1>2, <1>3, <1>14, <2>1 DEF IInv, Confirmed
<1>16. ASSUME NEW q \in Req
       PROVE  JobOK(q)'
  <2>1. CASE th[q].pc = "idle"
    BY <1>6, <2>1, Idles
  <2>2. CASE th[q].pc # "idle"
    <3>1. JobOK(q) /\ Delivers(th[q].d, q)
      BY <2>2 DEF IInv, Jobs, JobOK
    <3>2. th[q].d \in Req /\ th[q].d # r /\ q # r
      BY <1>3, <1>9, <2>2, <3>1 DEF Delivers, JobIdle, At
    <3>3. mem'.ctx[q] = mem.ctx[q] /\ mem'.dl[th[q].d] = mem.dl[th[q].d] /\ disk' = disk
      BY <1>2, <1>14, <3>2
    <3>4. th[q].pc \in Starting => Unhanded(th[q].d)'
      BY <1>6, <1>7, <3>1 DEF JobOK, Unhanded
    <3>5. JobKept(q)
      BY <3>3, <3>4 DEF JobKept
    <3> QED
      BY <1>3, <1>6, <1>7, <3>1, <3>5, JobStays DEF Sound
  <2> QED
    BY <2>1, <2>2
<1>17. Jobs'
  BY <1>16 DEF Jobs
<1>18. Cmds'
  <2>1. Type' = "start" /\ th'[r].pc = "idle"
    BY <1>3, <1>5, <1>6, <1>7, <1>9 DEF Type, JobIdle, At
  <2> QED
    BY <1>3, <1>5, <1>14, <2>1, CmdReserves
<1> QED
  BY <1>7, <1>11, <1>12, <1>13, <1>15, <1>17, <1>18 DEF IInv, Sound

LEMMA Reply_Keeps ==
  ASSUME IInv, Reply
  PROVE  IInv'
<1>1. PICK d, p : d = th[Cmd].req /\ p = mem.cur
  OBVIOUS
<1>2. /\ Dispatching({"reply"}) /\ mem' = Reserve(mem, p, d) /\ Goto(Cmd, "reserve") /\ disk' = disk
      /\ UNCHANGED <<runs, faults, world>> /\ "reserve" \in ThreadPcs
  BY <1>1, SavedPcs DEF Reply, Saving
<1>3. Step(th, th', Cmd, "reserve") /\ (\A u \in Threads : u # Cmd => th'[u] = th[u]) /\ (\A q \in Req : th'[q] = th[q])
      /\ th'[Cmd].pc = "reserve" /\ th' \in [Threads -> Thread] /\ th'[Cmd].req = d /\ th'[Cmd].p = th[Cmd].p
  BY <1>1, <1>2, CmdStep DEF Step
<1>4. /\ Sound /\ UNCHANGED <<x, xs, typed, resent, acked, asked, runs>>
      /\ d \in Req /\ Type = "reply" /\ dispatched[d] = 0 /\ th[Cmd].p = p /\ Offered(Type) /\ asked[d].p = p /\ ~ Fresh(d)'
      /\ asked[d].type = "reply" /\ Fresh(d)
  BY <1>1, <1>2, <1>3, Dispatched DEF Type, Fresh
<1>5. p # 0 /\ mem.ctx[p].life = "ACTIVE" /\ mem.ctx[p].agree # "APPROVED" /\ mem.ctx[p].active = 0 /\ th[p].pc = "idle"
  BY <1>1, <1>4 DEF Offered, Open, Quiet, Current, JobIdle, At
<1>6. p \in Req /\ ~ Fresh(p) /\ TypeOK /\ Requests
  BY <1>1, <1>5, CurrentIs DEF IInv
<1>7. xs[d].at = "none" /\ d \notin acked
  BY <1>4, <1>6 DEF Requests, IInv, MemOK, DlOK
<1>8. Reserves(mem, mem', p, d)
  BY <1>2, <1>4, <1>6, ReplyMoves DEF TypeOK
<1>9. Delivers(d, p)' /\ PrepOf(d) = p
  BY <1>4 DEF Delivers, PrepOf
<1>10. Touches(mem, mem', p, {d}) /\ mem'.dl[d].state = "RESERVED" /\ mem'.ctx[p].active = d /\ mem'.dl[d].fmt = "none"
       /\ mem'.ctx[p].run = mem.ctx[p].run
  BY <1>8 DEF Reserves
<1>11. TypeOK'
  BY <1>2, <1>3, <1>4, <1>6, <1>10, Types3 DEF Sound, Touches
<1>12. MemOK(mem)'
  BY <1>4, <1>5, <1>6, <1>7, <1>8, <1>9, <1>11, MemReserves
<1>13. mem.dl[d].resp = "none"
  BY <1>4, <1>7 DEF IInv, MemOK, DlOK
<1>14. Confirmed'
  BY <1>2, <1>10, <1>13, Confirms DEF Grows, Touches
<1>15. Acts(Cmd, p, {d})
  BY <1>2, <1>3, <1>4, <1>9, <1>10, <1>13 DEF Acts, Touches, Unhanded
<1>16. Cmds'
  <2>1. mem'.cur = p /\ Type' = "reply" /\ th'[p].pc = "idle"
    BY <1>1, <1>3, <1>4, <1>5, <1>6, <1>10 DEF Touches, Type
  <2> QED
    BY <1>3, <1>4, <1>6, <1>10, <2>1, CmdReserves
<1> QED
  BY <1>3, <1>4, <1>5, <1>6, <1>12, <1>14, <1>15, <1>16, CmdEnd DEF JobIdle, At

(* The job of a stored delivery is launched.                                *)
LEMMA Launched ==
  ASSUME IInv, NEW p, NEW d, p = th[Cmd].p, th[Cmd].pc \in {"reserve", "r_save"}, JobIdle(p), p \in Req, ~ Fresh(p),
         Delivers(d, p), mem.ctx[p].active = d, Unhanded(d), NEW pc \in {"bind", "launch"}, mem' = mem, disk' = mem, Launch(d, pc),
         UNCHANGED <<runs, faults, world, client>>,
         Type # "approve", Type \in {"start", "reply"} => mem.dl[th[Cmd].req].state # "NONE"
  PROVE  IInv'
<1>1. UNCHANGED <<x, xs, typed, resent, acked, asked, dispatched, runs, faults>> /\ TypeOK /\ Requests /\ WorldType'
  BY CalmTyped DEF world, client, IInv
<1>2. d \in Req /\ PrepOf(d) = p /\ Cmd \in Threads /\ p \in Threads /\ p # Cmd /\ th \in [Threads -> Thread]
  BY <1>1, Numbers, Types0 DEF Delivers, Threads, Cmd
<1> DEFINE c == [th[Cmd] EXCEPT !.pc = "finish"]
           e == [Idle EXCEPT !.pc = pc, !.p = p, !.d = d]
<1>3. th' = [th EXCEPT ![Cmd] = c, ![p] = e]
  BY <1>2 DEF Launch
<1>4. c \in Thread /\ c.pc = "finish" /\ c.req = th[Cmd].req /\ c.p = th[Cmd].p
  <2>1. "finish" \in ThreadPcs /\ th[Cmd] \in Thread
    BY <1>2, SavedPcs DEF Saving
  <2> QED
    BY <2>1 DEF Thread
<1>5. e \in Thread /\ e.pc = pc /\ e.p = p /\ e.d = d
  <2>1. pc \in ThreadPcs /\ p \in Ids /\ d \in Ids
    BY <1>2, Numbers, SavedPcs DEF Saving
  <2> QED
    BY <2>1, Numbers DEF Thread, Idle, Ids
<1> HIDE DEF c, e
<1>6. /\ th' \in [Threads -> Thread] /\ th'[Cmd] = c /\ th'[p] = e
      /\ \A u \in Threads : u # Cmd /\ u # p => th'[u] = th[u]
  BY <1>2, <1>3, <1>4, <1>5
<1>7. \A r \in Req : Fresh(r)' <=> Fresh(r)
  BY <1>1, <1>4, <1>6 DEF Fresh, At
<1>8. Frame
  BY <1>1, <1>7 DEF Frame
<1>9. Still
  BY <1>1 DEF Still, Unhanded, Held
<1>10. World'
  BY <1>1 DEF IInv, World
<1>11. Requests'
  <2>1. \A r \in Req : Fresh(r)' => th'[r] = th[r]
    BY <1>2, <1>6, <1>7, Numbers DEF Threads, Cmd
  <2> QED
    BY <1>1, <1>7, <2>1 DEF Requests, JobIdle, At
<1>12. Sound
  BY <1>1, <1>8, <1>9, <1>10, <1>11, Suited DEF Sound
<1>13. MemOK(mem)' /\ Grows(mem, mem')
  BY <1>12, MemStill
<1>14. MemOK(disk)'
  BY <1>12, <1>13, Rows DEF Sound
<1>15. TypeOK'
  BY <1>1, <1>6, <1>12, Types3 DEF Sound, TypeOK
<1>16. Confirmed'
  BY <1>13, Confirms
<1>17. ASSUME NEW q \in Req
       PROVE  JobOK(q)'
  <2>1. CASE q = p
    <3>1. Delivers(d, p)'
      BY <1>1, <1>8, DeliversStays
    <3>2. Delivers(th[p].d, p)' /\ Unhanded(th[p].d)'
      BY <1>1, <1>5, <1>6, <3>1 DEF Unhanded
    <3>3. Settles(p)'
      BY <1>5, <1>6 DEF Settles, Checking, Acking
    <3> QED
      BY <1>5, <1>6, <2>1, <3>2, <3>3 DEF JobOK, JobPcs, Starting
  <2>2. CASE q # p
    <3>1. JobOK(q) /\ th'[q] = th[q]
      BY <1>6, <2>2, Numbers DEF IInv, Jobs, Threads, Cmd
    <3>2. th[q].pc \in Starting => Unhanded(th[q].d)'
      BY <1>1, <3>1 DEF JobOK, Unhanded
    <3>3. JobKept(q)
      BY <3>2 DEF JobKept
    <3> QED
      BY <1>1, <1>8, <3>1, <3>3, JobStays
  <2> QED
    BY <2>1, <2>2
<1>18. Jobs'
  BY <1>17 DEF Jobs
<1>19. Cmds'
  BY <1>1, <1>4, <1>6, CmdEnds
<1> QED
  BY <1>12, <1>13, <1>14, <1>15, <1>16, <1>18, <1>19 DEF IInv, Sound

LEMMA Reserved_Keeps ==
  ASSUME IInv, Reserved
  PROVE  IInv'
<1>1. PICK d, p : d = mem.ctx[p].active /\ p = th[Cmd].p
  OBVIOUS
<1>2. th[Cmd].pc = "reserve" /\ mem' = mem /\ disk' = mem /\ Launch(d, "bind") /\ UNCHANGED <<runs, faults, world, client>>
  BY <1>1 DEF Reserved, Saved, At
<1>3. p \in Req /\ p = mem.cur /\ th[Cmd].req \in Req /\ Type \in {"start", "reply"} /\ JobIdle(p) /\ d = th[Cmd].req
      /\ mem.dl[d].state = "RESERVED"
  BY <1>1, <1>2 DEF IInv, Cmds, Running, Typed, Holding, Alone
<1>4. ~ Fresh(p) /\ Delivers(d, p)
  <2>1. d # 0 /\ p # 0
    BY <1>3, Numbers
  <2> QED
    BY <1>1, <1>3, <2>1 DEF IInv, MemOK, CtxOK
<1>5. Unhanded(d)
  BY <1>3 DEF IInv, MemOK, DlOK
<1> QED
  BY <1>1, <1>2, <1>3, <1>4, <1>5, Launched

LEMMA ReboundStored_Keeps ==
  ASSUME IInv, ReboundStored
  PROVE  IInv'
<1>1. PICK d, p : d = th[Cmd].d /\ p = th[Cmd].p
  OBVIOUS
<1>2. th[Cmd].pc = "r_save" /\ mem' = mem /\ disk' = mem /\ Launch(d, "launch") /\ UNCHANGED <<runs, faults, world, client>>
  BY <1>1 DEF ReboundStored, Saved, At
<1>3. CmdFacts(p, d) /\ Type = "rebind" /\ Unhanded(d)
  BY <1>1, <1>2, CmdHas DEF IInv, Cmds, Typed, Holding, Rebinding, Owning
<1> QED
  BY <1>1, <1>2, <1>3, Launched DEF CmdFacts

LEMMA CommandSaved_Keeps ==
  ASSUME IInv, CommandSaved
  PROVE  IInv'
<1>1. th[Cmd].pc = "save" /\ mem' = mem /\ disk' = mem /\ Goto(Cmd, "finish") /\ UNCHANGED <<runs, faults, world, client>>
      /\ "finish" \in ThreadPcs
  BY SavedPcs DEF CommandSaved, Saved, At, Saving
<1>2. Type \notin {"start", "reply"}
      /\ (Type = "approve" => asked[th[Cmd].req].p \in Req /\ mem.ctx[asked[th[Cmd].req].p].run # 0)
  BY <1>1 DEF IInv, Cmds, Typed, Approval
<1>3. Sound /\ UNCHANGED <<xs, asked>>
  BY <1>1, CmdStep, CmdCalm
<1> QED
  BY <1>1, <1>2, <1>3, CmdCloses

-----------------------------------------------------------------------------
(* discard and cancel                                                       *)

LEMMA CmdTakes ==
  ASSUME IInv, NEW pc \in ThreadPcs, NEW d \in Ids, th' = [th EXCEPT ![Cmd].pc = pc, ![Cmd].d = d]
  PROVE  /\ th' \in [Threads -> Thread] /\ th'[Cmd].pc = pc /\ th'[Cmd].d = d /\ th'[Cmd].req = th[Cmd].req /\ th'[Cmd].p = th[Cmd].p
         /\ (\A u \in Threads : u # Cmd => th'[u] = th[u]) /\ (\A q \in Req : th'[q] = th[q])
<1> DEFINE c == [th[Cmd] EXCEPT !.pc = pc, !.d = d]
<1>1. Cmd \in Threads /\ (\A q \in Req : q \in Threads /\ q # Cmd) /\ th \in [Threads -> Thread]
  BY Types0, Numbers DEF IInv, Threads, Cmd
<1>2. th' = [th EXCEPT ![Cmd] = c]
  BY <1>1
<1>3. c \in Thread /\ c.pc = pc /\ c.d = d /\ c.req = th[Cmd].req /\ c.p = th[Cmd].p
  BY <1>1 DEF Thread, Ids
<1> HIDE DEF c
<1> QED
  BY <1>1, <1>2, <1>3

LEMMA CmdTurns ==
  ASSUME IInv, NEW type \in {"discard", "cancel", "rebind"}, Dispatching({type}), NEW pc \in {"d_inspect", "k_inspect", "r_web"},
         NEW d, d = Current.active, d # 0, JobIdle(mem.cur), mem.cur # 0,
         th' = [th EXCEPT ![Cmd].pc = pc, ![Cmd].d = d], UNCHANGED <<mem, disk, runs, faults, world>>,
         pc = "d_inspect" => type = "discard", pc = "k_inspect" => type = "cancel",
         pc = "r_web" => type = "rebind" /\ mem.dl[d].state = "FAILED"
  PROVE  IInv'
<1>1. PICK p : p = mem.cur
  OBVIOUS
<1>2. p \in Req /\ ~ Fresh(p) /\ d = mem.ctx[p].active /\ th[p].pc = "idle"
  BY <1>1, CurrentIs DEF Current, JobIdle, At
<1>3. Delivers(d, p) /\ d \in Req /\ d \in Ids
  BY <1>2, Numbers DEF IInv, MemOK, CtxOK, Delivers
<1>4. pc \in ThreadPcs
  BY SavedPcs DEF Calling
<1>5. /\ th' \in [Threads -> Thread] /\ th'[Cmd].pc = pc /\ th'[Cmd].d = d /\ th'[Cmd].req = th[Cmd].req /\ th'[Cmd].p = th[Cmd].p
      /\ (\A u \in Threads : u # Cmd => th'[u] = th[u]) /\ (\A q \in Req : th'[q] = th[q])
  BY <1>3, <1>4, CmdTakes
<1>6. /\ Sound /\ UNCHANGED <<x, xs, typed, resent, acked, asked, runs>>
      /\ Type = type /\ dispatched'[th[Cmd].req] > 0 /\ th[Cmd].p = p /\ th[Cmd].pc = "dispatch"
      /\ p = asked[th[Cmd].req].p
  BY <1>1, <1>5, Dispatched
<1>7. pc = "r_web" => xs'[d].at \in {"none", "refused"}
  BY <1>3, <1>6 DEF IInv, MemOK, DlOK, Unhanded
<1>8. Cmds'
  <2>1. pc \in Cancelling \cup Discarding \cup Rebinding /\ (pc \in Cancelling => type = "cancel")
        /\ (pc \in Discarding => type = "discard") /\ (pc \in Rebinding => pc = "r_web" /\ type = "rebind")
    BY DEF Cancelling, Discarding, Rebinding
  <2>2. th[Cmd].pc # "idle" /\ th'[p].pc = "idle" /\ mem'.ctx[p].active = d /\ mem'.cur = mem.cur
        /\ pc \notin {"k_ack", "k_confirm", "d_intent", "d_web"}
    BY <1>2, <1>5, <1>6
  <2> QED
    BY <1>2, <1>3, <1>5, <1>6, <1>7, <2>1, <2>2, CmdOwns
<1> QED
  BY <1>5, <1>6, <1>8, CmdDresses

LEMMA Discard_Keeps ==
  ASSUME IInv, Discard
  PROVE  IInv'
<1>1. PICK d : d = Current.active
  OBVIOUS
<1>2. Dispatching({"discard"}) /\ th' = [th EXCEPT ![Cmd].pc = "d_inspect", ![Cmd].d = d] /\ UNCHANGED <<mem, disk, runs, faults, world>>
  BY <1>1 DEF Discard
<1>3. mem.cur # 0 /\ JobIdle(mem.cur) /\ d # 0
  BY <1>1, <1>2 DEF Dispatching, Offered
<1> QED
  BY <1>1, <1>2, <1>3, CmdTurns

LEMMA Cancel_Keeps ==
  ASSUME IInv, Cancel
  PROVE  IInv'
<1>1. PICK d : d = Current.active
  OBVIOUS
<1>2. Dispatching({"cancel"}) /\ d # 0 /\ th' = [th EXCEPT ![Cmd].pc = "k_inspect", ![Cmd].d = d] /\ UNCHANGED <<mem, disk, runs, faults, world>>
  BY <1>1 DEF Cancel
<1>3. mem.cur # 0 /\ JobIdle(mem.cur)
  BY <1>2 DEF Dispatching, Offered
<1> QED
  BY <1>1, <1>2, <1>3, CmdTurns

LEMMA RebindAsked_Keeps ==
  ASSUME IInv, RebindAsked
  PROVE  IInv'
<1>1. PICK d : d = Current.active
  OBVIOUS
<1>2. Dispatching({"rebind"}) /\ th' = [th EXCEPT ![Cmd].pc = "r_web", ![Cmd].d = d] /\ UNCHANGED <<mem, disk, runs, faults, world>>
  BY <1>1 DEF RebindAsked
<1>3. mem.cur # 0 /\ JobIdle(mem.cur) /\ d # 0 /\ mem.dl[d].state = "FAILED"
  BY <1>1, <1>2 DEF Dispatching, Offered, Active
<1> QED
  BY <1>1, <1>2, <1>3, CmdTurns

(* A command of discard, cancel or rebind goes on.                          *)
LEMMA CmdMoves ==
  ASSUME IInv, th[Cmd].pc \in Discarding \cup Cancelling \cup Rebinding, NEW pc \in Cancelling \cup Discarding \cup Rebinding, Goto(Cmd, pc),
         (mem' = mem) \/ Dresses(mem, mem', th[Cmd].p), disk' = disk \/ disk' = mem, UNCHANGED <<runs, faults, world, client>>,
         th[Cmd].pc \in Cancelling <=> pc \in Cancelling, th[Cmd].pc \in Discarding <=> pc \in Discarding,
         pc = "k_ack" => mem.dl[th[Cmd].d].fmt = "CONFIRMED", pc # "k_confirm",
         pc \in {"d_intent", "d_web"} => xs[th[Cmd].d].at \in {"done", "quiet"}
  PROVE  IInv'
<1>1. PICK d, p : d = th[Cmd].d /\ p = th[Cmd].p
  OBVIOUS
<1>2. CmdFacts(p, d)
  BY <1>1, CmdHas DEF Owning
<1>3. d \in Req /\ p \in Req /\ mem.ctx[p].active = d /\ th[p].pc = "idle" /\ ~ Fresh(p)
  BY <1>2 DEF CmdFacts, JobIdle, At
<1>4. /\ pc \in Cancelling => Type = "cancel" /\ asked[th[Cmd].req].p = p /\ dispatched[th[Cmd].req] > 0
      /\ pc \in Discarding => Type = "discard"
      /\ th[Cmd].pc \in Rebinding => Type = "rebind" /\ xs[d].at \in {"none", "refused"}
      /\ pc \in Rebinding => th[Cmd].pc \in Rebinding
  <2>1. pc \in Rebinding => th[Cmd].pc \in Rebinding
    BY DEF Cancelling, Discarding, Rebinding
  <2> QED
    BY <1>1, <2>1 DEF IInv, Cmds, Typed, Holding, Unhanded
<1>5. pc \in ThreadPcs /\ pc # "start" /\ th[Cmd].pc # "idle"
  BY SavedPcs DEF Calling, Saving, Cancelling, Discarding, Rebinding
<1>6. Step(th, th', Cmd, pc) /\ (\A u \in Threads : u # Cmd => th'[u] = th[u]) /\ (\A q \in Req : th'[q] = th[q])
      /\ th'[Cmd].pc = pc /\ th' \in [Threads -> Thread]
  BY <1>5, CmdStep
<1>7. Sound /\ UNCHANGED <<x, xs, typed, resent, acked, asked, dispatched, runs>>
  BY <1>5, <1>6, CmdCalm
<1>8. mem'.ctx[p].active = d /\ mem'.cur = mem.cur /\ mem'.dl[d] = mem.dl[d]
  BY <1>1, <1>3 DEF Dresses, Touches, Same
<1>9. Cmds'
  <2>1. th'[Cmd].req = th[Cmd].req /\ th'[Cmd].p = p /\ th'[Cmd].d = d /\ th'[p].pc = "idle"
    BY <1>1, <1>3, <1>6 DEF Step
  <2> QED
    BY <1>1, <1>3, <1>4, <1>5, <1>6, <1>7, <1>8, <2>1, CmdOwns
<1>10. (mem' = mem) \/ \E q \in Req : Dresses(mem, mem', q) /\ ~ Fresh(q)
  BY <1>1, <1>3
<1> QED
  BY <1>6, <1>7, <1>9, <1>10, CmdDresses

LEMMA DiscardInspected_Keeps ==
  ASSUME IInv, DiscardInspected
  PROVE  IInv'
<1>1. /\ th[Cmd].pc = "d_inspect" /\ Goto(Cmd, "d_intent") /\ mem' = mem /\ disk' = disk /\ UNCHANGED <<runs, faults, world, client>>
      /\ (x.owner = th[Cmd].d \/ (x.owner = 0 /\ x.disc = th[Cmd].d)) /\ ~ Generating
  BY DEF DiscardInspected, Discarded, At
<1>2. PICK d : d = th[Cmd].d
  OBVIOUS
<1>3. d \in Req /\ d # 0
  BY <1>1, <1>2, Numbers, CmdHas DEF CmdFacts, Owning, Discarding
<1>4. xs[d].at \in {"done", "quiet"}
  <2>1. CASE x.owner = d
    BY <1>1, <1>3, <2>1 DEF IInv, World, Generating
  <2>2. CASE x.disc = d
    BY <1>3, <2>2 DEF IInv, World
  <2> QED
    BY <1>1, <1>2, <2>1, <2>2
<1>5. "d_intent" \in Discarding /\ "d_intent" \notin Cancelling /\ "d_inspect" \in Discarding /\ "d_inspect" \notin Cancelling
  BY DEF Discarding, Cancelling
<1> QED
  BY <1>1, <1>2, <1>4, <1>5, CmdMoves

LEMMA DiscardIntended_Keeps ==
  ASSUME IInv, DiscardIntended
  PROVE  IInv'
<1>1. th[Cmd].pc = "d_intent" /\ Goto(Cmd, "d_web") /\ mem' = mem /\ disk' = mem /\ UNCHANGED <<runs, faults, world, client>>
  BY DEF DiscardIntended, Saved, At
<1>2. xs[th[Cmd].d].at \in {"done", "quiet"}
  BY <1>1 DEF IInv, Cmds, Holding
<1>3. "d_intent" \in Discarding /\ "d_intent" \notin Cancelling /\ "d_web" \in Discarding /\ "d_web" \notin Cancelling
  BY DEF Discarding, Cancelling
<1> QED
  BY <1>1, <1>2, <1>3, CmdMoves

(* The extension moves on in a way that the memory and the row know of.     *)
LEMMA WorldMoves ==
  ASSUME IInv, \A u \in Threads : u # Cmd => th'[u] = th[u], th'[Cmd].pc # "start",
         UNCHANGED <<runs, typed, resent, acked, asked, dispatched>>,
         \A d \in Req : /\ xs[d].at = "done" => xs'[d].at = "done"
                        /\ xs[d].at = "none" => xs'[d].at = "none"
                        /\ Unhanded(d) => Unhanded(d)'
                        /\ Held(d)' => Held(d),
         World', WorldType'
  PROVE  Sound
<1>1. \A r \in Req : Fresh(r)' => Fresh(r)
  BY DEF Fresh, At
<1>2. Frame
  BY <1>1 DEF Frame
<1>3. Still
  BY DEF Still
<1>4. Requests'
  <2>1. \A r \in Req : Fresh(r)' => Fresh(r) /\ xs[r].at = "none" /\ JobIdle(r) /\ r # Cmd
    BY <1>1, Numbers DEF IInv, Requests, Cmd
  <2>2. \A r \in Req : Fresh(r)' => th'[r] = th[r]
    BY <2>1 DEF Threads
  <2> QED
    BY <2>1, <2>2 DEF IInv, Requests, JobIdle, At
<1> QED
  BY <1>2, <1>3, <1>4, Suited DEF Sound

(* The preparation is given up, which is to be saved.                       *)
LEMMA CmdAbandons ==
  ASSUME IInv, Sound, NEW p \in Req, ~ Fresh(p), JobIdle(p), mem.ctx[p].agree # "APPROVED", NEW D, Abandons(mem, mem', p, D),
         \A d \in D : Delivers(d, p),
         mem.ctx[p].active # 0 => xs'[mem.ctx[p].active].at # "wire" /\ x'.owner # mem.ctx[p].active,
         disk' = disk, UNCHANGED <<xs, asked>>, Goto(Cmd, "save"), th[Cmd].pc # "idle", Type \in {"cancel", "discard"}
  PROVE  IInv'
<1>1. Step(th, th', Cmd, "save") /\ (\A u \in Threads : u # Cmd => th'[u] = th[u]) /\ (\A q \in Req : th'[q] = th[q])
      /\ th'[Cmd].pc = "save" /\ th' \in [Threads -> Thread]
  BY CmdStep, SavedPcs DEF Saving
<1>2. /\ Touches(mem, mem', p, D) /\ mem'.cur = mem.cur /\ mem'.ctx[p].run = mem.ctx[p].run
      /\ \A d \in D : /\ d \in Req /\ PrepOf(d) = p /\ mem'.dl[d].state # "NONE"
                      /\ mem'.dl[d].resp = mem.dl[d].resp /\ mem'.dl[d].fmt = mem.dl[d].fmt
  BY DEF Abandons, Touches, Delivers
<1>3. TypeOK'
  BY <1>1, <1>2, Types3 DEF Sound, Touches, IInv
<1>4. MemOK(mem)'
  BY <1>3, MemAbandons
<1>5. \A d \in Req : mem'.dl[d].resp = mem.dl[d].resp /\ mem'.dl[d].fmt = mem.dl[d].fmt
                     /\ (mem.dl[d].state # "NONE" => mem'.dl[d].state # "NONE") /\ (mem.ctx[d].run # 0 => mem'.ctx[d].run # 0)
  <2> TAKE d \in Req
  <2>1. d \notin D => mem'.dl[d] = mem.dl[d]
    BY <1>2 DEF Touches
  <2>2. d # p => mem'.ctx[d] = mem.ctx[d]
    BY <1>2 DEF Touches
  <2> QED
    BY <1>2, <2>1, <2>2
<1>6. Confirmed'
  BY <1>5, Confirms DEF Grows
<1>7. Acts(Cmd, p, D)
  BY <1>1, <1>2, <1>5 DEF Acts, Unhanded
<1>8. Cmds'
  BY <1>1, <1>2, CmdEnds DEF Step
<1> QED
  BY <1>1, <1>4, <1>6, <1>7, <1>8, CmdEnd

LEMMA DiscardDelivery_Keeps ==
  ASSUME IInv, DiscardDelivery
  PROVE  IInv'
<1>1. PICK d, p : d = th[Cmd].d /\ p = th[Cmd].p
  OBVIOUS
<1>2. /\ th[Cmd].pc = "d_web" /\ UNCHANGED <<disk, xs, typed, resent, acked, runs, faults, client>>
      /\ (x.owner = d /\ x' = [x EXCEPT !.owner = 0, !.disc = d]) \/ (x.owner = 0 /\ x' = x)
      /\ \/ /\ mem' = [Abandon(mem, p) EXCEPT !.dl[d].state = "RECOVERY_DISCARDED",
                         !.ctx[p].state = "RECOVERY_REQUIRED", !.ctx[p].err = "other"]
            /\ Goto(Cmd, "save")
         \/ mem' = mem /\ Goto(Cmd, "refused")
  BY <1>1 DEF DiscardDelivery, At, Throw, Discarded
<1>3. CmdFacts(p, d) /\ Type = "discard" /\ xs[d].at \in {"done", "quiet"} /\ TypeOK
  BY <1>1, <1>2, CmdHas DEF IInv, Cmds, Typed, Holding, Discarding, Owning
<1>4. d \in Req /\ p \in Req /\ Delivers(d, p) /\ ~ Fresh(p) /\ JobIdle(p) /\ mem.ctx[p].active = d /\ mem.ctx[p].agree = "DISCUSSING"
      /\ d \in Ids /\ d # 0
  BY <1>3, Numbers DEF CmdFacts
<1>5. PICK pc \in {"save", "refused"} : Goto(Cmd, pc)
  BY <1>2
<1>6. (\A u \in Threads : u # Cmd => th'[u] = th[u]) /\ th'[Cmd].pc = pc
  BY <1>5, CmdStep, SavedPcs DEF Saving
<1>7. UNCHANGED <<asked, dispatched>>
  BY <1>2 DEF client
<1>8. x' \in [sess : Ids, owner : Ids, disc : Ids] /\ x'.owner = 0 /\ (x'.disc = x.disc \/ x'.disc = d)
  <2>1. x \in [sess : Ids, owner : Ids, disc : Ids]
    BY <1>3 DEF TypeOK, Ids
  <2> QED
    BY <1>2, <1>4, <2>1, Numbers
<1>9. World'
  BY <1>2, <1>3, <1>8, Numbers DEF IInv, World
<1>10. WorldType'
  BY <1>2, <1>3, <1>7, <1>8 DEF TypeOK, WorldType, Ids
<1>11. Sound
  <2>1. \A e \in Req : (Unhanded(e) => Unhanded(e)') /\ (Held(e)' => Held(e))
    BY <1>2, <1>8, Numbers DEF Unhanded, Held
  <2> QED
    BY <1>2, <1>6, <1>7, <1>9, <1>10, <2>1, WorldMoves
<1>12. CASE mem' = mem /\ Goto(Cmd, "refused")
  BY <1>2, <1>7, <1>11, <1>12, CmdCloses
<1>13. CASE /\ mem' = [Abandon(mem, p) EXCEPT !.dl[d].state = "RECOVERY_DISCARDED",
                         !.ctx[p].state = "RECOVERY_REQUIRED", !.ctx[p].err = "other"]
            /\ Goto(Cmd, "save")
  <2>1. Abandons(mem, mem', p, {d})
    BY <1>3, <1>4, <1>13, DiscardMoves DEF TypeOK
  <2> QED
    BY <1>2, <1>3, <1>4, <1>7, <1>8, <1>11, <1>13, <2>1, CmdAbandons
<1> QED
  BY <1>2, <1>12, <1>13

LEMMA CancelConfirmed_Keeps ==
  ASSUME IInv, CancelConfirmed
  PROVE  IInv'
<1>1. PICK d, p : d = th[Cmd].d /\ p = th[Cmd].p
  OBVIOUS
<1>2. /\ th[Cmd].pc = "k_confirm" /\ disk' = disk /\ UNCHANGED <<runs, faults, world, client>> /\ x.owner = 0
      /\ mem' = [Abandon(mem, p) EXCEPT !.dl[d].state = "ACKNOWLEDGED"] /\ Goto(Cmd, "save")
  BY <1>1 DEF CancelConfirmed, At, Released
<1>3. CmdFacts(p, d) /\ Type = "cancel" /\ d \in acked /\ TypeOK
  BY <1>1, <1>2, CmdHas DEF IInv, Cmds, Typed, Holding, Cancelling, Owning
<1>4. d \in Req /\ p \in Req /\ Delivers(d, p) /\ ~ Fresh(p) /\ JobIdle(p) /\ mem.ctx[p].active = d /\ mem.ctx[p].agree = "DISCUSSING" /\ d # 0
  BY <1>3, Numbers DEF CmdFacts
<1>5. xs[d].at = "done"
  BY <1>3, <1>4 DEF IInv, MemOK, DlOK
<1>6. (\A u \in Threads : u # Cmd => th'[u] = th[u]) /\ th'[Cmd].pc = "save"
  BY <1>2, CmdStep, SavedPcs DEF Saving
<1>7. Sound /\ UNCHANGED <<x, xs, asked>>
  BY <1>2, <1>6, CmdCalm
<1>8. Abandons(mem, mem', p, {d})
  BY <1>2, <1>3, <1>4, CancelMoves DEF TypeOK
<1> QED
  BY <1>2, <1>3, <1>4, <1>5, <1>7, <1>8, CmdAbandons

LEMMA CancelLocal_Keeps ==
  ASSUME IInv, CancelLocal
  PROVE  IInv'
<1>1. PICK p, m : p = mem.cur /\ m = mem
  OBVIOUS
<1>2. /\ Dispatching({"cancel"}) /\ disk' = disk /\ UNCHANGED <<runs, faults, world>> /\ Goto(Cmd, "save")
      /\ mem.ctx[p].active = 0 \/ Unsent(mem, p)
      /\ mem' = [Abandon(mem, p) EXCEPT !.ctx[p].err = IF Unsent(mem, p) THEN "other" ELSE @]
  BY <1>1 DEF CancelLocal, Current
<1>3. (\A u \in Threads : u # Cmd => th'[u] = th[u]) /\ th'[Cmd].pc = "save"
  BY <1>2, CmdStep, SavedPcs DEF Saving
<1>4. /\ Sound /\ UNCHANGED <<x, xs, typed, resent, acked, asked, runs>>
      /\ Type = "cancel" /\ th[Cmd].pc = "dispatch" /\ Offered(Type)
  BY <1>2, <1>3, Dispatched
<1>5. p # 0 /\ JobIdle(p) /\ mem.ctx[p].agree # "APPROVED"
  BY <1>1, <1>4 DEF Offered, Open, Current
<1>6. p \in Req /\ ~ Fresh(p) /\ mem \in Memory /\ mem.ctx[p] \in Ctx
  BY <1>1, <1>5, CurrentIs DEF IInv, TypeOK, Memory
<1>7. PICK e \in Errs : e = IF Unsent(mem, p) THEN "other" ELSE mem.ctx[p].err
  BY <1>6 DEF Ctx, Errs
<1>8. mem' = [Abandon(mem, p) EXCEPT !.ctx[p].err = e]
  <2>1. Abandon(mem, p).ctx[p].err = mem.ctx[p].err
    BY <1>6 DEF Abandon, Memory, Ctx
  <2> QED
    BY <1>2, <1>7, <2>1
<1>9. Abandons(mem, mem', p, {})
  BY <1>6, <1>8, AbandonMoves
<1>10. ASSUME mem.ctx[p].active # 0
       PROVE  xs'[mem.ctx[p].active].at # "wire" /\ x'.owner # mem.ctx[p].active
  <2>1. PICK d : d = mem.ctx[p].active
    OBVIOUS
  <2>2. d \in Req /\ mem.dl[d].state = "FAILED"
    BY <1>2, <1>6, <1>10, <2>1 DEF Unsent, IInv, MemOK, CtxOK, Delivers
  <2>3. Unhanded(d)
    BY <2>2 DEF IInv, MemOK, DlOK
  <2> QED
    BY <1>4, <2>1, <2>2, <2>3 DEF IInv, World, Unhanded
<1> QED
  BY <1>2, <1>4, <1>5, <1>6, <1>9, <1>10, CmdAbandons

LEMMA CancelInspected_Keeps ==
  ASSUME IInv, CancelInspected
  PROVE  IInv'
<1>1. PICK d, p : d = th[Cmd].d /\ p = th[Cmd].p
  OBVIOUS
<1>2. /\ th[Cmd].pc = "k_inspect" /\ disk' = disk /\ UNCHANGED <<runs, faults, world, client>>
      /\ mem' = [mem EXCEPT !.ctx[p].diag = Diagnostics(p, TRUE)]
      /\ Goto(Cmd, "refused") \/ (Goto(Cmd, "k_ack") /\ mem.dl[d].fmt = "CONFIRMED")
  BY <1>1 DEF CancelInspected, At, Validated
<1>3. CmdFacts(p, d)
  BY <1>1, <1>2, CmdHas DEF Owning, Cancelling
<1>4. p \in Req /\ ~ Fresh(p) /\ mem \in Memory
  BY <1>3 DEF CmdFacts, IInv, TypeOK
<1>5. Dresses(mem, mem', p)
  <2>1. Diagnostics(p, TRUE) \in Diags
    BY DEF Diagnostics, Diags
  <2> QED
    BY <1>2, <1>4, <2>1, DressDiag
<1>6. CASE Goto(Cmd, "k_ack") /\ mem.dl[d].fmt = "CONFIRMED"
  <2>1. "k_inspect" \in Cancelling /\ "k_ack" \in Cancelling /\ "k_inspect" \notin Discarding /\ "k_ack" \notin Discarding
    BY DEF Cancelling, Discarding
  <2> QED
    BY <1>1, <1>2, <1>5, <1>6, <2>1, CmdMoves
<1>7. CASE Goto(Cmd, "refused")
  <2>1. "refused" \in ThreadPcs
    BY SavedPcs DEF Saving
  <2>2. Step(th, th', Cmd, "refused") /\ (\A u \in Threads : u # Cmd => th'[u] = th[u]) /\ (\A q \in Req : th'[q] = th[q])
        /\ th'[Cmd].pc = "refused" /\ th' \in [Threads -> Thread]
    BY <1>7, <2>1, CmdStep
  <2>3. Sound /\ UNCHANGED <<x, xs, typed, resent, acked, asked, dispatched, runs>>
    BY <1>2, <2>2, CmdCalm
  <2>4. Cmds'
    BY <1>2, <1>5, <2>2, <2>3, CmdEnds DEF Step, Dresses, Touches
  <2> QED
    BY <1>2, <1>4, <1>5, <2>2, <2>3, <2>4, CmdDresses
<1> QED
  BY <1>2, <1>6, <1>7

-----------------------------------------------------------------------------
(* approve                                                                  *)

LEMMA CmdApproves ==
  ASSUME IInv, UNCHANGED <<asked>>, mem'.cur = mem.cur, th[Cmd].pc # "idle", NEW p \in Req, th[Cmd].p = p,
         NEW pc \in Approving, th'[Cmd].pc = pc, th'[Cmd].req = th[Cmd].req, th'[Cmd].p = p,
         th'[p].pc = "idle", Type = "approve", asked[th[Cmd].req].p = p,
         mem'.ctx[p].agree \in {"READY", "APPROVED"}, mem'.ctx[p].life # "ABANDONED",
         pc # "a_start" => mem'.ctx[p].reserved # 0,
         pc = "a_run" => /\ disk'.ctx[p].reserved = mem'.ctx[p].reserved /\ disk'.ctx[p].agree = "APPROVED"
                         /\ disk'.ctx[p].life # "ABANDONED" /\ disk'.ctx[p].agreed = mem'.ctx[p].agreed,
         pc = "a_done" => mem'.ctx[p].run # 0
  PROVE  Cmds'
<1>1. /\ pc \in CmdPcs /\ pc \notin {"idle", "claim", "dispatch", "start", "reserve", "c_settled", "finish", "save"}
      /\ pc \notin Looking /\ pc \notin Owning /\ pc \notin Cancelling /\ pc \notin Discarding /\ pc \notin Rebinding
      /\ pc \notin Checking /\ pc \notin Acking /\ pc \notin {"w_resume", "w_rebound", "w_seen"}
  BY DEF CmdPcs, Approving, Looking, Owning, Cancelling, Discarding, Rebinding, Checking, Acking
<1>2. Type' = "approve" /\ th[Cmd].req \in Req /\ p = mem.cur
  BY DEF Type, IInv, Cmds, Running
<1>3. Running'
  BY <1>1, <1>2 DEF Running
<1>4. Typed'
  BY <1>1, <1>2 DEF Typed
<1>5. Settles(Cmd)' /\ JobIdle(p)'
  BY <1>1 DEF Settles, Acking, Checking, JobIdle, At
<1>6. pc \notin {"k_ack", "k_confirm", "d_intent", "d_web"}
  BY <1>1 DEF Cancelling, Discarding
<1>7. Holding'
  BY <1>1, <1>5, <1>6 DEF Holding
<1>8. Approval'
  BY <1>1 DEF Approval
<1> QED
  BY <1>3, <1>4, <1>7, <1>8 DEF Cmds

LEMMA ApproveAgain_Keeps ==
  ASSUME IInv, ApproveAgain
  PROVE  IInv'
<1>1. PICK p : p = mem.cur
  OBVIOUS
<1>2. Dispatching({"approve"}) /\ mem.ctx[p].run # 0 /\ Goto(Cmd, "finish") /\ UNCHANGED <<mem, disk, runs, faults, world>>
  BY <1>1 DEF ApproveAgain, Current
<1>3. (\A u \in Threads : u # Cmd => th'[u] = th[u]) /\ th'[Cmd].pc = "finish"
  BY <1>2, CmdStep, SavedPcs DEF Saving
<1>4. /\ Sound /\ UNCHANGED <<x, xs, typed, resent, acked, asked, runs>>
      /\ Type = "approve" /\ th[Cmd].pc = "dispatch" /\ Offered(Type) /\ asked[th[Cmd].req].p = p
  BY <1>1, <1>2, <1>3, Dispatched
<1>5. p \in Req
  BY <1>1, <1>4, CurrentIs DEF Offered
<1> QED
  BY <1>2, <1>4, <1>5, CmdCloses

LEMMA Approve_Keeps ==
  ASSUME IInv, Approve
  PROVE  IInv'
<1>1. PICK p : p = mem.cur
  OBVIOUS
<1>2. Dispatching({"approve"}) /\ mem.ctx[p].run = 0 /\ Goto(Cmd, "a_start") /\ UNCHANGED <<mem, disk, runs, faults, world>>
  BY <1>1 DEF Approve, Current
<1>3. /\ (\A u \in Threads : u # Cmd => th'[u] = th[u]) /\ (\A q \in Req : th'[q] = th[q])
      /\ th'[Cmd].pc = "a_start" /\ th'[Cmd].req = th[Cmd].req /\ th'[Cmd].p = th[Cmd].p /\ th' \in [Threads -> Thread]
  BY <1>2, CmdStep, SavedPcs DEF Step
<1>4. /\ Sound /\ UNCHANGED <<x, xs, typed, resent, acked, asked, runs>>
      /\ Type = "approve" /\ th[Cmd].pc = "dispatch" /\ Offered(Type) /\ asked[th[Cmd].req].p = p /\ th[Cmd].p = p
  BY <1>1, <1>2, <1>3, Dispatched
<1>5. p # 0 /\ mem.ctx[p].life = "ACTIVE" /\ mem.ctx[p].agree \in {"READY", "APPROVED"} /\ th[p].pc = "idle"
  BY <1>1, <1>2, <1>4 DEF Offered, Quiet, Current, JobIdle, At
<1>6. p \in Req
  BY <1>1, <1>5, CurrentIs
<1>7. Cmds'
  <2>1. "a_start" \in Approving
    BY DEF Approving
  <2> QED
    BY <1>2, <1>3, <1>4, <1>5, <1>6, <2>1, CmdApproves
<1> QED
  BY <1>2, <1>3, <1>4, <1>7, CmdDresses

(* What an approval knows                                                   *)
Approved(p) ==
  /\ p \in Req /\ p \in Threads /\ th[Cmd].p = p /\ mem.cur = p /\ ~ Fresh(p) /\ JobIdle(p)
  /\ th[Cmd].req \in Req /\ Type = "approve" /\ asked[th[Cmd].req].p = p
  /\ mem.ctx[p] \in Ctx /\ mem.ctx[p].agree \in {"READY", "APPROVED"} /\ mem.ctx[p].life # "ABANDONED"
  /\ th[Cmd].pc # "a_start" => mem.ctx[p].reserved \in Req /\ mem.ctx[p].agree = "APPROVED"

LEMMA CmdApproved ==
  ASSUME IInv, th[Cmd].pc \in Approving
  PROVE  Approved(th[Cmd].p) /\ mem \in Memory
<1>1. PICK p : p = th[Cmd].p
  OBVIOUS
<1>2. /\ p \in Req /\ mem.cur = p /\ th[Cmd].req \in Req /\ mem \in Memory
      /\ Type = "approve" /\ asked[th[Cmd].req].p = p
  <2>1. th[Cmd].pc \notin {"idle", "claim", "dispatch", "start", "finish", "refused", "save"}
    BY DEF Approving
  <2> QED
    BY <1>1, <2>1 DEF IInv, Cmds, Running, Typed, TypeOK
<1>3. p \in Threads /\ p # 0 /\ ~ Fresh(p) /\ JobIdle(p)
  BY <1>1, <1>2, Numbers DEF IInv, Cmds, Holding, Alone, MemOK, Threads
<1>4. mem.ctx[p] \in Ctx /\ mem.ctx[p].agree \in {"READY", "APPROVED"} /\ mem.ctx[p].life # "ABANDONED"
      /\ (th[Cmd].pc # "a_start" => mem.ctx[p].reserved # 0)
  BY <1>1, <1>2 DEF IInv, Cmds, Approval, Memory
<1>5. th[Cmd].pc # "a_start" => mem.ctx[p].reserved \in Req /\ mem.ctx[p].agree = "APPROVED"
  <2>1. mem.ctx[p].reserved \in 0 .. MaxReq /\ MaxReq \in Nat
    BY <1>4, BoundsAssumption DEF Ctx
  <2> QED
    BY <1>2, <1>4, <2>1 DEF IInv, MemOK, CtxOK, Req
<1> QED
  BY <1>1, <1>2, <1>3, <1>4, <1>5 DEF Approved

(* The approval changes its preparation.                                    *)
LEMMA CmdAdvances ==
  ASSUME IInv, Sound, NEW p, Approved(p), Touches(mem, mem', p, {}), MemOK(mem)', mem.ctx[p].run # 0 => mem'.ctx[p].run # 0,
         xs' = xs, disk' = disk, \A u \in Threads : u # Cmd => th'[u] = th[u], th' \in [Threads -> Thread], Cmds'
  PROVE  IInv'
<1>1. p \in Req /\ JobIdle(p) /\ mem'.dl = mem.dl
  <2>1. \A d \in Req : mem'.dl[d] = mem.dl[d]
    BY DEF Touches
  <2>2. mem.dl \in [Req -> Delivery] /\ mem'.dl \in [Req -> Delivery]
    BY DEF IInv, TypeOK, Touches, Memory
  <2> QED
    BY <2>1, <2>2 DEF Approved
<1>2. \A d \in Req : mem.ctx[d].run # 0 => mem'.ctx[d].run # 0
  BY DEF Touches
<1>3. Acts(Cmd, p, {})
  BY <1>1, <1>2 DEF Acts, Unhanded
<1>4. Confirmed'
  BY <1>1, Confirms DEF Grows
<1> QED
  BY <1>1, <1>3, <1>4, CmdEnd

LEMMA ApproveIntent_Keeps ==
  ASSUME IInv, ApproveIntent
  PROVE  IInv'
<1>1. PICK p, r : p = th[Cmd].p /\ r = Reservation(p)
  OBVIOUS
<1>2. /\ th[Cmd].pc = "a_start" /\ Goto(Cmd, "a_reserved") /\ disk' = disk /\ UNCHANGED <<runs, faults, world, client>>
      /\ mem' = [mem EXCEPT !.ctx[p].state = "APPROVING", !.ctx[p].agree = "APPROVED", !.ctx[p].reserved = r]
  BY <1>1 DEF ApproveIntent, At
<1>3. Approved(p) /\ mem \in Memory
  BY <1>1, <1>2, CmdApproved DEF Approving
<1>4. r \in Req /\ r # 0 /\ (mem.ctx[p].reserved # 0 => r = mem.ctx[p].reserved)
  <2>1. mem.ctx[p].reserved \in 0 .. MaxReq /\ MaxReq \in Nat
    BY <1>3, BoundsAssumption DEF Approved, Ctx
  <2>2. r \in Req
    BY <1>1, <1>3, <2>1 DEF Reservation, Approved, Req
  <2> QED
    BY <1>1, <2>2, Numbers DEF Reservation
<1>5. Approves(mem, mem', p, r)
  BY <1>2, <1>3, <1>4, ApproveMoves DEF Approved
<1>6. /\ (\A u \in Threads : u # Cmd => th'[u] = th[u]) /\ (\A q \in Req : th'[q] = th[q])
      /\ th'[Cmd].pc = "a_reserved" /\ th'[Cmd].req = th[Cmd].req /\ th'[Cmd].p = th[Cmd].p /\ th' \in [Threads -> Thread]
  BY <1>2, CmdStep, SavedPcs DEF Step, Saving
<1>7. Sound /\ UNCHANGED <<x, xs, typed, resent, acked, asked, dispatched, runs>>
  BY <1>2, <1>6, CmdCalm
<1>8. Touches(mem, mem', p, {}) /\ mem' \in Memory /\ mem'.cur = mem.cur /\ mem'.ctx[p].agree = "APPROVED" /\ mem'.ctx[p].reserved = r
      /\ mem'.ctx[p].life = mem.ctx[p].life /\ mem'.ctx[p].run = mem.ctx[p].run
  BY <1>5 DEF Approves, Touches
<1>9. TypeOK'
  BY <1>2, <1>6, <1>7, <1>8, Types3 DEF Sound, IInv
<1>10. MemOK(mem)'
  BY <1>3, <1>4, <1>5, <1>7, <1>9, MemApproves DEF Approved
<1>11. Cmds'
  <2>1. "a_reserved" \in Approving /\ p \in Req /\ th'[p].pc = "idle" /\ Type = "approve" /\ asked[th[Cmd].req].p = p
    BY <1>3, <1>6 DEF Approving, Approved, JobIdle, At
  <2>2. mem'.ctx[p].agree \in {"READY", "APPROVED"} /\ mem'.ctx[p].life # "ABANDONED" /\ mem'.ctx[p].reserved # 0
    BY <1>3, <1>4, <1>8 DEF Approved
  <2> QED
    BY <1>1, <1>2, <1>6, <1>7, <1>8, <2>1, <2>2, CmdApproves
<1> QED
  BY <1>2, <1>3, <1>6, <1>7, <1>8, <1>10, <1>11, CmdAdvances

LEMMA ApproveIntended_Keeps ==
  ASSUME IInv, ApproveIntended
  PROVE  IInv'
<1>1. PICK p : p = th[Cmd].p
  OBVIOUS
<1>2. th[Cmd].pc = "a_reserved" /\ Goto(Cmd, "a_run") /\ mem' = mem /\ disk' = mem /\ UNCHANGED <<runs, faults, world, client>>
  BY DEF ApproveIntended, Saved, At
<1>3. Approved(p) /\ mem \in Memory
  BY <1>1, <1>2, CmdApproved DEF Approving
<1>4. /\ (\A u \in Threads : u # Cmd => th'[u] = th[u]) /\ (\A q \in Req : th'[q] = th[q])
      /\ th'[Cmd].pc = "a_run" /\ th'[Cmd].req = th[Cmd].req /\ th'[Cmd].p = th[Cmd].p /\ th' \in [Threads -> Thread]
  BY <1>2, CmdStep, SavedPcs DEF Step
<1>5. Sound /\ UNCHANGED <<x, xs, typed, resent, acked, asked, dispatched, runs>>
  BY <1>2, <1>4, CmdCalm
<1>6. Cmds'
  <2>1. "a_run" \in Approving /\ p \in Req /\ th'[p].pc = "idle" /\ Type = "approve" /\ asked[th[Cmd].req].p = p
        /\ mem.ctx[p].agree = "APPROVED" /\ mem.ctx[p].life # "ABANDONED" /\ mem.ctx[p].reserved # 0
    BY <1>2, <1>3, <1>4, Numbers DEF Approving, Approved, JobIdle, At
  <2> QED
    BY <1>1, <1>2, <1>4, <1>5, <2>1, CmdApproves
<1> QED
  BY <1>2, <1>4, <1>5, <1>6, CmdDresses

(* The run exists, or is made of the agreement the row holds.               *)
LEMMA StartPrepared_Keeps ==
  ASSUME IInv, StartPrepared
  PROVE  IInv'
<1>1. PICK p, run : /\ p = th[Cmd].p
                    /\ run = [id |-> mem.ctx[p].reserved, p |-> p, of |-> mem.ctx[p].agreed, live |-> TRUE]
  OBVIOUS
<1>2. /\ th[Cmd].pc = "a_run" /\ Goto(Cmd, "a_done") /\ mem' = Adopt(p) /\ UNCHANGED <<disk, faults, world, client>>
      /\ runs' = runs \/ runs' = runs \cup {run}
  BY <1>1 DEF StartPrepared, At
<1>3. Approved(p) /\ mem \in Memory
  BY <1>1, <1>2, CmdApproved DEF Approving
<1>4. /\ p \in Req /\ ~ Fresh(p) /\ mem.ctx[p].reserved \in Req /\ mem.ctx[p].agree = "APPROVED" /\ mem.ctx[p].life # "ABANDONED"
      /\ mem.ctx[p] \in Ctx /\ th[p].pc = "idle" /\ mem.ctx[p].reserved # 0
  BY <1>2, <1>3, Numbers DEF Approved, JobIdle, At
<1>5. /\ disk.ctx[p].reserved = mem.ctx[p].reserved /\ disk.ctx[p].agree = "APPROVED" /\ disk.ctx[p].life # "ABANDONED"
      /\ disk.ctx[p].agreed = mem.ctx[p].agreed
  BY <1>1, <1>2 DEF IInv, Cmds, Approval
<1>6. RunOK(mem, run) /\ RunOK(disk, run)
  BY <1>1, <1>4, <1>5 DEF RunOK
<1>7. /\ (\A u \in Threads : u # Cmd => th'[u] = th[u]) /\ (\A q \in Req : th'[q] = th[q])
      /\ th'[Cmd].pc = "a_done" /\ th'[Cmd].req = th[Cmd].req /\ th'[Cmd].p = th[Cmd].p /\ th' \in [Threads -> Thread]
  BY <1>2, CmdStep, SavedPcs DEF Step, Saving
<1>8. UNCHANGED <<x, xs, typed, resent, acked, asked, dispatched, faults>> /\ TypeOK /\ Requests
  BY <1>2 DEF world, client, IInv
<1>9. \A r \in Req : Fresh(r)' => Fresh(r)
  BY <1>7, <1>8 DEF Fresh, At
<1>10. Frame
  BY <1>8, <1>9 DEF Frame
<1>11. ASSUME NEW m, MemOK(m), RunOK(m, run)
       PROVE  Suits(m)
  <2>1. \A s \in runs' : RunOK(m, s)
    BY <1>2, <1>11 DEF MemOK
  <2> QED
    BY <1>8, <2>1 DEF Suits, Unhanded, Held
<1>12. Suits(mem) /\ Suits(disk)
  <2>1. PICK m, n : m = mem /\ n = disk
    OBVIOUS
  <2>2. MemOK(m) /\ MemOK(n) /\ RunOK(m, run) /\ RunOK(n, run)
    BY <1>6, <2>1 DEF IInv
  <2>3. Suits(m) /\ Suits(n)
    BY <1>11, <2>2
  <2> QED
    BY <2>1, <2>3
<1>13. World'
  BY <1>8 DEF IInv, World
<1>14. Requests'
  <2>1. \A r \in Req : Fresh(r)' => xs[r].at = "none" /\ JobIdle(r)'
    BY <1>7, <1>8, <1>9 DEF Requests, JobIdle, At
  <2> QED
    BY <1>8, <2>1 DEF Requests
<1>15. WorldType'
  <2>1. run \in [id : Req, p : Req, of : 0 .. MaxReq, live : BOOLEAN]
    BY <1>1, <1>4 DEF Ctx
  <2>2. runs' \subseteq [id : Req, p : Req, of : 0 .. MaxReq, live : BOOLEAN]
    BY <1>2, <1>8, <2>1 DEF TypeOK
  <2> QED
    BY <1>8, <2>2 DEF TypeOK, WorldType
<1>16. Sound
  BY <1>10, <1>12, <1>13, <1>14, <1>15 DEF Sound
<1>17. Adopts(mem, mem', p)
  BY <1>2, <1>3, <1>4, AdoptMoves
<1>18. /\ Touches(mem, mem', p, {}) /\ mem' \in Memory /\ mem'.cur = mem.cur /\ mem'.ctx[p].agree = "APPROVED"
       /\ mem'.ctx[p].reserved # 0 /\ mem'.ctx[p].life = "COMPLETED" /\ mem'.ctx[p].run # 0
  BY <1>4, <1>17 DEF Adopts, Touches
<1>19. TypeOK'
  BY <1>2, <1>7, <1>8, <1>16, <1>18, Types3 DEF Sound
<1>20. MemOK(mem)'
  BY <1>4, <1>16, <1>17, <1>19, MemAdopts
<1>21. Cmds'
  <2>1. "a_done" \in Approving /\ th'[p].pc = "idle" /\ Type = "approve" /\ asked[th[Cmd].req].p = p
    BY <1>3, <1>4, <1>7 DEF Approving, Approved
  <2>2. mem'.ctx[p].agree \in {"READY", "APPROVED"} /\ mem'.ctx[p].life # "ABANDONED"
    BY <1>18
  <2> QED
    BY <1>1, <1>2, <1>4, <1>7, <1>8, <1>18, <2>1, <2>2, CmdApproves
<1> QED
  BY <1>2, <1>3, <1>7, <1>8, <1>16, <1>18, <1>20, <1>21, CmdAdvances

LEMMA StartFailed_Keeps ==
  ASSUME IInv, StartFailed
  PROVE  IInv'
<1>1. PICK p : p = th[Cmd].p
  OBVIOUS
<1>2. /\ th[Cmd].pc = "a_run" /\ UNCHANGED <<disk, runs, faults, world, client>>
      /\ \/ mem' = Adopt(p) /\ Goto(Cmd, "save")
         \/ /\ mem' = [mem EXCEPT !.ctx[p].state = "FAILED", !.ctx[p].err = "other"]
            /\ Goto(Cmd, "a_failed")
         \/ Throw(Cmd, FALSE)
  BY <1>1 DEF StartFailed, At
<1>3. Approved(p) /\ mem \in Memory /\ th[Cmd].pc # "idle"
  BY <1>1, <1>2, CmdApproved DEF Approving
<1>4. /\ p \in Req /\ ~ Fresh(p) /\ mem.ctx[p].reserved \in Req /\ mem.ctx[p].agree = "APPROVED" /\ mem.ctx[p].life # "ABANDONED"
      /\ th[p].pc = "idle" /\ mem.ctx[p].reserved # 0 /\ Type = "approve" /\ asked[th[Cmd].req].p = p
  BY <1>2, <1>3, Numbers DEF Approved, JobIdle, At
<1>5. CASE Throw(Cmd, FALSE)
  BY <1>2, <1>3, <1>5, CmdThrows
<1>6. CASE mem' = Adopt(p) /\ Goto(Cmd, "save")
  <2>1. Adopts(mem, mem', p)
    BY <1>3, <1>4, <1>6, AdoptMoves
  <2>2. /\ Touches(mem, mem', p, {}) /\ mem' \in Memory /\ mem'.cur = mem.cur /\ mem'.ctx[p].run # 0
    BY <1>4, <2>1 DEF Adopts, Touches
  <2>3. /\ (\A u \in Threads : u # Cmd => th'[u] = th[u]) /\ (\A q \in Req : th'[q] = th[q])
        /\ th'[Cmd].pc = "save" /\ th'[Cmd].req = th[Cmd].req /\ th'[Cmd].p = th[Cmd].p /\ th' \in [Threads -> Thread]
    BY <1>6, CmdStep, SavedPcs DEF Step, Saving
  <2>4. Sound /\ UNCHANGED <<x, xs, typed, resent, acked, asked, dispatched, runs>>
    BY <1>2, <2>3, CmdCalm
  <2>5. TypeOK'
    BY <1>2, <2>2, <2>3, <2>4, Types3 DEF Sound, IInv
  <2>6. MemOK(mem)'
    BY <1>4, <2>1, <2>4, <2>5, MemAdopts
  <2>7. Cmds'
    BY <1>3, <1>4, <2>2, <2>3, <2>4, CmdEnds
  <2> QED
    BY <1>2, <1>3, <2>2, <2>3, <2>4, <2>6, <2>7, CmdAdvances
<1>7. CASE /\ mem' = [mem EXCEPT !.ctx[p].state = "FAILED", !.ctx[p].err = "other"]
           /\ Goto(Cmd, "a_failed")
  <2>1. Dresses(mem, mem', p)
    <3>1. "FAILED" \in PrepStates /\ "other" \in Errs
      BY DEF PrepStates, Errs
    <3> QED
      BY <1>3, <1>4, <1>7, <3>1, DressState
  <2>2. /\ mem'.cur = mem.cur /\ mem'.ctx[p].agree = "APPROVED" /\ mem'.ctx[p].life # "ABANDONED" /\ mem'.ctx[p].reserved # 0
    BY <1>4, <2>1 DEF Dresses, Touches, Same
  <2>3. /\ (\A u \in Threads : u # Cmd => th'[u] = th[u]) /\ (\A q \in Req : th'[q] = th[q])
        /\ th'[Cmd].pc = "a_failed" /\ th'[Cmd].req = th[Cmd].req /\ th'[Cmd].p = th[Cmd].p /\ th' \in [Threads -> Thread]
    BY <1>7, CmdStep, SavedPcs DEF Step, Saving
  <2>4. Sound /\ UNCHANGED <<x, xs, typed, resent, acked, asked, dispatched, runs>>
    BY <1>2, <2>3, CmdCalm
  <2>5. Cmds'
    <3>1. "a_failed" \in Approving /\ th'[p].pc = "idle"
      BY <1>4, <2>3 DEF Approving
    <3> QED
      BY <1>1, <1>3, <1>4, <2>2, <2>3, <2>4, <3>1, CmdApproves
  <2> QED
    BY <1>2, <1>4, <2>1, <2>3, <2>4, <2>5, CmdDresses
<1> QED
  BY <1>2, <1>5, <1>6, <1>7

LEMMA ApproveSaved_Keeps ==
  ASSUME IInv, ApproveSaved
  PROVE  IInv'
<1>1. PICK pc \in {"finish", "refused"} :
        /\ Goto(Cmd, pc) /\ th[Cmd].pc = (IF pc = "finish" THEN "a_done" ELSE "a_failed")
        /\ mem' = mem /\ disk' = mem /\ UNCHANGED <<runs, faults, world, client>>
  BY DEF ApproveSaved, Saved, At
<1>2. Approved(th[Cmd].p) /\ th[Cmd].pc # "idle"
  BY <1>1, CmdApproved DEF Approving
<1>3. pc = "finish" => mem.ctx[th[Cmd].p].run # 0
  BY <1>1 DEF IInv, Cmds, Approval
<1>4. (\A u \in Threads : u # Cmd => th'[u] = th[u]) /\ th'[Cmd].pc = pc
  BY <1>1, CmdStep, SavedPcs DEF Saving
<1>5. Sound /\ UNCHANGED <<xs, asked>>
  BY <1>1, <1>4, CmdCalm
<1> QED
  BY <1>1, <1>2, <1>3, <1>5, CmdCloses DEF Approved

-----------------------------------------------------------------------------
(* rebind, inspect, stop and reconcile                                      *)

LEMMA Rebound_Keeps ==
  ASSUME IInv, Rebound
  PROVE  IInv'
<1>1. PICK d, p : d = th[Cmd].d /\ p = th[Cmd].p
  OBVIOUS
<1>2. /\ th[Cmd].pc = "r_web" /\ Rebind(p) /\ UNCHANGED <<disk, runs, faults, client>>
      /\ \/ /\ mem' = [mem EXCEPT !.ctx[p].err = "none", !.ctx[p].diag = {}, !.ctx[p].state = "INITIALIZING",
                                 !.dl[d].state = "RESERVED"]
            /\ Goto(Cmd, "r_save")
         \/ mem' = mem /\ Goto(Cmd, "refused")
  BY <1>1 DEF Rebound, At, Throw
<1>3. CmdFacts(p, d) /\ Type = "rebind" /\ Unhanded(d) /\ TypeOK /\ mem \in Memory
  BY <1>1, <1>2, CmdHas DEF IInv, Cmds, Typed, Holding, Rebinding, Owning, TypeOK
<1>4. d \in Req /\ p \in Req /\ ~ Fresh(p) /\ th[p].pc = "idle" /\ mem.ctx[p].active = d
  BY <1>3 DEF CmdFacts, JobIdle, At
<1>5. PICK pc \in {"r_save", "refused"} : Goto(Cmd, pc)
  BY <1>2
<1>6. Step(th, th', Cmd, pc) /\ (\A u \in Threads : u # Cmd => th'[u] = th[u]) /\ (\A q \in Req : th'[q] = th[q])
      /\ th'[Cmd].pc = pc /\ th' \in [Threads -> Thread]
  BY <1>5, CmdStep, SavedPcs DEF Saving
<1>7. WorldType' /\ x'.owner = x.owner /\ x'.disc = x.disc /\ UNCHANGED <<xs, typed, resent, acked, asked, dispatched, runs>>
  BY <1>2, <1>3, <1>4, Rebinds
<1>8. Sound
  <2>1. Cmd \in Threads
    BY DEF Threads
  <2> QED
    BY <1>6, <1>7, <2>1, Calm
<1>9. CASE mem' = mem /\ Goto(Cmd, "refused")
  BY <1>2, <1>7, <1>8, <1>9, CmdCloses
<1>10. CASE /\ mem' = [mem EXCEPT !.ctx[p].err = "none", !.ctx[p].diag = {}, !.ctx[p].state = "INITIALIZING",
                                 !.dl[d].state = "RESERVED"]
            /\ Goto(Cmd, "r_save")
  <2>1. Marks(mem, mem', p, d, "RESERVED", mem.dl[d].resp, mem.dl[d].fmt, mem.dl[d].proc)
    BY <1>3, <1>4, <1>10, MarkRebound
  <2>2. th'[Cmd].pc = "r_save" /\ Step(th, th', Cmd, "r_save")
    BY <1>10, CmdStep, SavedPcs DEF Saving
  <2>3. JobMark(p, d, "r_save", "RESERVED", mem.dl[d].resp, mem.dl[d].fmt, mem.dl[d].proc)
    <3>1. /\ mem.dl[d].resp # "none" => xs'[d].at = "done"
          /\ d \in acked' => mem.dl[d].resp # "none" /\ (mem.dl[d].proc # "none" \/ CancelRan(PrepOf(d)))
          /\ PrepOf(d) = p
      BY <1>3, <1>4, <1>7 DEF IInv, MemOK, DlOK, CmdFacts
    <3>2. xs'[d].at \in {"none", "refused"}
      BY <1>3, <1>7 DEF Unhanded
    <3>3. CancelRan(p) => CancelRan(p)'
      BY <1>3, <1>8, CancelStays DEF Sound, IInv
    <3> QED
      BY <1>2, <1>7, <2>1, <3>1, <3>2, <3>3 DEF JobMark, Unhanded
  <2>4. Cmds'
    <3>1. "r_save" \in Rebinding /\ "r_save" \notin Cancelling /\ "r_save" \notin Discarding
      BY DEF Rebinding, Cancelling, Discarding
    <3>2. th'[Cmd].req = th[Cmd].req /\ th'[Cmd].p = p /\ th'[Cmd].d = d /\ th'[p].pc = "idle" /\ th[Cmd].pc # "idle"
      BY <1>1, <1>2, <1>4, <1>6 DEF Step
    <3>3. mem'.cur = mem.cur /\ mem'.ctx[p].active = d /\ xs'[d].at \in {"none", "refused"}
      BY <1>3, <1>4, <1>7, <2>1 DEF Marks, Touches, Same, Unhanded
    <3> QED
      BY <1>1, <1>3, <1>4, <1>7, <2>2, <3>1, <3>2, <3>3, CmdOwns
  <2> QED
    BY <1>3, <1>4, <1>8, <2>2, <2>3, <2>4, CmdMarks
<1> QED
  BY <1>2, <1>9, <1>10

LEMMA CmdLooks ==
  ASSUME IInv, UNCHANGED <<asked>>, mem'.cur = mem.cur, th[Cmd].pc # "idle", NEW p \in Req, NEW d, th[Cmd].p = p,
         NEW pc \in Looking, th'[Cmd].pc = pc, th'[Cmd].req = th[Cmd].req, th'[Cmd].p = p, th'[Cmd].d = d,
         Type \in {"inspect", "stop", "reconcile"}, d # 0 => Delivers(d, p)',
         Type = "reconcile" => th'[p].pc = "idle" /\ d \in Req /\ mem'.ctx[p].active = d,
         pc = "w_seen" => (th'[Cmd].got # "none" => d \in Req /\ xs'[d].at = "done"),
         pc \in {"w_resume", "w_rebound"} => Type = "reconcile" /\ mem'.dl[d].resp # "none"
  PROVE  Cmds'
<1>1. /\ pc \in CmdPcs /\ pc \notin {"idle", "claim", "dispatch", "start", "reserve", "c_settled", "finish", "save", "a_run", "a_done", "a_start"}
      /\ pc \notin Approving /\ pc \notin Owning /\ pc \notin Cancelling /\ pc \notin Discarding /\ pc \notin Rebinding
      /\ pc \notin Checking /\ pc \notin Acking /\ pc \notin {"k_ack", "k_confirm", "d_intent", "d_web"}
  BY DEF CmdPcs, Approving, Looking, Owning, Cancelling, Discarding, Rebinding, Checking, Acking
<1>2. Type' = Type /\ th[Cmd].req \in Req /\ p = mem.cur
  BY DEF Type, IInv, Cmds, Running
<1>3. Running'
  BY <1>1, <1>2 DEF Running
<1>4. Typed'
  BY <1>1, <1>2 DEF Typed
<1>5. Settles(Cmd)' /\ (Type = "reconcile" => JobIdle(p)')
  BY <1>1 DEF Settles, Acking, Checking, JobIdle, At
<1>6. Alone' => Type = "reconcile"
  BY <1>1, <1>2 DEF Alone
<1>7. Holding'
  BY <1>1, <1>2, <1>5, <1>6 DEF Holding
<1>8. Approval'
  BY <1>1 DEF Approval
<1> QED
  BY <1>3, <1>4, <1>7, <1>8 DEF Cmds

LEMMA WebAsked_Keeps ==
  ASSUME IInv, WebAsked
  PROVE  IInv'
<1>1. PICK d, p : d = mem.ctx[p].active /\ p = mem.cur
  OBVIOUS
<1>2. Dispatching({"inspect", "stop", "reconcile"}) /\ th' = [th EXCEPT ![Cmd].pc = "w_inspect", ![Cmd].d = d]
      /\ UNCHANGED <<mem, disk, runs, faults, world>>
  BY <1>1 DEF WebAsked, Current
<1>3. mem.cur # 0 /\ (Type = "reconcile" => d # 0 /\ JobIdle(mem.cur))
  BY <1>1, <1>2 DEF Dispatching, Offered, Current, Type, Request
<1>4. p \in Req /\ ~ Fresh(p) /\ mem.ctx[p] \in Ctx
  BY <1>1, <1>3, CurrentIs DEF IInv, TypeOK, Memory
<1>5. d \in Ids /\ (d # 0 => Delivers(d, p))
  BY <1>1, <1>4 DEF IInv, MemOK, CtxOK, Ctx, Ids
<1>6. /\ th' \in [Threads -> Thread] /\ th'[Cmd].pc = "w_inspect" /\ th'[Cmd].d = d /\ th'[Cmd].req = th[Cmd].req /\ th'[Cmd].p = th[Cmd].p
      /\ (\A u \in Threads : u # Cmd => th'[u] = th[u]) /\ (\A q \in Req : th'[q] = th[q])
  BY <1>2, <1>5, CmdTakes, SavedPcs DEF Calling
<1>7. /\ Sound /\ UNCHANGED <<x, xs, typed, resent, acked, asked, runs>>
      /\ Type \in {"inspect", "stop", "reconcile"} /\ th[Cmd].p = p /\ th[Cmd].pc = "dispatch"
  BY <1>1, <1>2, <1>6, Dispatched
<1>8. Cmds'
  <2>1. d # 0 => Delivers(d, p)'
    BY <1>5, <1>7, DeliversStays DEF Sound, IInv
  <2>2. Type = "reconcile" => th'[p].pc = "idle" /\ d \in Req /\ mem'.ctx[p].active = d
    BY <1>1, <1>2, <1>3, <1>4, <1>5, <1>6 DEF JobIdle, At, Delivers
  <2>3. "w_inspect" \in Looking /\ mem'.cur = mem.cur
    BY <1>2 DEF Looking
  <2> QED
    BY <1>4, <1>6, <1>7, <2>1, <2>2, <2>3, CmdLooks
<1> QED
  BY <1>2, <1>6, <1>7, <1>8, CmdDresses

(* What a command that looks at the page knows                              *)
Looks(p, d) ==
  /\ th[Cmd].p = p /\ p \in Req /\ ~ Fresh(p) /\ mem.cur = p /\ th[Cmd].req \in Req
  /\ Type \in {"inspect", "stop", "reconcile"} /\ (d # 0 => Delivers(d, p)) /\ d \in Ids
  /\ Type = "reconcile" => d \in Req /\ mem.ctx[p].active = d /\ th[p].pc = "idle"

LEMMA CmdLooked ==
  ASSUME IInv, th[Cmd].pc \in Looking
  PROVE  Looks(th[Cmd].p, th[Cmd].d) /\ mem \in Memory /\ th[Cmd].pc # "idle"
<1>1. PICK p, d : p = th[Cmd].p /\ d = th[Cmd].d
  OBVIOUS
<1>2. /\ p \in Req /\ mem.cur = p /\ th[Cmd].req \in Req /\ mem \in Memory /\ th[Cmd].pc # "idle"
      /\ Type \in {"inspect", "stop", "reconcile"}
  <2>1. th[Cmd].pc \notin {"idle", "claim", "dispatch", "start", "finish", "refused", "save"}
    BY DEF Looking
  <2> QED
    BY <1>1, <2>1 DEF IInv, Cmds, Running, Typed, TypeOK
<1>3. ~ Fresh(p)
  BY <1>2, Numbers DEF IInv, MemOK
<1>4. (d # 0 => Delivers(d, p)) /\ (Type = "reconcile" => d \in Req /\ mem.ctx[p].active = d /\ th[p].pc = "idle")
  BY <1>1 DEF IInv, Cmds, Holding, Alone, JobIdle, At
<1>5. d \in Ids
  <2>1. th[Cmd] \in Thread
    BY Types0 DEF IInv, Threads
  <2> QED
    BY <1>1, <2>1 DEF Thread, Ids
<1> QED
  BY <1>1, <1>2, <1>3, <1>4, <1>5 DEF Looks

LEMMA WebInspected_Keeps ==
  ASSUME IInv, WebInspected
  PROVE  IInv'
<1>1. PICK d, p : d = th[Cmd].d /\ p = th[Cmd].p
  OBVIOUS
<1>2. /\ th[Cmd].pc = "w_inspect" /\ UNCHANGED <<disk, x, typed, resent, acked, runs, faults, client>>
      /\ \E reachable \in BOOLEAN, got \in Shown(p, d) :
           /\ mem' = [mem EXCEPT !.ctx[p].diag = Diagnostics(p, reachable)]
           /\ th' = [th EXCEPT ![Cmd].pc = "w_seen", ![Cmd].got = got]
           /\ xs' = IF got = "none" THEN xs ELSE [xs EXCEPT ![d].held = got]
  BY <1>1 DEF WebInspected, At
<1>3. PICK reachable \in BOOLEAN, got \in Shown(p, d) :
        /\ mem' = [mem EXCEPT !.ctx[p].diag = Diagnostics(p, reachable)]
        /\ th' = [th EXCEPT ![Cmd].pc = "w_seen", ![Cmd].got = got]
        /\ xs' = IF got = "none" THEN xs ELSE [xs EXCEPT ![d].held = got]
  BY <1>2
<1>4. Looks(p, d) /\ mem \in Memory /\ th[Cmd].pc # "idle" /\ TypeOK /\ Requests
  BY <1>1, <1>2, CmdLooked DEF Looking, IInv
<1>5. p \in Req /\ ~ Fresh(p) /\ d \in Ids
  BY <1>4 DEF Looks
<1>6. got # "none" => d \in Req /\ xs[d].at = "done" /\ got \in Answers \cup {"none"}
  <2>1. got # "none" => d # 0 /\ xs[d].at = "done" /\ (got \in Answers \/ got = xs[d].held)
    BY <1>3 DEF Shown
  <2>2. d # 0 => d \in Req
    BY <1>4 DEF Looks, Delivers
  <2>3. d \in Req => xs[d].held \in Answers \cup {"none"}
    BY <1>4 DEF TypeOK
  <2> QED
    BY <2>1, <2>2, <2>3
<1>7. \A e \in Req : xs'[e].at = xs[e].at /\ (xs[e].held # "none" => xs'[e].held # "none")
  BY <1>3, <1>4, <1>6 DEF TypeOK
<1>8. xs' \in [Req -> [at : {"none", "wire", "refused", "gen", "done", "quiet"}, held : Answers \cup {"none"}]]
  <2>1. xs \in [Req -> [at : {"none", "wire", "refused", "gen", "done", "quiet"}, held : Answers \cup {"none"}]]
    BY <1>4 DEF TypeOK
  <2>2. CASE got = "none"
    BY <1>3, <2>1, <2>2
  <2>3. CASE got # "none"
    <3>1. xs' = [xs EXCEPT ![d] = [xs[d] EXCEPT !.held = got]] /\ d \in Req /\ got \in Answers \cup {"none"}
      BY <1>3, <1>6, <2>3
    <3>2. [xs[d] EXCEPT !.held = got] \in [at : {"none", "wire", "refused", "gen", "done", "quiet"}, held : Answers \cup {"none"}]
      BY <2>1, <3>1
    <3> QED
      BY <2>1, <3>1, <3>2
  <2> QED
    BY <2>2, <2>3
<1>9. got \in Answers \cup {"none"}
  BY <1>6
<1>10. /\ th' \in [Threads -> Thread] /\ th'[Cmd].pc = "w_seen" /\ th'[Cmd].req = th[Cmd].req /\ th'[Cmd].p = p /\ th'[Cmd].d = d
       /\ th'[Cmd].got = got /\ (\A u \in Threads : u # Cmd => th'[u] = th[u]) /\ (\A q \in Req : th'[q] = th[q])
  <2> DEFINE c == [th[Cmd] EXCEPT !.pc = "w_seen", !.got = got]
  <2>1. Cmd \in Threads /\ (\A q \in Req : q \in Threads /\ q # Cmd) /\ th \in [Threads -> Thread]
    BY Types0, Numbers DEF IInv, Threads, Cmd
  <2>2. th' = [th EXCEPT ![Cmd] = c]
    BY <1>3, <2>1
  <2>3. c \in Thread /\ c.pc = "w_seen" /\ c.d = th[Cmd].d /\ c.req = th[Cmd].req /\ c.p = th[Cmd].p /\ c.got = got
    <3>1. "w_seen" \in ThreadPcs /\ th[Cmd] \in Thread
      BY <2>1, SavedPcs DEF Saving
    <3> QED
      BY <1>9, <3>1 DEF Thread
  <2> HIDE DEF c
  <2> QED
    BY <1>1, <2>1, <2>2, <2>3
<1>11. UNCHANGED <<asked, dispatched>>
  BY <1>2 DEF client
<1>12. World'
  BY <1>2, <1>4, <1>7, Numbers DEF IInv, World, TypeOK, Ids
<1>13. WorldType'
  BY <1>2, <1>4, <1>8, <1>11 DEF TypeOK, WorldType
<1>14. Sound
  <2>1. \A e \in Req : (Unhanded(e) => Unhanded(e)') /\ (Held(e)' => Held(e))
    BY <1>2, <1>7 DEF Unhanded, Held
  <2> QED
    BY <1>2, <1>7, <1>10, <1>11, <1>12, <1>13, <2>1, WorldMoves
<1>15. Dresses(mem, mem', p)
  <2>1. Diagnostics(p, reachable) \in Diags
    BY DEF Diagnostics, Diags
  <2> QED
    BY <1>3, <1>4, <1>5, <2>1, DressDiag
<1>16. Cmds'
  <2>1. d # 0 => Delivers(d, p)'
    BY <1>4, <1>14, DeliversStays DEF Sound, Looks
  <2>2. mem'.cur = mem.cur /\ mem'.ctx[p].active = mem.ctx[p].active
    BY <1>15 DEF Dresses, Touches, Same
  <2>3. Type = "reconcile" => th'[p].pc = "idle" /\ d \in Req /\ mem'.ctx[p].active = d
    BY <1>4, <1>5, <1>10, <2>2 DEF Looks
  <2>4. "w_seen" \in Looking /\ Type \in {"inspect", "stop", "reconcile"}
    BY <1>4 DEF Looking, Looks
  <2> QED
    BY <1>1, <1>4, <1>5, <1>6, <1>7, <1>10, <1>11, <2>1, <2>2, <2>3, <2>4, CmdLooks
<1> QED
  <2>1. \A e \in Req : Unhanded(e) => Unhanded(e)'
    BY <1>7 DEF Unhanded
  <2> QED
    BY <1>2, <1>5, <1>10, <1>14, <1>15, <1>16, <2>1, CmdWatches

(* The command goes on from what it has seen.                               *)
LEMMA CmdGoesOn ==
  ASSUME IInv, th[Cmd].pc \in {"w_seen", "w_adopted"}, WebGoesOn(mem), mem' = mem, disk' = mem,
         UNCHANGED <<runs, faults, world, client>>
  PROVE  IInv'
<1>1. PICK d, p : d = th[Cmd].d /\ p = th[Cmd].p
  OBVIOUS
<1>2. Looks(p, d) /\ mem \in Memory /\ th[Cmd].pc # "idle" /\ TypeOK /\ Requests
  BY <1>1, CmdLooked DEF Looking, IInv
<1>3. PICK pc \in {"finish", "refused", "w_stop", "c_inspect", "w_resume"} :
        /\ Goto(Cmd, pc)
        /\ pc \in {"c_inspect", "w_resume"} => Type = "reconcile" /\ d # 0 /\ mem.dl[d].resp # "none" /\ JobIdle(p)
        /\ pc = "finish" => Type = "inspect"
  BY <1>1, <1>2 DEF WebGoesOn, Type, Request, Looks
<1>4. Step(th, th', Cmd, pc) /\ (\A u \in Threads : u # Cmd => th'[u] = th[u]) /\ (\A q \in Req : th'[q] = th[q])
      /\ th'[Cmd].pc = pc /\ th' \in [Threads -> Thread]
  BY <1>3, CmdStep, SavedPcs DEF Saving, Calling
<1>5. Sound /\ UNCHANGED <<x, xs, typed, resent, acked, asked, dispatched, runs>>
  BY <1>4, CmdCalm
<1>6. CASE pc \in {"finish", "refused"}
  BY <1>2, <1>3, <1>5, <1>6, CmdCloses
<1>7. th'[Cmd].req = th[Cmd].req /\ th'[Cmd].p = p /\ th'[Cmd].d = d /\ p \in Req
  BY <1>1, <1>2, <1>4 DEF Step, Looks
<1>8. CASE pc \in {"w_stop", "w_resume"}
  <2>1. d # 0 => Delivers(d, p)'
    BY <1>2, <1>5, DeliversStays DEF Sound, Looks
  <2>2. Type = "reconcile" => th'[p].pc = "idle" /\ d \in Req /\ mem'.ctx[p].active = d
    BY <1>2, <1>4 DEF Looks
  <2>3. pc \in Looking /\ Type \in {"inspect", "stop", "reconcile"}
    BY <1>2, <1>8 DEF Looking, Looks
  <2>4. Cmds'
    BY <1>1, <1>2, <1>3, <1>4, <1>5, <1>7, <1>8, <2>1, <2>2, <2>3, CmdLooks
  <2> QED
    BY <1>4, <1>5, <2>4, CmdDresses
<1>9. CASE pc = "c_inspect"
  <2>1. Type = "reconcile" /\ d \in Req /\ mem.ctx[p].active = d /\ th'[p].pc = "idle"
    BY <1>2, <1>3, <1>4, <1>9 DEF Looks
  <2>2. "c_inspect" \in Checking /\ "c_inspect" \notin Acking
    BY DEF Checking, Acking
  <2>3. Cmds'
    BY <1>1, <1>2, <1>3, <1>4, <1>5, <1>7, <1>9, <2>1, <2>2, CmdChecks
  <2> QED
    BY <1>4, <1>5, <2>3, CmdDresses
<1> QED
  BY <1>6, <1>8, <1>9

LEMMA WebAdopted_Keeps ==
  ASSUME IInv, WebAdopted
  PROVE  IInv'
  BY CmdGoesOn DEF WebAdopted, Saved, At

(* The answer that the page shows is taken over; the job of the delivery    *)
(* may still be waiting for it.                                             *)
LEMMA CmdAnswers ==
  ASSUME IInv, th[Cmd].pc = "w_seen", NEW d, NEW p, d = th[Cmd].d, p = th[Cmd].p, NEW got, got = th[Cmd].got,
         got # "none", mem.ctx[p].active = d,
         mem' = [mem EXCEPT !.dl[d].resp = got, !.dl[d].state = "RESPONSE_COMPLETED"],
         Goto(Cmd, "w_adopted"), disk' = mem, UNCHANGED <<runs, faults, world, client>>
  PROVE  IInv'
<1>1. Looks(p, d) /\ mem \in Memory /\ th[Cmd].pc # "idle" /\ TypeOK /\ Requests
  BY CmdLooked DEF Looking, IInv
<1>2. d \in Req /\ xs[d].at = "done" /\ p \in Req /\ ~ Fresh(p) /\ Delivers(d, p) /\ PrepOf(d) = p
  <2>1. d \in Req /\ xs[d].at = "done" /\ d # 0
    BY Numbers DEF IInv, Cmds, Holding
  <2> QED
    BY <1>1, <2>1 DEF Looks, Delivers
<1>3. got \in Answers \cup {"none"}
  <2>1. th[Cmd] \in Thread
    BY Types0 DEF IInv, Threads
  <2> QED
    BY <2>1 DEF Thread
<1>4. Marks(mem, mem', p, d, "RESPONSE_COMPLETED", got, mem.dl[d].fmt, mem.dl[d].proc)
  BY <1>1, <1>2, <1>3, MarkAnswer
<1>5. mem.ctx[p].agree = "DISCUSSING"
  <2>1. d # 0
    BY <1>2, Numbers
  <2> QED
    BY <1>2, <2>1 DEF IInv, MemOK, CtxOK
<1>6. d \in acked => mem.dl[d].proc # "none" \/ CancelRan(p)
  BY <1>2 DEF IInv, MemOK, DlOK
<1>7. Step(th, th', Cmd, "w_adopted") /\ (\A u \in Threads : u # Cmd => th'[u] = th[u]) /\ (\A q \in Req : th'[q] = th[q])
      /\ th'[Cmd].pc = "w_adopted" /\ th' \in [Threads -> Thread]
  BY CmdStep, SavedPcs DEF Saving
<1>8. Sound /\ UNCHANGED <<x, xs, typed, resent, acked, asked, dispatched, runs>>
  BY <1>7, CmdCalm
<1>9. /\ Touches(mem, mem', p, {d}) /\ Same(mem'.ctx[p], mem.ctx[p]) /\ mem' \in Memory /\ mem'.cur = mem.cur
      /\ mem'.dl[d].resp = got /\ mem'.dl[d].fmt = mem.dl[d].fmt /\ mem'.dl[d].proc = mem.dl[d].proc
  BY <1>4 DEF Marks, Touches
<1>10. TypeOK'
  BY <1>1, <1>7, <1>8, <1>9, Types3 DEF Sound
<1>11. CancelRan(p) => CancelRan(p)'
  BY <1>1, <1>8, CancelStays DEF Sound
<1>12. MemOK(mem)'
  BY <1>2, <1>4, <1>5, <1>6, <1>8, <1>10, <1>11, MemMarks
<1>13. MemOK(disk)'
  BY <1>8, <1>12, Rows DEF Sound
<1>14. Confirmed'
  BY <1>2, <1>4, <1>10, ConfirmsMark DEF IInv, Confirmed
<1>15. ASSUME NEW q \in Req
       PROVE  JobOK(q)'
  <2>1. JobOK(q) /\ th'[q] = th[q]
    BY <1>7 DEF IInv, Jobs
  <2>2. mem'.ctx[q].active = mem.ctx[q].active
    BY <1>9 DEF Touches, Same
  <2>3. CASE th[q].pc = "idle"
    BY <2>1, <2>3, Idles
  <2>4. CASE th[q].pc # "idle"
    <3>1. th[q].d \in Req
      BY <2>1, <2>4 DEF JobOK, Delivers
    <3>2. PICK e \in Req : e = th[q].d
      BY <3>1
    <3>3. e # d => mem'.dl[e] = mem.dl[e]
      BY <1>9 DEF Touches
    <3>4. /\ mem.dl[e].resp # "none" => mem'.dl[e].resp # "none"
          /\ mem'.dl[e].fmt = mem.dl[e].fmt /\ mem'.dl[e].proc = mem.dl[e].proc
      BY <1>9, <3>3
    <3>5. th[q].pc \in Starting => e # d /\ Unhanded(e)'
      BY <1>2, <1>8, <2>1, <3>2 DEF JobOK, Unhanded
    <3>6. JobKept(q)
      <4>1. Unhanded(e)' => Unhanded(th[q].d)'
        BY <2>1, <3>2
      <4> QED
        BY <2>2, <3>2, <3>3, <3>4, <3>5, <4>1 DEF JobKept
    <3> QED
      BY <1>1, <1>8, <2>1, <3>6, JobStays DEF Sound
  <2> QED
    BY <2>3, <2>4
<1>16. Jobs'
  BY <1>15 DEF Jobs
<1>17. Cmds'
  <2>1. d # 0 => Delivers(d, p)'
    BY <1>1, <1>2, <1>8, DeliversStays DEF Sound
  <2>2. Type = "reconcile" => th'[p].pc = "idle" /\ d \in Req /\ mem'.ctx[p].active = d
    BY <1>1, <1>2, <1>7, <1>9 DEF Looks, Same
  <2>3. "w_adopted" \in Looking /\ Type \in {"inspect", "stop", "reconcile"}
    BY <1>1 DEF Looking, Looks
  <2>4. th'[Cmd].req = th[Cmd].req /\ th'[Cmd].p = p /\ th'[Cmd].d = d
    BY <1>7 DEF Step
  <2> QED
    BY <1>1, <1>2, <1>7, <1>8, <1>9, <2>1, <2>2, <2>3, <2>4, CmdLooks
<1> QED
  BY <1>8, <1>10, <1>12, <1>13, <1>14, <1>16, <1>17 DEF IInv, Sound

LEMMA WebSeen_Keeps ==
  ASSUME IInv, WebSeen
  PROVE  IInv'
<1>1. PICK d, p, got : d = th[Cmd].d /\ p = th[Cmd].p /\ got = th[Cmd].got
  OBVIOUS
<1>2. /\ th[Cmd].pc = "w_seen" /\ disk' = mem /\ UNCHANGED <<runs, faults, world, client>>
      /\ \/ /\ got # "none" /\ mem.ctx[p].active = d
            /\ mem' = [mem EXCEPT !.dl[d].resp = got, !.dl[d].state = "RESPONSE_COMPLETED"]
            /\ Goto(Cmd, "w_adopted")
         \/ mem' = mem /\ WebGoesOn(mem)
  BY <1>1 DEF WebSeen, Saved, At
<1>3. CASE mem' = mem /\ WebGoesOn(mem)
  BY <1>2, <1>3, CmdGoesOn
<1>4. CASE /\ got # "none" /\ mem.ctx[p].active = d
           /\ mem' = [mem EXCEPT !.dl[d].resp = got, !.dl[d].state = "RESPONSE_COMPLETED"]
           /\ Goto(Cmd, "w_adopted")
  BY <1>1, <1>2, <1>4, CmdAnswers
<1> QED
  BY <1>2, <1>3, <1>4

LEMMA StopDelivery_Keeps ==
  ASSUME IInv, StopDelivery
  PROVE  IInv'
<1>1. PICK d, p : d = th[Cmd].d /\ p = th[Cmd].p
  OBVIOUS
<1>2. /\ th[Cmd].pc = "w_stop" /\ x.owner = d /\ UNCHANGED <<disk, x, typed, resent, acked, runs, faults, client>>
      /\ xs' = IF Generating THEN [xs EXCEPT ![d].at = "quiet"] ELSE xs
      /\ \/ mem' = [mem EXCEPT !.ctx[p].diag = {"exact", "rec"}] /\ Goto(Cmd, "save")
         \/ mem' = mem /\ Goto(Cmd, "refused")
  BY <1>1 DEF StopDelivery, At, Throw
<1>3. Looks(p, d) /\ mem \in Memory /\ th[Cmd].pc # "idle" /\ TypeOK /\ Requests /\ p \in Req /\ ~ Fresh(p)
      /\ Type \notin {"start", "reply", "approve"}
  BY <1>1, <1>2, CmdLooked DEF Looking, IInv, Looks
<1>4. xs' = xs \/ (d \in Req /\ xs[d].at = "gen" /\ xs' = [xs EXCEPT ![d].at = "quiet"])
  <2>1. d # 0 => d \in Req
    BY <1>3 DEF Looks, Delivers
  <2> QED
    BY <1>2, <2>1 DEF Generating
<1>5. \A e \in Req : xs'[e].held = xs[e].held /\ (xs'[e].at = xs[e].at \/ (xs[e].at = "gen" /\ xs'[e].at = "quiet"))
  BY <1>3, <1>4 DEF TypeOK
<1>6. xs' \in [Req -> [at : {"none", "wire", "refused", "gen", "done", "quiet"}, held : Answers \cup {"none"}]]
  <2>1. xs \in [Req -> [at : {"none", "wire", "refused", "gen", "done", "quiet"}, held : Answers \cup {"none"}]]
    BY <1>3 DEF TypeOK
  <2>2. CASE d \in Req /\ xs' = [xs EXCEPT ![d].at = "quiet"]
    <3>1. xs' = [xs EXCEPT ![d] = [xs[d] EXCEPT !.at = "quiet"]]
      BY <2>2
    <3>2. [xs[d] EXCEPT !.at = "quiet"] \in [at : {"none", "wire", "refused", "gen", "done", "quiet"}, held : Answers \cup {"none"}]
      BY <2>1, <2>2
    <3> QED
      BY <2>1, <2>2, <3>1, <3>2
  <2> QED
    BY <1>4, <2>1, <2>2
<1>7. PICK pc \in {"save", "refused"} : /\ Goto(Cmd, pc)
                                        /\ (mem' = mem) \/ mem' = [mem EXCEPT !.ctx[p].diag = {"exact", "rec"}]
  BY <1>2
<1>8. Step(th, th', Cmd, pc) /\ (\A u \in Threads : u # Cmd => th'[u] = th[u]) /\ (\A q \in Req : th'[q] = th[q])
      /\ th'[Cmd].pc = pc /\ th' \in [Threads -> Thread]
  BY <1>7, CmdStep, SavedPcs DEF Saving
<1>9. UNCHANGED <<asked, dispatched>>
  BY <1>2 DEF client
<1>10. World'
  <2>1. x.disc \in Ids
    BY <1>3 DEF TypeOK, Ids
  <2>2. x.disc # 0 => x.disc \in Req
    BY <2>1, BoundsAssumption DEF Ids, Req
  <2> QED
    BY <1>2, <1>5, <2>2 DEF IInv, World
<1>11. WorldType'
  BY <1>2, <1>3, <1>6, <1>9 DEF TypeOK, WorldType
<1>12. \A e \in Req : (Unhanded(e) => Unhanded(e)') /\ (Held(e)' => Held(e))
  BY <1>2, <1>5 DEF Unhanded, Held
<1>13. Sound
  BY <1>2, <1>5, <1>8, <1>9, <1>10, <1>11, <1>12, WorldMoves
<1>14. (mem' = mem) \/ Dresses(mem, mem', p)
  <2>1. {"exact", "rec"} \in Diags
    BY DEF Diags
  <2> QED
    BY <1>3, <1>7, <2>1, DressDiag
<1>15. Cmds'
  <2>1. mem'.cur = mem.cur
    BY <1>14 DEF Dresses, Touches
  <2> QED
    BY <1>3, <1>8, <1>9, <2>1, CmdEnds DEF Step
<1>16. (mem' = mem) \/ \E q \in Req : Dresses(mem, mem', q) /\ ~ Fresh(q)
  BY <1>3, <1>14
<1> QED
  BY <1>2, <1>8, <1>12, <1>13, <1>15, <1>16, CmdWatches

LEMMA ReconcileResumed_Keeps ==
  ASSUME IInv, ReconcileResumed
  PROVE  IInv'
<1>1. PICK d, p : d = th[Cmd].d /\ p = th[Cmd].p
  OBVIOUS
<1>2. /\ th[Cmd].pc = "w_resume" /\ Rebind(p) /\ mem' = mem /\ UNCHANGED <<disk, runs, faults, client>>
      /\ Goto(Cmd, "w_rebound") \/ Goto(Cmd, "refused")
  BY <1>1 DEF ReconcileResumed, At
<1>3. Looks(p, d) /\ mem \in Memory /\ th[Cmd].pc # "idle" /\ TypeOK /\ Requests
      /\ Type = "reconcile" /\ mem.dl[d].resp # "none"
  BY <1>1, <1>2, CmdLooked DEF Looking, IInv, Cmds, Typed, Holding
<1>4. d \in Req /\ p \in Req /\ mem.ctx[p].active = d /\ th[p].pc = "idle" /\ Delivers(d, p)
  BY <1>3, Numbers DEF Looks
<1>5. PICK pc \in {"w_rebound", "refused"} : Goto(Cmd, pc)
  BY <1>2
<1>6. Step(th, th', Cmd, pc) /\ (\A u \in Threads : u # Cmd => th'[u] = th[u]) /\ (\A q \in Req : th'[q] = th[q])
      /\ th'[Cmd].pc = pc /\ th' \in [Threads -> Thread]
  BY <1>5, CmdStep, SavedPcs DEF Saving
<1>7. WorldType' /\ x'.owner = x.owner /\ x'.disc = x.disc /\ UNCHANGED <<xs, typed, resent, acked, asked, dispatched, runs>>
  BY <1>2, <1>3, <1>4, Rebinds
<1>8. Sound
  <2>1. Cmd \in Threads
    BY DEF Threads
  <2> QED
    BY <1>6, <1>7, <2>1, Calm
<1>9. CASE pc = "refused"
  BY <1>2, <1>3, <1>5, <1>7, <1>8, <1>9, CmdCloses
<1>10. CASE pc = "w_rebound"
  <2>1. d # 0 => Delivers(d, p)'
    BY <1>3, <1>4, <1>8, DeliversStays DEF Sound
  <2>2. "w_rebound" \in Looking /\ th'[p].pc = "idle" /\ th'[Cmd].req = th[Cmd].req /\ th'[Cmd].p = p /\ th'[Cmd].d = d
    BY <1>1, <1>4, <1>6 DEF Looking, Step
  <2>3. Cmds'
    BY <1>1, <1>2, <1>3, <1>4, <1>6, <1>7, <1>10, <2>1, <2>2, CmdLooks
  <2> QED
    BY <1>2, <1>6, <1>7, <1>8, <2>3, CmdDresses
<1> QED
  BY <1>9, <1>10

LEMMA ReconcileBound_Keeps ==
  ASSUME IInv, ReconcileBound
  PROVE  IInv'
<1>1. PICK d, p : d = th[Cmd].d /\ p = th[Cmd].p
  OBVIOUS
<1>2. th[Cmd].pc = "w_rebound" /\ Goto(Cmd, "c_inspect") /\ mem' = mem /\ disk' = mem /\ UNCHANGED <<runs, faults, world, client>>
  BY DEF ReconcileBound, Saved, At
<1>3. Looks(p, d) /\ th[Cmd].pc # "idle" /\ Type = "reconcile" /\ mem.dl[d].resp # "none"
  BY <1>1, <1>2, CmdLooked DEF Looking, IInv, Cmds, Typed, Holding
<1>4. d \in Req /\ p \in Req /\ mem.ctx[p].active = d /\ th[p].pc = "idle"
  BY <1>3 DEF Looks
<1>5. Step(th, th', Cmd, "c_inspect") /\ (\A u \in Threads : u # Cmd => th'[u] = th[u]) /\ (\A q \in Req : th'[q] = th[q])
      /\ th'[Cmd].pc = "c_inspect" /\ th' \in [Threads -> Thread]
  BY <1>2, CmdStep, SavedPcs DEF Calling
<1>6. Sound /\ UNCHANGED <<x, xs, typed, resent, acked, asked, dispatched, runs>>
  BY <1>2, <1>5, CmdCalm
<1>7. Cmds'
  <2>1. "c_inspect" \in Checking /\ "c_inspect" \notin Acking /\ th'[p].pc = "idle"
    BY <1>4, <1>5 DEF Checking, Acking
  <2> QED
    BY <1>1, <1>2, <1>3, <1>4, <1>5, <1>6, <2>1, CmdChecks
<1> QED
  BY <1>2, <1>5, <1>6, <1>7, CmdDresses

-----------------------------------------------------------------------------
(* What is not done by a thread: the extension, the runs and the readings   *)

LEMMA WorldTurns ==
  ASSUME IInv, th' = th, UNCHANGED <<acked, asked, dispatched>>,
         \A d \in Req : /\ xs[d].at = "done" => xs'[d].at = "done"
                        /\ xs[d].at = "none" => xs'[d].at = "none"
                        /\ Unhanded(d) => Unhanded(d)'
                        /\ Held(d)' => Held(d),
         \A s \in runs' : \E r \in runs : r.id = s.id /\ r.p = s.p /\ r.of = s.of,
         World', WorldType'
  PROVE  Sound
<1>1. \A r \in Req : Fresh(r)' <=> Fresh(r)
  BY DEF Fresh, At
<1>2. Frame
  BY <1>1 DEF Frame
<1>3. ASSUME NEW m, MemOK(m)
      PROVE  Suits(m)
  <2>1. ASSUME NEW s \in runs'
        PROVE  RunOK(m, s)
    <3>1. PICK r \in runs : r.id = s.id /\ r.p = s.p /\ r.of = s.of
      OBVIOUS
    <3>2. RunOK(m, r)
      BY <1>3 DEF MemOK
    <3> QED
      BY <3>1, <3>2 DEF RunOK
  <2> QED
    BY <2>1 DEF Suits
<1>4. Suits(mem) /\ Suits(disk)
  <2>1. PICK m, n : m = mem /\ n = disk
    OBVIOUS
  <2>2. MemOK(m) /\ MemOK(n)
    BY <2>1 DEF IInv
  <2>3. Suits(m) /\ Suits(n)
    BY <1>3, <2>2
  <2> QED
    BY <2>1, <2>3
<1>5. Requests'
  BY <1>1 DEF IInv, Requests, JobIdle, At
<1> QED
  BY <1>2, <1>4, <1>5 DEF Sound

(* What such a step may do to the memory of e and to its prompt             *)
Moved(e) ==
  LET c == mem.ctx[e]  k == mem'.ctx[e]  d == mem.dl[e]  h == mem'.dl[e] IN
  /\ k.active = c.active /\ k.reserved = c.reserved /\ k.agreed = c.agreed
  /\ c.agree \in {"READY", "APPROVED"} => k.agree \in {"READY", "APPROVED"}
  /\ c.life # "ABANDONED" => k.life # "ABANDONED"
  /\ c.run # 0 => k.run # 0
  /\ d.state # "NONE" => h.state # "NONE"
  /\ h.resp = d.resp /\ h.fmt = d.fmt /\ h.proc = d.proc
  /\ mem.rcpt[e] # "NONE" => mem'.rcpt[e] # "NONE"
  /\ Unhanded(e) => Unhanded(e)' /\ h.state = d.state
  /\ xs[e].at \in {"done", "quiet"} => xs'[e].at \in {"done", "quiet"}

LEMMA MovedCmd ==
  ASSUME IInv, Sound, th' = th, UNCHANGED <<asked, dispatched>>, mem' \in Memory, disk' = disk \/ disk' = mem',
         mem'.cur = mem.cur, \A e \in Req : Moved(e) /\ (mem'.ctx[e].reserved # 0 => mem'.ctx[e].agree = "APPROVED")
  PROVE  Cmds'
<1>1. PICK c, p, d, r : c = th[Cmd] /\ p = c.p /\ d = c.d /\ r = c.req
  OBVIOUS
<1>2. Cmds /\ TypeOK /\ Requests /\ Frame
  BY DEF IInv, Sound
<1>3. r \in Req => /\ mem.rcpt[r] # "NONE" => mem'.rcpt[r] # "NONE"
                   /\ mem.rcpt[r] # "NONE" /\ disk.rcpt[r] # "NONE" => disk'.rcpt[r] # "NONE"
                   /\ mem.dl[r].state # "NONE" => mem'.dl[r].state # "NONE"
                   /\ mem.dl[r].state = "RESERVED" => mem'.dl[r].state = "RESERVED"
  <2>1. ASSUME r \in Req, mem.dl[r].state = "RESERVED"
        PROVE  Unhanded(r)
    BY <2>1 DEF IInv, MemOK, DlOK
  <2> QED
    BY <2>1 DEF Moved
<1>4. \A q \in Req : mem.ctx[q].run # 0 => mem'.ctx[q].run # 0
  BY DEF Moved
<1>5. d \in Req => /\ mem.dl[d].resp # "none" => mem'.dl[d].resp # "none"
                   /\ mem.dl[d].fmt = "CONFIRMED" => mem'.dl[d].fmt = "CONFIRMED"
                   /\ mem.dl[d].proc # "none" => mem'.dl[d].proc # "none"
                   /\ disk.dl[d].proc # "none" /\ mem.dl[d].proc # "none" => disk'.dl[d].proc # "none"
                   /\ xs[d].at \in {"done", "quiet"} => xs'[d].at \in {"done", "quiet"}
                   /\ Unhanded(d) => Unhanded(d)'
  BY DEF Moved
<1>6. p \in Req => /\ mem'.ctx[p].active = mem.ctx[p].active /\ mem'.ctx[p].reserved = mem.ctx[p].reserved
                   /\ mem'.ctx[p].agreed = mem.ctx[p].agreed
                   /\ mem.ctx[p].agree \in {"READY", "APPROVED"} => mem'.ctx[p].agree \in {"READY", "APPROVED"}
                   /\ mem.ctx[p].life # "ABANDONED" => mem'.ctx[p].life # "ABANDONED"
  BY DEF Moved
<1>7. Alone => JobIdle(p)'
  BY <1>1, <1>2 DEF Cmds, Holding, JobIdle, At
<1>8. c.pc = "reserve" => r \in Req /\ mem.dl[r].state = "RESERVED"
  BY <1>1, <1>2 DEF Cmds, Holding, Running
<1>9. d \in Req /\ c.pc \in Rebinding => Unhanded(d)'
  BY <1>1, <1>2, <1>5 DEF Cmds, Holding
<1>10. p \in Req /\ c.pc = "a_run" => LET e == disk'.ctx[p] IN
          e.reserved = mem.ctx[p].reserved /\ e.agree = "APPROVED" /\ e.life # "ABANDONED" /\ e.agreed = mem.ctx[p].agreed
  <2> SUFFICES ASSUME p \in Req, c.pc = "a_run"
               PROVE  /\ disk'.ctx[p].reserved = mem.ctx[p].reserved /\ disk'.ctx[p].agree = "APPROVED"
                      /\ disk'.ctx[p].life # "ABANDONED" /\ disk'.ctx[p].agreed = mem.ctx[p].agreed
    OBVIOUS
  <2>1. /\ disk.ctx[p].reserved = mem.ctx[p].reserved /\ disk.ctx[p].agree = "APPROVED" /\ disk.ctx[p].life # "ABANDONED"
        /\ disk.ctx[p].agreed = mem.ctx[p].agreed /\ mem.ctx[p].reserved # 0 /\ mem.ctx[p].life # "ABANDONED"
    BY <1>1, <1>2 DEF Cmds, Approval, Approving
  <2>2. mem'.ctx[p].agree = "APPROVED"
    BY <1>6, <2>1
  <2> QED
    BY <1>6, <2>1, <2>2
<1>11. CmdKept
  <2>1. /\ r \in Req /\ asked[r].p \in Req /\ mem.ctx[asked[r].p].run # 0 => mem'.ctx[asked[r].p].run # 0
        /\ p \in Req /\ mem.ctx[p].run # 0 => mem'.ctx[p].run # 0
    BY <1>4
  <2>2. ASSUME Alone, p \in Req
        PROVE  /\ JobIdle(p)'
               /\ mem'.ctx[p].active = mem.ctx[p].active /\ mem'.ctx[p].reserved = mem.ctx[p].reserved
               /\ mem'.ctx[p].agreed = mem.ctx[p].agreed
               /\ mem.ctx[p].agree \in {"READY", "APPROVED"} => mem'.ctx[p].agree \in {"READY", "APPROVED"}
               /\ mem.ctx[p].life # "ABANDONED" => mem'.ctx[p].life # "ABANDONED"
               /\ c.pc = "reserve" => mem'.dl[r].state = "RESERVED"
    BY <1>3, <1>6, <1>7, <1>8, <2>2
  <2>3. th'[Cmd] = th[Cmd]
    OBVIOUS
  <2>4. JobIdle(p)' => JobIdle(th[Cmd].p)'
    BY <1>1 DEF JobIdle, At
  <2>5. Unhanded(d)' => Unhanded(th[Cmd].d)'
    BY <1>1, <2>3
  <2>6. ASSUME Alone, th[Cmd].p \in Req
        PROVE  /\ JobIdle(th[Cmd].p)'
               /\ mem'.ctx[th[Cmd].p].active = mem.ctx[th[Cmd].p].active /\ mem'.ctx[th[Cmd].p].reserved = mem.ctx[th[Cmd].p].reserved
               /\ mem'.ctx[th[Cmd].p].agreed = mem.ctx[th[Cmd].p].agreed
               /\ mem.ctx[th[Cmd].p].agree \in {"READY", "APPROVED"} => mem'.ctx[th[Cmd].p].agree \in {"READY", "APPROVED"}
               /\ mem.ctx[th[Cmd].p].life # "ABANDONED" => mem'.ctx[th[Cmd].p].life # "ABANDONED"
               /\ th[Cmd].pc = "reserve" => mem'.dl[th[Cmd].req].state = "RESERVED"
    BY <1>1, <2>2, <2>4, <2>6
  <2>7. ASSUME th[Cmd].d \in Req
        PROVE  /\ mem.dl[th[Cmd].d].resp # "none" => mem'.dl[th[Cmd].d].resp # "none"
               /\ mem.dl[th[Cmd].d].fmt = "CONFIRMED" => mem'.dl[th[Cmd].d].fmt = "CONFIRMED"
               /\ mem.dl[th[Cmd].d].proc # "none" => mem'.dl[th[Cmd].d].proc # "none"
               /\ disk.dl[th[Cmd].d].proc # "none" /\ mem.dl[th[Cmd].d].proc # "none" => disk'.dl[th[Cmd].d].proc # "none"
               /\ xs[th[Cmd].d].at \in {"done", "quiet"} => xs'[th[Cmd].d].at \in {"done", "quiet"}
               /\ th[Cmd].pc \in Rebinding => Unhanded(th[Cmd].d)'
    BY <1>1, <1>5, <1>9, <2>5, <2>7
  <2>8. ASSUME th[Cmd].req \in Req
        PROVE  /\ mem.rcpt[th[Cmd].req] # "NONE" => mem'.rcpt[th[Cmd].req] # "NONE"
               /\ mem.rcpt[th[Cmd].req] # "NONE" /\ disk.rcpt[th[Cmd].req] # "NONE" => disk'.rcpt[th[Cmd].req] # "NONE"
               /\ mem.dl[th[Cmd].req].state # "NONE" => mem'.dl[th[Cmd].req].state # "NONE"
               /\ asked[th[Cmd].req].p \in Req /\ mem.ctx[asked[th[Cmd].req].p].run # 0 => mem'.ctx[asked[th[Cmd].req].p].run # 0
    BY <1>1, <1>3, <1>4, <2>8
  <2>9. /\ mem'.cur = mem.cur /\ asked' = asked /\ dispatched' = dispatched
        /\ th[Cmd].p \in Req /\ mem.ctx[th[Cmd].p].run # 0 => mem'.ctx[th[Cmd].p].run # 0
    BY <1>4
  <2>10. th[Cmd].p \in Req /\ th[Cmd].pc = "a_run" => LET e == disk'.ctx[th[Cmd].p] IN
            e.reserved = mem.ctx[th[Cmd].p].reserved /\ e.agree = "APPROVED" /\ e.life # "ABANDONED" /\ e.agreed = mem.ctx[th[Cmd].p].agreed
    BY <1>1, <1>10
  <2> QED
    BY <2>6, <2>7, <2>8, <2>9, <2>10 DEF CmdKept
<1> QED
  BY <1>2, <1>11, CmdStays

LEMMA Aside ==
  ASSUME IInv, Sound, th' = th, UNCHANGED <<asked, dispatched>>, mem' \in Memory, disk' = disk \/ disk' = mem',
         mem'.cur = mem.cur, MemOK(mem)', \A e \in Req : Moved(e)
  PROVE  IInv'
<1>1. Cmds'
  <2>1. \A e \in Req : mem'.ctx[e].reserved # 0 => mem'.ctx[e].agree = "APPROVED"
    BY DEF MemOK, CtxOK
  <2> QED
    BY <2>1, MovedCmd
<1>2. MemOK(disk)'
  BY Rows DEF Sound
<1>3. Confirmed'
  <2>1. \A e \in Req : mem'.dl[e].resp = mem.dl[e].resp /\ mem'.dl[e].fmt = mem.dl[e].fmt
    BY DEF Moved
  <2> QED
    BY <2>1, Confirms DEF Grows
<1>4. ASSUME NEW q \in Req
      PROVE  JobOK(q)'
  <2>1. JobOK(q) /\ th'[q] = th[q] /\ TypeOK /\ Requests /\ Frame
    BY DEF IInv, Jobs, Sound
  <2>2. CASE th[q].pc = "idle"
    BY <2>1, <2>2, Idles
  <2>3. CASE th[q].pc # "idle"
    <3>1. PICK e \in Req : e = th[q].d
      BY <2>1, <2>3 DEF JobOK, Delivers
    <3>2. /\ mem'.ctx[q].active = mem.ctx[q].active
          /\ mem'.dl[e].resp = mem.dl[e].resp /\ mem'.dl[e].fmt = mem.dl[e].fmt /\ mem'.dl[e].proc = mem.dl[e].proc
          /\ Unhanded(e) => Unhanded(e)' /\ mem'.dl[e].state = mem.dl[e].state
      BY DEF Moved
    <3>3. Unhanded(e)' => Unhanded(th[q].d)'
      BY <2>1, <3>1
    <3>4. th[q].pc \in Starting => Unhanded(e)
      BY <2>1, <3>1 DEF JobOK
    <3>5. JobKept(q)
      BY <3>1, <3>2, <3>3, <3>4 DEF JobKept
    <3> QED
      BY <2>1, <3>5, JobStays
  <2> QED
    BY <2>2, <2>3
<1>5. Jobs'
  BY <1>4 DEF Jobs
<1>6. TypeOK'
  <2>1. disk' \in Memory /\ th' \in [Threads -> Thread]
    BY Types0 DEF IInv, TypeOK
  <2> QED
    BY <2>1, Types2 DEF Sound
<1> QED
  BY <1>1, <1>2, <1>3, <1>5, <1>6 DEF IInv, Sound

(* Nothing but the extension or the runs changes.                           *)
LEMMA Aloof ==
  ASSUME IInv, Sound, th' = th, UNCHANGED <<mem, disk, asked, dispatched>>,
         \A e \in Req : /\ Unhanded(e) => Unhanded(e)'
                        /\ xs[e].at \in {"done", "quiet"} => xs'[e].at \in {"done", "quiet"}
  PROVE  IInv'
<1>1. MemOK(mem)' /\ mem' \in Memory
  BY MemStill DEF IInv, TypeOK
<1>2. \A e \in Req : Moved(e)
  BY DEF Moved
<1> QED
  BY <1>1, <1>2, Aside

LEMMA Takes_Keeps ==
  ASSUME IInv, NEW d \in Req, Takes(d)
  PROVE  IInv'
<1>1. /\ xs[d].at = "wire" /\ x.owner = 0 /\ x' = [x EXCEPT !.owner = d] /\ xs' = [xs EXCEPT ![d].at = "gen"]
      /\ typed' = typed \cup {d} /\ UNCHANGED <<mem, disk, th, runs, faults, resent, acked, asked, dispatched>> /\ TypeOK
  BY DEF Takes, client, IInv
<1>2. /\ \A e \in Req : e # d => xs'[e] = xs[e]
      /\ xs'[d].at = "gen"
      /\ xs' \in [Req -> [at : {"none", "wire", "refused", "gen", "done", "quiet"}, held : Answers \cup {"none"}]]
  <2>1. xs \in [Req -> [at : {"none", "wire", "refused", "gen", "done", "quiet"}, held : Answers \cup {"none"}]]
    BY <1>1 DEF TypeOK
  <2>2. xs' = [xs EXCEPT ![d] = [xs[d] EXCEPT !.at = "gen"]]
    BY <1>1
  <2>3. [xs[d] EXCEPT !.at = "gen"] \in [at : {"none", "wire", "refused", "gen", "done", "quiet"}, held : Answers \cup {"none"}]
        /\ [xs[d] EXCEPT !.at = "gen"].at = "gen"
    BY <2>1
  <2> QED
    BY <2>1, <2>2, <2>3
<1>3. x' \in [sess : Ids, owner : Ids, disc : Ids] /\ x'.owner = d /\ x'.disc = x.disc
  <2>1. x \in [sess : Ids, owner : Ids, disc : Ids] /\ d \in Ids
    BY <1>1, Numbers DEF TypeOK, Ids
  <2> QED
    BY <1>1, <2>1
<1>4. WorldType'
  BY <1>1, <1>2, <1>3 DEF TypeOK, WorldType, Ids
<1>5. World'
  <2>1. x.disc # 0 => x.disc # d /\ x.disc \in Req
    <3>1. x.disc # 0 => x.disc # d
      BY <1>1 DEF IInv, World
    <3>2. x.disc \in 0 .. MaxReq /\ MaxReq \in Nat
      BY <1>1, BoundsAssumption DEF TypeOK
    <3> QED
      BY <3>1, <3>2 DEF Req
  <2> QED
    BY <1>1, <1>2, <1>3, <2>1 DEF IInv, World
<1>6. Sound
  <2>1. \A e \in Req : (Unhanded(e) => Unhanded(e)') /\ (Held(e)' => Held(e))
    BY <1>1, <1>2, <1>3 DEF Unhanded, Held
  <2> QED
    BY <1>1, <1>2, <1>4, <1>5, <2>1, WorldTurns
<1> QED
  BY <1>1, <1>2, <1>6, Aloof DEF Unhanded

(* A prompt comes to its end in the extension.                              *)
LEMMA PromptEnds ==
  ASSUME IInv, NEW d \in Req, xs[d].at \in {"wire", "gen"},
         NEW e \in [at : {"refused", "done", "quiet"}, held : Answers \cup {"none"}], xs' = [xs EXCEPT ![d] = e],
         e.at = "refused" => xs[d].at = "wire", e.at \in {"done", "quiet"} => xs[d].at = "gen", e.at = "done" => e.held # "none",
         UNCHANGED <<mem, disk, th, runs, faults, x, typed, resent, acked, client>>
  PROVE  IInv'
<1>1. UNCHANGED <<asked, dispatched>> /\ TypeOK
  BY DEF client, IInv
<1>2. /\ \A q \in Req : q # d => xs'[q] = xs[q]
      /\ xs'[d] = e
      /\ xs' \in [Req -> [at : {"none", "wire", "refused", "gen", "done", "quiet"}, held : Answers \cup {"none"}]]
  BY <1>1 DEF TypeOK
<1>3. WorldType'
  BY <1>1, <1>2 DEF TypeOK, WorldType
<1>4. World'
  <2>1. x.disc # 0 => x.disc # d /\ x.disc \in Req
    <3>1. x.disc # 0 => x.disc # d
      BY DEF IInv, World
    <3>2. x.disc \in 0 .. MaxReq /\ MaxReq \in Nat
      BY <1>1, BoundsAssumption DEF TypeOK
    <3> QED
      BY <3>1, <3>2 DEF Req
  <2> QED
    BY <1>2, <2>1 DEF IInv, World
<1>5. Sound
  <2>1. \A q \in Req : (Unhanded(q) => Unhanded(q)') /\ (Held(q)' => Held(q))
    BY <1>2 DEF Unhanded, Held
  <2> QED
    BY <1>1, <1>2, <1>3, <1>4, <2>1, WorldTurns
<1> QED
  BY <1>1, <1>2, <1>5, Aloof DEF Unhanded

LEMMA RefusesPrompt_Keeps ==
  ASSUME IInv, NEW d \in Req, RefusesPrompt(d)
  PROVE  IInv'
<1>1. /\ xs[d].at = "wire" /\ xs' = [xs EXCEPT ![d] = [xs[d] EXCEPT !.at = "refused"]]
      /\ UNCHANGED <<mem, disk, th, runs, faults, x, typed, resent, acked, client>>
  BY DEF RefusesPrompt
<1>2. xs[d] \in [at : {"none", "wire", "refused", "gen", "done", "quiet"}, held : Answers \cup {"none"}]
  BY DEF IInv, TypeOK
<1>3. [xs[d] EXCEPT !.at = "refused"] \in [at : {"refused", "done", "quiet"}, held : Answers \cup {"none"}]
      /\ [xs[d] EXCEPT !.at = "refused"].at = "refused"
  BY <1>2
<1> QED
  BY <1>1, <1>3, PromptEnds

LEMMA Ends_Keeps ==
  ASSUME IInv, NEW d \in Req, Ends(d)
  PROVE  IInv'
<1>1. /\ xs[d].at = "gen"
      /\ UNCHANGED <<mem, disk, th, runs, faults, x, typed, resent, acked, client>>
      /\ \/ \E answer \in Answers : xs' = [xs EXCEPT ![d] = [at |-> "done", held |-> answer]]
         \/ xs' = [xs EXCEPT ![d] = [xs[d] EXCEPT !.at = "quiet"]]
  BY DEF Ends
<1>2. xs[d] \in [at : {"none", "wire", "refused", "gen", "done", "quiet"}, held : Answers \cup {"none"}]
  BY DEF IInv, TypeOK
<1>3. PICK e \in [at : {"refused", "done", "quiet"}, held : Answers \cup {"none"}] :
        xs' = [xs EXCEPT ![d] = e] /\ e.at \in {"done", "quiet"} /\ (e.at = "done" => e.held # "none")
  <2>1. CASE \E answer \in Answers : xs' = [xs EXCEPT ![d] = [at |-> "done", held |-> answer]]
    <3>1. PICK answer \in Answers : xs' = [xs EXCEPT ![d] = [at |-> "done", held |-> answer]]
      BY <2>1
    <3>2. answer # "none"
      BY DEF Answers
    <3>3. PICK e : e = [at |-> "done", held |-> answer]
      OBVIOUS
    <3>4. e \in [at : {"refused", "done", "quiet"}, held : Answers \cup {"none"}] /\ e.at = "done" /\ e.held # "none"
      BY <3>2, <3>3
    <3> QED
      BY <3>1, <3>3, <3>4
  <2>2. CASE xs' = [xs EXCEPT ![d] = [xs[d] EXCEPT !.at = "quiet"]]
    <3>1. PICK e : e = [xs[d] EXCEPT !.at = "quiet"]
      OBVIOUS
    <3>2. e \in [at : {"refused", "done", "quiet"}, held : Answers \cup {"none"}] /\ e.at = "quiet"
      BY <1>2, <3>1
    <3> QED
      BY <2>2, <3>1, <3>2
  <2> QED
    BY <1>1, <2>1, <2>2
<1> QED
  BY <1>1, <1>3, PromptEnds

LEMMA RunEnds_Keeps ==
  ASSUME IInv, RunEnds
  PROVE  IInv'
<1>1. PICK run \in runs : runs' = (runs \ {run}) \cup {[run EXCEPT !.live = FALSE]}
  BY DEF RunEnds
<1>2. UNCHANGED <<mem, disk, th, faults, x, xs, typed, resent, acked, asked, dispatched>> /\ TypeOK
  BY DEF RunEnds, world, client, IInv
<1>3. run \in [id : Req, p : Req, of : 0 .. MaxReq, live : BOOLEAN] /\ runs \subseteq [id : Req, p : Req, of : 0 .. MaxReq, live : BOOLEAN]
  BY <1>2 DEF TypeOK
<1>4. PICK s : s = [run EXCEPT !.live = FALSE]
  OBVIOUS
<1>5. s \in [id : Req, p : Req, of : 0 .. MaxReq, live : BOOLEAN] /\ s.id = run.id /\ s.p = run.p /\ s.of = run.of
  BY <1>3, <1>4
<1>6. WorldType'
  <2>1. runs' \subseteq [id : Req, p : Req, of : 0 .. MaxReq, live : BOOLEAN]
    BY <1>1, <1>3, <1>4, <1>5
  <2> QED
    BY <1>2, <2>1 DEF TypeOK, WorldType
<1>7. \A t \in runs' : \E r \in runs : r.id = t.id /\ r.p = t.p /\ r.of = t.of
  BY <1>1, <1>4, <1>5
<1>8. World'
  BY <1>2 DEF IInv, World
<1>9. Sound
  BY <1>2, <1>6, <1>7, <1>8, WorldTurns DEF Unhanded, Held
<1> QED
  BY <1>2, <1>9, Aloof DEF Unhanded

LEMMA TextDelta_Keeps ==
  ASSUME IInv, TextDelta
  PROVE  IInv'
<1>1. PICK d, p : d = mem.ctx[p].active /\ p = mem.cur
  OBVIOUS
<1>2. /\ p # 0 /\ d # 0 /\ xs[d].at = "gen" /\ UNCHANGED <<th, runs, world, client>>
      /\ \/ mem' = [mem EXCEPT !.dl[d].state = "RESPONSE_STARTED"] /\ disk' = mem' /\ faults' = faults
         \/ /\ mem' = [[mem EXCEPT !.dl[d].state = "RESPONSE_STARTED"] EXCEPT !.ctx[p].err = "other"] /\ disk' = disk
            /\ faults < MaxFaults /\ faults' = faults + 1
  BY <1>1 DEF TextDelta, Current
<1>3. p \in Req /\ ~ Fresh(p) /\ mem \in Memory /\ TypeOK
  BY <1>1, <1>2, CurrentIs DEF IInv, TypeOK
<1>4. Delivers(d, p) /\ d \in Req /\ mem.ctx[p].agree = "DISCUSSING"
  BY <1>1, <1>2, <1>3 DEF IInv, MemOK, CtxOK, Delivers
<1>5. Marks(mem, mem', p, d, "RESPONSE_STARTED", mem.dl[d].resp, mem.dl[d].fmt, mem.dl[d].proc)
  <2>1. "RESPONSE_STARTED" \in DeliveryStates
    BY DEF DeliveryStates
  <2> QED
    BY <1>2, <1>3, <1>4, <2>1, MarkState, MarkBegun
<1>6. UNCHANGED <<x, xs, typed, resent, acked, asked, dispatched, runs>> /\ WorldType'
  BY <1>2, CalmTyped
<1>7. World'
  BY <1>6 DEF IInv, World
<1>8. Sound
  BY <1>2, <1>6, <1>7, WorldTurns DEF Unhanded, Held
<1>9. Touches(mem, mem', p, {d}) /\ Same(mem'.ctx[p], mem.ctx[p]) /\ mem' \in Memory /\ mem'.cur = mem.cur /\ mem'.rcpt = mem.rcpt
      /\ mem'.dl[d].state = "RESPONSE_STARTED"
      /\ mem'.dl[d].resp = mem.dl[d].resp /\ mem'.dl[d].fmt = mem.dl[d].fmt /\ mem'.dl[d].proc = mem.dl[d].proc
  BY <1>5 DEF Marks, Touches
<1>10. TypeOK'
  BY <1>2, <1>3, <1>6, <1>9, Types2, Types0 DEF TypeOK
<1>11. MemOK(mem)'
  <2>1. /\ mem.dl[d].resp # "none" => xs'[d].at = "done"
        /\ d \in acked' => mem.dl[d].resp # "none" /\ (mem.dl[d].proc # "none" \/ CancelRan(p))
    BY <1>4, <1>6 DEF IInv, MemOK, DlOK, Delivers
  <2>2. CancelRan(p) => CancelRan(p)'
    BY <1>3, <1>8, CancelStays DEF Sound, IInv
  <2> QED
    BY <1>3, <1>4, <1>5, <1>8, <1>10, <2>1, <2>2, MemMarks
<1>12. ASSUME NEW e \in Req
       PROVE  Moved(e)
  <2>1. e # p => mem'.ctx[e] = mem.ctx[e]
    BY <1>9 DEF Touches
  <2>2. e # d => mem'.dl[e] = mem.dl[e]
    BY <1>9 DEF Touches
  <2>3. Unhanded(e) => e # d /\ Unhanded(e)'
    BY <1>2, <1>6 DEF Unhanded
  <2>4. /\ mem'.ctx[e].active = mem.ctx[e].active /\ mem'.ctx[e].reserved = mem.ctx[e].reserved /\ mem'.ctx[e].agreed = mem.ctx[e].agreed
        /\ mem'.ctx[e].agree = mem.ctx[e].agree /\ mem'.ctx[e].life = mem.ctx[e].life /\ mem'.ctx[e].run = mem.ctx[e].run
    BY <1>9, <2>1 DEF Same
  <2>5. /\ mem.dl[e].state # "NONE" => mem'.dl[e].state # "NONE"
        /\ mem'.dl[e].resp = mem.dl[e].resp /\ mem'.dl[e].fmt = mem.dl[e].fmt /\ mem'.dl[e].proc = mem.dl[e].proc
    BY <1>9, <2>2
  <2> QED
    BY <1>6, <1>9, <2>2, <2>3, <2>4, <2>5 DEF Moved
<1> QED
  BY <1>2, <1>6, <1>8, <1>9, <1>11, <1>12, Aside

LEMMA ProjectRun_Keeps ==
  ASSUME IInv, ProjectRun
  PROVE  IInv'
<1>1. PICK p : p = mem.cur
  OBVIOUS
<1>2. /\ p # 0 /\ mem.ctx[p].reserved # 0 /\ mem' = Adopt(p) /\ UNCHANGED <<th, runs, world, client>>
      /\ \/ disk' = mem' /\ faults' = faults
         \/ faults < MaxFaults /\ faults' = faults + 1 /\ disk' = disk
  BY <1>1 DEF ProjectRun, Current
<1>3. p \in Req /\ ~ Fresh(p) /\ mem \in Memory /\ TypeOK
  BY <1>1, <1>2, CurrentIs DEF IInv, TypeOK
<1>4. Adopts(mem, mem', p)
  BY <1>2, <1>3, AdoptMoves
<1>5. UNCHANGED <<x, xs, typed, resent, acked, asked, dispatched, runs>> /\ WorldType'
  BY <1>2, CalmTyped
<1>6. World'
  BY <1>5 DEF IInv, World
<1>7. Sound
  BY <1>2, <1>5, <1>6, WorldTurns DEF Unhanded, Held
<1>8. Touches(mem, mem', p, {}) /\ mem' \in Memory /\ mem'.cur = mem.cur /\ mem'.rcpt = mem.rcpt
      /\ mem'.ctx[p].agree = "APPROVED" /\ mem'.ctx[p].run # 0 /\ mem'.ctx[p].life = "COMPLETED"
      /\ mem'.ctx[p].agreed = mem.ctx[p].agreed /\ mem'.ctx[p].active = mem.ctx[p].active /\ mem'.ctx[p].reserved = mem.ctx[p].reserved
  BY <1>2, <1>4 DEF Adopts, Touches
<1>9. TypeOK'
  BY <1>2, <1>3, <1>5, <1>8, Types2, Types0 DEF TypeOK
<1>10. MemOK(mem)'
  BY <1>2, <1>3, <1>4, <1>7, <1>9, MemAdopts
<1>11. ASSUME NEW e \in Req
       PROVE  Moved(e)
  <2>1. mem'.dl[e] = mem.dl[e] /\ (e # p => mem'.ctx[e] = mem.ctx[e])
    BY <1>8 DEF Touches
  <2>2. Unhanded(e) => Unhanded(e)'
    BY <1>5 DEF Unhanded
  <2>3. /\ mem'.ctx[e].active = mem.ctx[e].active /\ mem'.ctx[e].reserved = mem.ctx[e].reserved /\ mem'.ctx[e].agreed = mem.ctx[e].agreed
        /\ mem.ctx[e].agree \in {"READY", "APPROVED"} => mem'.ctx[e].agree \in {"READY", "APPROVED"}
        /\ mem.ctx[e].life # "ABANDONED" => mem'.ctx[e].life # "ABANDONED"
        /\ mem.ctx[e].run # 0 => mem'.ctx[e].run # 0
    BY <1>8, <2>1
  <2> QED
    BY <1>5, <1>8, <2>1, <2>2, <2>3 DEF Moved
<1> QED
  BY <1>2, <1>5, <1>7, <1>8, <1>10, <1>11, Aside

LEMMA ProjectReceipt_Keeps ==
  ASSUME IInv, NEW r \in Req, ProjectReceipt(r)
  PROVE  IInv'
<1>1. PICK p : p = mem.cur
  OBVIOUS
<1>2. /\ p # 0 /\ mem.ctx[p].run # 0 /\ asked[r].type = "approve" /\ asked[r].p = p
      /\ mem' = [mem EXCEPT !.rcpt[r] = "COMPLETED"] /\ disk' = mem' /\ UNCHANGED <<th, runs, faults, world, client>>
  BY <1>1 DEF ProjectReceipt, Current
<1>3. p \in Req /\ mem \in Memory /\ TypeOK
  BY <1>1, <1>2, CurrentIs DEF IInv, TypeOK
<1>4. UNCHANGED <<x, xs, typed, resent, acked, asked, dispatched, runs>> /\ WorldType'
  BY <1>2, CalmTyped
<1>5. World'
  BY <1>4 DEF IInv, World
<1>6. Sound
  BY <1>2, <1>4, <1>5, WorldTurns DEF Unhanded, Held
<1>7. /\ mem' \in Memory /\ mem'.cur = mem.cur /\ mem'.ctx = mem.ctx /\ mem'.dl = mem.dl
      /\ mem'.rcpt[r] = "COMPLETED" /\ \A q \in Req : q # r => mem'.rcpt[q] = mem.rcpt[q]
  BY <1>2, <1>3, RcptMoves
<1>8. ASSUME NEW e \in Req
      PROVE  Moved(e) /\ (mem'.ctx[e].reserved # 0 => mem'.ctx[e].agree = "APPROVED")
  <2>1. mem.ctx[e].reserved # 0 => mem.ctx[e].agree = "APPROVED"
    BY DEF IInv, MemOK, CtxOK
  <2>2. mem.rcpt[e] # "NONE" => mem'.rcpt[e] # "NONE"
    BY <1>7
  <2> QED
    BY <1>4, <1>7, <2>1, <2>2 DEF Moved, Unhanded
<1>9. Cmds'
  BY <1>2, <1>4, <1>6, <1>7, <1>8, MovedCmd
<1>10. (\A q \in Req : th'[q] = th[q]) /\ th' \in [Threads -> Thread]
  BY <1>2, <1>3, Types0
<1> QED
  BY <1>2, <1>3, <1>4, <1>6, <1>9, <1>10, RcptChanges

-----------------------------------------------------------------------------
(* The memory is lost.                                                      *)
LEMMA Crash_Keeps ==
  ASSUME IInv, Crash
  PROVE  IInv'
<1>1. /\ mem' = Recovered(disk) /\ disk' = Recovered(disk) /\ th' = [t \in Threads |-> Idle] /\ faults < MaxFaults /\ faults' = faults + 1
      /\ UNCHANGED <<runs, world, client>> /\ disk \in Memory /\ TypeOK
  BY DEF Crash, IInv, TypeOK
<1>2. Recovers(disk, mem') /\ Recovers(disk, disk')
  BY <1>1, RecoverMoves
<1>3. UNCHANGED <<x, xs, typed, resent, acked, asked, dispatched, runs>> /\ WorldType'
  BY <1>1, CalmTyped
<1>4. th' \in [Threads -> Thread] /\ (\A t \in Threads : th'[t].pc = "idle") /\ Cmd \in Threads /\ (\A q \in Req : q \in Threads)
  BY <1>1, IdleTyped DEF Idle, Threads
<1>5. \A r \in Req : Fresh(r)' => Fresh(r)
  BY <1>3, <1>4 DEF Fresh, At
<1>6. Frame
  BY <1>3, <1>5 DEF Frame
<1>7. Still
  BY <1>3 DEF Still, Unhanded, Held
<1>8. TypeOK'
  BY <1>2, <1>3, <1>4, Types2 DEF Recovers
<1>9. PICK m : m = disk
  OBVIOUS
<1>10. m \in Memory /\ MemOK(m)'
  BY <1>6, <1>7, <1>9, Base
<1>11. MemOK(mem)' /\ MemOK(disk)'
  <2>1. PICK n, k : n = mem' /\ k = disk'
    OBVIOUS
  <2>2. Recovers(m, n) /\ Recovers(m, k)
    BY <1>2, <1>9, <2>1
  <2>3. MemOK(n)' /\ MemOK(k)'
    BY <1>8, <1>10, <2>2, RecoveredOK
  <2> QED
    BY <2>1, <2>3
<1>12. Confirmed'
  BY <1>2 DEF IInv, Confirmed, Recovers
<1>13. World'
  BY <1>3 DEF IInv, World
<1>14. Requests'
  BY <1>3, <1>4, <1>5 DEF IInv, Requests, JobIdle, At
<1>15. Jobs'
  BY <1>4, Idles DEF Jobs
<1>16. Cmds'
  BY <1>4, CmdRests
<1> QED
  BY <1>8, <1>11, <1>12, <1>13, <1>14, <1>15, <1>16 DEF IInv

-----------------------------------------------------------------------------
(* All steps                                                                *)

LEMMA Init_Holds == Init => IInv
<1> SUFFICES ASSUME Init
             PROVE  IInv
  OBVIOUS
<1>1. /\ mem = Nothing /\ disk = Nothing /\ th = [t \in Threads |-> Idle]
      /\ asked = [r \in Req |-> [type |-> "none", p |-> 0]] /\ x = [sess |-> 0, owner |-> 0, disc |-> 0]
      /\ xs = [d \in Req |-> [at |-> "none", held |-> "none"]]
      /\ runs = {} /\ faults = 0 /\ typed = {} /\ resent = {} /\ acked = {} /\ dispatched = [r \in Req |-> 0]
  BY DEF Init
<1>2. 0 \in 0 .. MaxReq /\ 0 \in 0 .. MaxFaults /\ 0 \notin Req
  BY BoundsAssumption DEF Req
<1>3. Nothing \in Memory
  <2>1. NoCtx \in Ctx /\ NoDl \in Delivery
    BY <1>2 DEF NoCtx, Ctx, PrepStates, NoDl, Delivery, DeliveryStates
  <2> QED
    BY <1>2, <2>1 DEF Nothing, Memory
<1>4. th \in [Threads -> Thread] /\ (\A t \in Threads : th[t].pc = "idle") /\ Cmd \in Threads /\ \A q \in Req : q \in Threads
  BY <1>1, IdleTyped DEF Idle, Threads
<1>5. TypeOK
  <2>1. th \in [Threads -> [pc : Saving \cup Calling \cup {"idle", "dispatch", "start", "a_start", "a_run", "submit", "launch"},
                            req : 0 .. MaxReq, p : 0 .. MaxReq, d : 0 .. MaxReq, got : Answers \cup {"none"}]]
    BY <1>4 DEF Thread, ThreadPcs
  <2> QED
    BY <1>1, <1>2, <1>3, <2>1 DEF TypeOK
<1>6. \A r \in Req : Fresh(r) /\ xs[r].at = "none" /\ JobIdle(r) /\ dispatched[r] = 0
  BY <1>1, <1>4 DEF Fresh, JobIdle, At
<1>7. Requests
  BY <1>6 DEF Requests
<1>8. MemOK(Nothing)
  <2>1. Nothing.cur = 0 /\ \A q \in Req : Nothing.ctx[q] = NoCtx /\ Nothing.dl[q] = NoDl /\ Nothing.rcpt[q] = "NONE"
    BY DEF Nothing
  <2>2. ASSUME NEW q \in Req
        PROVE  CtxOK(Nothing, q)
    BY <2>1 DEF CtxOK, NoCtx
  <2>3. ASSUME NEW d \in Req
        PROVE  DlOK(Nothing, d)
    <3>1. Unhanded(d) /\ ~ Held(d) /\ d \notin acked
      BY <1>1, <1>2, <1>6 DEF Unhanded, Held
    <3> QED
      BY <2>1, <3>1 DEF DlOK, NoDl
  <2>4. ASSUME NEW r \in Req
        PROVE  RcptOK(Nothing, r)
    BY <1>6, <2>1 DEF RcptOK
  <2> QED
    BY <1>1, <2>1, <2>2, <2>3, <2>4 DEF MemOK
<1>9. MemOK(mem) /\ MemOK(disk)
  BY <1>1, <1>8
<1>10. Confirmed
  BY <1>1 DEF Confirmed, Nothing, NoDl
<1>11. World
  BY <1>1, <1>2, <1>6 DEF World
<1>12. Jobs
  <2>1. ASSUME NEW p \in Req
        PROVE  JobOK(p)
    BY <1>4 DEF JobOK, JobPcs, Starting, Settles, Checking, Acking
  <2> QED
    BY <2>1 DEF Jobs
<1>13. Cmds
  <2>1. th[Cmd].pc = "idle"
    BY <1>4
  <2>2. Running /\ Typed
    BY <2>1 DEF Running, CmdPcs, Typed, Looking, Checking, Acking, Cancelling, Discarding, Rebinding, Approving
  <2>3. Settles(Cmd)
    BY <2>1 DEF Settles, Checking, Acking
  <2>4. Holding
    BY <2>1, <2>3 DEF Holding, Alone, Owning, Looking, Checking, Acking, Cancelling, Discarding, Rebinding, Approving
  <2>5. Approval
    BY <2>1 DEF Approval, Approving
  <2> QED
    BY <2>2, <2>4, <2>5 DEF Cmds
<1> QED
  BY <1>5, <1>7, <1>9, <1>10, <1>11, <1>12, <1>13 DEF IInv

LEMMA Command_Keeps ==
  ASSUME IInv, Command
  PROVE  IInv'
<1>1. CASE \E r \in Req : Execute(r)
  BY <1>1, Execute_Keeps
<1>2. CASE Claimed \/ Finished \/ Refuse \/ StartAsked \/ Start \/ Reply \/ Reserved \/ CommandSaved
  BY <1>2, Claimed_Keeps, Finished_Keeps, Refuse_Keeps, StartAsked_Keeps, Start_Keeps, Reply_Keeps, Reserved_Keeps, CommandSaved_Keeps
<1>3. CASE Discard \/ DiscardInspected \/ DiscardIntended \/ DiscardDelivery
  BY <1>3, Discard_Keeps, DiscardInspected_Keeps, DiscardIntended_Keeps, DiscardDelivery_Keeps
<1>4. CASE CancelLocal \/ Cancel \/ CancelInspected \/ CancelConfirmed
  BY <1>4, CancelLocal_Keeps, Cancel_Keeps, CancelInspected_Keeps, CancelConfirmed_Keeps
<1>5. CASE ApproveAgain \/ Approve \/ ApproveIntent \/ ApproveIntended \/ StartPrepared \/ StartFailed \/ ApproveSaved
  BY <1>5, ApproveAgain_Keeps, Approve_Keeps, ApproveIntent_Keeps, ApproveIntended_Keeps, StartPrepared_Keeps, StartFailed_Keeps,
     ApproveSaved_Keeps
<1>6. CASE RebindAsked \/ Rebound \/ ReboundStored
  BY <1>6, RebindAsked_Keeps, Rebound_Keeps, ReboundStored_Keeps
<1>7. CASE WebAsked \/ WebInspected \/ WebSeen \/ WebAdopted \/ StopDelivery \/ ReconcileResumed \/ ReconcileBound
  BY <1>7, WebAsked_Keeps, WebInspected_Keeps, WebSeen_Keeps, WebAdopted_Keeps, StopDelivery_Keeps, ReconcileResumed_Keeps,
     ReconcileBound_Keeps
<1> QED
  BY <1>1, <1>2, <1>3, <1>4, <1>5, <1>6, <1>7 DEF Command

LEMMA Job_Keeps ==
  ASSUME IInv, NEW p \in Req, Job(p)
  PROVE  IInv'
<1>1. CASE Bind(p) \/ Resume(p) \/ LaunchRebound(p) \/ Submit(p) \/ SubmitRejected(p)
  BY <1>1, Bind_Keeps, Resume_Keeps, LaunchRebound_Keeps, Submit_Keeps, SubmitRejected_Keeps
<1>2. CASE Sent(p) \/ Answered(p) \/ Refused(p) \/ Stored(p) \/ FailureStored(p)
  BY <1>2, Sent_Keeps, JobAnswered_Keeps, Refused_Keeps, Stored_Keeps, FailureStored_Keeps
<1> QED
  BY <1>1, <1>2 DEF Job

LEMMA Complete_Keeps ==
  ASSUME IInv, NEW t \in Threads, Complete(t)
  PROVE  IInv'
<1>1. CASE t \in Req
  <2>1. CASE Validate(t) \/ Checked(t) \/ Unconfirmed(t) \/ AckIntended(t) \/ Acknowledge(t)
    BY <1>1, <2>1, JobValidate_Keeps, JobChecked_Keeps, JobUnconfirmed_Keeps, JobAckIntended_Keeps, JobAcknowledge_Keeps
  <2>2. CASE Settle(t) \/ Settled(t) \/ SaveFails(t) \/ CallFails(t)
    BY <1>1, <2>2, JobSettle_Keeps, JobSettled_Keeps, JobSaveFails_Keeps, JobCallFails_Keeps
  <2> QED
    BY <2>1, <2>2 DEF Complete
<1>2. CASE t = Cmd
  <2>1. CASE Validate(t) \/ Checked(t) \/ Unconfirmed(t) \/ AckIntended(t) \/ Acknowledge(t)
    BY <1>2, <2>1, CmdValidate_Keeps, CmdChecked_Keeps, CmdUnconfirmed_Keeps, CmdAckIntended_Keeps, CmdAcknowledge_Keeps
  <2>2. CASE Settle(t) \/ Settled(t) \/ SaveFails(t) \/ CallFails(t)
    BY <1>2, <2>2, CmdSettle_Keeps, CmdSettled_Keeps, CmdSaveFails_Keeps, CmdCallFails_Keeps
  <2> QED
    BY <2>1, <2>2 DEF Complete
<1> QED
  BY <1>1, <1>2 DEF Threads

LEMMA Stutter_Keeps ==
  ASSUME IInv, UNCHANGED vars
  PROVE  IInv'
<1>1. UNCHANGED <<mem, disk, th, asked, x, xs, runs, faults, typed, resent, acked, dispatched>>
  BY DEF vars
<1>2. WorldType' /\ World'
  BY <1>1 DEF IInv, TypeOK, WorldType, World
<1>3. Sound
  BY <1>1, <1>2, WorldTurns DEF Unhanded, Held
<1> QED
  BY <1>1, <1>3, Aloof DEF Unhanded

LEMMA Next_Keeps == IInv /\ [Next]_vars => IInv'
<1> SUFFICES ASSUME IInv, [Next]_vars
             PROVE  IInv'
  OBVIOUS
<1>1. CASE Command
  BY <1>1, Command_Keeps
<1>2. CASE \E p \in Req : Job(p)
  BY <1>2, Job_Keeps
<1>3. CASE \E t \in Threads : Complete(t)
  BY <1>3, Complete_Keeps
<1>4. CASE TextDelta \/ ProjectRun \/ RunEnds \/ Crash
  BY <1>4, TextDelta_Keeps, ProjectRun_Keeps, RunEnds_Keeps, Crash_Keeps
<1>5. CASE \E r \in Req : ProjectReceipt(r)
  BY <1>5, ProjectReceipt_Keeps
<1>6. CASE \E d \in Req : Extension(d)
  BY <1>6, Takes_Keeps, RefusesPrompt_Keeps, Ends_Keeps DEF Extension
<1>7. CASE UNCHANGED vars
  BY <1>7, Stutter_Keeps
<1> QED
  BY <1>1, <1>2, <1>3, <1>4, <1>5, <1>6, <1>7 DEF Next

LEMMA Always == Spec => []IInv
  BY Init_Holds, Next_Keeps, PTL DEF Spec

-----------------------------------------------------------------------------
(* What the invariant says of the four properties                           *)

(* The runs change only when one is started and when one ends.              *)
OneRun == \A r, s \in runs : r.p = s.p => r = s

LEMMA RunsStay ==
  ASSUME [Next]_vars, ~ StartPrepared, ~ RunEnds
  PROVE  runs' = runs
<1>1. CASE Command
  <2>1. CASE \E r \in Req : Execute(r)
    BY <2>1 DEF Execute
  <2>2. CASE Claimed \/ Finished \/ Refuse \/ StartAsked \/ Start \/ Reply \/ Reserved \/ CommandSaved
    BY <2>2 DEF Claimed, Finished, Refuse, StartAsked, Start, Reply, Reserved, CommandSaved
  <2>3. CASE Discard \/ DiscardInspected \/ DiscardIntended \/ DiscardDelivery
    BY <2>3 DEF Discard, DiscardInspected, DiscardIntended, DiscardDelivery
  <2>4. CASE CancelLocal \/ Cancel \/ CancelInspected \/ CancelConfirmed
    BY <2>4 DEF CancelLocal, Cancel, CancelInspected, CancelConfirmed
  <2>5. CASE ApproveAgain \/ Approve \/ ApproveIntent \/ ApproveIntended \/ StartFailed \/ ApproveSaved
    BY <2>5 DEF ApproveAgain, Approve, ApproveIntent, ApproveIntended, StartFailed, ApproveSaved
  <2>6. CASE RebindAsked \/ Rebound \/ ReboundStored
    BY <2>6 DEF RebindAsked, Rebound, ReboundStored
  <2>7. CASE WebAsked \/ WebInspected \/ WebSeen \/ WebAdopted \/ StopDelivery \/ ReconcileResumed \/ ReconcileBound
    BY <2>7 DEF WebAsked, WebInspected, WebSeen, WebAdopted, StopDelivery, ReconcileResumed, ReconcileBound
  <2> QED
    BY <1>1, <2>1, <2>2, <2>3, <2>4, <2>5, <2>6, <2>7 DEF Command
<1>2. CASE \E p \in Req : Job(p)
  BY <1>2 DEF Job, Bind, Resume, LaunchRebound, Submit, SubmitRejected, Sent, Answered, Refused, Stored, FailureStored
<1>3. CASE \E t \in Threads : Complete(t)
  BY <1>3 DEF Complete, Validate, Checked, Unconfirmed, AckIntended, Acknowledge, Settle, Settled, SaveFails, CallFails
<1>4. CASE TextDelta \/ ProjectRun \/ Crash \/ \E r \in Req : ProjectReceipt(r)
  BY <1>4 DEF TextDelta, ProjectRun, Crash, ProjectReceipt
<1>5. CASE \E d \in Req : Extension(d)
  BY <1>5 DEF Extension, Takes, RefusesPrompt, Ends
<1>6. CASE UNCHANGED vars
  BY <1>6 DEF vars
<1> QED
  BY <1>1, <1>2, <1>3, <1>4, <1>5, <1>6 DEF Next

(* A run of a preparation bears the identity the memory has reserved for    *)
(* it, so a new one is started only where there was none.                   *)
LEMMA OneRun_Keeps ==
  ASSUME IInv, OneRun, [Next]_vars
  PROVE  OneRun'
<1>1. CASE StartPrepared
  <2>1. PICK p : p = th[Cmd].p
    OBVIOUS
  <2>2. \/ RunOf(p) # {} /\ runs' = runs
        \/ RunOf(p) = {} /\ runs' = runs \cup {[id |-> mem.ctx[p].reserved, p |-> p, of |-> mem.ctx[p].agreed, live |-> TRUE]}
    BY <1>1, <2>1 DEF StartPrepared, RunOf
  <2>3. CASE runs' = runs
    BY <2>3 DEF OneRun
  <2>4. CASE RunOf(p) = {} /\ runs' = runs \cup {[id |-> mem.ctx[p].reserved, p |-> p, of |-> mem.ctx[p].agreed, live |-> TRUE]}
    <3>1. PICK n : n = [id |-> mem.ctx[p].reserved, p |-> p, of |-> mem.ctx[p].agreed, live |-> TRUE]
      OBVIOUS
    <3>2. n.p = p /\ runs' = runs \cup {n}
      BY <2>4, <3>1
    <3>3. ASSUME NEW r \in runs, r.p = p
          PROVE  FALSE
      <4>1. mem.ctx[p].reserved = r.id
        BY <3>3 DEF IInv, MemOK, RunOK
      <4> QED
        BY <2>4, <4>1 DEF RunOf
    <3> QED
      BY <3>2, <3>3 DEF OneRun
  <2> QED
    BY <2>2, <2>3, <2>4
<1>2. CASE RunEnds
  <2>1. PICK run \in runs : runs' = (runs \ {run}) \cup {[run EXCEPT !.live = FALSE]}
    BY <1>2 DEF RunEnds
  <2>2. run \in [id : Req, p : Req, of : 0 .. MaxReq, live : BOOLEAN]
    BY DEF IInv, TypeOK
  <2>3. PICK n : n = [run EXCEPT !.live = FALSE]
    OBVIOUS
  <2>4. n.p = run.p /\ runs' = (runs \ {run}) \cup {n}
    BY <2>1, <2>2, <2>3
  <2> QED
    BY <2>4 DEF OneRun
<1>3. CASE ~ StartPrepared /\ ~ RunEnds
  BY <1>3, RunsStay DEF OneRun
<1> QED
  BY <1>1, <1>2, <1>3

LEMMA IInv_NeverResent == IInv => NeverResent
  BY DEF IInv, World, NeverResent

LEMMA IInv_SentIsRecorded == IInv => SentIsRecorded
<1> SUFFICES ASSUME IInv, NEW d \in Req, d \in typed \/ xs[d].at = "wire", NEW m \in {mem, disk}
             PROVE  m.dl[d].state \notin {"NONE", "RESERVED", "FAILED"}
  BY DEF SentIsRecorded
<1>1. ~ Unhanded(d)
  BY DEF IInv, World, Unhanded
<1>2. DlOK(m, d)
  BY DEF IInv, MemOK
<1> QED
  BY <1>1, <1>2 DEF DlOK

LEMMA IInv_ReleasedIsStored == IInv => ReleasedIsStored
<1> SUFFICES ASSUME IInv, NEW d \in acked
             PROVE  disk.dl[d].resp # "none" /\ (disk.dl[d].proc # "none" \/ CancelRan(PrepOf(d)))
  BY DEF ReleasedIsStored
<1>1. d \in Req
  BY DEF IInv, TypeOK
<1>2. DlOK(disk, d)
  BY <1>1 DEF IInv, MemOK
<1> QED
  BY <1>2 DEF DlOK

LEMMA IInv_AbandonedIsReleased == IInv => AbandonedIsReleased
<1> SUFFICES ASSUME IInv, NEW p \in Req, mem.ctx[p].life = "ABANDONED", x.owner # 0, PrepOf(x.owner) = p
             PROVE  FALSE
  BY DEF AbandonedIsReleased
<1>1. PICK d : d = x.owner
  OBVIOUS
<1>2. d \in Req /\ PrepOf(d) = p
  <2>1. x \in [sess : 0 .. MaxReq, owner : 0 .. MaxReq, disc : 0 .. MaxReq]
    BY DEF IInv, TypeOK
  <2>2. d \in 0 .. MaxReq /\ d # 0
    BY <1>1, <2>1
  <2> QED
    BY <1>1, <2>2, BoundsAssumption DEF Req
<1>3. mem.ctx[p].active = d
  <2>1. DlOK(mem, d) /\ Held(d)
    BY <1>1, <1>2 DEF IInv, MemOK, Held
  <2> QED
    BY <1>2, <2>1 DEF DlOK
<1>4. mem.ctx[p].life # "ABANDONED"
  BY <1>2, <1>3, Numbers DEF IInv, MemOK, CtxOK
<1> QED
  BY <1>4

LEMMA IInv_AgreementIsAnswered == IInv => AgreementIsAnswered
<1> SUFFICES ASSUME IInv, NEW m \in {mem, disk}, NEW p \in Req, m.ctx[p].agree \in {"READY", "APPROVED"}
             PROVE  LET d == m.ctx[p].agreed IN
                    d \in acked /\ PrepOf(d) = p /\ m.dl[d].resp = "ready" /\ m.dl[d].fmt = "CONFIRMED"
  BY DEF AgreementIsAnswered
<1>1. CtxOK(m, p)
  BY DEF IInv, MemOK
<1> QED
  BY <1>1 DEF CtxOK

LEMMA IInv_OneApprovedRun == IInv /\ OneRun => OneApprovedRun
<1> SUFFICES ASSUME IInv, OneRun, NEW r \in runs
             PROVE  disk.ctx[r.p].reserved = r.id /\ disk.ctx[r.p].agree = "APPROVED"
                    /\ disk.ctx[r.p].life # "ABANDONED" /\ r.of = disk.ctx[r.p].agreed
  BY DEF OneRun, OneApprovedRun
<1>1. RunOK(disk, r)
  BY DEF IInv, MemOK
<1> QED
  BY <1>1 DEF RunOK

LEMMA IInv_ReceiptsAreTrue == IInv => ReceiptsAreTrue
<1> SUFFICES ASSUME IInv, NEW r \in Req
             PROVE  /\ dispatched[r] <= 1
                    /\ disk.rcpt[r] = "COMPLETED" /\ asked[r].type \in {"start", "reply"} => disk.dl[r].state # "NONE"
                    /\ disk.rcpt[r] = "COMPLETED" /\ asked[r].type = "approve" => disk.ctx[asked[r].p].run # 0
  BY DEF ReceiptsAreTrue
<1>1. dispatched[r] <= 1
  BY DEF IInv, Requests
<1>2. RcptOK(disk, r)
  BY DEF IInv, MemOK
<1> QED
  BY <1>1, <1>2 DEF RcptOK

LEMMA AlwaysOneRun == Spec => []OneRun
<1>1. Init => OneRun
  BY DEF Init, OneRun
<1>2. IInv /\ OneRun /\ [Next]_vars => OneRun'
  BY OneRun_Keeps
<1> QED
  BY <1>1, <1>2, Always, PTL DEF Spec

(* No command, retry, choice of another tab, reconcile or start of the      *)
(* server after a crash hands a prompt to the extension a second time,      *)
(* unless the extension refused it unread.                                  *)
THEOREM PromptIsHandedOnce == Spec => []NeverResent
  BY Always, IInv_NeverResent, PTL

(* In memory and in the row alike, a prompt that is or may still be typed   *)
(* is recorded as sent; what the extension was told to forget is in the     *)
(* row; and a preparation that was cancelled or discarded leaves nothing    *)
(* waiting in the extension.                                                *)
THEOREM DeliveriesAreRecorded == Spec => []DeliveryIsRecorded
<1>1. IInv => DeliveryIsRecorded
  BY IInv_SentIsRecorded, IInv_ReleasedIsStored, IInv_AbandonedIsReleased DEF DeliveryIsRecorded
<1> QED
  BY <1>1, Always, PTL

(* What can be approved is the proposal of one answer that was confirmed    *)
(* and released, and a preparation yields one run at most: the one that the *)
(* row had reserved and approved, built from that agreement.                *)
THEOREM RunsAreAgreed == Spec => []RunIsAgreed
<1>1. IInv /\ OneRun => RunIsAgreed
  BY IInv_AgreementIsAnswered, IInv_OneApprovedRun DEF RunIsAgreed, IInv
<1> QED
  BY <1>1, Always, AlwaysOneRun, PTL

(* A request is carried out once at most, and a receipt stored as COMPLETED *)
(* has its delivery, or its run, in the same row.                           *)
THEOREM ReceiptsTellTheTruth == Spec => []ReceiptsAreTrue
  BY Always, IInv_ReceiptsAreTrue, PTL

=============================================================================
