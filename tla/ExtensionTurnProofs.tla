------------------------ MODULE ExtensionTurnProofs ------------------------
(***************************************************************************)
(* Proofs about ExtensionTurn, for any number of sessions, prompts, tabs,  *)
(* conversations, moves of the user and stops of the worker.               *)
(*                                                                         *)
(* Everything rests on the turn gate: while an operation holds it, only    *)
(* that operation changes the bound session and its delivery (Bound), so   *)
(* what it checked stays true until it acts.  Staged and Handed follow a   *)
(* prompt through its phases: before it is marked as started no page has   *)
(* its request, afterwards one page at most has it, in one job             *)
(* (JobsAreSingle).  Told relates that to what the controller may conclude *)
(* from an answer, ParkedApart keeps the parked deliveries apart from the  *)
(* bound one, and Recorded says that the conversation the controller asks  *)
(* for is the one a delivery is stored with, which is why a rebind cannot  *)
(* move it.                                                                *)
(*                                                                         *)
(* MovesStep reduces the actions to what they do to the operation, the     *)
(* delivery, the jobs and the controller's records; the invariant is then  *)
(* proved move by move.                                                    *)
(***************************************************************************)
EXTENDS ExtensionTurn, TLAPS

USE DEF vars, stored, pages, controller, bounds

\* The parts of the type invariant
StoredTypes ==
    /\ session \in Sessions \cup {None}
    /\ tab \in Tabs \cup {None} /\ conv \in Urls \cup {None} /\ doc \in Nat
    /\ status \in {"ROOT_READY", "BOUND", "NEEDS_REBIND", "AUTH_REQUIRED", "AMBIGUOUS"}
    /\ current \in Requests \cup {None} /\ completed \in Requests \cup {None}
    /\ scopes \in [Sessions -> SlotTypes]
AckTypes == acked \in (Requests \X Sessions \X Urls) \cup {None}
PageTypes ==
    /\ removal \in [Tabs -> {"unopened", "none", "due", "matched", "handled"}]
    /\ url \in [Tabs -> Urls \cup {None}] /\ page \in [Tabs -> Nat]
    /\ born \in [Tabs -> Convs \cup {None}]
    /\ typed \in [Requests -> Nat] /\ where \in [Requests -> Convs \cup {None}]
    /\ used \subseteq Convs
JobTyped == job \in [Tabs -> JobTypes]
ControllerTypes ==
    /\ known \in [Sessions -> Urls]
    /\ ctl \in [Requests -> {"new", "sent", "notSent", "answered", "acked", "discarded"}]
OpTyped == op \in OpTypes
Types == StoredTypes /\ PageTypes /\ JobTyped /\ ControllerTypes /\ OpTyped

\* The binding fits what the extension stores beside it
Fits ==
    /\ current # None => session = Owner(current)
    /\ session # None => conv \in Urls
StatusFits ==
    /\ status \in {"BOUND", "ROOT_READY"} => tab # None /\ session # None
    /\ status = "BOUND" => conv \in Convs
    /\ status = "ROOT_READY" => conv = Root
ParkedApart ==
    \A s \in Sessions : scopes[s].current # None =>
        Owner(scopes[s].current) = s /\ s # session /\ scopes[s].conv \in Urls

\* What an operation refers to
Aimed ==
    /\ op.kind \in {"prompt", "discard"} => op.req \in Requests
    /\ op.kind = "prepare" =>
         /\ op.phase \in {"read", "bind"} /\ op.at.session \in Sessions /\ op.at.conv \in Urls
         /\ op.phase = "bind" => op.at.tab \in Tabs

\* How far a prompt came
Prompting == op.kind = "prompt"
Early == {"target", "bind", "reserve"}
Staged ==
    Prompting =>
        /\ op.phase \notin Early \cup {"check", "failed"} => op.started
        /\ op.phase \notin Early \cup {"failed"} => op.reserved
        /\ op.phase = "recover" => op.bootstrap
        /\ op.phase \in Early => ~op.reserved /\ ~op.bootstrap
        /\ op.phase \in Early \cup {"check"} => ~op.started
\* The binding stays while a prompt is under way
Bound ==
    Prompting =>
        /\ op.phase \in {"bind", "reserve"} => current = None /\ session = Owner(op.req)
        /\ op.phase = "bind" => op.at.session = session /\ op.at.conv = conv /\ op.at.tab \in Tabs
        /\ op.reserved => current = op.req
        /\ op.reserved /\ op.phase # "send" => completed = None
        /\ op.phase \notin Early \cup {"failed"} =>
              op.at.session = session /\ op.at.conv = conv /\ op.at.tab \in Tabs /\ op.at.conv \in Urls
        /\ op.bootstrap /\ op.phase # "failed" => op.at.conv = Root
Exclusive ==
    Prompting /\ op.phase \in {"check", "deliver"} =>
        \A s \in Sessions : scopes[s].current # None => scopes[s].tab # op.at.tab /\ scopes[s].conv # op.at.conv

\* Jobs and the requests they type
JobsAreSingle ==
    /\ \A t \in Tabs : job[t].req # None /\ ~job[t].sent => typed[job[t].req] = 0
    /\ \A t, u \in Tabs : job[t].req # None /\ job[t].req = job[u].req => t = u
    /\ \A t \in Tabs : IF job[t].req = None THEN job[t] = NoJob ELSE job[t].conv \in Urls
    /\ \A r \in Requests : typed[r] <= 1 /\ (where[r] # None => typed[r] # 0)
NoJobFor(r) == \A t \in Tabs : job[t].req # r
Unseen(r) == typed[r] = 0 /\ NoJobFor(r)
Handed ==
    Prompting =>
        /\ ~op.started \/ op.phase = "deliver" => Unseen(op.req)
        /\ op.phase \in {"recover", "observe"} => NoJobFor(op.req)
        /\ op.phase = "waiting" => job[op.at.tab].req = op.req
        /\ op.phase = "replied" => where[op.req] = op.reply.conv /\ op.reply.conv # None

\* What the controller knows of a request
Has(r) == current = r \/ \E s \in Sessions : scopes[s].current = r
Fresh == \A r \in Requests : ctl[r] \in {"new", "notSent"} => Unseen(r) /\ ~Has(r) /\ op.req # r
Outstanding == \A r \in Requests : Has(r) => ctl[r] \in {"sent", "answered"}
Expected ==
    /\ Prompting => (op.phase # "send" => ctl[op.req] = "sent") /\ (~op.reserved => ~Has(op.req))
    /\ op.kind = "discard" => 
         ctl[op.req] = "sent" /\ session = Owner(op.req) /\ current \in {op.req, None} /\ completed = None
\* All of it
Told == Fresh /\ Outstanding /\ Expected

\* The conversations the controller records are the bound ones
Recorded ==
    /\ \A s \in Sessions : known[s] # Root =>
         /\ session = s => conv = known[s]
         /\ scopes[s].current # None => scopes[s].conv = known[s]
    /\ op.kind = "prepare" =>
         /\ \/ op.at.conv = known[op.at.session]
            \/ op.phase = "read" /\ op.at.conv = Root /\ current # None /\ session = op.at.session
         /\ op.phase = "bind" /\ session = op.at.session /\ current # None => op.at.conv = conv
Answered ==
    /\ current # None /\ completed = current => where[current] = conv
    /\ \A s \in Sessions :
        scopes[s].current # None /\ scopes[s].completed = scopes[s].current =>
            where[scopes[s].current] = scopes[s].conv

\* The inductive invariant
IInv ==
    /\ Types /\ AckTypes /\ Fits /\ StatusFits /\ ParkedApart /\ Aimed
    /\ Staged /\ Bound /\ Exclusive /\ JobsAreSingle /\ Handed /\ Told /\ Recorded /\ Answered

-----------------------------------------------------------------------------
(* The moves: what each action does to the operation, the delivery, the      *)
(* jobs and the controller's records, field by field.                        *)

OpIs(kind, phase, req, at, bootstrap, reserved, started) ==
    /\ OpTyped'
    /\ op'.kind = kind /\ op'.phase = phase /\ op'.req = req /\ op'.at = at
    /\ op'.bootstrap = bootstrap /\ op'.reserved = reserved /\ op'.started = started
Stays(phase) == OpIs(op.kind, phase, op.req, op.at, op.bootstrap, op.reserved, op.started) /\ op'.reply = op.reply
OpEnds == OpTyped' /\ op'.kind = "none" /\ op'.req = None /\ ~op'.reserved /\ ~op'.started
OpFree == op.kind = "none" /\ op.req = None

Kept == UNCHANGED <<session, conv, current, completed, scopes>>
SamePages == UNCHANGED <<job, typed, where>>
SameTold == UNCHANGED <<known, ctl>>

Targets ==
    /\ At("prompt", "target") /\ session = Owner(op.req) /\ current = None /\ tab \in Tabs
    /\ \E d \in Nat : OpIs(op.kind, "bind", op.req, [session |-> session, tab |-> tab, conv |-> conv, doc |-> d],
                           op.bootstrap, op.reserved, op.started)
    /\ Kept /\ SamePages /\ SameTold
Refreshes == At("prompt", "bind") /\ Stays("reserve") /\ Kept /\ SamePages /\ SameTold
Reserves ==
    /\ At("prompt", "reserve") /\ current = None /\ ~TargetTaken
    /\ \E phase \in {"check", "failed"}, b \in BOOLEAN :
         /\ OpIs(op.kind, phase, op.req, Here, b, TRUE, op.started)
         /\ phase = "check" => tab \in Tabs /\ conv \in Urls
         /\ b => conv = Root
    /\ current' = op.req /\ completed' = None
    /\ UNCHANGED <<session, conv, scopes>> /\ SamePages /\ SameTold
Leaves ==
    /\ At("prompt", "check")
    /\ OpIs(op.kind, "deliver", op.req, op.at, op.bootstrap, op.reserved, TRUE)
    /\ Kept /\ SamePages /\ SameTold
Arrives ==
    LET t == op.at.tab IN
    /\ op.kind = "prompt" /\ op.phase \in {"deliver", "observe"} /\ t \in Tabs
    /\ Stays("waiting")
    /\ JobTyped' /\ job'[t].req = op.req /\ job'[t].conv \in Urls /\ (op.phase = "deliver" \/ job'[t].sent)
    /\ \A u \in Tabs \ {t} : job'[u] = job[u]
    /\ Kept /\ UNCHANGED <<typed, where>> /\ SameTold
Breaks(phase) == op.kind = "prompt" /\ Stays(phase) /\ Kept /\ SamePages /\ SameTold
Misses == op.phase \in {"deliver", "observe"} /\ op.bootstrap /\ Breaks("recover")
\* only the page's message takes an operation out of "waiting"
Fades == op.phase \notin {"waiting", "send"} /\ Breaks("failed")
Adopts ==
    /\ op.kind = "prompt" /\ op.phase \in {"recover", "replied"} /\ op.bootstrap
    /\ session = op.at.session /\ current = op.req
    /\ OpTyped'
    /\ op'.kind = "prompt" /\ op'.req = op.req /\ ~op'.bootstrap /\ op'.reply = op.reply
    /\ op'.phase = IF op.phase = "recover" THEN "observe" ELSE "replied"
    /\ op'.reserved = op.reserved /\ op'.started = op.started
    /\ op'.at.session = op.at.session /\ op'.at.tab = op.at.tab /\ op'.at.conv = conv' /\ conv' \in Convs
    /\ UNCHANGED <<session, current, completed, scopes>> /\ SamePages /\ SameTold
Completes ==
    /\ At("prompt", "replied") /\ ~op.bootstrap
    /\ op.reply.conv = op.at.conv /\ Here = op.at /\ current = op.req
    /\ Stays("send") /\ completed' = op.req
    /\ UNCHANGED <<session, conv, current, scopes>> /\ SamePages /\ SameTold
Sends ==
    /\ At("prompt", "send") /\ OpEnds /\ Kept /\ SamePages
    /\ \/ SameTold
       \/ /\ ctl' = [ctl EXCEPT ![op.req] = "answered"]
          /\ known' = [known EXCEPT ![Owner(op.req)] = op.at.conv]
Withdraws ==
    /\ At("prompt", "failed") /\ OpEnds
    /\ current' = IF Withdrawn THEN None ELSE current
    /\ ctl' = ctl \/ (~op.started /\ ctl' = [ctl EXCEPT ![op.req] = "notSent"])
    /\ UNCHANGED <<session, conv, completed, scopes, known>> /\ SamePages

Picks ==
    /\ At("prepare", "read") /\ ~PinnedElsewhere
    /\ OpTyped'
    /\ op'.kind = "prepare" /\ op'.phase = "bind" /\ op'.req = op.req
    /\ op'.at.session = op.at.session /\ op'.at.conv = op.at.conv /\ op'.at.tab \in Tabs
    /\ Kept /\ SamePages /\ SameTold
Ends == OpEnds /\ Kept /\ SamePages /\ SameTold
Binds ==
    /\ At("prepare", "bind") /\ OpEnds /\ MayBind(op.at) /\ BindSession(op.at)
    /\ SamePages /\ SameTold
Discards ==
    /\ At("discard", "commit") /\ OpEnds
    /\ current' = None /\ completed' = None
    /\ ctl' = ctl \/ ctl' = [ctl EXCEPT ![op.req] = "discarded"]
    /\ UNCHANGED <<session, conv, scopes, known>> /\ SamePages

Asks(r) ==
    /\ ctl[r] \in {"new", "notSent"} /\ ctl' = [ctl EXCEPT ![r] = "sent"]
    /\ OpTyped'
    /\ \/ op' = op
       \/ /\ OpFree /\ op'.kind = "prompt" /\ op'.phase = "target" /\ op'.req = r
          /\ ~op'.reserved /\ ~op'.started /\ ~op'.bootstrap
    /\ Kept /\ SamePages /\ UNCHANGED known
Acknowledges(r) ==
    /\ ~Held /\ OpFree /\ op' = op
    /\ ctl[r] = "answered" /\ session = Owner(r) /\ current \in {r, None} /\ current' = None
    /\ ctl' = ctl \/ ctl' = [ctl EXCEPT ![r] = "acked"]
    /\ UNCHANGED <<session, conv, completed, scopes, known>> /\ SamePages
Inspects(r) ==
    /\ ctl[r] = "sent" /\ current = r /\ completed = r
    /\ ctl' = [ctl EXCEPT ![r] = "answered"]
    /\ known' = [known EXCEPT ![Owner(r)] = conv]
    /\ op' = op /\ Kept /\ SamePages
Doubts(r) ==
    /\ OpFree /\ ctl[r] = "sent" /\ session = Owner(r) /\ current \in {r, None} /\ completed = None
    /\ OpTyped' /\ op'.kind = "discard" /\ op'.req = r
    /\ Kept /\ SamePages /\ SameTold
Prepares(s) ==
    /\ OpFree /\ OpTyped' /\ op'.kind = "prepare" /\ op'.req = None
    /\ op'.at.session = s /\ op'.at.conv = known[s]
    /\ \/ op'.phase = "read"
       \/ /\ op'.phase = "bind" /\ op'.at.tab \in Tabs
          /\ known[s] = Root => \A r \in Requests : Owner(r) = s => ctl[r] \notin {"sent", "answered"}
    /\ Kept /\ SamePages /\ SameTold
Selects(s) ==
    /\ OpFree /\ op' = op
    /\ scopes[s].current # None /\ scopes[s].conv # None
    /\ session' = s /\ conv' = scopes[s].conv
    /\ current' = scopes[s].current /\ completed' = scopes[s].completed
    /\ scopes' = [Parked EXCEPT ![s] = NoSlot]
    /\ SamePages /\ SameTold

Marks ==
    /\ JobTyped'
    /\ \A t \in Tabs :
         /\ job'[t].req = job[t].req /\ job'[t].sent = job[t].sent
         /\ job[t] = NoJob => job'[t] = NoJob
         /\ job[t].conv \in Urls => job'[t].conv \in Urls
    /\ op' = op /\ Kept /\ UNCHANGED <<typed, where>> /\ SameTold
Drops(t) ==
    /\ JobTyped' /\ job'[t] = NoJob /\ \A u \in Tabs \ {t} : job'[u] = job[u]
    /\ \/ op' = op /\ (job[t] = NoJob \/ ~Mine(t))
       \/ Mine(t) /\ job[t] # NoJob /\ Stays("failed")
       \/ Mine(t) /\ job[t] # NoJob /\ op.bootstrap /\ Stays("recover")
       \/ /\ Mine(t) /\ job[t] # NoJob
          /\ OpIs(op.kind, "replied", op.req, op.at, op.bootstrap, op.reserved, op.started)
          /\ op'.reply.conv = where[op.req] /\ op'.reply.conv # None
    /\ Kept /\ UNCHANGED <<typed, where>> /\ SameTold
Submits(t) ==
    LET r == job[t].req IN
    /\ r # None /\ ~job[t].sent
    /\ JobTyped' /\ job'[t].req = r /\ job'[t].conv \in Urls /\ job'[t].sent /\ \A u \in Tabs \ {t} : job'[u] = job[u]
    /\ typed'[r] = typed[r] + 1 /\ where'[r] # None
    /\ \A q \in Requests \ {r} : typed'[q] = typed[q] /\ where'[q] = where[q]
    /\ op' = op /\ Kept /\ SameTold
Elsewhere == op' = op /\ Kept /\ SamePages /\ SameTold

Moves ==
    \/ Targets \/ Refreshes \/ Reserves \/ Leaves \/ Arrives \/ Misses \/ Fades \/ Adopts \/ Completes
    \/ Sends \/ Withdraws \/ Picks \/ Ends \/ Binds \/ Discards
    \/ \E r \in Requests : Asks(r) \/ Acknowledges(r) \/ Inspects(r) \/ Doubts(r)
    \/ \E s \in Sessions : Prepares(s) \/ Selects(s)
    \/ Marks \/ \E t \in Tabs : Drops(t) \/ Submits(t)
    \/ Elsewhere

-----------------------------------------------------------------------------
(* What the moves rest on.                                                  *)

\* What the assumption says of the constants
LEMMA Constants ==
    /\ None \notin Sessions /\ None \notin Tabs /\ None \notin Convs /\ None \notin Urls /\ None \notin Requests
    /\ Root \in Urls /\ Root \notin Convs /\ Convs \subseteq Urls /\ Urls = Convs \cup {Root} /\ Root # None
    /\ \A r \in Requests : Owner(r) \in Sessions
  BY ExtensionAssumption DEF Requests, Urls, Owner

\* A change of the phase alone, and a failure
LEMMA PhaseChanges ==
  ASSUME OpTyped, NEW phase \in Phases, op' = [op EXCEPT !.phase = phase] PROVE Stays(phase)
  BY DEF OpTyped, OpTypes, Stays, OpIs
LEMMA Failing ==
  ASSUME OpTyped, NEW code \in Codes, Fails(code) PROVE Stays("failed")
  BY DEF OpTyped, OpTypes, Stays, OpIs, Fails, Phases
LEMMA IdleEnds == ASSUME op' = Idle PROVE OpEnds
  BY DEF OpEnds, Idle, Nowhere, NoReply, OpTyped, OpTypes, Places, Phases, Codes
LEMMA IdleIsFree == ASSUME ~Held PROVE OpFree /\ op = Idle /\ Idle \in OpTypes
  BY DEF Held, OpFree, Idle, Nowhere, NoReply, OpTypes, Places, Phases, Codes

\* A job that ends
LEMMA JobEnds ==
  ASSUME JobTyped, NEW t \in Tabs, job' = [job EXCEPT ![t] = NoJob]
  PROVE  JobTyped' /\ job'[t] = NoJob /\ \A u \in Tabs \ {t} : job'[u] = job[u]
  BY DEF JobTyped, JobTypes, NoJob, Urls
LEMMA LosingDrops ==
  ASSUME OpTyped, JobTyped, NEW t \in Tabs, LosesPage(t), Kept, UNCHANGED <<typed, where>>, SameTold
  PROVE  Drops(t)
  <1>1. JobTyped' /\ job'[t] = NoJob /\ \A u \in Tabs \ {t} : job'[u] = job[u]
    BY JobEnds DEF LosesPage
  <1>2. \/ op' = op /\ (job[t] = NoJob \/ ~Mine(t))
        \/ Mine(t) /\ job[t] # NoJob /\ op.bootstrap /\ op' = [op EXCEPT !.phase = "recover"]
        \/ Mine(t) /\ job[t] # NoJob /\ Fails("CHANNEL")
    BY Zenon DEF LosesPage
  <1>3. op' = [op EXCEPT !.phase = "recover"] => Stays("recover")
    BY PhaseChanges DEF Phases
  <1>4. Fails("CHANNEL") => Stays("failed")
    BY Failing DEF Codes
  <1> QED
    BY <1>1, <1>2, <1>3, <1>4 DEF Drops

\* Where and how often a prompt is typed
LEMMA TypedWhere ==
  ASSUME Types, JobsAreSingle, NEW t \in Tabs, TypePrompt(t)
  PROVE  /\ typed' = [typed EXCEPT ![job[t].req] = typed[job[t].req] + 1]
         /\ \E c \in Convs : where' = [where EXCEPT ![job[t].req] = c]
  <1>1. job[t].req \in Requests /\ job[t].conv \in Urls
    BY Constants DEF TypePrompt, Types, JobTyped, JobTypes, JobsAreSingle
  <1> QED
    BY <1>1, Constants DEF TypePrompt

\* Slots keep their types
LEMMA SlotsTyped == ASSUME StoredTypes PROVE NoSlot \in SlotTypes /\ Parked \in [Sessions -> SlotTypes]
  BY DEF StoredTypes, SlotTypes, NoSlot, Parked

\* The stored state keeps its types
LEMMA StoredTypesStep ==
  ASSUME Types, Aimed, Fits, Staged, Bound, [Next]_vars PROVE StoredTypes'
  <1> USE Constants DEF Types, StoredTypes, OpTyped, OpTypes, Places, PageTypes
  <1>1. CASE PromptBind
    <2>1. session = op.at.session /\ session \in Sessions /\ op.at \in Places
      BY <1>1, Constants DEF PromptBind, At, Bound, Prompting, Fits, Aimed
    <2> QED
      BY <2>1, <1>1 DEF PromptBind, BindSession, Supported, Places
  <1>2. CASE PromptReserve
    BY <1>2 DEF PromptReserve, At, TargetTaken, Fails, Here
  <1>3. CASE PromptCheck
    BY <1>3 DEF PromptCheck, At, Fails, Dispatches, NotExactlyBound, TurnHoldsBinding, Here, ForgetTab, OnlyStatus,
        SetStatus, Supported, ExactlyBound
  <1>4. CASE PromptRecover
    <2>1. \/ UNCHANGED <<session, tab, conv, doc, status, current, completed, scopes>>
          \/ /\ TurnHoldsSession /\ url[op.at.tab] \in Convs /\ conv' = url[op.at.tab] /\ status' = "BOUND"
             /\ UNCHANGED <<session, tab, current, completed, scopes>> /\ (doc' = doc \/ doc' = page[op.at.tab])
      BY <1>4, Zenon DEF PromptRecover
    <2>2. op.at.tab \in Tabs /\ op.req \in Requests
      BY <1>4 DEF PromptRecover, At, Aimed, Bound, Prompting, Early
    <2> QED
      BY <2>1, <2>2, Constants DEF TurnHoldsSession, Fits, PageTypes
  <1>5. CASE PromptPromote
    <2>1. \/ UNCHANGED <<session, tab, conv, doc, status, current, completed, scopes>>
          \/ /\ TurnHoldsSession /\ url[op.at.tab] \in Convs /\ conv' = url[op.at.tab] /\ status' = "BOUND"
             /\ UNCHANGED <<session, tab, current, completed, scopes>> /\ (doc' = doc \/ doc' = page[op.at.tab])
      BY <1>5, Zenon DEF PromptPromote
    <2>2. op.at.tab \in Tabs /\ op.req \in Requests
      BY <1>5 DEF PromptPromote, At, Aimed, Bound, Prompting, Early
    <2> QED
      BY <2>1, <2>2, Constants DEF TurnHoldsSession, Fits, PageTypes
  <1>6. CASE PromptVerify
    BY <1>6 DEF PromptVerify, At, Relayed, Fails, NotExactlyBound, TurnHoldsBinding, Here, ForgetTab, OnlyStatus,
        SetStatus, Supported, ExactlyBound
  <1>7. CASE PromptFails
    BY <1>7 DEF PromptFails, At, Idle, Nowhere, NoReply, Withdrawn, ClearDelivery, SetStatus, Supported, Penalty
  <1>8. CASE PrepareRead
    <2>1. \/ UNCHANGED <<session, tab, conv, doc, status, current, completed, scopes>>
          \/ \E st \in {"AUTH_REQUIRED", "AMBIGUOUS", "NEEDS_REBIND", status} : OnlyStatus(st)
      BY <1>8 DEF PrepareRead
    <2> QED
      BY <2>1 DEF OnlyStatus, SetStatus, Supported
  <1>9. CASE PrepareBind
    <2>1. UNCHANGED stored \/ (BindSession(op.at) /\ op.at.session \in Sessions /\ op.at \in Places)
      BY <1>9 DEF PrepareBind, At, Aimed
    <2>2. CASE BindSession(op.at) /\ op.at.session \in Sessions /\ op.at \in Places
      <3>1. session' \in Sessions /\ tab' \in Tabs \cup {None} /\ conv' \in Urls \cup {None} /\ doc' \in Nat
        BY <2>2 DEF BindSession, Places
      <3>2. status' \in {"ROOT_READY", "BOUND", "NEEDS_REBIND", "AUTH_REQUIRED", "AMBIGUOUS"}
        BY <2>2 DEF BindSession, Supported
      <3>3. CASE session = op.at.session
        BY <2>2, <3>1, <3>2, <3>3 DEF BindSession
      <3>4. CASE session # op.at.session
        <4>1. scopes' = [Parked EXCEPT ![op.at.session] = NoSlot] /\ scopes[op.at.session] \in SlotTypes
              /\ current' = scopes[op.at.session].current /\ completed' = scopes[op.at.session].completed
          BY <2>2, <3>4 DEF BindSession
        <4>2. scopes' \in [Sessions -> SlotTypes]
          BY <2>2, <4>1, SlotsTyped
        <4> QED
          BY <3>1, <3>2, <4>1, <4>2 DEF SlotTypes
      <3> QED
        BY <3>3, <3>4
    <2> QED
      BY <2>1, <2>2
  <1>10. CASE DiscardCommit
    BY <1>10 DEF DiscardCommit, At, Idle, Nowhere, NoReply, Here
  <1>11. CASE \E r \in Requests : AcknowledgeDelivery(r)
    BY <1>11 DEF AcknowledgeDelivery, Held, Idle, Nowhere, NoReply, ClearDelivery
  <1>12. CASE \E s \in Sessions : SelectScope(s)
    <2> SUFFICES ASSUME NEW s \in Sessions, SelectScope(s) PROVE StoredTypes'
      BY <1>12
    <2>1. /\ scopes' = [Parked EXCEPT ![s] = NoSlot] /\ scopes[s] \in SlotTypes
          /\ session' = s /\ tab' = scopes[s].tab /\ conv' = scopes[s].conv /\ doc' = scopes[s].doc
          /\ current' = scopes[s].current /\ completed' = scopes[s].completed /\ status' = "AMBIGUOUS"
      BY DEF SelectScope
    <2>2. scopes' \in [Sessions -> SlotTypes]
      BY <2>1, SlotsTyped
    <2> QED
      BY <2>1, <2>2 DEF SlotTypes
  <1>13. CASE InspectTopology
    BY <1>13 DEF InspectTopology, OnlyStatus, SetStatus, Supported, Aborted
  <1>14. CASE \E t \in Tabs : RemovalWrite(t)
    BY <1>14 DEF RemovalWrite, ForgetTab
  <1>15. CASE \E t \in Tabs : FailPrompt(t)
    BY <1>15 DEF FailPrompt, NoJob, ReportsFailure, Mine, At, Fails, OnlyStatus, SetStatus, Supported
  <1>16. UNCHANGED <<session, tab, conv, doc, status, current, completed, scopes>> => StoredTypes'
    OBVIOUS
  <1>17. CASE PromptTarget
    BY <1>16, <1>17 DEF PromptTarget
  <1>18. CASE PromptDeliver
    BY <1>16, <1>18 DEF PromptDeliver, Hands
  <1>19. CASE PromptObserve
    BY <1>16, <1>19 DEF PromptObserve, Hands
  <1>20. CASE PromptSend
    BY <1>16, <1>20 DEF PromptSend
  <1>21. CASE \E r \in Requests : StartPrompt(r)
    BY <1>16, <1>21 DEF StartPrompt
  <1>22. CASE \E r \in Requests : InspectDelivery(r)
    BY <1>16, <1>22 DEF InspectDelivery
  <1>23. CASE \E r \in Requests : DiscardRead(r)
    BY <1>16, <1>23 DEF DiscardRead
  <1>24. CASE \E r \in Requests : CancelPrompt(r)
    BY <1>16, <1>24 DEF CancelPrompt
  <1>25. CASE \E s \in Sessions : PrepareStart(s)
    BY <1>16, <1>25 DEF PrepareStart
  <1>26. CASE \E s \in Sessions : \E t \in Tabs : RebindStart(s, t)
    BY <1>16, <1>26 DEF RebindStart
  <1>27. CASE WorkerStops
    BY <1>16, <1>27 DEF WorkerStops
  <1>28. CASE \E t \in Tabs : RemovalRead(t)
    BY <1>16, <1>28 DEF RemovalRead
  <1>29. CASE \E t \in Tabs : Reload(t)
    BY <1>16, <1>29 DEF Reload
  <1>30. CASE \E t \in Tabs : CloseTab(t)
    BY <1>16, <1>30 DEF CloseTab
  <1>31. CASE \E t \in Tabs : \E u \in Urls : Navigate(t, u)
    BY <1>16, <1>31 DEF Navigate
  <1>32. CASE \E t \in Tabs : TypePrompt(t)
    BY <1>16, <1>32 DEF TypePrompt
  <1>33. CASE \E t \in Tabs : SettleJob(t)
    BY <1>16, <1>33 DEF SettleJob
  <1>34. CASE \E t \in Tabs : AnswerPrompt(t)
    BY <1>16, <1>34 DEF AnswerPrompt
  <1>35. CASE \E t \in Tabs : ShowNewConversation(t)
    BY <1>16, <1>35 DEF ShowNewConversation
  <1>36. CASE UNCHANGED vars
    BY <1>16, <1>36
  <1> QED BY <1>1, <1>2, <1>3, <1>4, <1>5, <1>6, <1>7, <1>8, <1>9, <1>10, <1>11, <1>12, <1>13, <1>14, <1>15,
        <1>17, <1>18, <1>19, <1>20, <1>21, <1>22, <1>23, <1>24, <1>25, <1>26, <1>27, <1>28, <1>29, <1>30,
        <1>31, <1>32, <1>33, <1>34, <1>35, <1>36
    DEF Next, WorkerStep, PromptStep, ControllerStep, BrowserStep, PageStep

\* Pages and histories keep their types
LEMMA PageTypesStep ==
  ASSUME Types, Aimed, Fits, JobsAreSingle, [Next]_vars PROVE PageTypes'
  <1> USE Constants DEF Types, PageTypes
  <1>1. CASE PrepareRead
    <2>1. CASE UNCHANGED <<removal, url, page>>
      BY <2>1, <1>1 DEF PrepareRead
    <2>2. CASE \E t \in Tabs : /\ removal' = [removal EXCEPT ![t] = "none"]
                              /\ url' = [url EXCEPT ![t] = op.at.conv] /\ page' = [page EXCEPT ![t] = 1]
      <3>1. op.at.conv \in Urls
        BY <1>1 DEF PrepareRead, At, Aimed
      <3> QED
        BY <2>2, <3>1, <1>1 DEF PrepareRead
    <2> QED
      BY <2>1, <2>2, <1>1, Zenon DEF PrepareRead
  <1>2. CASE WorkerStops
    BY <1>2 DEF WorkerStops, Held, Idle, Nowhere, NoReply
  <1>3. CASE \E t \in Tabs : RemovalRead(t)
    BY <1>3 DEF RemovalRead
  <1>4. CASE \E t \in Tabs : RemovalWrite(t)
    BY <1>4 DEF RemovalWrite, ForgetTab
  <1>5. CASE \E t \in Tabs : Reload(t)
    BY <1>5 DEF Reload, Move, LosesPage, NoJob, Mine, At, Fails
  <1>6. CASE \E t \in Tabs : CloseTab(t)
    BY <1>6 DEF CloseTab, Move, LosesPage, NoJob, Mine, At, Fails
  <1>7. CASE \E t \in Tabs : \E u \in Urls : Navigate(t, u)
    BY <1>7 DEF Navigate, Move, LosesPage, NoJob, Mine, At, Fails
  <1>8. CASE \E t \in Tabs : TypePrompt(t)
    <2> SUFFICES ASSUME NEW t \in Tabs, TypePrompt(t) PROVE PageTypes'
      BY <1>8
    <2>1. UNCHANGED <<url, page, removal>>
      BY DEF TypePrompt
    <2>2. used' \subseteq Convs /\ born' \in [Tabs -> Convs \cup {None}]
      <3>1. UNCHANGED <<born, used>> \/ \E c \in Convs \ used : born' = [born EXCEPT ![t] = c] /\ used' = used \cup {c}
        BY Zenon DEF TypePrompt
      <3> QED
        BY <3>1
    <2>3. typed' \in [Requests -> Nat]
      BY TypedWhere
    <2>4. where' \in [Requests -> Convs \cup {None}]
      BY TypedWhere
    <2> QED
      BY <2>1, <2>2, <2>3, <2>4
  <1>9. CASE \E t \in Tabs : ShowNewConversation(t)
    BY <1>9 DEF ShowNewConversation, LosesPage, NoJob, Mine, At, Fails
  <1>10. UNCHANGED <<url, page, born, typed, where, used, removal>> => PageTypes'
    OBVIOUS
  <1>11. CASE PromptTarget
    BY <1>10, <1>11 DEF PromptTarget
  <1>12. CASE PromptBind
    BY <1>10, <1>12 DEF PromptBind
  <1>13. CASE PromptReserve
    BY <1>10, <1>13 DEF PromptReserve
  <1>14. CASE PromptCheck
    BY <1>10, <1>14 DEF PromptCheck, NotExactlyBound
  <1>15. CASE PromptDeliver
    BY <1>10, <1>15 DEF PromptDeliver, Hands
  <1>16. CASE PromptRecover
    BY <1>10, <1>16 DEF PromptRecover
  <1>17. CASE PromptObserve
    BY <1>10, <1>17 DEF PromptObserve, Hands
  <1>18. CASE PromptPromote
    BY <1>10, <1>18 DEF PromptPromote
  <1>19. CASE PromptVerify
    BY <1>10, <1>19 DEF PromptVerify, NotExactlyBound
  <1>20. CASE PromptSend
    BY <1>10, <1>20 DEF PromptSend
  <1>21. CASE PromptFails
    BY <1>10, <1>21 DEF PromptFails
  <1>22. CASE PrepareBind
    BY <1>10, <1>22 DEF PrepareBind
  <1>23. CASE DiscardCommit
    BY <1>10, <1>23 DEF DiscardCommit
  <1>24. CASE \E r \in Requests : StartPrompt(r)
    BY <1>10, <1>24 DEF StartPrompt
  <1>25. CASE \E r \in Requests : AcknowledgeDelivery(r)
    BY <1>10, <1>25 DEF AcknowledgeDelivery
  <1>26. CASE \E r \in Requests : InspectDelivery(r)
    BY <1>10, <1>26 DEF InspectDelivery
  <1>27. CASE \E r \in Requests : DiscardRead(r)
    BY <1>10, <1>27 DEF DiscardRead
  <1>28. CASE \E r \in Requests : CancelPrompt(r)
    BY <1>10, <1>28 DEF CancelPrompt
  <1>29. CASE \E s \in Sessions : PrepareStart(s)
    BY <1>10, <1>29 DEF PrepareStart
  <1>30. CASE \E s \in Sessions : SelectScope(s)
    BY <1>10, <1>30 DEF SelectScope
  <1>31. CASE \E s \in Sessions : \E t \in Tabs : RebindStart(s, t)
    BY <1>10, <1>31 DEF RebindStart
  <1>32. CASE InspectTopology
    BY <1>10, <1>32 DEF InspectTopology
  <1>33. CASE \E t \in Tabs : SettleJob(t)
    BY <1>10, <1>33 DEF SettleJob
  <1>34. CASE \E t \in Tabs : AnswerPrompt(t)
    BY <1>10, <1>34 DEF AnswerPrompt
  <1>35. CASE \E t \in Tabs : FailPrompt(t)
    BY <1>10, <1>35 DEF FailPrompt
  <1>36. CASE UNCHANGED vars
    BY <1>10, <1>36
  <1> QED BY <1>1, <1>2, <1>3, <1>4, <1>5, <1>6, <1>7, <1>8, <1>9, <1>11, <1>12, <1>13, <1>14, <1>15, <1>16,
        <1>17, <1>18, <1>19, <1>20, <1>21, <1>22, <1>23, <1>24, <1>25, <1>26, <1>27, <1>28, <1>29, <1>30,
        <1>31, <1>32, <1>33, <1>34, <1>35, <1>36
    DEF Next, WorkerStep, PromptStep, ControllerStep, BrowserStep, PageStep

\* The controller's records keep their types
LEMMA ControllerTypesStep ==
  ASSUME Types, Aimed, Fits, Staged, Bound, [Next]_vars PROVE ControllerTypes'
  <1> USE Constants DEF Types, ControllerTypes
  <1>1. CASE PromptSend
    <2>1. op.req \in Requests /\ op.at.conv \in Urls /\ Owner(op.req) \in Sessions
      BY <1>1, Constants DEF PromptSend, At, Aimed, Bound, Prompting, Early
    <2>2. \/ UNCHANGED <<ctl, known>>
          \/ ctl' = [ctl EXCEPT ![op.req] = "answered"] /\ known' = [known EXCEPT ![Owner(op.req)] = op.at.conv]
      BY <1>1, Zenon DEF PromptSend
    <2> QED
      BY <2>1, <2>2
  <1>2. CASE PromptFails
    BY <1>2 DEF PromptFails, At, Idle, Nowhere, NoReply, Withdrawn, ClearDelivery, SetStatus, Supported, Penalty
  <1>3. CASE DiscardCommit
    BY <1>3 DEF DiscardCommit, At, Idle, Nowhere, NoReply, Here
  <1>4. CASE \E r \in Requests : StartPrompt(r)
    BY <1>4 DEF StartPrompt, Held, Idle, Nowhere, NoReply
  <1>5. CASE \E r \in Requests : AcknowledgeDelivery(r)
    BY <1>5 DEF AcknowledgeDelivery, Held, Idle, Nowhere, NoReply, ClearDelivery
  <1>6. CASE \E r \in Requests : InspectDelivery(r)
    <2> SUFFICES ASSUME NEW r \in Requests, InspectDelivery(r) PROVE ControllerTypes'
      BY <1>6
    <2>1. ctl' = [ctl EXCEPT ![r] = "answered"] /\ known' = [known EXCEPT ![Owner(r)] = conv]
      BY DEF InspectDelivery
    <2>2. conv \in Urls
      BY Constants DEF InspectDelivery, Fits
    <2> QED
      BY <2>1, <2>2
  <1>7. UNCHANGED <<ctl, known>> => ControllerTypes'
    OBVIOUS
  <1>8. CASE PromptTarget
    BY <1>7, <1>8 DEF PromptTarget
  <1>9. CASE PromptBind
    BY <1>7, <1>9 DEF PromptBind
  <1>10. CASE PromptReserve
    BY <1>7, <1>10 DEF PromptReserve
  <1>11. CASE PromptCheck
    BY <1>7, <1>11 DEF PromptCheck, NotExactlyBound
  <1>12. CASE PromptDeliver
    BY <1>7, <1>12 DEF PromptDeliver
  <1>13. CASE PromptRecover
    BY <1>7, <1>13 DEF PromptRecover
  <1>14. CASE PromptObserve
    BY <1>7, <1>14 DEF PromptObserve
  <1>15. CASE PromptPromote
    BY <1>7, <1>15 DEF PromptPromote
  <1>16. CASE PromptVerify
    BY <1>7, <1>16 DEF PromptVerify, NotExactlyBound
  <1>17. CASE PrepareRead
    BY <1>7, <1>17 DEF PrepareRead
  <1>18. CASE PrepareBind
    BY <1>7, <1>18 DEF PrepareBind
  <1>19. CASE \E r \in Requests : DiscardRead(r)
    BY <1>7, <1>19 DEF DiscardRead
  <1>20. CASE \E r \in Requests : CancelPrompt(r)
    BY <1>7, <1>20 DEF CancelPrompt
  <1>21. CASE \E s \in Sessions : PrepareStart(s)
    BY <1>7, <1>21 DEF PrepareStart
  <1>22. CASE \E s \in Sessions : SelectScope(s)
    BY <1>7, <1>22 DEF SelectScope
  <1>23. CASE \E s \in Sessions : \E t \in Tabs : RebindStart(s, t)
    BY <1>7, <1>23 DEF RebindStart
  <1>24. CASE InspectTopology
    BY <1>7, <1>24 DEF InspectTopology
  <1>25. CASE WorkerStops
    BY <1>7, <1>25 DEF WorkerStops
  <1>26. CASE \E t \in Tabs : RemovalRead(t)
    BY <1>7, <1>26 DEF RemovalRead
  <1>27. CASE \E t \in Tabs : RemovalWrite(t)
    BY <1>7, <1>27 DEF RemovalWrite
  <1>28. CASE \E t \in Tabs : Reload(t)
    BY <1>7, <1>28 DEF Reload
  <1>29. CASE \E t \in Tabs : CloseTab(t)
    BY <1>7, <1>29 DEF CloseTab
  <1>30. CASE \E t \in Tabs : \E u \in Urls : Navigate(t, u)
    BY <1>7, <1>30 DEF Navigate
  <1>31. CASE \E t \in Tabs : TypePrompt(t)
    BY <1>7, <1>31 DEF TypePrompt
  <1>32. CASE \E t \in Tabs : SettleJob(t)
    BY <1>7, <1>32 DEF SettleJob
  <1>33. CASE \E t \in Tabs : AnswerPrompt(t)
    BY <1>7, <1>33 DEF AnswerPrompt
  <1>34. CASE \E t \in Tabs : FailPrompt(t)
    BY <1>7, <1>34 DEF FailPrompt
  <1>35. CASE \E t \in Tabs : ShowNewConversation(t)
    BY <1>7, <1>35 DEF ShowNewConversation
  <1>36. CASE UNCHANGED vars
    BY <1>7, <1>36
  <1> QED BY <1>1, <1>2, <1>3, <1>4, <1>5, <1>6, <1>8, <1>9, <1>10, <1>11, <1>12, <1>13, <1>14, <1>15,
        <1>16, <1>17, <1>18, <1>19, <1>20, <1>21, <1>22, <1>23, <1>24, <1>25, <1>26, <1>27, <1>28, <1>29,
        <1>30, <1>31, <1>32, <1>33, <1>34, <1>35, <1>36
    DEF Next, WorkerStep, PromptStep, ControllerStep, BrowserStep, PageStep

\* An acknowledgement names a request, its session and its conversation
LEMMA AckTypesStep ==
  ASSUME Types, AckTypes, Aimed, Fits, Bound, [Next]_vars PROVE AckTypes'
  <1> USE Constants DEF Types, AckTypes, StoredTypes
  <1>1. CASE PromptFails
    <2>1. acked' = acked \/ (Withdrawn /\ acked' = <<op.req, session, conv>>)
      BY <1>1 DEF PromptFails, ClearDelivery
    <2>2. Withdrawn => op.req \in Requests /\ session \in Sessions /\ conv \in Urls
      BY <1>1, Constants DEF PromptFails, At, Withdrawn, Bound, Prompting, Fits, Aimed
    <2> QED
      BY <2>1, <2>2
  <1>2. CASE \E r \in Requests : AcknowledgeDelivery(r)
    <2> SUFFICES ASSUME NEW r \in Requests, AcknowledgeDelivery(r) PROVE AckTypes'
      BY <1>2
    <2>1. acked' = acked \/ acked' = <<r, session, conv>>
      BY DEF AcknowledgeDelivery, ClearDelivery
    <2>2. session \in Sessions /\ conv \in Urls
      BY Constants DEF AcknowledgeDelivery, Fits
    <2> QED
      BY <2>1, <2>2
  <1>3. UNCHANGED <<acked>> => AckTypes'
    OBVIOUS
  <1>4. CASE PromptTarget
    BY <1>3, <1>4 DEF PromptTarget
  <1>5. CASE PromptBind
    BY <1>3, <1>5 DEF PromptBind, BindSession
  <1>6. CASE PromptReserve
    BY <1>3, <1>6 DEF PromptReserve
  <1>7. CASE PromptCheck
    BY <1>3, <1>7 DEF PromptCheck, NotExactlyBound, ForgetTab, OnlyStatus
  <1>8. CASE PromptDeliver
    BY <1>3, <1>8 DEF PromptDeliver
  <1>9. CASE PromptRecover
    BY <1>3, <1>9 DEF PromptRecover
  <1>10. CASE PromptObserve
    BY <1>3, <1>10 DEF PromptObserve
  <1>11. CASE PromptPromote
    BY <1>3, <1>11 DEF PromptPromote
  <1>12. CASE PromptVerify
    BY <1>3, <1>12 DEF PromptVerify, NotExactlyBound, ForgetTab, OnlyStatus
  <1>13. CASE PromptSend
    BY <1>3, <1>13 DEF PromptSend
  <1>14. CASE PrepareRead
    BY <1>3, <1>14 DEF PrepareRead, OnlyStatus
  <1>15. CASE PrepareBind
    BY <1>3, <1>15 DEF PrepareBind, BindSession
  <1>16. CASE DiscardCommit
    BY <1>3, <1>16 DEF DiscardCommit
  <1>17. CASE \E r \in Requests : StartPrompt(r)
    BY <1>3, <1>17 DEF StartPrompt
  <1>18. CASE \E r \in Requests : InspectDelivery(r)
    BY <1>3, <1>18 DEF InspectDelivery
  <1>19. CASE \E r \in Requests : DiscardRead(r)
    BY <1>3, <1>19 DEF DiscardRead
  <1>20. CASE \E r \in Requests : CancelPrompt(r)
    BY <1>3, <1>20 DEF CancelPrompt
  <1>21. CASE \E s \in Sessions : PrepareStart(s)
    BY <1>3, <1>21 DEF PrepareStart
  <1>22. CASE \E s \in Sessions : SelectScope(s)
    BY <1>3, <1>22 DEF SelectScope
  <1>23. CASE \E s \in Sessions : \E t \in Tabs : RebindStart(s, t)
    BY <1>3, <1>23 DEF RebindStart
  <1>24. CASE InspectTopology
    BY <1>3, <1>24 DEF InspectTopology, OnlyStatus
  <1>25. CASE WorkerStops
    BY <1>3, <1>25 DEF WorkerStops
  <1>26. CASE \E t \in Tabs : RemovalRead(t)
    BY <1>3, <1>26 DEF RemovalRead
  <1>27. CASE \E t \in Tabs : RemovalWrite(t)
    BY <1>3, <1>27 DEF RemovalWrite, ForgetTab
  <1>28. CASE \E t \in Tabs : Reload(t)
    BY <1>3, <1>28 DEF Reload
  <1>29. CASE \E t \in Tabs : CloseTab(t)
    BY <1>3, <1>29 DEF CloseTab
  <1>30. CASE \E t \in Tabs : \E u \in Urls : Navigate(t, u)
    BY <1>3, <1>30 DEF Navigate
  <1>31. CASE \E t \in Tabs : TypePrompt(t)
    BY <1>3, <1>31 DEF TypePrompt
  <1>32. CASE \E t \in Tabs : SettleJob(t)
    BY <1>3, <1>32 DEF SettleJob
  <1>33. CASE \E t \in Tabs : AnswerPrompt(t)
    BY <1>3, <1>33 DEF AnswerPrompt
  <1>34. CASE \E t \in Tabs : FailPrompt(t)
    BY <1>3, <1>34 DEF FailPrompt, OnlyStatus
  <1>35. CASE \E t \in Tabs : ShowNewConversation(t)
    BY <1>3, <1>35 DEF ShowNewConversation
  <1>36. CASE UNCHANGED vars
    BY <1>3, <1>36
  <1> QED BY <1>1, <1>2, <1>4, <1>5, <1>6, <1>7, <1>8, <1>9, <1>10, <1>11, <1>12, <1>13, <1>14, <1>15,
        <1>16, <1>17, <1>18, <1>19, <1>20, <1>21, <1>22, <1>23, <1>24, <1>25, <1>26, <1>27, <1>28, <1>29,
        <1>30, <1>31, <1>32, <1>33, <1>34, <1>35, <1>36
    DEF Next, WorkerStep, PromptStep, ControllerStep, BrowserStep, PageStep

\* A binding that is ready has its tab and its conversation
LEMMA StatusFitsStep ==
  ASSUME Types, Aimed, Fits, StatusFits, Bound, [Next]_vars PROVE StatusFits'
  <1> USE Constants DEF Types, StoredTypes, StatusFits, Aimed
  <1>1. CASE PromptBind
    BY <1>1 DEF PromptBind, At, BindSession, Supported, Parked, NoSlot, Bound, Prompting, Fits
  <1>2. CASE PromptCheck
    BY <1>2 DEF PromptCheck, At, Fails, Dispatches, NotExactlyBound, TurnHoldsBinding, Here, ForgetTab, OnlyStatus,
        SetStatus, Supported, ExactlyBound
  <1>3. CASE PromptRecover
    <2>1. \/ UNCHANGED <<session, tab, conv, doc, status, current, completed, scopes>>
          \/ /\ TurnHoldsSession /\ url[op.at.tab] \in Convs /\ conv' = url[op.at.tab] /\ status' = "BOUND"
             /\ UNCHANGED <<session, tab, current, completed, scopes>> /\ (doc' = doc \/ doc' = page[op.at.tab])
      BY <1>3, Zenon DEF PromptRecover
    <2>2. op.at.tab \in Tabs /\ op.req \in Requests
      BY <1>3 DEF PromptRecover, At, Aimed, Bound, Prompting, Early
    <2> QED
      BY <2>1, <2>2, Constants DEF TurnHoldsSession, Fits, PageTypes
  <1>4. CASE PromptPromote
    <2>1. \/ UNCHANGED <<session, tab, conv, doc, status, current, completed, scopes>>
          \/ /\ TurnHoldsSession /\ url[op.at.tab] \in Convs /\ conv' = url[op.at.tab] /\ status' = "BOUND"
             /\ UNCHANGED <<session, tab, current, completed, scopes>> /\ (doc' = doc \/ doc' = page[op.at.tab])
      BY <1>4, Zenon DEF PromptPromote
    <2>2. op.at.tab \in Tabs /\ op.req \in Requests
      BY <1>4 DEF PromptPromote, At, Aimed, Bound, Prompting, Early
    <2> QED
      BY <2>1, <2>2, Constants DEF TurnHoldsSession, Fits, PageTypes
  <1>5. CASE PromptVerify
    BY <1>5 DEF PromptVerify, At, Relayed, Fails, NotExactlyBound, TurnHoldsBinding, Here, ForgetTab, OnlyStatus,
        SetStatus, Supported, ExactlyBound
  <1>6. CASE PromptFails
    BY <1>6 DEF PromptFails, At, Idle, Nowhere, NoReply, Withdrawn, ClearDelivery, SetStatus, Supported, Penalty
  <1>7. CASE PrepareRead
    BY <1>7 DEF PrepareRead, At, PinnedElsewhere, Idle, Nowhere, NoReply, Candidates, Shows, NoJob, Chooses,
        OnlyStatus, SetStatus, Supported
  <1>8. CASE PrepareBind
    BY <1>8 DEF PrepareBind, At, Idle, Nowhere, NoReply, MayBind, BindSession, Supported, Parked, NoSlot
  <1>9. CASE DiscardCommit
    BY <1>9 DEF DiscardCommit, At, Idle, Nowhere, NoReply, Here
  <1>10. CASE \E s \in Sessions : SelectScope(s)
    BY <1>10 DEF SelectScope, Held, Idle, Nowhere, NoReply, Parked, NoSlot
  <1>11. CASE InspectTopology
    BY <1>11 DEF InspectTopology, OnlyStatus, SetStatus, Supported, Aborted
  <1>12. CASE \E t \in Tabs : RemovalWrite(t)
    BY <1>12 DEF RemovalWrite, ForgetTab
  <1>13. CASE \E t \in Tabs : FailPrompt(t)
    BY <1>13 DEF FailPrompt, NoJob, ReportsFailure, Mine, At, Fails, OnlyStatus, SetStatus, Supported
  <1>14. UNCHANGED <<session, tab, conv, doc, status>> => StatusFits'
    OBVIOUS
  <1>15. CASE PromptTarget
    BY <1>14, <1>15 DEF PromptTarget
  <1>16. CASE PromptReserve
    BY <1>14, <1>16 DEF PromptReserve
  <1>17. CASE PromptDeliver
    BY <1>14, <1>17 DEF PromptDeliver, Hands
  <1>18. CASE PromptObserve
    BY <1>14, <1>18 DEF PromptObserve, Hands
  <1>19. CASE PromptSend
    BY <1>14, <1>19 DEF PromptSend
  <1>20. CASE \E r \in Requests : StartPrompt(r)
    BY <1>14, <1>20 DEF StartPrompt
  <1>21. CASE \E r \in Requests : AcknowledgeDelivery(r)
    BY <1>14, <1>21 DEF AcknowledgeDelivery
  <1>22. CASE \E r \in Requests : InspectDelivery(r)
    BY <1>14, <1>22 DEF InspectDelivery
  <1>23. CASE \E r \in Requests : DiscardRead(r)
    BY <1>14, <1>23 DEF DiscardRead
  <1>24. CASE \E r \in Requests : CancelPrompt(r)
    BY <1>14, <1>24 DEF CancelPrompt
  <1>25. CASE \E s \in Sessions : PrepareStart(s)
    BY <1>14, <1>25 DEF PrepareStart
  <1>26. CASE \E s \in Sessions : \E t \in Tabs : RebindStart(s, t)
    BY <1>14, <1>26 DEF RebindStart
  <1>27. CASE WorkerStops
    BY <1>14, <1>27 DEF WorkerStops
  <1>28. CASE \E t \in Tabs : RemovalRead(t)
    BY <1>14, <1>28 DEF RemovalRead
  <1>29. CASE \E t \in Tabs : Reload(t)
    BY <1>14, <1>29 DEF Reload
  <1>30. CASE \E t \in Tabs : CloseTab(t)
    BY <1>14, <1>30 DEF CloseTab
  <1>31. CASE \E t \in Tabs : \E u \in Urls : Navigate(t, u)
    BY <1>14, <1>31 DEF Navigate
  <1>32. CASE \E t \in Tabs : TypePrompt(t)
    BY <1>14, <1>32 DEF TypePrompt
  <1>33. CASE \E t \in Tabs : SettleJob(t)
    BY <1>14, <1>33 DEF SettleJob
  <1>34. CASE \E t \in Tabs : AnswerPrompt(t)
    BY <1>14, <1>34 DEF AnswerPrompt
  <1>35. CASE \E t \in Tabs : ShowNewConversation(t)
    BY <1>14, <1>35 DEF ShowNewConversation
  <1>36. CASE UNCHANGED vars
    BY <1>14, <1>36
  <1> QED BY <1>1, <1>2, <1>3, <1>4, <1>5, <1>6, <1>7, <1>8, <1>9, <1>10, <1>11, <1>12, <1>13, <1>15, <1>16,
        <1>17, <1>18, <1>19, <1>20, <1>21, <1>22, <1>23, <1>24, <1>25, <1>26, <1>27, <1>28, <1>29, <1>30,
        <1>31, <1>32, <1>33, <1>34, <1>35, <1>36
    DEF Next, WorkerStep, PromptStep, ControllerStep, BrowserStep, PageStep

\* Every step is a move
LEMMA MovesStep ==
  ASSUME Types, Aimed, Fits, StatusFits, Staged, Bound, JobsAreSingle, [Next]_vars PROVE Moves
  <1>1. ASSUME PromptTarget PROVE Targets \/ Fades
    <2>1. CASE \E code \in Codes : Fails(code)
      BY <2>1, <1>1, Failing DEF PromptTarget, At, Fades, Breaks, Kept, SamePages, SameTold, Types
    <2>2. CASE /\ session = Owner(op.req) /\ PreparedPage /\ current = None
               /\ op' = [op EXCEPT !.phase = "bind", !.at = [Here EXCEPT !.doc = page[tab]]]
      <3>1. tab \in Tabs /\ page[tab] \in Nat /\ session \in Sessions /\ conv \in Urls \cup {None}
        BY <2>2, Constants DEF PreparedPage, StatusFits, Types, StoredTypes, PageTypes
      <3>2. Here = [session |-> session, tab |-> tab, conv |-> conv, doc |-> doc] /\ Here \in Places
        BY <3>1 DEF Here, Places, Types, StoredTypes
      <3>3. [Here EXCEPT !.doc = page[tab]] = [session |-> session, tab |-> tab, conv |-> conv, doc |-> page[tab]]
        BY <3>2
      <3>4. op' = [op EXCEPT !.phase = "bind", !.at = [session |-> session, tab |-> tab, conv |-> conv, doc |-> page[tab]]]
        BY <2>2, <3>3
      <3>5. OpIs(op.kind, "bind", op.req, [session |-> session, tab |-> tab, conv |-> conv, doc |-> page[tab]],
                 op.bootstrap, op.reserved, op.started)
        BY <3>1, <3>4 DEF OpIs, OpTyped, Types, OpTypes, Places, Phases
      <3> QED
        BY <2>2, <3>1, <3>5, <1>1 DEF PromptTarget, Targets, Kept, SamePages, SameTold
    <2> QED
      BY <2>1, <2>2, <1>1 DEF PromptTarget, Codes
  <1>2. ASSUME PromptBind PROVE Refreshes
    <2>1. op' = [op EXCEPT !.phase = "reserve"] /\ session = op.at.session /\ conv = op.at.conv
      BY <1>2 DEF PromptBind, At, Bound, Prompting
    <2>2. Stays("reserve")
      BY <2>1, PhaseChanges DEF Phases, Types
    <2> QED
      BY <2>1, <2>2, <1>2 DEF PromptBind, BindSession, Refreshes, Kept, SamePages, SameTold
  <1>3. ASSUME PromptReserve PROVE Reserves \/ Fades
    <2>1. CASE \E code \in Codes : Fails(code) /\ UNCHANGED stored
      BY <2>1, <1>3, Failing DEF PromptReserve, At, Fades, Breaks, Kept, SamePages, SameTold, Types
    <2>2. CASE /\ ~TargetTaken /\ current = None
               /\ current' = op.req /\ completed' = None
               /\ op' = [op EXCEPT !.reserved = TRUE, !.at = Here, !.bootstrap = status = "ROOT_READY",
                             !.phase = IF status \in {"BOUND", "ROOT_READY"} THEN "check" ELSE "failed",
                             !.code = IF status \in {"BOUND", "ROOT_READY"} THEN "none" ELSE "NEEDS_REBIND"]
               /\ UNCHANGED <<session, tab, conv, doc, status, scopes, acked>>
      <3> DEFINE phase == IF status \in {"BOUND", "ROOT_READY"} THEN "check" ELSE "failed"
                 code == IF status \in {"BOUND", "ROOT_READY"} THEN "none" ELSE "NEEDS_REBIND"
                 starting == status = "ROOT_READY"
      <3>1. phase \in {"check", "failed"} /\ phase \in Phases /\ code \in Codes /\ starting \in BOOLEAN
        BY DEF Phases, Codes
      <3>2. Here \in Places
        BY DEF Here, Places, Types, StoredTypes
      <3>3. phase = "check" => tab \in Tabs /\ conv \in Urls
        BY Constants DEF StatusFits, Types, StoredTypes
      <3>4. starting => conv = Root
        BY DEF StatusFits
      <3>5. op' = [op EXCEPT !.reserved = TRUE, !.at = Here, !.bootstrap = starting, !.phase = phase, !.code = code]
        BY <2>2
      <3> HIDE DEF phase, code, starting
      <3>6. OpIs(op.kind, phase, op.req, Here, starting, TRUE, op.started)
        BY <3>1, <3>2, <3>5 DEF OpIs, OpTyped, Types, OpTypes
      <3> QED
        BY <2>2, <3>1, <3>3, <3>4, <3>6, <1>3 DEF PromptReserve, Reserves, SamePages, SameTold
    <2> QED
      BY <2>1, <2>2, <1>3, Zenon DEF PromptReserve, Codes
  <1>4. ASSUME PromptCheck PROVE Leaves \/ Fades
    <2>1. CASE \E code \in Codes : Fails(code)
      <3>1. Kept
        BY <2>1, <1>4 DEF PromptCheck, Kept, NotExactlyBound, ForgetTab, OnlyStatus, Dispatches
      <3> QED
        BY <2>1, <3>1, <1>4, Failing DEF PromptCheck, At, Fades, Breaks, SamePages, SameTold, Types
    <2>2. CASE Dispatches /\ UNCHANGED stored
      <3>1. op' = [op EXCEPT !.phase = "deliver", !.started = TRUE]
        BY <2>2 DEF Dispatches
      <3>2. OpIs(op.kind, "deliver", op.req, op.at, op.bootstrap, op.reserved, TRUE)
        BY <3>1 DEF OpIs, OpTyped, Types, OpTypes, Phases
      <3> QED
        BY <2>2, <3>2, <1>4 DEF PromptCheck, Leaves, Kept, SamePages, SameTold
    <2> QED
      BY <2>1, <2>2, <1>4 DEF PromptCheck, NotExactlyBound, Codes
  <1>5. ASSUME PromptDeliver PROVE Arrives \/ Misses \/ Fades
    <2> DEFINE t == op.at.tab
    <2>1. /\ At("prompt", "deliver") /\ Kept /\ SameTold /\ UNCHANGED <<typed, where>>
          /\ \/ (\E code \in Codes : Fails(code)) /\ UNCHANGED job
             \/ op.bootstrap /\ op' = [op EXCEPT !.phase = "recover"] /\ UNCHANGED job
             \/ /\ job[t] = NoJob /\ op' = [op EXCEPT !.phase = "waiting"]
                /\ job' = [job EXCEPT ![t] = [NoJob EXCEPT !.req = op.req, !.conv = op.at.conv]]
      BY <1>5, Zenon DEF PromptDeliver, Hands, Codes, Kept, SameTold
    <2>2. CASE (\E code \in Codes : Fails(code)) /\ UNCHANGED job
      BY <2>1, <2>2, Failing DEF At, Fades, Breaks, SamePages, Types
    <2>3. CASE op.bootstrap /\ op' = [op EXCEPT !.phase = "recover"] /\ UNCHANGED job
      <3>1. Stays("recover")
        BY <2>3, PhaseChanges DEF Types, Phases
      <3> QED
        BY <2>1, <2>3, <3>1 DEF Misses, Breaks, SamePages, At
    <2>4. CASE op' = [op EXCEPT !.phase = "waiting"] /\ job' = [job EXCEPT ![t] = [NoJob EXCEPT !.req = op.req, !.conv = op.at.conv]]
      <3>1. Stays("waiting")
        BY <2>4, PhaseChanges DEF Types, Phases
      <3>2. t \in Tabs /\ op.at.conv \in Urls /\ op.req \in Requests
        BY <2>1, <1>5 DEF Bound, Prompting, At, Types, OpTyped, OpTypes, Places, Aimed, Early
      <3>3. JobTyped' /\ job'[t].req = op.req /\ job'[t].conv = op.at.conv /\ job'[t].sent = FALSE /\ \A u \in Tabs \ {t} : job'[u] = job[u]
        BY <2>4, <3>2 DEF Types, JobTyped, JobTypes, NoJob
      <3> QED
        BY <2>1, <3>1, <3>2, <3>3 DEF Arrives, At
    <2> QED
      BY <2>1, <2>2, <2>3, <2>4
  <1>6. ASSUME PromptRecover PROVE Adopts \/ Fades
    <2> DEFINE t == op.at.tab
    <2>1. CASE (\E code \in Codes : Fails(code)) /\ UNCHANGED stored
      BY <2>1, <1>6, Failing DEF PromptRecover, At, Fades, Breaks, Kept, SamePages, SameTold, Types
    <2>2. CASE /\ TurnHoldsSession /\ url[t] \in Convs /\ conv' = url[t]
               /\ op' = [op EXCEPT !.phase = "observe", !.bootstrap = FALSE,
                             !.at = [op.at EXCEPT !.conv = url[t], !.doc = page[t]]]
      <3>1. op.at \in Places /\ op.at.tab \in Tabs /\ page[t] \in Nat /\ url[t] \in Urls
        BY <2>2, <1>6, Constants DEF PromptRecover, At, Bound, Prompting, Early, Types, OpTyped, OpTypes, PageTypes
      <3>3. /\ OpTyped' /\ op'.kind = op.kind /\ op'.req = op.req /\ ~op'.bootstrap /\ op'.reply = op.reply
            /\ op'.phase = "observe" /\ op'.reserved = op.reserved /\ op'.started = op.started
            /\ op'.at = [op.at EXCEPT !.conv = url[t], !.doc = page[t]]
        BY <3>1, <2>2 DEF Types, OpTyped, OpTypes, Places, Phases
      <3>4. op'.at.session = op.at.session /\ op'.at.tab = op.at.tab /\ op'.at.conv = url[t]
        BY <3>1, <3>3 DEF Places
      <3> QED
        BY <2>2, <3>3, <3>4, <1>6 DEF PromptRecover, Adopts, Staged, Prompting, At, TurnHoldsSession, SamePages, SameTold
    <2> QED
      BY <2>1, <2>2, <1>6 DEF PromptRecover, Codes
  <1>7. ASSUME PromptObserve PROVE Arrives \/ Misses \/ Fades
    <2> DEFINE t == op.at.tab
    <2>1. /\ At("prompt", "observe") /\ Kept /\ SameTold /\ UNCHANGED <<typed, where>>
          /\ \/ (\E code \in Codes : Fails(code)) /\ UNCHANGED job
             \/ op.bootstrap /\ op' = [op EXCEPT !.phase = "recover"] /\ UNCHANGED job
             \/ /\ job[t] = NoJob /\ op' = [op EXCEPT !.phase = "waiting"]
                /\ job' = [job EXCEPT ![t] = [req |-> op.req, conv |-> op.at.conv, sent |-> TRUE, aborted |-> FALSE, observing |-> TRUE]]
      BY <1>7, Zenon DEF PromptObserve, Hands, Codes, Kept, SameTold
    <2>2. CASE (\E code \in Codes : Fails(code)) /\ UNCHANGED job
      BY <2>1, <2>2, Failing DEF At, Fades, Breaks, SamePages, Types
    <2>3. CASE op.bootstrap /\ op' = [op EXCEPT !.phase = "recover"] /\ UNCHANGED job
      <3>1. Stays("recover")
        BY <2>3, PhaseChanges DEF Types, Phases
      <3> QED
        BY <2>1, <2>3, <3>1 DEF Misses, Breaks, SamePages, At
    <2>4. CASE op' = [op EXCEPT !.phase = "waiting"] /\ job' = [job EXCEPT ![t] = [req |-> op.req, conv |-> op.at.conv, sent |-> TRUE, aborted |-> FALSE, observing |-> TRUE]]
      <3>1. Stays("waiting")
        BY <2>4, PhaseChanges DEF Types, Phases
      <3>2. t \in Tabs /\ op.at.conv \in Urls /\ op.req \in Requests
        BY <2>1, <1>7 DEF Bound, Prompting, At, Types, OpTyped, OpTypes, Places, Aimed, Early
      <3>3. JobTyped' /\ job'[t].req = op.req /\ job'[t].conv = op.at.conv /\ job'[t].sent = TRUE /\ \A u \in Tabs \ {t} : job'[u] = job[u]
        BY <2>4, <3>2 DEF Types, JobTyped, JobTypes, NoJob
      <3> QED
        BY <2>1, <3>1, <3>2, <3>3 DEF Arrives, At
    <2> QED
      BY <2>1, <2>2, <2>3, <2>4
  <1>8. ASSUME PromptPromote PROVE Adopts \/ Fades
    <2> DEFINE t == op.at.tab
    <2>1. CASE (\E code \in Codes : Fails(code)) /\ UNCHANGED stored
      BY <2>1, <1>8, Failing DEF PromptPromote, At, Fades, Breaks, Kept, SamePages, SameTold, Types
    <2>2. CASE /\ TurnHoldsSession /\ url[t] \in Convs /\ conv' = url[t]
               /\ op' = [op EXCEPT !.bootstrap = FALSE, !.at = [op.at EXCEPT !.conv = url[t]]]
      <3>1. op.at \in Places /\ op.at.tab \in Tabs /\ url[t] \in Urls
        BY <2>2, <1>8, Constants DEF PromptPromote, At, Bound, Prompting, Early, Types, OpTyped, OpTypes, PageTypes
      <3>3. /\ OpTyped' /\ op'.kind = op.kind /\ op'.req = op.req /\ ~op'.bootstrap /\ op'.reply = op.reply
            /\ op'.phase = op.phase /\ op'.reserved = op.reserved /\ op'.started = op.started
            /\ op'.at = [op.at EXCEPT !.conv = url[t]]
        BY <3>1, <2>2 DEF Types, OpTyped, OpTypes, Places
      <3>4. op'.at.session = op.at.session /\ op'.at.tab = op.at.tab /\ op'.at.conv = url[t]
        BY <3>1, <3>3 DEF Places
      <3> QED
        BY <2>2, <3>3, <3>4, <1>8 DEF PromptPromote, Adopts, At, TurnHoldsSession, SamePages, SameTold
    <2> QED
      BY <2>1, <2>2, <1>8 DEF PromptPromote, Codes
  <1>9. ASSUME PromptVerify PROVE Completes \/ Fades
    <2>1. CASE \E code \in Codes : Fails(code)
      <3>1. Kept \/ op' = [op EXCEPT !.phase = "send"]
        BY <2>1, <1>9 DEF PromptVerify, Kept, NotExactlyBound, ForgetTab, OnlyStatus
      <3>2. CASE Kept
        BY <2>1, <3>2, <1>9, Failing DEF PromptVerify, At, Fades, Breaks, SamePages, SameTold, Types
      <3>3. CASE op' = [op EXCEPT !.phase = "send"]
        <4>1. op'.phase = "send" /\ op'.phase = "failed"
          BY <2>1, <3>3, Failing DEF Types, OpTyped, OpTypes, Stays, OpIs
        <4> QED
          BY <4>1
      <3> QED
        BY <3>1, <3>2, <3>3
    <2>2. CASE /\ Relayed /\ ExactlyBound /\ completed' = op.req /\ op' = [op EXCEPT !.phase = "send"]
               /\ UNCHANGED <<session, tab, conv, doc, status, current, scopes, acked>>
      <3>1. Stays("send")
        BY <2>2, PhaseChanges DEF Types, Phases
      <3>2. op.reply.conv = op.at.conv
        BY <2>2 DEF Relayed
      <3> QED
        BY <2>2, <3>1, <3>2, <1>9 DEF PromptVerify, ExactlyBound, TurnHoldsBinding, Completes, SamePages, SameTold
    <2> QED
      BY <2>1, <2>2, <1>9 DEF PromptVerify, NotExactlyBound, Codes
  <1>10. ASSUME PromptSend PROVE Sends
    BY <1>10, IdleEnds DEF PromptSend, Sends, At, Kept, SamePages, SameTold
  <1>11. ASSUME PromptFails PROVE Withdraws
    BY <1>11, IdleEnds DEF PromptFails, Withdraws, ClearDelivery, At, SamePages
  <1>12. ASSUME PrepareRead PROVE Picks \/ Ends
    <2>1. CASE op' = Idle
      BY <2>1, <1>12, IdleEnds DEF PrepareRead, Ends, OnlyStatus, Kept, SamePages, SameTold
    <2>2. ASSUME NEW t \in Tabs, Chooses(t) PROVE OpTyped' /\ op'.kind = op.kind /\ op'.phase = "bind" /\ op'.req = op.req
                 /\ op'.at.session = op.at.session /\ op'.at.conv = op.at.conv /\ op'.at.tab \in Tabs
      <3>1. op' = [op EXCEPT !.phase = "bind", !.at.tab = t, !.at.doc = page'[t]]
        BY <2>2 DEF Chooses
      <3>2. page'[t] \in Nat
        BY PageTypesStep DEF PageTypes
      <3> QED
        BY <3>1, <3>2 DEF Types, OpTyped, OpTypes, Places, Phases
    <2>3. CASE /\ ~PinnedElsewhere /\ UNCHANGED stored
               /\ \E t \in Tabs : Chooses(t)
      BY <2>2, <2>3, <1>12 DEF PrepareRead, Picks, At, Kept, SamePages, SameTold
    <2>4. \A t \in Candidates : t \in Tabs
      BY Constants DEF Candidates, Shows
    <2> QED
      BY <2>1, <2>3, <2>4, <1>12 DEF PrepareRead
  <1>13. ASSUME PrepareBind PROVE Binds \/ Ends
    BY <1>13, IdleEnds DEF PrepareBind, Binds, Ends, At, Kept, SamePages, SameTold
  <1>14. ASSUME DiscardCommit PROVE Discards \/ Ends
    BY <1>14, IdleEnds DEF DiscardCommit, Discards, Ends, At, Kept, SamePages, SameTold
  <1>15. ASSUME NEW r \in Requests, StartPrompt(r) PROVE Asks(r)
    <2>1. CASE Held
      BY <2>1, <1>15 DEF StartPrompt, Asks, Kept, SamePages, Types, OpTyped
    <2>2. CASE ~Held
      <3>1. op' = [Idle EXCEPT !.kind = "prompt", !.phase = "target", !.req = r]
        BY <2>2, <1>15 DEF StartPrompt
      <3>2. /\ OpTyped' /\ op'.kind = "prompt" /\ op'.phase = "target" /\ op'.req = r
            /\ ~op'.reserved /\ ~op'.started /\ ~op'.bootstrap
        BY <3>1 DEF OpTyped, OpTypes, Idle, Nowhere, NoReply, Places, Phases, Codes
      <3> QED
        BY <2>2, <3>2, <1>15, IdleIsFree DEF StartPrompt, Asks, Kept, SamePages
    <2> QED
      BY <2>1, <2>2
  <1>16. ASSUME NEW r \in Requests, AcknowledgeDelivery(r) PROVE Acknowledges(r)
    BY <1>16, IdleIsFree DEF AcknowledgeDelivery, Acknowledges, ClearDelivery, SamePages
  <1>17. ASSUME NEW r \in Requests, InspectDelivery(r) PROVE Inspects(r)
    BY <1>17 DEF InspectDelivery, Inspects, Kept, SamePages
  <1>18. ASSUME NEW r \in Requests, DiscardRead(r) PROVE Doubts(r)
    <2>1. op' = [Idle EXCEPT !.kind = "discard", !.phase = "commit", !.req = r, !.at = Here] /\ Here \in Places
      BY <1>18 DEF DiscardRead, Here, Places, Types, StoredTypes
    <2>2. OpTyped' /\ op'.kind = "discard" /\ op'.req = r
      BY <2>1 DEF OpTyped, OpTypes, Idle, NoReply, Phases, Codes
    <2> QED
      BY <2>2, <1>18, IdleIsFree DEF DiscardRead, Doubts, Kept, SamePages, SameTold
  <1>19. ASSUME NEW r \in Requests, CancelPrompt(r) PROVE Marks
    <2>1. CASE job' = job
      BY <2>1, <1>19 DEF CancelPrompt, Marks, OnlyStatus, Kept, SameTold, Types, JobTyped
    <2>2. CASE tab \in Tabs /\ job[tab] # NoJob /\ job' = [job EXCEPT ![tab].aborted = TRUE]
      <3>1. /\ JobTyped'
            /\ \A u \in Tabs :
                 /\ job'[u].req = job[u].req /\ job'[u].sent = job[u].sent
                 /\ job[u] = NoJob => job'[u] = NoJob
                 /\ job[u].conv \in Urls => job'[u].conv \in Urls
        BY <2>2 DEF Types, JobTyped, JobTypes, NoJob
      <3> QED
        BY <3>1, <1>19 DEF CancelPrompt, Marks, OnlyStatus, Kept, SameTold
    <2>3. tab \in Tabs
      BY <1>19, Constants DEF CancelPrompt, Types, StoredTypes, StatusFits
    <2>4. \A q \in Requests : q # None
      BY Constants
    <2> QED
      BY <2>1, <2>2, <2>3, <2>4, <1>19 DEF CancelPrompt, Aborted, NoJob, Types, StoredTypes
  <1>20. ASSUME NEW s \in Sessions, PrepareStart(s) PROVE Prepares(s)
    <2>1. /\ op' = [Idle EXCEPT !.kind = "prepare", !.phase = "read", !.at = [Nowhere EXCEPT !.session = s, !.conv = known[s]]]
          /\ known[s] \in Urls
      BY <1>20 DEF PrepareStart, Types, ControllerTypes
    <2> DEFINE place == [Nowhere EXCEPT !.session = s, !.conv = known[s]]
    <2>2. place \in Places /\ place.session = s /\ place.conv = known[s]
      BY <2>1 DEF Nowhere, Places
    <2> HIDE DEF place
    <2>3. op' = [Idle EXCEPT !.kind = "prepare", !.phase = "read", !.at = place]
      BY <2>1 DEF place
    <2>4. /\ OpTyped' /\ op'.kind = "prepare" /\ op'.phase = "read" /\ op'.req = None
          /\ op'.at.session = s /\ op'.at.conv = known[s]
      BY <2>2, <2>3 DEF OpTyped, OpTypes, Idle, NoReply, Phases, Codes
    <2> QED
      BY <2>4, <1>20, IdleIsFree DEF PrepareStart, Prepares, Kept, SamePages, SameTold
  <1>21. ASSUME NEW s \in Sessions, NEW t \in Tabs, RebindStart(s, t) PROVE Prepares(s)
    <2>1. /\ op' = [Idle EXCEPT !.kind = "prepare", !.phase = "bind",
                                !.at = [session |-> s, tab |-> t, conv |-> known[s], doc |-> page[t]]]
          /\ known[s] \in Urls /\ page[t] \in Nat
      BY <1>21 DEF RebindStart, Types, ControllerTypes, PageTypes
    <2>2. /\ OpTyped' /\ op'.kind = "prepare" /\ op'.phase = "bind" /\ op'.req = None
          /\ op'.at.session = s /\ op'.at.conv = known[s] /\ op'.at.tab = t
      BY <2>1 DEF OpTyped, OpTypes, Idle, NoReply, Places, Phases, Codes
    <2> QED
      BY <2>2, <1>21, IdleIsFree DEF RebindStart, Prepares, Kept, SamePages, SameTold
  <1>22. ASSUME NEW s \in Sessions, SelectScope(s) PROVE Selects(s)
    BY <1>22, IdleIsFree DEF SelectScope, Selects, SamePages, SameTold
  <1>23. ASSUME InspectTopology PROVE Marks
    <2>1. CASE job' = job
      BY <2>1, <1>23 DEF InspectTopology, Marks, OnlyStatus, Kept, SameTold, Types, JobTyped
    <2>2. CASE tab \in Tabs /\ job[tab] # NoJob /\ job' = [job EXCEPT ![tab].aborted = TRUE]
      <3>1. /\ JobTyped'
            /\ \A u \in Tabs :
                 /\ job'[u].req = job[u].req /\ job'[u].sent = job[u].sent
                 /\ job[u] = NoJob => job'[u] = NoJob
                 /\ job[u].conv \in Urls => job'[u].conv \in Urls
        BY <2>2 DEF Types, JobTyped, JobTypes, NoJob
      <3> QED
        BY <3>1, <1>23 DEF InspectTopology, Marks, OnlyStatus, Kept, SameTold
    <2>3. tab \in Tabs
      BY <1>23, Constants DEF InspectTopology, Types, StoredTypes, StatusFits
    <2>4. \A q \in Requests : q # None
      BY Constants
    <2> QED
      BY <2>1, <2>2, <2>3, <2>4, <1>23 DEF InspectTopology, Aborted, NoJob, Types, StoredTypes
  <1>24. ASSUME WorkerStops PROVE Ends
    BY <1>24, IdleEnds DEF WorkerStops, Ends, Kept, SamePages, SameTold
  <1>25. ASSUME NEW t \in Tabs, RemovalRead(t) PROVE Elsewhere
    BY <1>25 DEF RemovalRead, Elsewhere, Kept, SamePages, SameTold
  <1>26. ASSUME NEW t \in Tabs, RemovalWrite(t) PROVE Elsewhere
    BY <1>26 DEF RemovalWrite, ForgetTab, Elsewhere, Kept, SamePages, SameTold
  <1>27. ASSUME NEW t \in Tabs, Reload(t) PROVE Drops(t)
    <2>1. LosesPage(t) /\ Kept /\ UNCHANGED <<typed, where>> /\ SameTold
      BY <1>27 DEF Reload, Kept, SameTold
    <2> QED
      BY <2>1, LosingDrops DEF Types
  <1>28. ASSUME NEW t \in Tabs, CloseTab(t) PROVE Drops(t)
    <2>1. LosesPage(t) /\ Kept /\ UNCHANGED <<typed, where>> /\ SameTold
      BY <1>28 DEF CloseTab, Kept, SameTold
    <2> QED
      BY <2>1, LosingDrops DEF Types
  <1>29. ASSUME NEW t \in Tabs, NEW u \in Urls, Navigate(t, u) PROVE Elsewhere \/ Drops(t)
    <2>1. CASE LosesPage(t)
      <3>1. Kept /\ UNCHANGED <<typed, where>> /\ SameTold
        BY <1>29 DEF Navigate, Kept, SameTold
      <3> QED
        BY <2>1, <3>1, LosingDrops DEF Types
    <2>2. CASE UNCHANGED <<page, job, op>>
      BY <2>2, <1>29 DEF Navigate, Elsewhere, Kept, SamePages, SameTold
    <2> QED
      BY <2>1, <2>2, <1>29 DEF Navigate
  <1>30. ASSUME NEW t \in Tabs, TypePrompt(t) PROVE Submits(t)
    <2> DEFINE r == job[t].req
    <2>1. /\ job[t] # NoJob /\ ~job[t].sent /\ job' = [job EXCEPT ![t].sent = TRUE]
          /\ typed' = [typed EXCEPT ![r] = typed[r] + 1]
          /\ \E c \in Convs : where' = [where EXCEPT ![r] = c]
          /\ op' = op /\ Kept /\ SameTold
      BY <1>30, TypedWhere DEF TypePrompt, Kept, SameTold
    <2>2. r \in Requests /\ job[t].conv \in Urls
      BY <2>1, Constants DEF Types, JobTyped, JobTypes, JobsAreSingle
    <2>3. JobTyped' /\ job'[t].req = r /\ job'[t].conv \in Urls /\ job'[t].sent /\ \A u \in Tabs \ {t} : job'[u] = job[u]
      BY <2>1, <2>2 DEF Types, JobTyped, JobTypes
    <2>4. typed'[r] = typed[r] + 1 /\ \A q \in Requests \ {r} : typed'[q] = typed[q]
      BY <2>1, <2>2 DEF Types, PageTypes
    <2>5. where'[r] # None /\ \A q \in Requests \ {r} : where'[q] = where[q]
      <3>1. PICK c \in Convs : where' = [where EXCEPT ![r] = c]
        BY <2>1
      <3> QED
        BY <2>2, <3>1, Constants DEF Types, PageTypes
    <2> QED
      BY <2>1, <2>2, <2>3, <2>4, <2>5, Constants DEF Submits
  <1>31. ASSUME NEW t \in Tabs, SettleJob(t) PROVE Marks
    <2>1. job' = [job EXCEPT ![t].conv = url[t]] /\ job[t].sent /\ url[t] \in Urls
      BY <1>31, Constants DEF SettleJob
    <2>2. /\ JobTyped'
          /\ \A u \in Tabs :
               /\ job'[u].req = job[u].req /\ job'[u].sent = job[u].sent
               /\ job[u] = NoJob => job'[u] = NoJob
               /\ job[u].conv \in Urls => job'[u].conv \in Urls
      <3>1. job[t] # NoJob
        BY <2>1 DEF NoJob
      <3> QED
        BY <2>1, <3>1 DEF Types, JobTyped, JobTypes
    <2> QED
      BY <2>2, <1>31 DEF SettleJob, Marks, Kept, SameTold
  <1>32. ASSUME NEW t \in Tabs, AnswerPrompt(t) PROVE Drops(t)
    <2>1. /\ Kept /\ UNCHANGED <<typed, where>> /\ SameTold /\ job' = [job EXCEPT ![t] = NoJob]
          /\ url[t] \in Convs /\ where[job[t].req] = url[t] /\ Replies(t, [conv |-> url[t], doc |-> page[t]])
          /\ job[t].sent
      BY <1>32 DEF AnswerPrompt, Kept, SameTold
    <2>2. JobTyped' /\ job'[t] = NoJob /\ \A u \in Tabs \ {t} : job'[u] = job[u]
      BY <2>1, JobEnds DEF Types
    <2>3. job[t] # NoJob
      BY <2>1 DEF NoJob
    <2>4. CASE Mine(t)
      <3>1. op' = [op EXCEPT !.phase = "replied", !.reply = [conv |-> url[t], doc |-> page[t]]]
        BY <2>1, <2>4 DEF Replies
      <3>2. url[t] \in Urls /\ page[t] \in Nat /\ url[t] # None
        BY <2>1, Constants DEF Types, PageTypes
      <3>3. /\ OpIs(op.kind, "replied", op.req, op.at, op.bootstrap, op.reserved, op.started)
            /\ op'.reply.conv = url[t]
        BY <3>1, <3>2 DEF OpIs, OpTyped, Types, OpTypes, Phases
      <3> QED
        BY <2>1, <2>2, <2>3, <2>4, <3>2, <3>3 DEF Drops, Mine
    <2>5. CASE ~Mine(t)
      BY <2>1, <2>2, <2>5 DEF Drops, Replies
    <2> QED
      BY <2>4, <2>5
  <1>33. ASSUME NEW t \in Tabs, FailPrompt(t) PROVE Drops(t)
    <2>1. /\ Kept /\ UNCHANGED <<typed, where>> /\ SameTold /\ job' = [job EXCEPT ![t] = NoJob] /\ job[t] # NoJob
      BY <1>33 DEF FailPrompt, OnlyStatus, Kept, SameTold
    <2>2. JobTyped' /\ job'[t] = NoJob /\ \A u \in Tabs \ {t} : job'[u] = job[u]
      BY <2>1, JobEnds DEF Types
    <2>3. \/ ~Mine(t) /\ op' = op
          \/ Mine(t) /\ \E code \in Codes : Fails(code)
      BY <1>33 DEF FailPrompt, ReportsFailure, Codes
    <2> QED
      BY <2>1, <2>2, <2>3, Failing DEF Drops, Types
  <1>34. ASSUME NEW t \in Tabs, ShowNewConversation(t) PROVE Elsewhere \/ Drops(t)
    <2>1. CASE LosesPage(t)
      <3>1. Kept /\ UNCHANGED <<typed, where>> /\ SameTold
        BY <1>34 DEF ShowNewConversation, Kept, SameTold
      <3> QED
        BY <2>1, <3>1, LosingDrops DEF Types
    <2>2. CASE UNCHANGED <<page, job, op>>
      BY <2>2, <1>34 DEF ShowNewConversation, Elsewhere, Kept, SamePages, SameTold
    <2> QED
      BY <2>1, <2>2, <1>34 DEF ShowNewConversation
  <1>35. ASSUME UNCHANGED vars PROVE Elsewhere
    BY <1>35 DEF Elsewhere, Kept, SamePages, SameTold
  <1> QED BY <1>1, <1>2, <1>3, <1>4, <1>5, <1>6, <1>7, <1>8, <1>9, <1>10, <1>11, <1>12, <1>13, <1>14, <1>15,
        <1>16, <1>17, <1>18, <1>19, <1>20, <1>21, <1>22, <1>23, <1>24, <1>25, <1>26, <1>27, <1>28, <1>29,
        <1>30, <1>31, <1>32, <1>33, <1>34, <1>35
    DEF Moves, Next, WorkerStep, PromptStep, ControllerStep, BrowserStep, PageStep

-----------------------------------------------------------------------------
(* The invariant, part by part and move by move.                            *)

\* What a binding does to the delivery and the parked slots
LEMMA BindsParks ==
  ASSUME Types, Aimed, Fits, ParkedApart, Binds
  PROVE  /\ session' = op.at.session /\ conv' = op.at.conv /\ op.at.session \in Sessions
         /\ session = op.at.session => UNCHANGED <<current, completed, scopes>>
         /\ session # op.at.session =>
              /\ current' = scopes[op.at.session].current /\ completed' = scopes[op.at.session].completed
              /\ scopes'[op.at.session].current = None
              /\ \A s \in Sessions \ {op.at.session} :
                   IF s = session /\ current # None
                   THEN scopes'[s].current = current /\ scopes'[s].completed = completed /\ scopes'[s].conv = conv
                   ELSE scopes'[s] = scopes[s]
         /\ (session # op.at.session /\ scopes[op.at.session].current # None) => scopes[op.at.session].conv = op.at.conv
  BY Constants DEF Types, StoredTypes, SlotTypes, Aimed, Fits, ParkedApart, Binds, At, MayBind, BindSession, Parked, NoSlot

LEMMA SelectsParks ==
  ASSUME Types, Fits, ParkedApart, NEW to \in Sessions, Selects(to)
  PROVE  /\ session' = to /\ to # session /\ conv' = scopes[to].conv
         /\ current' = scopes[to].current /\ completed' = scopes[to].completed
         /\ scopes'[to].current = None
         /\ \A s \in Sessions \ {to} :
              IF s = session /\ current # None
              THEN scopes'[s].current = current /\ scopes'[s].completed = completed /\ scopes'[s].conv = conv
              ELSE scopes'[s] = scopes[s]
  BY Constants DEF Types, StoredTypes, SlotTypes, Fits, ParkedApart, Selects, Parked, NoSlot

\* Changing the session loses no delivery and makes none
LEMMA SwitchKeeps ==
  ASSUME Types, Aimed, Fits, ParkedApart, Binds \/ \E s \in Sessions : Selects(s), NEW r \in Requests
  PROVE  Has(r)' <=> Has(r)
  <1>1. CASE Binds
    BY <1>1, BindsParks, Constants DEF Has, Types, StoredTypes, Fits, ParkedApart
  <1>2. CASE \E s \in Sessions : Selects(s)
    BY <1>2, SelectsParks, Constants DEF Has, Types, StoredTypes, Fits, ParkedApart
  <1> QED BY <1>1, <1>2

\* Who is settled is nowhere
LEMMA SettledIsNowhere ==
  ASSUME Types, Fits, ParkedApart, NEW r \in Requests, current = r \/ session = Owner(r), current' = None, UNCHANGED scopes
  PROVE  ~Has(r)'
  BY Constants DEF Has, Types, StoredTypes, Fits, ParkedApart

\* The delivery belongs to the bound session
LEMMA FitsStep ==
  ASSUME Types, Aimed, Fits, Staged, Bound, ParkedApart, Moves PROVE Fits'
  <1> USE Constants DEF Fits, Types, StoredTypes, SlotTypes, OpTyped, OpTypes, Aimed
  <1>1. CASE Targets
    BY <1>1 DEF Targets, At, OpIs, Kept, SamePages, SameTold
  <1>2. CASE Refreshes
    BY <1>2 DEF Refreshes, At, Stays, Kept, SamePages, SameTold, OpIs
  <1>3. CASE Reserves
    BY <1>3 DEF Reserves, TargetTaken, At, OpIs, SamePages, SameTold, Here, Bound, Prompting
  <1>4. CASE Leaves
    BY <1>4 DEF Leaves, At, OpIs, Kept, SamePages, SameTold
  <1>5. CASE Arrives
    BY <1>5 DEF Arrives, Stays, Kept, SameTold, OpIs
  <1>6. CASE Misses
    BY <1>6 DEF Misses, Breaks, Stays, Kept, SamePages, SameTold, OpIs
  <1>7. CASE Fades
    BY <1>7 DEF Fades, Breaks, Stays, Kept, SamePages, SameTold, OpIs
  <1>8. CASE Adopts
    BY <1>8 DEF Adopts, SamePages, SameTold
  <1>9. CASE Completes
    BY <1>9 DEF Completes, At, Stays, SamePages, SameTold, Here, OpIs
  <1>10. CASE Sends
    BY <1>10 DEF Sends, At, OpEnds, Kept, SamePages, SameTold
  <1>11. CASE Withdraws
    BY <1>11 DEF Withdraws, Withdrawn, At, OpEnds, SamePages
  <1>12. CASE Picks
    BY <1>12 DEF Picks, PinnedElsewhere, At, Kept, SamePages, SameTold
  <1>13. CASE Ends
    BY <1>13 DEF Ends, OpEnds, Kept, SamePages, SameTold
  <1>14. CASE Binds
    BY <1>14 DEF Binds, BindSession, MayBind, Parked, NoSlot, At, OpEnds, SamePages, SameTold, ParkedApart
  <1>15. CASE Discards
    BY <1>15 DEF Discards, At, OpEnds, SamePages
  <1>16. CASE \E r \in Requests : Asks(r)
    BY <1>16 DEF Asks, OpFree, Kept, SamePages
  <1>17. CASE \E r \in Requests : Acknowledges(r)
    BY <1>17 DEF Acknowledges, OpFree, SamePages
  <1>18. CASE \E r \in Requests : Inspects(r)
    BY <1>18 DEF Inspects, Kept, SamePages
  <1>19. CASE \E r \in Requests : Doubts(r)
    BY <1>19 DEF Doubts, OpFree, Kept, SamePages, SameTold
  <1>20. CASE \E s \in Sessions : Prepares(s)
    BY <1>20 DEF Prepares, OpFree, Kept, SamePages, SameTold
  <1>21. CASE \E s \in Sessions : Selects(s)
    BY <1>21 DEF Selects, Parked, NoSlot, OpFree, SamePages, SameTold, ParkedApart
  <1>22. CASE Marks
    BY <1>22 DEF Marks, Kept, SameTold
  <1>23. CASE \E t \in Tabs : Drops(t)
    BY <1>23 DEF Drops, Mine, At, OpIs, Stays, Kept, SameTold
  <1>24. CASE \E t \in Tabs : Submits(t)
    BY <1>24 DEF Submits, Kept, SameTold
  <1>25. CASE Elsewhere
    BY <1>25 DEF Elsewhere, Kept, SamePages, SameTold
  <1> QED BY <1>1, <1>2, <1>3, <1>4, <1>5, <1>6, <1>7, <1>8, <1>9, <1>10, <1>11, <1>12, <1>13, <1>14, <1>15,
        <1>16, <1>17, <1>18, <1>19, <1>20, <1>21, <1>22, <1>23, <1>24, <1>25 DEF Moves

\* A parked delivery belongs to its session, which is not the bound one
LEMMA ParkedApartStep ==
  ASSUME Types, Aimed, Fits, ParkedApart, Moves PROVE ParkedApart'
  <1> USE Constants DEF ParkedApart, Types, StoredTypes, SlotTypes, Aimed, Fits
  <1>1. CASE Targets
    BY <1>1 DEF Targets, At, OpIs, Kept, SamePages, SameTold
  <1>2. CASE Refreshes
    BY <1>2 DEF Refreshes, At, Stays, Kept, SamePages, SameTold, OpIs
  <1>3. CASE Reserves
    BY <1>3 DEF Reserves, TargetTaken, At, OpIs, SamePages, SameTold, Here
  <1>4. CASE Leaves
    BY <1>4 DEF Leaves, At, OpIs, Kept, SamePages, SameTold
  <1>5. CASE Arrives
    BY <1>5 DEF Arrives, Stays, Kept, SameTold, OpIs
  <1>6. CASE Misses
    BY <1>6 DEF Misses, Breaks, Stays, Kept, SamePages, SameTold, OpIs
  <1>7. CASE Fades
    BY <1>7 DEF Fades, Breaks, Stays, Kept, SamePages, SameTold, OpIs
  <1>8. CASE Adopts
    BY <1>8 DEF Adopts, SamePages, SameTold
  <1>9. CASE Completes
    BY <1>9 DEF Completes, At, Stays, SamePages, SameTold, Here, OpIs
  <1>10. CASE Sends
    BY <1>10 DEF Sends, At, OpEnds, Kept, SamePages, SameTold
  <1>11. CASE Withdraws
    BY <1>11 DEF Withdraws, Withdrawn, At, OpEnds, SamePages
  <1>12. CASE Picks
    BY <1>12 DEF Picks, PinnedElsewhere, At, Kept, SamePages, SameTold
  <1>13. CASE Ends
    BY <1>13 DEF Ends, OpEnds, Kept, SamePages, SameTold
  <1>14. CASE Binds
    BY <1>14 DEF Binds, BindSession, MayBind, Parked, NoSlot, At, OpEnds, SamePages, SameTold
  <1>15. CASE Discards
    BY <1>15 DEF Discards, At, OpEnds, SamePages
  <1>16. CASE \E r \in Requests : Asks(r)
    BY <1>16 DEF Asks, OpFree, Kept, SamePages
  <1>17. CASE \E r \in Requests : Acknowledges(r)
    BY <1>17 DEF Acknowledges, OpFree, SamePages
  <1>18. CASE \E r \in Requests : Inspects(r)
    BY <1>18 DEF Inspects, Kept, SamePages
  <1>19. CASE \E r \in Requests : Doubts(r)
    BY <1>19 DEF Doubts, OpFree, Kept, SamePages, SameTold
  <1>20. CASE \E s \in Sessions : Prepares(s)
    BY <1>20 DEF Prepares, OpFree, Kept, SamePages, SameTold
  <1>21. CASE \E s \in Sessions : Selects(s)
    BY <1>21 DEF Selects, Parked, NoSlot, OpFree, SamePages, SameTold
  <1>22. CASE Marks
    BY <1>22 DEF Marks, Kept, SameTold
  <1>23. CASE \E t \in Tabs : Drops(t)
    BY <1>23 DEF Drops, Mine, At, OpIs, Stays, Kept, SameTold
  <1>24. CASE \E t \in Tabs : Submits(t)
    BY <1>24 DEF Submits, Kept, SameTold
  <1>25. CASE Elsewhere
    BY <1>25 DEF Elsewhere, Kept, SamePages, SameTold
  <1> QED BY <1>1, <1>2, <1>3, <1>4, <1>5, <1>6, <1>7, <1>8, <1>9, <1>10, <1>11, <1>12, <1>13, <1>14, <1>15,
        <1>16, <1>17, <1>18, <1>19, <1>20, <1>21, <1>22, <1>23, <1>24, <1>25 DEF Moves

\* Operations refer to what exists
LEMMA AimedStep ==
  ASSUME Types, Aimed, Moves PROVE Aimed'
  <1> USE Constants DEF Aimed, Types, ControllerTypes, OpTyped, OpTypes
  <1>1. CASE Targets
    BY <1>1 DEF Targets, At, OpIs, Kept, SamePages, SameTold
  <1>2. CASE Refreshes
    BY <1>2 DEF Refreshes, At, Stays, Kept, SamePages, SameTold, OpIs
  <1>3. CASE Reserves
    BY <1>3 DEF Reserves, TargetTaken, At, OpIs, SamePages, SameTold, Here
  <1>4. CASE Leaves
    BY <1>4 DEF Leaves, At, OpIs, Kept, SamePages, SameTold
  <1>5. CASE Arrives
    BY <1>5 DEF Arrives, Stays, Kept, SameTold, OpIs
  <1>6. CASE Misses
    BY <1>6 DEF Misses, Breaks, Stays, Kept, SamePages, SameTold, OpIs
  <1>7. CASE Fades
    BY <1>7 DEF Fades, Breaks, Stays, Kept, SamePages, SameTold, OpIs
  <1>8. CASE Adopts
    BY <1>8 DEF Adopts, SamePages, SameTold
  <1>9. CASE Completes
    BY <1>9 DEF Completes, At, Stays, SamePages, SameTold, Here, OpIs
  <1>10. CASE Sends
    BY <1>10 DEF Sends, At, OpEnds, Kept, SamePages, SameTold
  <1>11. CASE Withdraws
    BY <1>11 DEF Withdraws, Withdrawn, At, OpEnds, SamePages
  <1>12. CASE Picks
    BY <1>12 DEF Picks, PinnedElsewhere, At, Kept, SamePages, SameTold
  <1>13. CASE Ends
    BY <1>13 DEF Ends, OpEnds, Kept, SamePages, SameTold
  <1>14. CASE Binds
    BY <1>14 DEF Binds, BindSession, MayBind, Parked, NoSlot, At, OpEnds, SamePages, SameTold
  <1>15. CASE Discards
    BY <1>15 DEF Discards, At, OpEnds, SamePages
  <1>16. CASE \E r \in Requests : Asks(r)
    BY <1>16 DEF Asks, OpFree, Kept, SamePages
  <1>17. CASE \E r \in Requests : Acknowledges(r)
    BY <1>17 DEF Acknowledges, OpFree, SamePages
  <1>18. CASE \E r \in Requests : Inspects(r)
    BY <1>18 DEF Inspects, Kept, SamePages
  <1>19. CASE \E r \in Requests : Doubts(r)
    BY <1>19 DEF Doubts, OpFree, Kept, SamePages, SameTold
  <1>20. CASE \E s \in Sessions : Prepares(s)
    BY <1>20 DEF Prepares, OpFree, Kept, SamePages, SameTold
  <1>21. CASE \E s \in Sessions : Selects(s)
    BY <1>21 DEF Selects, Parked, NoSlot, OpFree, SamePages, SameTold
  <1>22. CASE Marks
    BY <1>22 DEF Marks, Kept, SameTold
  <1>23. CASE \E t \in Tabs : Drops(t)
    BY <1>23 DEF Drops, Mine, At, OpIs, Stays, Kept, SameTold
  <1>24. CASE \E t \in Tabs : Submits(t)
    BY <1>24 DEF Submits, Kept, SameTold
  <1>25. CASE Elsewhere
    BY <1>25 DEF Elsewhere, Kept, SamePages, SameTold
  <1> QED BY <1>1, <1>2, <1>3, <1>4, <1>5, <1>6, <1>7, <1>8, <1>9, <1>10, <1>11, <1>12, <1>13, <1>14, <1>15,
        <1>16, <1>17, <1>18, <1>19, <1>20, <1>21, <1>22, <1>23, <1>24, <1>25 DEF Moves

\* What a prompt has done by each phase
LEMMA StagedStep ==
  ASSUME Types, Staged, Moves PROVE Staged'
  <1> USE Constants DEF Staged, Prompting, Early, Types, OpTyped, OpTypes
  <1>1. CASE Targets
    BY <1>1 DEF Targets, At, OpIs, Kept, SamePages, SameTold
  <1>2. CASE Refreshes
    BY <1>2 DEF Refreshes, At, Stays, Kept, SamePages, SameTold, OpIs
  <1>3. CASE Reserves
    BY <1>3 DEF Reserves, TargetTaken, At, OpIs, SamePages, SameTold, Here
  <1>4. CASE Leaves
    BY <1>4 DEF Leaves, At, OpIs, Kept, SamePages, SameTold
  <1>5. CASE Arrives
    BY <1>5 DEF Arrives, Stays, Kept, SameTold, OpIs
  <1>6. CASE Misses
    BY <1>6 DEF Misses, Breaks, Stays, Kept, SamePages, SameTold, OpIs
  <1>7. CASE Fades
    BY <1>7 DEF Fades, Breaks, Stays, Kept, SamePages, SameTold, OpIs
  <1>8. CASE Adopts
    BY <1>8 DEF Adopts, SamePages, SameTold
  <1>9. CASE Completes
    BY <1>9 DEF Completes, At, Stays, SamePages, SameTold, Here, OpIs
  <1>10. CASE Sends
    BY <1>10 DEF Sends, At, OpEnds, Kept, SamePages, SameTold
  <1>11. CASE Withdraws
    BY <1>11 DEF Withdraws, Withdrawn, At, OpEnds, SamePages
  <1>12. CASE Picks
    BY <1>12 DEF Picks, PinnedElsewhere, At, Kept, SamePages, SameTold
  <1>13. CASE Ends
    BY <1>13 DEF Ends, OpEnds, Kept, SamePages, SameTold
  <1>14. CASE Binds
    BY <1>14 DEF Binds, BindSession, MayBind, Parked, NoSlot, At, OpEnds, SamePages, SameTold
  <1>15. CASE Discards
    BY <1>15 DEF Discards, At, OpEnds, SamePages
  <1>16. CASE \E r \in Requests : Asks(r)
    BY <1>16 DEF Asks, OpFree, Kept, SamePages
  <1>17. CASE \E r \in Requests : Acknowledges(r)
    BY <1>17 DEF Acknowledges, OpFree, SamePages
  <1>18. CASE \E r \in Requests : Inspects(r)
    BY <1>18 DEF Inspects, Kept, SamePages
  <1>19. CASE \E r \in Requests : Doubts(r)
    BY <1>19 DEF Doubts, OpFree, Kept, SamePages, SameTold
  <1>20. CASE \E s \in Sessions : Prepares(s)
    BY <1>20 DEF Prepares, OpFree, Kept, SamePages, SameTold
  <1>21. CASE \E s \in Sessions : Selects(s)
    BY <1>21 DEF Selects, Parked, NoSlot, OpFree, SamePages, SameTold
  <1>22. CASE Marks
    BY <1>22 DEF Marks, Kept, SameTold
  <1>23. CASE \E t \in Tabs : Drops(t)
    BY <1>23 DEF Drops, Mine, At, OpIs, Stays, Kept, SameTold
  <1>24. CASE \E t \in Tabs : Submits(t)
    BY <1>24 DEF Submits, Kept, SameTold
  <1>25. CASE Elsewhere
    BY <1>25 DEF Elsewhere, Kept, SamePages, SameTold
  <1> QED BY <1>1, <1>2, <1>3, <1>4, <1>5, <1>6, <1>7, <1>8, <1>9, <1>10, <1>11, <1>12, <1>13, <1>14, <1>15,
        <1>16, <1>17, <1>18, <1>19, <1>20, <1>21, <1>22, <1>23, <1>24, <1>25 DEF Moves

\* The binding stays while a prompt is under way
LEMMA BoundStep ==
  ASSUME Types, Aimed, Fits, Staged, Bound, Moves PROVE Bound'
  <1> USE Constants DEF Bound, Prompting, Early, Types, OpTyped, OpTypes, StoredTypes, Fits, Aimed
  <1>1. CASE Targets
    BY <1>1 DEF Targets, At, OpIs, Kept, SamePages, SameTold, Staged
  <1>2. CASE Refreshes
    BY <1>2 DEF Refreshes, At, Stays, Kept, SamePages, SameTold, OpIs
  <1>3. CASE Reserves
    BY <1>3 DEF Reserves, TargetTaken, At, OpIs, SamePages, SameTold, Here
  <1>4. CASE Leaves
    BY <1>4 DEF Leaves, At, OpIs, Kept, SamePages, SameTold, Staged
  <1>5. CASE Arrives
    BY <1>5 DEF Arrives, Stays, Kept, SameTold, OpIs
  <1>6. CASE Misses
    BY <1>6 DEF Misses, Breaks, Stays, Kept, SamePages, SameTold, OpIs
  <1>7. CASE Fades
    BY <1>7 DEF Fades, Breaks, Stays, Kept, SamePages, SameTold, OpIs
  <1>8. CASE Adopts
    BY <1>8 DEF Adopts, SamePages, SameTold
  <1>9. CASE Completes
    BY <1>9 DEF Completes, At, Stays, SamePages, SameTold, Here, OpIs, Staged
  <1>10. CASE Sends
    BY <1>10 DEF Sends, At, OpEnds, Kept, SamePages, SameTold
  <1>11. CASE Withdraws
    BY <1>11 DEF Withdraws, Withdrawn, At, OpEnds, SamePages
  <1>12. CASE Picks
    BY <1>12 DEF Picks, PinnedElsewhere, At, Kept, SamePages, SameTold
  <1>13. CASE Ends
    BY <1>13 DEF Ends, OpEnds, Kept, SamePages, SameTold
  <1>14. CASE Binds
    BY <1>14 DEF Binds, BindSession, MayBind, Parked, NoSlot, At, OpEnds, SamePages, SameTold
  <1>15. CASE Discards
    BY <1>15 DEF Discards, At, OpEnds, SamePages
  <1>16. CASE \E r \in Requests : Asks(r)
    BY <1>16 DEF Asks, OpFree, Kept, SamePages
  <1>17. CASE \E r \in Requests : Acknowledges(r)
    BY <1>17 DEF Acknowledges, OpFree, SamePages
  <1>18. CASE \E r \in Requests : Inspects(r)
    BY <1>18 DEF Inspects, Kept, SamePages
  <1>19. CASE \E r \in Requests : Doubts(r)
    BY <1>19 DEF Doubts, OpFree, Kept, SamePages, SameTold
  <1>20. CASE \E s \in Sessions : Prepares(s)
    BY <1>20 DEF Prepares, OpFree, Kept, SamePages, SameTold
  <1>21. CASE \E s \in Sessions : Selects(s)
    BY <1>21 DEF Selects, Parked, NoSlot, OpFree, SamePages, SameTold
  <1>22. CASE Marks
    BY <1>22 DEF Marks, Kept, SameTold
  <1>23. CASE \E t \in Tabs : Drops(t)
    BY <1>23 DEF Drops, Mine, At, OpIs, Stays, Kept, SameTold
  <1>24. CASE \E t \in Tabs : Submits(t)
    BY <1>24 DEF Submits, Kept, SameTold
  <1>25. CASE Elsewhere
    BY <1>25 DEF Elsewhere, Kept, SamePages, SameTold
  <1> QED BY <1>1, <1>2, <1>3, <1>4, <1>5, <1>6, <1>7, <1>8, <1>9, <1>10, <1>11, <1>12, <1>13, <1>14, <1>15,
        <1>16, <1>17, <1>18, <1>19, <1>20, <1>21, <1>22, <1>23, <1>24, <1>25 DEF Moves

\* No parked delivery waits where a prompt is sent
LEMMA ExclusiveStep ==
  ASSUME Types, Exclusive, Bound, Staged, Moves PROVE Exclusive'
  <1> USE Constants DEF Exclusive, Prompting, Types, StoredTypes, SlotTypes, Bound, Early
  <1>1. CASE Targets
    BY <1>1 DEF Targets, At, OpIs, Kept, SamePages, SameTold
  <1>2. CASE Refreshes
    BY <1>2 DEF Refreshes, At, Stays, Kept, SamePages, SameTold, OpIs
  <1>3. CASE Reserves
    BY <1>3 DEF Reserves, TargetTaken, At, OpIs, SamePages, SameTold, Here
  <1>4. CASE Leaves
    BY <1>4 DEF Leaves, At, OpIs, Kept, SamePages, SameTold
  <1>5. CASE Arrives
    BY <1>5 DEF Arrives, Stays, Kept, SameTold, OpIs
  <1>6. CASE Misses
    BY <1>6 DEF Misses, Breaks, Stays, Kept, SamePages, SameTold, OpIs
  <1>7. CASE Fades
    BY <1>7 DEF Fades, Breaks, Stays, Kept, SamePages, SameTold, OpIs
  <1>8. CASE Adopts
    BY <1>8 DEF Adopts, SamePages, SameTold
  <1>9. CASE Completes
    BY <1>9 DEF Completes, At, Stays, SamePages, SameTold, Here, OpIs
  <1>10. CASE Sends
    BY <1>10 DEF Sends, At, OpEnds, Kept, SamePages, SameTold
  <1>11. CASE Withdraws
    BY <1>11 DEF Withdraws, Withdrawn, At, OpEnds, SamePages
  <1>12. CASE Picks
    BY <1>12 DEF Picks, PinnedElsewhere, At, Kept, SamePages, SameTold
  <1>13. CASE Ends
    BY <1>13 DEF Ends, OpEnds, Kept, SamePages, SameTold
  <1>14. CASE Binds
    BY <1>14 DEF Binds, BindSession, MayBind, Parked, NoSlot, At, OpEnds, SamePages, SameTold
  <1>15. CASE Discards
    BY <1>15 DEF Discards, At, OpEnds, SamePages
  <1>16. CASE \E r \in Requests : Asks(r)
    BY <1>16 DEF Asks, OpFree, Kept, SamePages
  <1>17. CASE \E r \in Requests : Acknowledges(r)
    BY <1>17 DEF Acknowledges, OpFree, SamePages
  <1>18. CASE \E r \in Requests : Inspects(r)
    BY <1>18 DEF Inspects, Kept, SamePages
  <1>19. CASE \E r \in Requests : Doubts(r)
    BY <1>19 DEF Doubts, OpFree, Kept, SamePages, SameTold
  <1>20. CASE \E s \in Sessions : Prepares(s)
    BY <1>20 DEF Prepares, OpFree, Kept, SamePages, SameTold
  <1>21. CASE \E s \in Sessions : Selects(s)
    BY <1>21 DEF Selects, Parked, NoSlot, OpFree, SamePages, SameTold
  <1>22. CASE Marks
    BY <1>22 DEF Marks, Kept, SameTold
  <1>23. CASE \E t \in Tabs : Drops(t)
    BY <1>23 DEF Drops, Mine, At, OpIs, Stays, Kept, SameTold
  <1>24. CASE \E t \in Tabs : Submits(t)
    BY <1>24 DEF Submits, Kept, SameTold
  <1>25. CASE Elsewhere
    BY <1>25 DEF Elsewhere, Kept, SamePages, SameTold
  <1> QED BY <1>1, <1>2, <1>3, <1>4, <1>5, <1>6, <1>7, <1>8, <1>9, <1>10, <1>11, <1>12, <1>13, <1>14, <1>15,
        <1>16, <1>17, <1>18, <1>19, <1>20, <1>21, <1>22, <1>23, <1>24, <1>25 DEF Moves

\* One job at most types a request, and once
LEMMA JobsAreSingleStep ==
  ASSUME Types, Aimed, JobsAreSingle, Handed, Moves PROVE JobsAreSingle'
  <1> USE Constants DEF Types, JobTyped, JobTypes, PageTypes
  <1>1. CASE Targets
    BY <1>1 DEF Targets, At, OpIs, Kept, SamePages, SameTold, JobsAreSingle
  <1>2. CASE Refreshes
    BY <1>2 DEF Refreshes, At, Stays, Kept, SamePages, SameTold, OpIs, JobsAreSingle
  <1>3. CASE Reserves
    BY <1>3 DEF Reserves, TargetTaken, At, OpIs, SamePages, SameTold, Here, JobsAreSingle
  <1>4. CASE Leaves
    BY <1>4 DEF Leaves, At, OpIs, Kept, SamePages, SameTold, JobsAreSingle
  <1>5. CASE Arrives
    <2>0. /\ NoJobFor(op.req) /\ op.req \in Requests /\ (op.phase = "deliver" => typed[op.req] = 0)
          /\ op.at.tab \in Tabs /\ UNCHANGED <<typed, where>>
          /\ \A u \in Tabs : IF u = op.at.tab
                              THEN job'[u].req = op.req /\ job'[u].conv \in Urls /\ (op.phase = "deliver" \/ job'[u].sent)
                              ELSE job'[u] = job[u]
      BY <1>5 DEF Arrives, Handed, Prompting, Unseen, NoJobFor, Aimed
    <2>1. \A u \in Tabs : job'[u].req # None /\ ~job'[u].sent => typed'[job'[u].req] = 0
      BY <2>0 DEF NoJobFor, JobsAreSingle
    <2>2. \A u, v \in Tabs : job'[u].req # None /\ job'[u].req = job'[v].req => u = v
      BY <2>0 DEF NoJobFor, JobsAreSingle
    <2>3. \A u \in Tabs : IF job'[u].req = None THEN job'[u] = NoJob ELSE job'[u].conv \in Urls
      BY <2>0, Constants DEF JobsAreSingle
    <2>4. \A r \in Requests : typed'[r] <= 1 /\ (where'[r] # None => typed'[r] # 0)
      BY <2>0 DEF JobsAreSingle
    <2> QED
      BY <2>1, <2>2, <2>3, <2>4 DEF JobsAreSingle
  <1>6. CASE Misses
    BY <1>6 DEF Misses, Breaks, Stays, Kept, SamePages, SameTold, OpIs, JobsAreSingle
  <1>7. CASE Fades
    BY <1>7 DEF Fades, Breaks, Stays, Kept, SamePages, SameTold, OpIs, JobsAreSingle
  <1>8. CASE Adopts
    BY <1>8 DEF Adopts, SamePages, SameTold, JobsAreSingle
  <1>9. CASE Completes
    BY <1>9 DEF Completes, At, Stays, SamePages, SameTold, Here, OpIs, JobsAreSingle
  <1>10. CASE Sends
    BY <1>10 DEF Sends, At, OpEnds, Kept, SamePages, SameTold, JobsAreSingle
  <1>11. CASE Withdraws
    BY <1>11 DEF Withdraws, Withdrawn, At, OpEnds, SamePages, JobsAreSingle
  <1>12. CASE Picks
    BY <1>12 DEF Picks, PinnedElsewhere, At, Kept, SamePages, SameTold, JobsAreSingle
  <1>13. CASE Ends
    BY <1>13 DEF Ends, OpEnds, Kept, SamePages, SameTold, JobsAreSingle
  <1>14. CASE Binds
    BY <1>14 DEF Binds, BindSession, MayBind, Parked, NoSlot, At, OpEnds, SamePages, SameTold, JobsAreSingle
  <1>15. CASE Discards
    BY <1>15 DEF Discards, At, OpEnds, SamePages, JobsAreSingle
  <1>16. CASE \E r \in Requests : Asks(r)
    BY <1>16 DEF Asks, OpFree, Kept, SamePages, JobsAreSingle
  <1>17. CASE \E r \in Requests : Acknowledges(r)
    BY <1>17 DEF Acknowledges, OpFree, SamePages, JobsAreSingle
  <1>18. CASE \E r \in Requests : Inspects(r)
    BY <1>18 DEF Inspects, Kept, SamePages, JobsAreSingle
  <1>19. CASE \E r \in Requests : Doubts(r)
    BY <1>19 DEF Doubts, OpFree, Kept, SamePages, SameTold, JobsAreSingle
  <1>20. CASE \E s \in Sessions : Prepares(s)
    BY <1>20 DEF Prepares, OpFree, Kept, SamePages, SameTold, JobsAreSingle
  <1>21. CASE \E s \in Sessions : Selects(s)
    BY <1>21 DEF Selects, Parked, NoSlot, OpFree, SamePages, SameTold, JobsAreSingle
  <1>22. CASE Marks
    BY <1>22 DEF Marks, Kept, SameTold, JobsAreSingle
  <1>23. CASE \E t \in Tabs : Drops(t)
    <2> SUFFICES ASSUME NEW t \in Tabs, Drops(t) PROVE JobsAreSingle'
      BY <1>23
    <2>0. /\ UNCHANGED <<typed, where>>
          /\ \A u \in Tabs : job'[u] = IF u = t THEN NoJob ELSE job[u]
      BY DEF Drops
    <2>5. NoJob.req = None
      BY DEF NoJob
    <2>1. \A u \in Tabs : job'[u].req # None /\ ~job'[u].sent => typed'[job'[u].req] = 0
      BY <2>0, <2>5 DEF JobsAreSingle
    <2>2. \A u, v \in Tabs : job'[u].req # None /\ job'[u].req = job'[v].req => u = v
      BY <2>0, <2>5 DEF JobsAreSingle
    <2>3. \A u \in Tabs : IF job'[u].req = None THEN job'[u] = NoJob ELSE job'[u].conv \in Urls
      BY <2>0, <2>5 DEF JobsAreSingle
    <2>4. \A r \in Requests : typed'[r] <= 1 /\ (where'[r] # None => typed'[r] # 0)
      BY <2>0, <2>5 DEF JobsAreSingle
    <2> QED
      BY <2>1, <2>2, <2>3, <2>4 DEF JobsAreSingle
  <1>24. CASE \E t \in Tabs : Submits(t)
    <2> SUFFICES ASSUME NEW t \in Tabs, Submits(t) PROVE JobsAreSingle'
      BY <1>24
    <2> DEFINE q == job[t].req
    <2>0. /\ q \in Requests /\ typed[q] = 0 /\ typed'[q] = 1 /\ where'[q] # None
          /\ \A r \in Requests \ {q} : typed'[r] = typed[r] /\ where'[r] = where[r]
          /\ \A u \in Tabs : IF u = t THEN job'[u].req = q /\ job'[u].conv \in Urls /\ job'[u].sent
                              ELSE job'[u] = job[u]
      BY Constants DEF Submits, JobsAreSingle, Types, JobTyped, JobTypes, PageTypes
    <2>6. \A u \in Tabs : job[u].req \in Requests \cup {None}
      BY DEF Types, JobTyped, JobTypes
    <2>1. \A u \in Tabs : job'[u].req # None /\ ~job'[u].sent => typed'[job'[u].req] = 0
      BY <2>0, <2>6 DEF JobsAreSingle
    <2>2. \A u, v \in Tabs : job'[u].req # None /\ job'[u].req = job'[v].req => u = v
      BY <2>0 DEF JobsAreSingle
    <2>3. \A u \in Tabs : IF job'[u].req = None THEN job'[u] = NoJob ELSE job'[u].conv \in Urls
      BY <2>0, Constants DEF JobsAreSingle
    <2>4. \A r \in Requests : typed'[r] <= 1 /\ (where'[r] # None => typed'[r] # 0)
      BY <2>0 DEF JobsAreSingle
    <2> QED
      BY <2>1, <2>2, <2>3, <2>4 DEF JobsAreSingle
  <1>25. CASE Elsewhere
    BY <1>25 DEF Elsewhere, Kept, SamePages, SameTold, JobsAreSingle
  <1> QED BY <1>1, <1>2, <1>3, <1>4, <1>5, <1>6, <1>7, <1>8, <1>9, <1>10, <1>11, <1>12, <1>13, <1>14, <1>15,
        <1>16, <1>17, <1>18, <1>19, <1>20, <1>21, <1>22, <1>23, <1>24, <1>25 DEF Moves

\* Where the request of a prompt is
LEMMA HandedStep ==
  ASSUME Types, Aimed, Staged, Bound, JobsAreSingle, Handed, Told, Moves PROVE Handed'
  <1> USE Constants DEF Types, JobTyped, JobTypes, PageTypes, OpTyped, OpTypes
  <1>1. CASE Targets
    BY <1>1 DEF Targets, At, OpIs, Kept, SamePages, SameTold, Handed, Prompting, Unseen, NoJobFor, Aimed, Staged,
        Early, Bound
  <1>2. CASE Refreshes
    BY <1>2 DEF Refreshes, At, Stays, Kept, SamePages, SameTold, OpIs, Handed, Prompting, Unseen, NoJobFor, Aimed,
        Staged, Early, Bound
  <1>3. CASE Reserves
    BY <1>3 DEF Reserves, TargetTaken, At, OpIs, SamePages, SameTold, Here, Handed, Prompting, Unseen, NoJobFor, Aimed,
        Staged, Early, Bound
  <1>4. CASE Leaves
    <2>1. op'.kind = op.kind /\ op'.phase = "deliver" /\ op'.req = op.req /\ UNCHANGED <<job, typed, where>>
      BY <1>4 DEF Leaves, OpIs, SamePages
    <2>2. Unseen(op.req)
      BY <1>4 DEF Leaves, At, Handed, Staged, Prompting, Early
    <2> QED
      BY <2>1, <2>2 DEF Handed, Prompting, Unseen, NoJobFor
  <1>5. CASE Arrives
    BY <1>5 DEF Arrives, Stays, Kept, SameTold, OpIs, Handed, Prompting, Unseen, NoJobFor, Aimed, Staged, Early, Bound
  <1>6. CASE Misses
    BY <1>6 DEF Misses, Breaks, Stays, Kept, SamePages, SameTold, OpIs, Handed, Prompting, Unseen, NoJobFor, Aimed,
        Staged, Early, Bound
  <1>7. CASE Fades
    BY <1>7 DEF Fades, Breaks, Stays, Kept, SamePages, SameTold, OpIs, Handed, Prompting, Unseen, NoJobFor, Aimed,
        Staged, Early, Bound
  <1>8. CASE Adopts
    BY <1>8 DEF Adopts, SamePages, SameTold, Handed, Prompting, Unseen, NoJobFor, Aimed, Staged, Early, Bound
  <1>9. CASE Completes
    BY <1>9 DEF Completes, At, Stays, SamePages, SameTold, Here, OpIs, Handed, Prompting, Unseen, NoJobFor, Aimed,
        Staged, Early, Bound
  <1>10. CASE Sends
    BY <1>10 DEF Sends, At, OpEnds, Kept, SamePages, SameTold, Handed, Prompting, Unseen, NoJobFor, Aimed, Staged,
        Early, Bound
  <1>11. CASE Withdraws
    BY <1>11 DEF Withdraws, Withdrawn, At, OpEnds, SamePages, Handed, Prompting, Unseen, NoJobFor, Aimed, Staged, Early,
        Bound
  <1>12. CASE Picks
    BY <1>12 DEF Picks, PinnedElsewhere, At, Kept, SamePages, SameTold, Handed, Prompting, Unseen, NoJobFor, Aimed,
        Staged, Early, Bound
  <1>13. CASE Ends
    BY <1>13 DEF Ends, OpEnds, Kept, SamePages, SameTold, Handed, Prompting, Unseen, NoJobFor, Aimed, Staged, Early,
        Bound
  <1>14. CASE Binds
    BY <1>14 DEF Binds, BindSession, MayBind, Parked, NoSlot, At, OpEnds, SamePages, SameTold, Handed, Prompting,
        Unseen, NoJobFor, Aimed, Staged, Early, Bound
  <1>15. CASE Discards
    BY <1>15 DEF Discards, At, OpEnds, SamePages, Handed, Prompting, Unseen, NoJobFor, Aimed, Staged, Early, Bound
  <1>16. CASE \E r \in Requests : Asks(r)
    BY <1>16 DEF Asks, OpFree, Kept, SamePages, Told, Fresh, Handed, Prompting, Unseen, NoJobFor
  <1>17. CASE \E r \in Requests : Acknowledges(r)
    BY <1>17 DEF Acknowledges, OpFree, SamePages, Handed, Prompting, Unseen, NoJobFor, Aimed, Staged, Early, Bound
  <1>18. CASE \E r \in Requests : Inspects(r)
    BY <1>18 DEF Inspects, Kept, SamePages, Handed, Prompting, Unseen, NoJobFor, Aimed, Staged, Early, Bound
  <1>19. CASE \E r \in Requests : Doubts(r)
    BY <1>19 DEF Doubts, OpFree, Kept, SamePages, SameTold, Handed, Prompting, Unseen, NoJobFor, Aimed, Staged, Early,
        Bound
  <1>20. CASE \E s \in Sessions : Prepares(s)
    BY <1>20 DEF Prepares, OpFree, Kept, SamePages, SameTold, Handed, Prompting, Unseen, NoJobFor, Aimed, Staged, Early,
        Bound
  <1>21. CASE \E s \in Sessions : Selects(s)
    BY <1>21 DEF Selects, Parked, NoSlot, OpFree, SamePages, SameTold, Handed, Prompting, Unseen, NoJobFor, Aimed,
        Staged, Early, Bound
  <1>22. CASE Marks
    <2>1. \A t \in Tabs : job'[t].req = job[t].req
      BY <1>22 DEF Marks
    <2>2. UNCHANGED <<op, typed, where>>
      BY <1>22 DEF Marks
    <2> QED
      BY <2>1, <2>2 DEF Handed, Prompting, Unseen, NoJobFor, Bound, Early
  <1>23. CASE \E t \in Tabs : Drops(t)
    <2> SUFFICES ASSUME NEW t \in Tabs, Drops(t), Prompting' PROVE Handed'
      BY <1>23 DEF Handed
    <2>0. UNCHANGED <<typed, where>> /\ \A u \in Tabs : job'[u] = IF u = t THEN NoJob ELSE job[u]
      BY DEF Drops
    <2>1. NoJob.req = None /\ \A r \in Requests : r # None
      BY Constants DEF NoJob
    <2>2. op'.kind = op.kind /\ op'.req = op.req /\ op'.started = op.started /\ op'.at = op.at /\ op.kind = "prompt"
      BY DEF Drops, Stays, OpIs, Mine, At, Prompting
    <2>3. op.req \in Requests /\ \A r \in Requests : NoJobFor(r) => NoJobFor(r)'
      BY <2>0, <2>1, <2>2 DEF NoJobFor, Aimed
    <2>4. CASE op' = op /\ (job[t] = NoJob \/ ~Mine(t))
      <3>1. op.phase = "waiting" => op.at.tab \in Tabs /\ op.at.tab # t
        BY <2>1, <2>2, <2>3, <2>4 DEF Handed, Mine, At, Bound, Prompting, Early
      <3> QED
        BY <2>0, <2>2, <2>3, <2>4, <3>1 DEF Handed, Prompting, Unseen
    <2>5. CASE Mine(t)
      <3>1. op.phase = "waiting" /\ op.started
        BY <2>2, <2>5 DEF Mine, At, Staged, Prompting, Early
      <3>2. NoJobFor(op.req)'
        BY <2>0, <2>1, <2>2, <2>3, <2>5 DEF NoJobFor, Mine, JobsAreSingle
      <3>3. op'.phase \in {"failed", "recover", "waiting"} \/ (op'.phase = "replied" /\ op'.reply.conv = where[op.req] /\ op'.reply.conv # None)
        BY <2>5, <3>1 DEF Drops, Stays, OpIs
      <3>4. op'.phase # "waiting" \/ job[t] = NoJob
        BY <2>5, <3>1 DEF Drops, Stays, OpIs
      <3>5. job[t] # NoJob
        BY <2>1, <2>3, <2>5 DEF Mine
      <3> QED
        BY <2>0, <2>2, <3>1, <3>2, <3>3, <3>4, <3>5 DEF Handed, Prompting
    <2> QED
      BY <2>4, <2>5 DEF Drops
  <1>24. CASE \E t \in Tabs : Submits(t)
    <2> SUFFICES ASSUME NEW t \in Tabs, Submits(t), Prompting PROVE Handed'
      BY <1>24 DEF Handed, Submits, Prompting
    <2>1. /\ op' = op /\ job'[t].req = job[t].req /\ job[t].req # None /\ ~job[t].sent
          /\ \A u \in Tabs : job'[u].req = job[u].req
          /\ \A r \in Requests \ {job[t].req} : typed'[r] = typed[r] /\ where'[r] = where[r]
      BY DEF Submits
    <2>2. op.req \in Requests
      BY DEF Aimed, Prompting
    <2>3. \A r \in Requests : NoJobFor(r) => NoJobFor(r)' /\ job[t].req # r
      BY <2>1 DEF NoJobFor
    <2>4. \A r \in Requests : where[r] # None => job[t].req # r
      BY <2>1 DEF JobsAreSingle
    <2>5. op.phase = "waiting" => op.at.tab \in Tabs
      BY DEF Bound, Prompting, Early
    <2> QED
      BY <2>1, <2>2, <2>3, <2>4, <2>5 DEF Handed, Prompting, Unseen
  <1>25. CASE Elsewhere
    BY <1>25 DEF Elsewhere, Kept, SamePages, SameTold, Handed, Prompting, Unseen, NoJobFor, Aimed, Staged, Early, Bound
  <1> QED BY <1>1, <1>2, <1>3, <1>4, <1>5, <1>6, <1>7, <1>8, <1>9, <1>10, <1>11, <1>12, <1>13, <1>14, <1>15,
        <1>16, <1>17, <1>18, <1>19, <1>20, <1>21, <1>22, <1>23, <1>24, <1>25 DEF Moves

\* A request that was not sent is nowhere
LEMMA FreshStep ==
  ASSUME Types, Aimed, Fits, ParkedApart, Staged, Bound, JobsAreSingle, Handed, Told, Moves PROVE Fresh'
  <1> USE Constants DEF Types, StoredTypes, SlotTypes, ControllerTypes, Aimed, OpTyped, OpTypes
  <1>1. CASE Targets
    BY <1>1 DEF Targets, At, OpIs, Kept, SamePages, SameTold, Told, Fresh, Outstanding, Expected, Has, Prompting,
        Unseen, NoJobFor, Handed
  <1>2. CASE Refreshes
    BY <1>2 DEF Refreshes, At, Stays, Kept, SamePages, SameTold, OpIs, Told, Fresh, Outstanding, Expected, Has,
        Prompting, Unseen, NoJobFor, Handed
  <1>3. CASE Reserves
    BY <1>3 DEF Reserves, TargetTaken, At, OpIs, SamePages, SameTold, Here, Told, Fresh, Outstanding, Expected, Has,
        Prompting, Unseen, NoJobFor, Handed
  <1>4. CASE Leaves
    BY <1>4 DEF Leaves, At, OpIs, Kept, SamePages, SameTold, Told, Fresh, Outstanding, Expected, Has, Prompting,
        Unseen, NoJobFor, Handed
  <1>5. CASE Arrives
    BY <1>5 DEF Arrives, Stays, Kept, SameTold, OpIs, Told, Fresh, Outstanding, Expected, Has, Prompting, Unseen,
        NoJobFor, Handed
  <1>6. CASE Misses
    BY <1>6 DEF Misses, Breaks, Stays, Kept, SamePages, SameTold, OpIs, Told, Fresh, Outstanding, Expected, Has,
        Prompting, Unseen, NoJobFor, Handed
  <1>7. CASE Fades
    BY <1>7 DEF Fades, Breaks, Stays, Kept, SamePages, SameTold, OpIs, Told, Fresh, Outstanding, Expected, Has,
        Prompting, Unseen, NoJobFor, Handed
  <1>8. CASE Adopts
    BY <1>8 DEF Adopts, SamePages, SameTold, Told, Fresh, Outstanding, Expected, Has, Prompting, Unseen, NoJobFor,
        Handed
  <1>9. CASE Completes
    BY <1>9 DEF Completes, At, Stays, SamePages, SameTold, Here, OpIs, Told, Fresh, Outstanding, Expected, Has,
        Prompting, Unseen, NoJobFor, Handed
  <1>10. CASE Sends
    BY <1>10 DEF Sends, At, OpEnds, Kept, SamePages, SameTold, Told, Fresh, Outstanding, Expected, Has, Prompting,
        Unseen, NoJobFor, Handed
  <1>11. CASE Withdraws
    <2>1. PICK r \in Requests : r = op.req
      BY <1>11 DEF Withdraws, At
    <2>2. op'.kind = "none" /\ op'.req = None /\ UNCHANGED <<job, typed>> /\ \A q \in Requests : Has(q)' => Has(q)
      BY <1>11 DEF Withdraws, OpEnds, SamePages, Has
    <2>3. ~op.started => Unseen(r) /\ ~Has(r)'
      <3>1. CASE Withdrawn
        BY <1>11, <2>1, <3>1, SettledIsNowhere DEF Withdraws, Withdrawn, At, Bound, Handed, Prompting
      <3>2. CASE ~Withdrawn
        BY <1>11, <2>1, <2>2, <3>2 DEF Withdraws, Withdrawn, At, Handed, Told, Expected, Prompting
      <3> QED BY <3>1, <3>2
    <2>4. CASE ctl' = ctl
      BY <2>2, <2>4 DEF Told, Fresh, Unseen, NoJobFor
    <2>5. CASE ~op.started /\ ctl' = [ctl EXCEPT ![r] = "notSent"]
      BY <2>2, <2>3, <2>5 DEF Told, Fresh, Unseen, NoJobFor
    <2> QED
      BY <1>11, <2>1, <2>4, <2>5 DEF Withdraws
  <1>12. CASE Picks
    BY <1>12 DEF Picks, PinnedElsewhere, At, Kept, SamePages, SameTold, Told, Fresh, Outstanding, Expected, Has,
        Prompting, Unseen, NoJobFor, Handed
  <1>13. CASE Ends
    BY <1>13 DEF Ends, OpEnds, Kept, SamePages, SameTold, Told, Fresh, Outstanding, Expected, Has, Prompting, Unseen,
        NoJobFor, Handed
  <1>14. CASE Binds
    <2>1. \A r \in Requests : Has(r)' <=> Has(r)
      BY <1>14, SwitchKeeps
    <2>2. /\ (op' = op /\ OpFree) \/ (op'.kind = "none" /\ op'.req = None)
          /\ UNCHANGED <<job, typed, ctl>>
      BY <1>14 DEF Binds, OpEnds, SamePages, SameTold
    <2> QED
      BY <2>1, <2>2 DEF Told, Fresh, Unseen, NoJobFor, Prompting, OpFree
  <1>15. CASE Discards
    BY <1>15 DEF Discards, At, OpEnds, SamePages, Told, Fresh, Outstanding, Expected, Has, Prompting, Unseen, NoJobFor,
        Handed
  <1>16. CASE \E r \in Requests : Asks(r)
    BY <1>16 DEF Asks, OpFree, Kept, SamePages, Told, Fresh, Outstanding, Expected, Has, Prompting, Unseen, NoJobFor,
        Handed
  <1>17. CASE \E r \in Requests : Acknowledges(r)
    BY <1>17 DEF Acknowledges, OpFree, SamePages, Told, Fresh, Outstanding, Expected, Has, Prompting, Unseen, NoJobFor,
        Handed
  <1>18. CASE \E r \in Requests : Inspects(r)
    BY <1>18 DEF Inspects, Kept, SamePages, Told, Fresh, Outstanding, Expected, Has, Prompting, Unseen, NoJobFor, Handed
  <1>19. CASE \E r \in Requests : Doubts(r)
    BY <1>19 DEF Doubts, OpFree, Kept, SamePages, SameTold, Told, Fresh, Outstanding, Expected, Has, Prompting, Unseen,
        NoJobFor, Handed
  <1>20. CASE \E s \in Sessions : Prepares(s)
    BY <1>20 DEF Prepares, OpFree, Kept, SamePages, SameTold, Told, Fresh, Outstanding, Expected, Has, Prompting,
        Unseen, NoJobFor, Handed
  <1>21. CASE \E s \in Sessions : Selects(s)
    <2>1. \A r \in Requests : Has(r)' <=> Has(r)
      BY <1>21, SwitchKeeps
    <2>2. /\ (op' = op /\ OpFree) \/ (op'.kind = "none" /\ op'.req = None)
          /\ UNCHANGED <<job, typed, ctl>>
      BY <1>21 DEF Selects, OpEnds, SamePages, SameTold
    <2> QED
      BY <2>1, <2>2 DEF Told, Fresh, Unseen, NoJobFor, Prompting, OpFree
  <1>22. CASE Marks
    BY <1>22 DEF Marks, Kept, SameTold, Told, Fresh, Outstanding, Expected, Has, Prompting, Unseen, NoJobFor, Handed
  <1>23. CASE \E t \in Tabs : Drops(t)
    <2> SUFFICES ASSUME NEW t \in Tabs, Drops(t) PROVE Fresh'
      BY <1>23
    <2>1. UNCHANGED <<typed, ctl, current, scopes>> /\ \A u \in Tabs : job'[u] = IF u = t THEN NoJob ELSE job[u]
      BY DEF Drops, Kept, SameTold
    <2>2. op'.req = op.req
      BY DEF Drops, Stays, OpIs
    <2>3. \A r \in Requests : NoJob.req # r
      BY Constants DEF NoJob
    <2> QED
      BY <2>1, <2>2, <2>3 DEF Told, Fresh, Unseen, NoJobFor, Has
  <1>24. CASE \E t \in Tabs : Submits(t)
    <2> SUFFICES ASSUME NEW t \in Tabs, Submits(t) PROVE Fresh'
      BY <1>24
    <2>1. UNCHANGED <<op, ctl, current, scopes>> /\ \A u \in Tabs : job'[u].req = job[u].req
      BY DEF Submits, Kept, SameTold
    <2>2. \A r \in Requests : NoJobFor(r) => r # job[t].req
      BY DEF NoJobFor
    <2>3. \A r \in Requests : r # job[t].req => typed'[r] = typed[r]
      BY DEF Submits
    <2> QED
      BY <2>1, <2>2, <2>3 DEF Told, Fresh, Unseen, NoJobFor, Has
  <1>25. CASE Elsewhere
    BY <1>25 DEF Elsewhere, Kept, SamePages, SameTold, Told, Fresh, Outstanding, Expected, Has, Prompting, Unseen,
        NoJobFor, Handed
  <1> QED BY <1>1, <1>2, <1>3, <1>4, <1>5, <1>6, <1>7, <1>8, <1>9, <1>10, <1>11, <1>12, <1>13, <1>14, <1>15,
        <1>16, <1>17, <1>18, <1>19, <1>20, <1>21, <1>22, <1>23, <1>24, <1>25 DEF Moves

\* A delivery is one the controller waits for
LEMMA OutstandingStep ==
  ASSUME Types, Aimed, Fits, ParkedApart, Staged, Bound, JobsAreSingle, Handed, Told, Moves PROVE Outstanding'
  <1> USE Constants DEF Types, StoredTypes, SlotTypes, ControllerTypes, Aimed, OpTyped, OpTypes
  <1>1. CASE Targets
    BY <1>1 DEF Targets, At, OpIs, Kept, SamePages, SameTold, Told, Fresh, Outstanding, Expected, Has, Prompting
  <1>2. CASE Refreshes
    BY <1>2 DEF Refreshes, At, Stays, Kept, SamePages, SameTold, OpIs, Told, Fresh, Outstanding, Expected, Has,
        Prompting
  <1>3. CASE Reserves
    BY <1>3 DEF Reserves, TargetTaken, At, OpIs, SamePages, SameTold, Here, Told, Fresh, Outstanding, Expected, Has,
        Prompting
  <1>4. CASE Leaves
    BY <1>4 DEF Leaves, At, OpIs, Kept, SamePages, SameTold, Told, Fresh, Outstanding, Expected, Has, Prompting
  <1>5. CASE Arrives
    BY <1>5 DEF Arrives, Stays, Kept, SameTold, OpIs, Told, Fresh, Outstanding, Expected, Has, Prompting
  <1>6. CASE Misses
    BY <1>6 DEF Misses, Breaks, Stays, Kept, SamePages, SameTold, OpIs, Told, Fresh, Outstanding, Expected, Has,
        Prompting
  <1>7. CASE Fades
    BY <1>7 DEF Fades, Breaks, Stays, Kept, SamePages, SameTold, OpIs, Told, Fresh, Outstanding, Expected, Has,
        Prompting
  <1>8. CASE Adopts
    BY <1>8 DEF Adopts, SamePages, SameTold, Told, Fresh, Outstanding, Expected, Has, Prompting
  <1>9. CASE Completes
    BY <1>9 DEF Completes, At, Stays, SamePages, SameTold, Here, OpIs, Told, Fresh, Outstanding, Expected, Has,
        Prompting
  <1>10. CASE Sends
    BY <1>10 DEF Sends, At, OpEnds, Kept, SamePages, SameTold, Told, Fresh, Outstanding, Expected, Has, Prompting
  <1>11. CASE Withdraws
    <2>1. PICK r \in Requests : r = op.req
      BY <1>11 DEF Withdraws, At
    <2>2. op'.kind = "none" /\ op'.req = None /\ UNCHANGED <<job, typed>> /\ \A q \in Requests : Has(q)' => Has(q)
      BY <1>11 DEF Withdraws, OpEnds, SamePages, Has
    <2>3. ~op.started => Unseen(r) /\ ~Has(r)'
      <3>1. CASE Withdrawn
        BY <1>11, <2>1, <3>1, SettledIsNowhere DEF Withdraws, Withdrawn, At, Bound, Handed, Prompting
      <3>2. CASE ~Withdrawn
        BY <1>11, <2>1, <2>2, <3>2 DEF Withdraws, Withdrawn, At, Handed, Told, Expected, Prompting
      <3> QED BY <3>1, <3>2
    <2>4. CASE ctl' = ctl
      BY <2>2, <2>4 DEF Told, Outstanding, Unseen, NoJobFor
    <2>5. CASE ~op.started /\ ctl' = [ctl EXCEPT ![r] = "notSent"]
      BY <2>2, <2>3, <2>5 DEF Told, Outstanding, Unseen, NoJobFor
    <2> QED
      BY <1>11, <2>1, <2>4, <2>5 DEF Withdraws
  <1>12. CASE Picks
    BY <1>12 DEF Picks, PinnedElsewhere, At, Kept, SamePages, SameTold, Told, Fresh, Outstanding, Expected, Has,
        Prompting
  <1>13. CASE Ends
    BY <1>13 DEF Ends, OpEnds, Kept, SamePages, SameTold, Told, Fresh, Outstanding, Expected, Has, Prompting
  <1>14. CASE Binds
    <2>1. \A r \in Requests : Has(r)' <=> Has(r)
      BY <1>14, SwitchKeeps
    <2>2. /\ (op' = op /\ OpFree) \/ (op'.kind = "none" /\ op'.req = None)
          /\ UNCHANGED <<job, typed, ctl>>
      BY <1>14 DEF Binds, OpEnds, SamePages, SameTold
    <2> QED
      BY <2>1, <2>2 DEF Told, Outstanding, Unseen, NoJobFor, Prompting, OpFree
  <1>15. CASE Discards
    <2>1. PICK r \in Requests : r = op.req
      BY <1>15 DEF Discards, At
    <2>2. ~Has(r)'
      BY <1>15, <2>1, SettledIsNowhere DEF Discards, At, Told, Expected
    <2>3. (\A q \in Requests : Has(q)' => Has(q)) /\ (ctl' = ctl \/ ctl' = [ctl EXCEPT ![r] = "discarded"])
      BY <1>15, <2>1 DEF Discards, Has
    <2>4. CASE ctl' = ctl
      BY <2>3, <2>4 DEF Told, Outstanding
    <2>5. CASE ctl' = [ctl EXCEPT ![r] = "discarded"]
      BY <2>2, <2>3, <2>5 DEF Told, Outstanding
    <2> QED
      BY <2>3, <2>4, <2>5
  <1>16. CASE \E r \in Requests : Asks(r)
    BY <1>16 DEF Asks, OpFree, Kept, SamePages, Told, Fresh, Outstanding, Expected, Has, Prompting
  <1>17. CASE \E r \in Requests : Acknowledges(r)
    <2> SUFFICES ASSUME NEW r \in Requests, Acknowledges(r) PROVE Outstanding'
      BY <1>17
    <2>1. ~Has(r)'
      BY SettledIsNowhere DEF Acknowledges
    <2>2. (\A q \in Requests : Has(q)' => Has(q)) /\ (ctl' = ctl \/ ctl' = [ctl EXCEPT ![r] = "acked"])
      BY DEF Acknowledges, Has
    <2> QED
      BY <2>1, <2>2 DEF Told, Outstanding
  <1>18. CASE \E r \in Requests : Inspects(r)
    BY <1>18 DEF Inspects, Kept, SamePages, Told, Fresh, Outstanding, Expected, Has, Prompting
  <1>19. CASE \E r \in Requests : Doubts(r)
    BY <1>19 DEF Doubts, OpFree, Kept, SamePages, SameTold, Told, Fresh, Outstanding, Expected, Has, Prompting
  <1>20. CASE \E s \in Sessions : Prepares(s)
    BY <1>20 DEF Prepares, OpFree, Kept, SamePages, SameTold, Told, Fresh, Outstanding, Expected, Has, Prompting
  <1>21. CASE \E s \in Sessions : Selects(s)
    <2>1. \A r \in Requests : Has(r)' <=> Has(r)
      BY <1>21, SwitchKeeps
    <2>2. /\ (op' = op /\ OpFree) \/ (op'.kind = "none" /\ op'.req = None)
          /\ UNCHANGED <<job, typed, ctl>>
      BY <1>21 DEF Selects, OpEnds, SamePages, SameTold
    <2> QED
      BY <2>1, <2>2 DEF Told, Outstanding, Unseen, NoJobFor, Prompting, OpFree
  <1>22. CASE Marks
    BY <1>22 DEF Marks, Kept, SameTold, Told, Fresh, Outstanding, Expected, Has, Prompting
  <1>23. CASE \E t \in Tabs : Drops(t)
    BY <1>23 DEF Drops, Mine, At, OpIs, Stays, Kept, SameTold, Told, Fresh, Outstanding, Expected, Has, Prompting
  <1>24. CASE \E t \in Tabs : Submits(t)
    BY <1>24 DEF Submits, Kept, SameTold, Told, Fresh, Outstanding, Expected, Has, Prompting
  <1>25. CASE Elsewhere
    BY <1>25 DEF Elsewhere, Kept, SamePages, SameTold, Told, Fresh, Outstanding, Expected, Has, Prompting
  <1> QED BY <1>1, <1>2, <1>3, <1>4, <1>5, <1>6, <1>7, <1>8, <1>9, <1>10, <1>11, <1>12, <1>13, <1>14, <1>15,
        <1>16, <1>17, <1>18, <1>19, <1>20, <1>21, <1>22, <1>23, <1>24, <1>25 DEF Moves

\* What an operation is about is what the controller waits for
LEMMA ExpectedStep ==
  ASSUME Types, Aimed, Fits, ParkedApart, Staged, Bound, JobsAreSingle, Handed, Told, Moves PROVE Expected'
  <1> USE Constants DEF Types, StoredTypes, SlotTypes, ControllerTypes, Aimed, OpTyped, OpTypes
  <1>1. CASE Targets
    BY <1>1 DEF Targets, At, OpIs, Kept, SamePages, SameTold, Told, Fresh, Outstanding, Expected, Has, Prompting,
        Staged, Bound, Early
  <1>2. CASE Refreshes
    BY <1>2 DEF Refreshes, At, Stays, Kept, SamePages, SameTold, OpIs, Told, Fresh, Outstanding, Expected, Has,
        Prompting, Staged, Bound, Early
  <1>3. CASE Reserves
    BY <1>3 DEF Reserves, TargetTaken, At, OpIs, SamePages, SameTold, Here, Told, Fresh, Outstanding, Expected, Has,
        Prompting, Staged, Bound, Early
  <1>4. CASE Leaves
    BY <1>4 DEF Leaves, At, OpIs, Kept, SamePages, SameTold, Told, Fresh, Outstanding, Expected, Has, Prompting,
        Staged, Bound, Early
  <1>5. CASE Arrives
    BY <1>5 DEF Arrives, Stays, Kept, SameTold, OpIs, Told, Fresh, Outstanding, Expected, Has, Prompting, Staged,
        Bound, Early
  <1>6. CASE Misses
    BY <1>6 DEF Misses, Breaks, Stays, Kept, SamePages, SameTold, OpIs, Told, Fresh, Outstanding, Expected, Has,
        Prompting, Staged, Bound, Early
  <1>7. CASE Fades
    BY <1>7 DEF Fades, Breaks, Stays, Kept, SamePages, SameTold, OpIs, Told, Fresh, Outstanding, Expected, Has,
        Prompting, Staged, Bound, Early
  <1>8. CASE Adopts
    BY <1>8 DEF Adopts, SamePages, SameTold, Told, Fresh, Outstanding, Expected, Has, Prompting, Staged, Bound, Early
  <1>9. CASE Completes
    BY <1>9 DEF Completes, At, Stays, SamePages, SameTold, Here, OpIs, Told, Fresh, Outstanding, Expected, Has,
        Prompting, Staged, Bound, Early
  <1>10. CASE Sends
    BY <1>10 DEF Sends, At, OpEnds, Kept, SamePages, SameTold, Told, Fresh, Outstanding, Expected, Has, Prompting,
        Staged, Bound, Early
  <1>11. CASE Withdraws
    BY <1>11 DEF Withdraws, Withdrawn, At, OpEnds, SamePages, Told, Fresh, Outstanding, Expected, Has, Prompting,
        Staged, Bound, Early
  <1>12. CASE Picks
    BY <1>12 DEF Picks, PinnedElsewhere, At, Kept, SamePages, SameTold, Told, Fresh, Outstanding, Expected, Has,
        Prompting, Staged, Bound, Early
  <1>13. CASE Ends
    BY <1>13 DEF Ends, OpEnds, Kept, SamePages, SameTold, Told, Fresh, Outstanding, Expected, Has, Prompting, Staged,
        Bound, Early
  <1>14. CASE Binds
    <2>1. \A r \in Requests : Has(r)' <=> Has(r)
      BY <1>14, SwitchKeeps
    <2>2. /\ (op' = op /\ OpFree) \/ (op'.kind = "none" /\ op'.req = None)
          /\ UNCHANGED <<job, typed, ctl>>
      BY <1>14 DEF Binds, OpEnds, SamePages, SameTold
    <2> QED
      BY <2>1, <2>2 DEF Told, Expected, Unseen, NoJobFor, Prompting, OpFree
  <1>15. CASE Discards
    BY <1>15 DEF Discards, At, OpEnds, SamePages, Told, Fresh, Outstanding, Expected, Has, Prompting, Staged, Bound,
        Early
  <1>16. CASE \E r \in Requests : Asks(r)
    BY <1>16 DEF Asks, OpFree, Kept, SamePages, Told, Fresh, Outstanding, Expected, Has, Prompting, Staged, Bound, Early
  <1>17. CASE \E r \in Requests : Acknowledges(r)
    BY <1>17 DEF Acknowledges, OpFree, SamePages, Told, Fresh, Outstanding, Expected, Has, Prompting, Staged, Bound,
        Early
  <1>18. CASE \E r \in Requests : Inspects(r)
    <2> SUFFICES ASSUME NEW r \in Requests, Inspects(r) PROVE Expected'
      BY <1>18
    <2>1. /\ op' = op /\ UNCHANGED <<session, current, completed, scopes>> /\ current = r /\ completed = r /\ r # None
          /\ ctl' = [ctl EXCEPT ![r] = "answered"] /\ Has(r)
      BY Constants DEF Inspects, Kept, Has
    <2>2. Prompting /\ op.phase # "send" => op.req # r
      BY <2>1 DEF Told, Expected, Bound, Prompting
    <2>3. op.kind # "discard"
      BY <2>1 DEF Told, Expected
    <2> QED
      BY <2>1, <2>2, <2>3 DEF Told, Expected, Prompting, Has
  <1>19. CASE \E r \in Requests : Doubts(r)
    BY <1>19 DEF Doubts, OpFree, Kept, SamePages, SameTold, Told, Fresh, Outstanding, Expected, Has, Prompting, Staged,
        Bound, Early
  <1>20. CASE \E s \in Sessions : Prepares(s)
    BY <1>20 DEF Prepares, OpFree, Kept, SamePages, SameTold, Told, Fresh, Outstanding, Expected, Has, Prompting,
        Staged, Bound, Early
  <1>21. CASE \E s \in Sessions : Selects(s)
    <2>1. \A r \in Requests : Has(r)' <=> Has(r)
      BY <1>21, SwitchKeeps
    <2>2. /\ (op' = op /\ OpFree) \/ (op'.kind = "none" /\ op'.req = None)
          /\ UNCHANGED <<job, typed, ctl>>
      BY <1>21 DEF Selects, OpEnds, SamePages, SameTold
    <2> QED
      BY <2>1, <2>2 DEF Told, Expected, Unseen, NoJobFor, Prompting, OpFree
  <1>22. CASE Marks
    BY <1>22 DEF Marks, Kept, SameTold, Told, Fresh, Outstanding, Expected, Has, Prompting, Staged, Bound, Early
  <1>23. CASE \E t \in Tabs : Drops(t)
    BY <1>23 DEF Drops, Mine, At, OpIs, Stays, Kept, SameTold, Told, Fresh, Outstanding, Expected, Has, Prompting,
        Staged, Bound, Early
  <1>24. CASE \E t \in Tabs : Submits(t)
    BY <1>24 DEF Submits, Kept, SameTold, Told, Fresh, Outstanding, Expected, Has, Prompting, Staged, Bound, Early
  <1>25. CASE Elsewhere
    BY <1>25 DEF Elsewhere, Kept, SamePages, SameTold, Told, Fresh, Outstanding, Expected, Has, Prompting, Staged,
        Bound, Early
  <1> QED BY <1>1, <1>2, <1>3, <1>4, <1>5, <1>6, <1>7, <1>8, <1>9, <1>10, <1>11, <1>12, <1>13, <1>14, <1>15,
        <1>16, <1>17, <1>18, <1>19, <1>20, <1>21, <1>22, <1>23, <1>24, <1>25 DEF Moves

\* The conversations the controller records are the bound ones
LEMMA RecordedStep ==
  ASSUME Types, Aimed, Fits, ParkedApart, Staged, Bound, Told, Recorded, Moves PROVE Recorded'
  <1> USE Constants DEF Types, StoredTypes, SlotTypes, ControllerTypes, OpTyped, OpTypes
  <1>1. CASE Targets
    BY <1>1 DEF Targets, At, OpIs, Kept, SamePages, SameTold, Recorded, Aimed
  <1>2. CASE Refreshes
    BY <1>2 DEF Refreshes, At, Stays, Kept, SamePages, SameTold, OpIs, Recorded, Aimed
  <1>3. CASE Reserves
    BY <1>3 DEF Reserves, TargetTaken, At, OpIs, SamePages, SameTold, Here, Recorded, Aimed
  <1>4. CASE Leaves
    BY <1>4 DEF Leaves, At, OpIs, Kept, SamePages, SameTold, Recorded, Aimed
  <1>5. CASE Arrives
    BY <1>5 DEF Arrives, Stays, Kept, SameTold, OpIs, Recorded, Aimed
  <1>6. CASE Misses
    BY <1>6 DEF Misses, Breaks, Stays, Kept, SamePages, SameTold, OpIs, Recorded, Aimed
  <1>7. CASE Fades
    BY <1>7 DEF Fades, Breaks, Stays, Kept, SamePages, SameTold, OpIs, Recorded, Aimed
  <1>8. CASE Adopts
    BY <1>8 DEF Adopts, SamePages, SameTold, Recorded, Aimed, Bound, Prompting, Early
  <1>9. CASE Completes
    BY <1>9 DEF Completes, At, Stays, SamePages, SameTold, Here, OpIs, Recorded, Aimed
  <1>10. CASE Sends
    <2>1. PICK r \in Requests : r = op.req
      BY <1>10 DEF Sends, At, Aimed
    <2>2. op'.kind = "none" /\ UNCHANGED <<session, conv, current, scopes>> /\ session = Owner(r) /\ conv = op.at.conv
          /\ known \in [Sessions -> Urls]
      BY <1>10, <2>1, Constants DEF Sends, At, OpEnds, Kept, Bound, Staged, Prompting, Early, Fits, Types, ControllerTypes
    <2>3. CASE known' = known
      BY <2>2, <2>3 DEF Recorded
    <2>4. CASE known' = [known EXCEPT ![session] = conv]
      BY <2>2, <2>4 DEF Recorded, ParkedApart
    <2> QED
      BY <1>10, <2>1, <2>2, <2>3, <2>4 DEF Sends, SameTold
  <1>11. CASE Withdraws
    BY <1>11 DEF Withdraws, Withdrawn, At, OpEnds, SamePages, Recorded, Aimed
  <1>12. CASE Picks
    BY <1>12 DEF Picks, PinnedElsewhere, At, Kept, SamePages, SameTold, Recorded, Aimed
  <1>13. CASE Ends
    BY <1>13 DEF Ends, OpEnds, Kept, SamePages, SameTold, Recorded, Aimed
  <1>14. CASE Binds
    <2>1. op'.kind = "none" /\ known' = known /\ op.at.conv = known[op.at.session]
      BY <1>14 DEF Binds, At, OpEnds, SameTold, Recorded
    <2> QED
      BY <2>1, <1>14, BindsParks, Constants DEF Recorded, Types, StoredTypes, Fits, ParkedApart
  <1>15. CASE Discards
    BY <1>15 DEF Discards, At, OpEnds, SamePages, Recorded, Aimed
  <1>16. CASE \E r \in Requests : Asks(r)
    BY <1>16 DEF Asks, OpFree, Kept, SamePages, Recorded, Aimed
  <1>17. CASE \E r \in Requests : Acknowledges(r)
    BY <1>17 DEF Acknowledges, OpFree, SamePages, Recorded, Aimed
  <1>18. CASE \E r \in Requests : Inspects(r)
    <2> SUFFICES ASSUME NEW r \in Requests, Inspects(r) PROVE Recorded'
      BY <1>18
    <2>1. /\ op' = op /\ UNCHANGED <<session, conv, current, scopes>> /\ current = r /\ session = Owner(r) /\ r # None
          /\ known \in [Sessions -> Urls] /\ session \in Sessions
      BY Constants DEF Inspects, Kept, Fits, Types, ControllerTypes
    <2>2. op.kind = "prepare" => op.phase \in {"read", "bind"} /\ op.at.session \in Sessions
      BY DEF Aimed
    <2>3. known' = [known EXCEPT ![session] = conv]
      BY <2>1 DEF Inspects
    <2> QED
      BY <2>1, <2>2, <2>3 DEF Recorded, ParkedApart
  <1>19. CASE \E r \in Requests : Doubts(r)
    BY <1>19 DEF Doubts, OpFree, Kept, SamePages, SameTold, Recorded, Aimed
  <1>20. CASE \E s \in Sessions : Prepares(s)
    <2> SUFFICES ASSUME NEW s \in Sessions, Prepares(s) PROVE Recorded'
      BY <1>20
    <2>1. /\ op'.at.session = s /\ op'.at.conv = known[s] /\ op'.kind = "prepare"
          /\ UNCHANGED <<session, conv, current, scopes, known>>
      BY DEF Prepares, Kept, SameTold
    <2>2. op'.phase = "bind" /\ session = s /\ current # None => known[s] # Root
      BY DEF Prepares, Told, Outstanding, Has, Fits, Types, StoredTypes
    <2> QED
      BY <2>1, <2>2 DEF Recorded
  <1>21. CASE \E s \in Sessions : Selects(s)
    <2> SUFFICES ASSUME NEW to \in Sessions, Selects(to) PROVE Recorded'
      BY <1>21
    <2>1. op.kind = "none" /\ op' = op /\ known' = known /\ scopes[to].current # None
      BY DEF Selects, OpFree, SameTold
    <2> QED
      BY <2>1, SelectsParks, Constants DEF Recorded, Types, StoredTypes, Fits, ParkedApart
  <1>22. CASE Marks
    BY <1>22 DEF Marks, Kept, SameTold, Recorded, Aimed
  <1>23. CASE \E t \in Tabs : Drops(t)
    BY <1>23 DEF Drops, Mine, At, OpIs, Stays, Kept, SameTold, Recorded, Aimed
  <1>24. CASE \E t \in Tabs : Submits(t)
    BY <1>24 DEF Submits, Kept, SameTold, Recorded, Aimed
  <1>25. CASE Elsewhere
    BY <1>25 DEF Elsewhere, Kept, SamePages, SameTold, Recorded, Aimed
  <1> QED BY <1>1, <1>2, <1>3, <1>4, <1>5, <1>6, <1>7, <1>8, <1>9, <1>10, <1>11, <1>12, <1>13, <1>14, <1>15,
        <1>16, <1>17, <1>18, <1>19, <1>20, <1>21, <1>22, <1>23, <1>24, <1>25 DEF Moves

\* A response comes from the conversation it is stored with
LEMMA AnsweredStep ==
  ASSUME Types, Aimed, Fits, ParkedApart, Staged, Bound, JobsAreSingle, Handed, Recorded, Answered, Moves PROVE Answered'
  <1> USE Constants DEF Types, StoredTypes, SlotTypes, OpTyped, OpTypes, Fits
  <1>1. CASE Targets
    BY <1>1 DEF Targets, At, OpIs, Kept, SamePages, SameTold, Answered, Aimed
  <1>2. CASE Refreshes
    BY <1>2 DEF Refreshes, At, Stays, Kept, SamePages, SameTold, OpIs, Answered, Aimed
  <1>3. CASE Reserves
    BY <1>3 DEF Reserves, TargetTaken, At, OpIs, SamePages, SameTold, Here, Answered, Aimed
  <1>4. CASE Leaves
    BY <1>4 DEF Leaves, At, OpIs, Kept, SamePages, SameTold, Answered, Aimed
  <1>5. CASE Arrives
    BY <1>5 DEF Arrives, Stays, Kept, SameTold, OpIs, Answered, Aimed
  <1>6. CASE Misses
    BY <1>6 DEF Misses, Breaks, Stays, Kept, SamePages, SameTold, OpIs, Answered, Aimed
  <1>7. CASE Fades
    BY <1>7 DEF Fades, Breaks, Stays, Kept, SamePages, SameTold, OpIs, Answered, Aimed
  <1>8. CASE Adopts
    BY <1>8 DEF Adopts, SamePages, SameTold, Answered, Bound, Staged, Prompting, Early
  <1>9. CASE Completes
    <2>1. where' = where /\ UNCHANGED <<conv, current, scopes>> /\ completed' = op.req /\ where[op.req] = conv
      BY <1>9 DEF Completes, SamePages, Handed, At, Prompting, Here
    <2> QED
      BY <2>1, <1>9 DEF Answered, Completes
  <1>10. CASE Sends
    BY <1>10 DEF Sends, At, OpEnds, Kept, SamePages, SameTold, Answered, Aimed
  <1>11. CASE Withdraws
    BY <1>11 DEF Withdraws, Withdrawn, At, OpEnds, SamePages, Answered, Aimed
  <1>12. CASE Picks
    BY <1>12 DEF Picks, PinnedElsewhere, At, Kept, SamePages, SameTold, Answered, Aimed
  <1>13. CASE Ends
    BY <1>13 DEF Ends, OpEnds, Kept, SamePages, SameTold, Answered, Aimed
  <1>14. CASE Binds
    <2>1. where' = where
      BY <1>14 DEF Binds, SamePages
    <2>2. CASE session = op.at.session
      <3>1. UNCHANGED <<current, completed, scopes>> /\ conv' = op.at.conv
        BY <2>2, <1>14, BindsParks
      <3>2. current # None => conv' = conv
        BY <2>2, <1>14, BindsParks DEF Recorded, Binds, At
      <3> QED
        BY <2>1, <3>1, <3>2 DEF Answered
    <2>3. CASE session # op.at.session
      BY <2>1, <2>3, <1>14, BindsParks, Constants DEF Answered, Types, StoredTypes, Fits, ParkedApart
    <2> QED
      BY <2>2, <2>3
  <1>15. CASE Discards
    BY <1>15 DEF Discards, At, OpEnds, SamePages, Answered, Aimed
  <1>16. CASE \E r \in Requests : Asks(r)
    BY <1>16 DEF Asks, OpFree, Kept, SamePages, Answered, Aimed
  <1>17. CASE \E r \in Requests : Acknowledges(r)
    BY <1>17 DEF Acknowledges, OpFree, SamePages, Answered, Aimed
  <1>18. CASE \E r \in Requests : Inspects(r)
    BY <1>18 DEF Inspects, Kept, SamePages, Answered, Aimed
  <1>19. CASE \E r \in Requests : Doubts(r)
    BY <1>19 DEF Doubts, OpFree, Kept, SamePages, SameTold, Answered, Aimed
  <1>20. CASE \E s \in Sessions : Prepares(s)
    BY <1>20 DEF Prepares, OpFree, Kept, SamePages, SameTold, Answered, Aimed
  <1>21. CASE \E s \in Sessions : Selects(s)
    <2> SUFFICES ASSUME NEW to \in Sessions, Selects(to) PROVE Answered'
      BY <1>21
    <2>1. where' = where /\ scopes[to].current # None
      BY DEF Selects, SamePages
    <2> QED
      BY <2>1, SelectsParks, Constants DEF Answered, Types, StoredTypes, Fits, ParkedApart
  <1>22. CASE Marks
    BY <1>22 DEF Marks, Kept, SameTold, Answered, Aimed
  <1>23. CASE \E t \in Tabs : Drops(t)
    BY <1>23 DEF Drops, Mine, At, OpIs, Stays, Kept, SameTold, Answered, Aimed
  <1>24. CASE \E t \in Tabs : Submits(t)
    <2> SUFFICES ASSUME NEW t \in Tabs, Submits(t) PROVE Answered'
      BY <1>24
    <2>1. /\ UNCHANGED <<session, conv, current, completed, scopes>>
          /\ \A r \in Requests : where[r] # None => where'[r] = where[r]
      BY DEF Submits, Kept, JobsAreSingle
    <2>2. current # None => current \in Requests /\ conv # None
      BY Constants DEF Fits, Types, StoredTypes
    <2>3. \A s \in Sessions : scopes[s].current # None => scopes[s].current \in Requests /\ scopes[s].conv # None
      BY Constants DEF ParkedApart, Types, StoredTypes, SlotTypes
    <2> QED
      BY <2>1, <2>2, <2>3 DEF Answered
  <1>25. CASE Elsewhere
    BY <1>25 DEF Elsewhere, Kept, SamePages, SameTold, Answered, Aimed
  <1> QED BY <1>1, <1>2, <1>3, <1>4, <1>5, <1>6, <1>7, <1>8, <1>9, <1>10, <1>11, <1>12, <1>13, <1>14, <1>15,
        <1>16, <1>17, <1>18, <1>19, <1>20, <1>21, <1>22, <1>23, <1>24, <1>25 DEF Moves

\* The moves tell the types of the operation and the jobs
LEMMA MovesAreTyped ==
  ASSUME Types, Moves PROVE OpTyped' /\ JobTyped'
  <1> USE DEF Types, OpTyped, JobTyped, OpIs, Stays, OpEnds, Breaks, Kept, SamePages
  <1>1. CASE Targets \/ Refreshes \/ Reserves \/ Leaves \/ Arrives \/ Misses \/ Fades \/ Adopts \/ Completes
    BY <1>1 DEF Targets, Refreshes, Reserves, Leaves, Arrives, Misses, Fades, Adopts, Completes
  <1>2. CASE Sends \/ Withdraws \/ Picks \/ Ends \/ Binds \/ Discards
    BY <1>2 DEF Sends, Withdraws, Picks, Ends, Binds, Discards
  <1>3. CASE \E r \in Requests : Asks(r) \/ Acknowledges(r) \/ Inspects(r) \/ Doubts(r)
    BY <1>3 DEF Asks, Acknowledges, Inspects, Doubts
  <1>4. CASE \E s \in Sessions : Prepares(s) \/ Selects(s)
    BY <1>4 DEF Prepares, Selects
  <1>5. CASE Marks \/ (\E t \in Tabs : Drops(t) \/ Submits(t)) \/ Elsewhere
    BY <1>5 DEF Marks, Drops, Submits, Elsewhere
  <1> QED BY <1>1, <1>2, <1>3, <1>4, <1>5 DEF Moves

LEMMA InvInit ==
  ASSUME Init PROVE IInv
  <1> USE Constants, ExtensionAssumption DEF Init
  <1>1. StoredTypes /\ AckTypes /\ ControllerTypes
    BY DEF StoredTypes, AckTypes, ControllerTypes, SlotTypes, NoSlot
  <1>2. PageTypes /\ JobTyped /\ OpTyped
    BY DEF PageTypes, JobTyped, JobTypes, NoJob, OpTyped, OpTypes, Idle, Nowhere, NoReply, Places, Phases, Codes
  <1>3. op.kind = "none" /\ op.req = None
    BY DEF Idle
  <1>4. (\A t \in Tabs : job[t] = NoJob) /\ NoJob.req = None
    BY DEF NoJob
  <1>5. \A s \in Sessions : scopes[s].current = None
    BY DEF NoSlot
  <1>6. Fits /\ StatusFits /\ ParkedApart
    BY <1>5 DEF Fits, StatusFits, ParkedApart
  <1>7. Aimed /\ Staged /\ Bound /\ Exclusive /\ Handed
    BY <1>3 DEF Aimed, Staged, Bound, Exclusive, Handed, Prompting
  <1>8. JobsAreSingle
    BY <1>4 DEF JobsAreSingle
  <1>9. Told
    BY <1>3, <1>4, <1>5 DEF Told, Fresh, Outstanding, Expected, Unseen, NoJobFor, Has, Prompting
  <1>10. Recorded /\ Answered
    BY <1>3, <1>5 DEF Recorded, Answered
  <1> QED
    BY <1>1, <1>2, <1>6, <1>7, <1>8, <1>9, <1>10 DEF IInv, Types

LEMMA InvStep ==
  ASSUME IInv, [Next]_vars PROVE IInv' /\ Moves
  <1> USE DEF IInv
  <1>1. Moves
    BY MovesStep
  <1>2. Types'
    BY <1>1, StoredTypesStep, PageTypesStep, ControllerTypesStep, MovesAreTyped DEF Types
  <1>3. AckTypes'
    BY AckTypesStep
  <1>4. Fits' /\ ParkedApart' /\ Aimed'
    BY <1>1, FitsStep, ParkedApartStep, AimedStep
  <1>5. StatusFits'
    BY StatusFitsStep
  <1>6. Staged' /\ Bound' /\ Exclusive'
    BY <1>1, StagedStep, BoundStep, ExclusiveStep
  <1>7. JobsAreSingle' /\ Handed'
    BY <1>1, JobsAreSingleStep, HandedStep
  <1>8. Told'
    BY <1>1, FreshStep, OutstandingStep, ExpectedStep DEF Told
  <1>9. Recorded' /\ Answered'
    BY <1>1, RecordedStep, AnsweredStep
  <1> QED
    BY <1>1, <1>2, <1>3, <1>4, <1>5, <1>6, <1>7, <1>8, <1>9

LEMMA InvAlways == Spec => []IInv
  <1>1. IInv /\ [Next]_vars => IInv'
    BY InvStep
  <1> QED BY InvInit, <1>1, PTL DEF Spec

-----------------------------------------------------------------------------
(* The theorems.                                                            *)

\* A request is owned where the stored state has it, by its session alone
LEMMA OwnedMeans ==
  ASSUME NEW r \in Requests PROVE Owned(r) <=> Has(r)
  BY DEF Owned, Owns, Has
LEMMA ChosenSlot ==
  ASSUME NEW slots, NEW r \in Requests, NEW s \in Sessions, slots[s].current = r,
         \A u \in Sessions : slots[u].current = r => u = s
  PROVE  (CHOOSE u \in Sessions : slots[u].current = r) = s
  OBVIOUS

\* However sessions are switched, parked, picked again and rebound, a delivery stays with the
\* session it was sent for, and a stored response was read in the conversation it is stored with.
THEOREM DeliveryAlwaysBelongs == Spec => []DeliveryBelongs
  <1>1. IInv => DeliveryBelongs
    <2> SUFFICES ASSUME IInv PROVE DeliveryBelongs
      OBVIOUS
    <2>1. TypeOK
      BY DEF IInv, Types, AckTypes, StoredTypes, PageTypes, ControllerTypes, JobTyped, OpTyped, TypeOK
    <2>2. OwnedByItsSession
      BY Constants DEF IInv, Fits, ParkedApart, OwnedByItsSession, Owns
    <2> QED
      BY <2>1, <2>2 DEF IInv, DeliveryBelongs, Answered, ResponseIsFromItsConversation
  <1> QED BY InvAlways, <1>1, PTL

\* No prompt is typed twice, although the controller sends one again when told it was not
\* dispatched; and it is told so only of a prompt no page has or will get.
THEOREM TypedIsAlwaysAsTold == Spec => []TypedAsTold
  <1>1. IInv => TypedAsTold
    BY OwnedMeans DEF IInv, JobsAreSingle, Told, Fresh, Unseen, NoJobFor, TypedAsTold, TypedAtMostOnce,
      NotDispatchedIsTrue
  <1> QED BY InvAlways, <1>1, PTL

\* When a prompt leaves for its page, no parked delivery waits in that tab or conversation.
THEOREM TargetIsAlwaysExclusive == Spec => []TargetIsExclusive
  <1>1. IInv => TargetIsExclusive
    BY DEF IInv, Exclusive, Prompting, TargetIsExclusive, At
  <1> QED BY InvAlways, <1>1, PTL

\* What a move may do to a delivery of the stored state
LEMMA KeptByMoves ==
  ASSUME IInv, Moves, NEW r \in Requests, Has(r), ~Has(r)'
  PROVE  \/ typed[r] = 0 /\ At("prompt", "failed") /\ op.req = r
         \/ ctl[r] = "answered" /\ ~Held
         \/ At("discard", "commit") /\ op.req = r
  <1> USE DEF Has, Kept
  <1>1. CASE Targets \/ Refreshes \/ Reserves \/ Leaves \/ Arrives \/ Misses \/ Fades \/ Adopts \/ Completes
    BY <1>1, Constants DEF Targets, Refreshes, Reserves, Leaves, Arrives, Misses, Fades, Adopts, Completes, Breaks
  <1>2. CASE Withdraws
    BY <1>2 DEF Withdraws, Withdrawn, IInv, Bound, Handed, Unseen, Prompting, At
  <1>3. CASE Discards
    BY <1>3, Constants DEF Discards, IInv, Told, Expected, At
  <1>4. CASE Binds \/ \E s \in Sessions : Selects(s)
    BY <1>4, SwitchKeeps DEF IInv
  <1>5. CASE Sends \/ Picks \/ Ends
    BY <1>5 DEF Sends, Picks, Ends
  <1>6. CASE \E q \in Requests : Asks(q) \/ Acknowledges(q) \/ Inspects(q) \/ Doubts(q)
    BY <1>6, Constants DEF Asks, Acknowledges, Inspects, Doubts
  <1>7. CASE (\E s \in Sessions : Prepares(s)) \/ Marks \/ (\E t \in Tabs : Drops(t) \/ Submits(t)) \/ Elsewhere
    BY <1>7 DEF Prepares, Marks, Drops, Submits, Elsewhere
  <1> QED BY <1>1, <1>2, <1>3, <1>4, <1>5, <1>6, <1>7 DEF Moves

\* Where a delivery is recorded, without the choice
Place(r) == IF current = r THEN conv ELSE scopes[Owner(r)].conv
LEMMA PlaceKept ==
  ASSUME IInv, Moves, NEW r \in Requests, Has(r), Has(r)', Place(r) # Root PROVE Place(r)' = Place(r)
  <1> USE DEF Place, Has, Kept
  <1>1. CASE Targets \/ Refreshes \/ Leaves \/ Arrives \/ Misses \/ Fades \/ Completes
    BY <1>1 DEF Targets, Refreshes, Leaves, Arrives, Misses, Fades, Completes, Breaks
  <1>2. CASE Reserves
    BY <1>2, Constants DEF Reserves, At, IInv, Types, StoredTypes, SlotTypes, Told, Expected, Staged, Prompting, Early
  <1>3. CASE Adopts
    BY <1>3 DEF Adopts, IInv, Bound, Prompting, Early
  <1>4. CASE Withdraws \/ Discards
    <2>1. UNCHANGED <<conv, scopes>> /\ (current' = None \/ current' = current)
      BY <1>4 DEF Withdraws, Discards
    <2>2. CASE current = r
      <3>1. \A s \in Sessions : scopes[s].current # r
        BY <2>2, Constants DEF IInv, Fits, ParkedApart
      <3> QED
        BY <2>1, <2>2, <3>1
    <2>3. CASE current # r
      BY <2>1, <2>3, Constants
    <2> QED
      BY <2>2, <2>3
  <1>5. CASE Binds
    BY <1>5, BindsParks, Constants DEF Binds, At, IInv, Fits, ParkedApart, Recorded, Types, StoredTypes
  <1>6. CASE \E s \in Sessions : Selects(s)
    BY <1>6, SelectsParks, Constants DEF IInv, Fits, ParkedApart, Types, StoredTypes
  <1>7. CASE Sends \/ Picks \/ Ends
    BY <1>7 DEF Sends, Picks, Ends
  <1>8. CASE \E q \in Requests : Asks(q) \/ Acknowledges(q) \/ Inspects(q) \/ Doubts(q)
    BY <1>8, Constants DEF Asks, Acknowledges, Inspects, Doubts, IInv, Fits, ParkedApart, Types, StoredTypes
  <1>9. CASE (\E s \in Sessions : Prepares(s)) \/ Marks \/ (\E t \in Tabs : Drops(t) \/ Submits(t)) \/ Elsewhere
    BY <1>9 DEF Prepares, Marks, Drops, Submits, Elsewhere
  <1> QED BY <1>1, <1>2, <1>3, <1>4, <1>5, <1>6, <1>7, <1>8, <1>9 DEF Moves

\* A delivery a page was asked to send leaves the stored state only when it is acknowledged or
\* discarded, and until then never moves to another conversation.
THEOREM DeliveriesStayWhereTheyAre == Spec => KeptWhereItIs
  <1>1. IInv /\ IInv' /\ [Next]_vars =>
          [\A r \in Requests :
             Owned(r) /\ ~Owned(r)' =>
               \/ typed[r] = 0 /\ At("prompt", "failed") /\ op.req = r
               \/ ctl[r] = "answered" /\ ~Held
               \/ At("discard", "commit") /\ op.req = r]_vars
    <2> SUFFICES ASSUME IInv, [Next]_vars, NEW r \in Requests, Owned(r), ~Owned(r)'
                 PROVE  \/ typed[r] = 0 /\ At("prompt", "failed") /\ op.req = r
                        \/ ctl[r] = "answered" /\ ~Held
                        \/ At("discard", "commit") /\ op.req = r
      OBVIOUS
    <2>1. Has(r) /\ ~Has(r)'
      BY DEF Owned, Owns, Has
    <2> QED
      BY <2>1, InvStep, KeptByMoves
  <1>2. IInv /\ IInv' /\ [Next]_vars =>
          [\A r \in Requests :
             Owned(r) /\ Owned(r)' /\ RecordedConv(r) # Root => RecordedConv(r)' = RecordedConv(r)]_vars
    <2> SUFFICES ASSUME IInv, IInv', [Next]_vars, NEW r \in Requests, Owned(r), Owned(r)', RecordedConv(r) # Root
                 PROVE  RecordedConv(r)' = RecordedConv(r)
      OBVIOUS
    <2>1. Has(r) /\ Has(r)' /\ Owner(r) \in Sessions
      BY Constants DEF Owned, Owns, Has
    <2>2. RecordedConv(r) = Place(r)
      <3>1. CASE current = r
        BY <3>1 DEF RecordedConv, Place
      <3>2. CASE current # r
        <4>1. scopes[Owner(r)].current = r /\ \A u \in Sessions : scopes[u].current = r => u = Owner(r)
          BY <2>1, <3>2, Constants DEF Has, IInv, ParkedApart
        <4> QED
          BY <2>1, <3>2, <4>1, ChosenSlot DEF RecordedConv, Place
      <3> QED BY <3>1, <3>2
    <2>3. RecordedConv(r)' = Place(r)'
      <3>1. CASE current' = r
        BY <3>1 DEF RecordedConv, Place
      <3>2. CASE current' # r
        <4>1. scopes'[Owner(r)].current = r /\ \A u \in Sessions : scopes'[u].current = r => u = Owner(r)
          BY <2>1, <3>2, Constants DEF Has, IInv, ParkedApart
        <4> QED
          BY <2>1, <3>2, <4>1, ChosenSlot DEF RecordedConv, Place
      <3> QED BY <3>1, <3>2
    <2> QED
      BY <2>1, <2>2, <2>3, InvStep, PlaceKept
  <1> QED BY InvAlways, <1>1, <1>2, PTL DEF Spec, KeptWhereItIs, UnresolvedIsKept, KeepsItsConversation

=============================================================================
