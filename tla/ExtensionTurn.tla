--------------------------- MODULE ExtensionTurn ---------------------------
(***************************************************************************)
(* The browser extension's side of a web turn: the background worker       *)
(* (extension/background.js), its stored state (runtime/storage.js) and    *)
(* the content script that types a prompt into a conversation page         *)
(* (content.js).                                                           *)
(*                                                                         *)
(* The worker serialises its own operations with a gate held in memory,    *)
(* and Chrome may stop the worker at any await: the operation and the gate *)
(* are gone, the stored state stays, and a page goes on with its job.      *)
(* Chrome's tab events are handled beside the gate.                        *)
(*                                                                         *)
(* One action is one stretch of an operation between two awaits that       *)
(* matter.  A session stands for a session with its run: the controller    *)
(* creates the two together.  Prompt texts, windows, frames, providers and *)
(* time are left out.                                                      *)
(***************************************************************************)
EXTENDS Integers, FiniteSets

CONSTANTS
    Sessions,    \* sessions the controller prepares
    MaxTurns,    \* prompts of a session (bound)
    Tabs,        \* tab ids; Chrome never reuses one
    FirstTabs,   \* those open at the start, at the provider's start page
    Convs,       \* conversations, born when a prompt is sent from the start page
    OldConvs,    \* those that exist already
    Root,        \* the start page
    None,        \* null
    MaxMoves,    \* reloads, navigations and closes by the user (bound)
    MaxStops     \* times Chrome stops the worker (bound)

ASSUME ExtensionAssumption ==
    /\ MaxTurns \in Nat /\ MaxMoves \in Nat /\ MaxStops \in Nat
    /\ FirstTabs \subseteq Tabs /\ OldConvs \subseteq Convs
    /\ Root \notin Convs
    /\ None \notin Sessions \cup Tabs \cup Convs \cup {Root}
    /\ None \notin Sessions \X (1 .. MaxTurns)

Requests == Sessions \X (1 .. MaxTurns)   \* a request belongs to one session
Owner(r) == r[1]
Urls == Convs \cup {Root}

VARIABLES
    \* chrome.storage.local
    session,     \* lastBoundSessionId
    tab, conv, doc, status,
    current,     \* currentDeliveryId
    completed,   \* completedDelivery, by the request it answers
    scopes,      \* deliveryScopes: the parked slot of each session
    acked,       \* lastAcknowledgedDelivery, as <<request, session, conversation>>
    \* memory of the background worker
    op,          \* the operation that holds the turn gate
    removal,     \* per tab, how far its onRemoved handler is
    \* pages
    url, page,   \* per tab, its address and its document: how often it has loaded
    job,         \* per tab, currentJob of its content script
    born,        \* per tab, the conversation its sent prompt is creating
    \* history and bounds
    typed, where, \* how often and where a request was typed
    used,        \* conversations that exist
    moves, stops,
    \* the controller
    known,       \* the conversation it records for each session
    ctl          \* what it knows of each request

stored == <<session, tab, conv, doc, status, current, completed, scopes, acked>>
pages == <<url, page, job, born, typed, where, used>>
controller == <<known, ctl>>
bounds == <<moves, stops>>
vars == <<stored, op, removal, pages, bounds, controller>>

NoSlot == [tab |-> None, conv |-> None, doc |-> 0, current |-> None, completed |-> None]
NoJob == [req |-> None, conv |-> None, sent |-> FALSE, aborted |-> FALSE, observing |-> FALSE]
Nowhere == [session |-> None, tab |-> None, conv |-> None, doc |-> 0]
NoReply == [conv |-> None, doc |-> 0]
Idle == [kind |-> "none", phase |-> "none", req |-> None, at |-> Nowhere, bootstrap |-> FALSE,
         reserved |-> FALSE, started |-> FALSE, reply |-> NoReply, code |-> "none"]

Init ==
    /\ session = None /\ tab = None /\ conv = None /\ doc = 0 /\ status = "NEEDS_REBIND"
    /\ current = None /\ completed = None /\ scopes = [s \in Sessions |-> NoSlot] /\ acked = None
    /\ op = Idle
    /\ removal = [t \in Tabs |-> IF t \in FirstTabs THEN "none" ELSE "unopened"]
    /\ url = [t \in Tabs |-> IF t \in FirstTabs THEN Root ELSE None]
    /\ page = [t \in Tabs |-> IF t \in FirstTabs THEN 1 ELSE 0]
    /\ job = [t \in Tabs |-> NoJob] /\ born = [t \in Tabs |-> None]
    /\ typed = [r \in Requests |-> 0] /\ where = [r \in Requests |-> None]
    /\ used = OldConvs
    /\ moves = 0 /\ stops = 0
    /\ known = [s \in Sessions |-> Root] /\ ctl = [r \in Requests |-> "new"]

-----------------------------------------------------------------------------
(* The stored state (runtime/storage.js).  Every write is a compare or an   *)
(* update inside one mutation queue, so it is atomic.                       *)

Here == [session |-> session, tab |-> tab, conv |-> conv, doc |-> doc]

\* normalizeExtensionState: a status that its fields do not support is dropped
Supported(st, t, c, d) ==
    IF \/ st = "BOUND" /\ (t = None \/ d = 0 \/ c \notin Convs)
       \/ st = "ROOT_READY" /\ (t = None \/ d = 0 \/ c # Root)
    THEN "NEEDS_REBIND" ELSE st

SetStatus(st) == status' = Supported(st, tab, conv, doc)

\* A fault: the session changed away from leaves its delivery behind.
Unparked == scopes

Parked ==
    IF session # None /\ current # None
    THEN [scopes EXCEPT ![session] = [tab |-> tab, conv |-> conv, doc |-> doc,
                                      current |-> current, completed |-> completed]]
    ELSE scopes

\* a parked delivery is only restored into the conversation it was parked with
MayBind(b) ==
    \/ session = b.session
    \/ scopes[b.session].current = None
    \/ scopes[b.session].conv = b.conv

\* A fault: the session is replaced under the delivery.
RelabelSession(b) ==
    /\ session' = b.session /\ tab' = b.tab /\ conv' = b.conv /\ doc' = b.doc
    /\ status' = Supported(IF b.conv = Root THEN "ROOT_READY" ELSE "BOUND", b.tab, b.conv, b.doc)
    /\ UNCHANGED <<current, completed, scopes, acked>>

\* bindSession: the session changed away from takes its delivery along
BindSession(b) ==
    /\ session' = b.session /\ tab' = b.tab /\ conv' = b.conv /\ doc' = b.doc
    /\ status' = Supported(IF b.conv = Root THEN "ROOT_READY" ELSE "BOUND", b.tab, b.conv, b.doc)
    /\ IF session = b.session
       THEN UNCHANGED <<current, completed, scopes>>
       ELSE /\ scopes' = [Parked EXCEPT ![b.session] = NoSlot]
            /\ current' = scopes[b.session].current
            /\ completed' = scopes[b.session].completed
    /\ UNCHANGED acked

\* A fault: only conversations are compared, and new ones have none yet.
ConversationTaken ==
    \E s \in Sessions : scopes[s].current # None /\ scopes[s].conv \in Convs /\ scopes[s].conv = conv

\* reserveDelivery refuses a target in which a parked delivery waits
TargetTaken ==
    \E s \in Sessions :
        /\ scopes[s].current # None
        /\ \/ scopes[s].tab # None /\ scopes[s].tab = tab
           \/ scopes[s].conv # None /\ scopes[s].conv = conv

\* clearDelivery
ClearDelivery(r) ==
    /\ current' = None
    /\ acked' = <<r, session, conv>>

\* requireExactBoundTab found the tab gone
ForgetTab ==
    /\ tab' = None /\ doc' = 0 /\ status' = "NEEDS_REBIND"
    /\ UNCHANGED <<session, conv, current, completed, scopes, acked>>

OnlyStatus(st) ==
    /\ SetStatus(st)
    /\ UNCHANGED <<session, tab, conv, doc, current, completed, scopes, acked>>

-----------------------------------------------------------------------------
(* The turn gate and the operation that holds it.                           *)

Held == op # Idle
At(kind, phase) == op.kind = kind /\ op.phase = phase
Fails(code) == op' = [op EXCEPT !.phase = "failed", !.code = code]

\* assertTurnStateBinding against the turn's frozen binding
TurnHoldsBinding == Here = op.at /\ current = op.req /\ status = "BOUND"

\* the identity checks of a turn whose conversation does not exist yet
TurnHoldsSession == session = op.at.session /\ tab = op.at.tab /\ current = op.req

\* requireExactBoundTab and inspectBoundDocument, when they throw
NotExactlyBound ==
    \/ ~TurnHoldsBinding /\ Fails("BINDING") /\ UNCHANGED stored
    \/ TurnHoldsBinding /\ url[tab] = None /\ Fails("GONE") /\ ForgetTab
    \/ TurnHoldsBinding /\ url[tab] \notin {conv, None} /\ Fails("MANUAL") /\ OnlyStatus("AMBIGUOUS")
    \/ TurnHoldsBinding /\ url[tab] = conv /\ page[tab] # doc /\ Fails("DOCUMENT") /\ UNCHANGED stored

ExactlyBound == TurnHoldsBinding /\ url[tab] = conv /\ page[tab] = doc

-----------------------------------------------------------------------------
(* handlePrompt                                                             *)

\* the controller sends a prompt again only when told it was not dispatched
StartPrompt(r) ==
    /\ ctl[r] \in {"new", "notSent"}
    /\ ctl' = [ctl EXCEPT ![r] = "sent"]
    /\ IF Held THEN UNCHANGED op
       ELSE op' = [Idle EXCEPT !.kind = "prompt", !.phase = "target", !.req = r]
    /\ UNCHANGED <<stored, removal, pages, bounds, known>>

\* resolvePreparedSessionTarget
PreparedPage == status \in {"BOUND", "ROOT_READY"} /\ url[tab] = conv /\ job[tab] = NoJob

PromptTarget ==
    /\ At("prompt", "target")
    /\ \/ Fails("NEEDS_REBIND")              \* the page is not ready or does not answer
       \/ session # Owner(op.req) /\ Fails("MISMATCH")
       \/ session = Owner(op.req) /\ PreparedPage /\ current # None /\ Fails("CONFLICT")
       \/ /\ session = Owner(op.req) /\ PreparedPage /\ current = None
          /\ op' = [op EXCEPT !.phase = "bind", !.at = [Here EXCEPT !.doc = page[tab]]]
    /\ UNCHANGED <<stored, removal, pages, bounds, controller>>

PromptBind ==
    /\ At("prompt", "bind")
    /\ BindSession(op.at)
    /\ op' = [op EXCEPT !.phase = "reserve"]
    /\ UNCHANGED <<removal, pages, bounds, controller>>

\* reserveDelivery, then captureTurnBinding unless the conversation is yet to be born
PromptReserve ==
    /\ At("prompt", "reserve")
    /\ \/ (TargetTaken \/ current # None) /\ Fails("RECOVERY_REQUIRED") /\ UNCHANGED stored
       \/ /\ ~TargetTaken /\ current = None
          /\ current' = op.req /\ completed' = None
          /\ op' = [op EXCEPT !.reserved = TRUE, !.at = Here, !.bootstrap = status = "ROOT_READY",
                        !.phase = IF status \in {"BOUND", "ROOT_READY"} THEN "check" ELSE "failed",
                        !.code = IF status \in {"BOUND", "ROOT_READY"} THEN "none" ELSE "NEEDS_REBIND"]
          /\ UNCHANGED <<session, tab, conv, doc, status, scopes, acked>>
    /\ UNCHANGED <<removal, pages, bounds, controller>>

\* A fault: the dispatch is recorded only with the page's answer.
DispatchesUnnoticed == op' = [op EXCEPT !.phase = "deliver"]

\* the last look before the prompt leaves for the page
Dispatches == op' = [op EXCEPT !.phase = "deliver", !.started = TRUE]

PromptCheck ==
    /\ At("prompt", "check")
    /\ \/ Fails("UNREADY") /\ UNCHANGED stored
       \/ /\ op.bootstrap
          /\ IF url[op.at.tab] = Root /\ page[op.at.tab] = op.at.doc THEN Dispatches ELSE Fails("DOCUMENT")
          /\ UNCHANGED stored
       \/ ~op.bootstrap /\ NotExactlyBound
       \/ ~op.bootstrap /\ ExactlyBound /\ Dispatches /\ UNCHANGED stored
    /\ UNCHANGED <<removal, pages, bounds, controller>>

\* the content script of the tab takes the job j, or the message fails
Hands(j) ==
    LET t == op.at.tab
        accepts == page[t] = op.at.doc /\ job[t] = NoJob /\ url[t] = op.at.conv
    IN  \/ /\ url[t] = None
           /\ IF op.bootstrap THEN op' = [op EXCEPT !.phase = "recover"] ELSE Fails("CHANNEL")
           /\ UNCHANGED job
        \/ url[t] # None /\ page[t] # op.at.doc /\ Fails("DOCUMENT") /\ UNCHANGED job
        \/ url[t] # None /\ page[t] = op.at.doc /\ job[t] # NoJob /\ Fails("BUSY") /\ UNCHANGED job
        \/ /\ page[t] = op.at.doc /\ job[t] = NoJob /\ url[t] \notin {op.at.conv, None}
           /\ Fails("MANUAL") /\ UNCHANGED job
        \/ accepts /\ Fails("AUTH") /\ UNCHANGED job          \* the page shows a sign-in
        \/ accepts /\ job' = [job EXCEPT ![t] = j] /\ op' = [op EXCEPT !.phase = "waiting"]

PromptDeliver ==
    /\ At("prompt", "deliver")
    /\ Hands([NoJob EXCEPT !.req = op.req, !.conv = op.at.conv])
    /\ UNCHANGED <<stored, removal, url, page, born, typed, where, used, bounds, controller>>

-----------------------------------------------------------------------------
(* The content script (content.js).                                         *)

Mine(t) == At("prompt", "waiting") /\ op.req = job[t].req /\ op.at.tab = t

\* the answer reaches the operation that asked, unless that one is gone
Replies(t, reply) ==
    IF Mine(t) THEN op' = [op EXCEPT !.phase = "replied", !.reply = reply] ELSE UNCHANGED op

ReportsFailure(t, code) == IF Mine(t) THEN Fails(code) ELSE UNCHANGED op

\* submitPrompt: the send control is clicked
TypePrompt(t) ==
    LET j == job[t] IN
    /\ j # NoJob /\ ~j.sent /\ ~j.aborted
    /\ url[t] = j.conv
    /\ job' = [job EXCEPT ![t].sent = TRUE]
    /\ typed' = [typed EXCEPT ![j.req] = typed[j.req] + 1]
    /\ \/ /\ j.conv # Root
          /\ where' = [where EXCEPT ![j.req] = j.conv]
          /\ UNCHANGED <<born, used>>
       \/ /\ j.conv = Root
          /\ \E c \in Convs \ used :
                /\ where' = [where EXCEPT ![j.req] = c]
                /\ born' = [born EXCEPT ![t] = c]
                /\ used' = used \cup {c}
    /\ UNCHANGED <<stored, op, removal, url, page, bounds, controller>>

\* a job that waits for the new conversation adopts the address the page shows
SettleJob(t) ==
    /\ job[t].sent /\ ~job[t].aborted /\ job[t].conv = Root /\ url[t] \in Convs
    /\ job' = [job EXCEPT ![t].conv = url[t]]
    /\ UNCHANGED <<stored, op, removal, url, page, born, typed, where, used, bounds, controller>>

\* the response to the marked prompt is stable on the page
AnswerPrompt(t) ==
    /\ job[t].sent /\ ~job[t].aborted
    /\ job[t].conv \in Convs /\ url[t] = job[t].conv /\ where[job[t].req] = url[t]
    /\ job' = [job EXCEPT ![t] = NoJob]
    /\ Replies(t, [conv |-> url[t], doc |-> page[t]])
    /\ UNCHANGED <<stored, removal, url, page, born, typed, where, used, bounds, controller>>

\* a job ends on its abort, another user's message, another conversation, or a timeout
FailPrompt(t) ==
    LET j == job[t]
        reported == current = j.req /\ tab = t /\ doc = page[t] /\ ~j.observing
    IN
    /\ j # NoJob
    /\ job' = [job EXCEPT ![t] = NoJob]
    /\ \/ j.aborted /\ ReportsFailure(t, "INTERRUPTED") /\ UNCHANGED stored
       \/ ReportsFailure(t, "TIMEOUT") /\ UNCHANGED stored
       \/ /\ ReportsFailure(t, "MANUAL")
          /\ IF reported THEN OnlyStatus("AMBIGUOUS") ELSE UNCHANGED stored
    /\ UNCHANGED <<removal, url, page, born, typed, where, used, bounds, controller>>

\* A fault: nobody notices that the message channel closed.
LosesPageUnheard(t) == job' = [job EXCEPT ![t] = NoJob] /\ UNCHANGED op

\* the page that ran a job is gone, and so is its message channel
LosesPage(t) ==
    /\ job' = [job EXCEPT ![t] = NoJob]
    /\ IF job[t] = NoJob \/ ~Mine(t) THEN UNCHANGED op
       ELSE IF op.bootstrap THEN op' = [op EXCEPT !.phase = "recover"]
       ELSE Fails("CHANNEL")

\* the page shows the conversation its first prompt created
ShowNewConversation(t) ==
    /\ born[t] # None /\ url[t] = Root
    /\ url' = [url EXCEPT ![t] = born[t]]
    /\ born' = [born EXCEPT ![t] = None]
    /\ \/ UNCHANGED <<page, job, op>>
       \/ page' = [page EXCEPT ![t] = @ + 1] /\ LosesPage(t)
    /\ UNCHANGED <<stored, removal, typed, where, used, bounds, controller>>

-----------------------------------------------------------------------------
(* handlePrompt, after the page                                             *)

\* recoverBootstrapAfterNavigation: the tab left the start page and took the job along
PromptRecover ==
    LET t == op.at.tab IN
    /\ At("prompt", "recover")
    /\ \/ ~TurnHoldsSession /\ Fails("BINDING") /\ UNCHANGED stored
       \/ TurnHoldsSession /\ Fails("TIMEOUT") /\ UNCHANGED stored
       \/ /\ TurnHoldsSession /\ url[t] \in Convs
          /\ conv' = url[t] /\ doc' = page[t] /\ status' = "BOUND"
          /\ op' = [op EXCEPT !.phase = "observe", !.bootstrap = FALSE,
                        !.at = [op.at EXCEPT !.conv = url[t], !.doc = page[t]]]
          /\ UNCHANGED <<session, tab, current, completed, scopes, acked>>
    /\ UNCHANGED <<removal, pages, bounds, controller>>

\* observeSubmittedPrompt
PromptObserve ==
    /\ At("prompt", "observe")
    /\ Hands([req |-> op.req, conv |-> op.at.conv, sent |-> TRUE, aborted |-> FALSE, observing |-> TRUE])
    /\ UNCHANGED <<stored, removal, url, page, born, typed, where, used, bounds, controller>>

\* the same document answered: bind the conversation its tab shows
PromptPromote ==
    LET t == op.at.tab
        exact == TurnHoldsSession /\ doc = op.at.doc /\ op.reply.doc = op.at.doc /\ url[t] \in Convs
    IN
    /\ At("prompt", "replied") /\ op.bootstrap
    /\ \/ ~exact /\ Fails("BINDING") /\ UNCHANGED stored
       \/ /\ exact
          /\ conv' = url[t] /\ status' = "BOUND"
          /\ op' = [op EXCEPT !.bootstrap = FALSE, !.at = [op.at EXCEPT !.conv = url[t]]]
          /\ UNCHANGED <<session, tab, doc, current, completed, scopes, acked>>
    /\ UNCHANGED <<removal, pages, bounds, controller>>

\* A fault: the reply's document is compared, its conversation is not.
SameDocument == op.reply.doc = op.at.doc

\* assertRelaySafeCompletion
Relayed == op.reply = [conv |-> op.at.conv, doc |-> op.at.doc]

\* the reply and the binding are checked, then completedDelivery is stored
PromptVerify ==
    /\ At("prompt", "replied") /\ ~op.bootstrap
    /\ \/ ~Relayed /\ Fails("BINDING") /\ UNCHANGED stored
       \/ Relayed /\ NotExactlyBound
       \/ /\ Relayed /\ ExactlyBound
          /\ completed' = op.req
          /\ op' = [op EXCEPT !.phase = "send"]
          /\ UNCHANGED <<session, tab, conv, doc, status, current, scopes, acked>>
    /\ UNCHANGED <<removal, pages, bounds, controller>>

\* web.prompt.result, unless the connection is down
PromptSend ==
    /\ At("prompt", "send")
    /\ op' = Idle
    /\ \/ UNCHANGED controller
       \/ /\ ctl' = [ctl EXCEPT ![op.req] = "answered"]
          /\ known' = [known EXCEPT ![Owner(op.req)] = op.at.conv]
    /\ UNCHANGED <<stored, removal, pages, bounds>>

Penalty(code) ==
    CASE code = "AUTH" -> "AUTH_REQUIRED"
      [] code = "DOCUMENT" -> "NEEDS_REBIND"
      [] code \in {"MANUAL", "BINDING"} -> "AMBIGUOUS"
      [] OTHER -> status

\* A fault: a failed prompt always gives its reservation back.
Reserved == op.reserved

\* a reservation is dropped only while the prompt has not left for the page
Withdrawn == op.reserved /\ ~op.started

PromptFails ==
    /\ At("prompt", "failed")
    /\ op' = Idle
    /\ IF Withdrawn
       THEN ClearDelivery(op.req)
       ELSE UNCHANGED <<current, acked>>
    /\ SetStatus(Penalty(op.code))
    /\ \/ UNCHANGED ctl
       \/ ~op.started /\ ctl' = [ctl EXCEPT ![op.req] = "notSent"]
    /\ UNCHANGED <<session, tab, conv, doc, completed, scopes, removal, pages, bounds, known>>

-----------------------------------------------------------------------------
(* Preparing a session (handlePrepare).                                     *)

\* the controller asks for the conversation it records
PrepareStart(s) ==
    /\ ~Held
    /\ op' = [Idle EXCEPT !.kind = "prepare", !.phase = "read",
                          !.at = [Nowhere EXCEPT !.session = s, !.conv = known[s]]]
    /\ UNCHANGED <<stored, removal, pages, bounds, controller>>

\* A fault: a prepared session may always leave its conversation.
Unpinned == FALSE

\* an unresolved delivery pins its session to the stored conversation
PinnedElsewhere ==
    /\ current # None /\ session = op.at.session
    /\ op.at.conv = Root \/ op.at.conv # conv

Shows(c) == {t \in Tabs : url[t] = c}

\* the stored tab first, else the only one that shows the conversation
Candidates ==
    IF op.at.conv # Root /\ tab \in Shows(op.at.conv) THEN {tab}
    ELSE IF Cardinality(Shows(op.at.conv)) = 1 THEN Shows(op.at.conv)
    ELSE {}

Chooses(t) == op' = [op EXCEPT !.phase = "bind", !.at.tab = t, !.at.doc = page'[t]]

PrepareRead ==
    /\ At("prepare", "read")
    /\ \/ PinnedElsewhere /\ op' = Idle /\ UNCHANGED <<stored, removal, url, page>>
       \/ \E t \in Candidates :
            /\ ~PinnedElsewhere /\ job[t] = NoJob
            /\ UNCHANGED <<stored, removal, url, page>>
            /\ Chooses(t)
       \/ \E t \in Tabs :                       \* createConversationBootstrapTab, reopenExactConversationTab
            /\ ~PinnedElsewhere /\ removal[t] = "unopened"
            /\ op.at.conv = Root \/ Shows(op.at.conv) = {}
            /\ removal' = [removal EXCEPT ![t] = "none"]
            /\ url' = [url EXCEPT ![t] = op.at.conv]
            /\ page' = [page EXCEPT ![t] = 1]
            /\ Chooses(t)
            /\ UNCHANGED stored
       \/ /\ ~PinnedElsewhere /\ op' = Idle     \* no unique tab, or its page is not ready
          /\ \E st \in {"AUTH_REQUIRED"} \cup IF session = op.at.session THEN {"AMBIGUOUS", "NEEDS_REBIND"}
                                              ELSE {status} :
                OnlyStatus(st)
          /\ UNCHANGED <<removal, url, page>>
    /\ UNCHANGED <<job, born, typed, where, used, bounds, controller>>

\* the user selected tab t for the session (rebindSession); the controller offers it
\* for a conversation it knows, or when no prompt of the session may be out
RebindStart(s, t) ==
    /\ ~Held /\ url[t] = known[s]
    /\ known[s] = Root => \A r \in Requests : Owner(r) = s => ctl[r] \notin {"sent", "answered"}
    /\ op' = [Idle EXCEPT !.kind = "prepare", !.phase = "bind",
                          !.at = [session |-> s, tab |-> t, conv |-> known[s], doc |-> page[t]]]
    /\ UNCHANGED <<stored, removal, pages, bounds, controller>>

\* persistBoundTab
PrepareBind ==
    /\ At("prepare", "bind")
    /\ op' = Idle
    /\ IF url[op.at.tab] = op.at.conv /\ page[op.at.tab] = op.at.doc /\ MayBind(op.at)
       THEN BindSession(op.at) ELSE UNCHANGED stored
    /\ UNCHANGED <<removal, pages, bounds, controller>>

-----------------------------------------------------------------------------
(* Settling a delivery.                                                     *)

\* the controller has the response and acknowledges; a lost receipt is asked for again
AcknowledgeDelivery(r) ==
    LET again == current = None /\ acked = <<r, session, conv>> IN
    /\ ~Held
    /\ ctl[r] = "answered" /\ session = Owner(r)
    /\ \/ again /\ UNCHANGED <<current, acked>>
       \/ current = r /\ ClearDelivery(r)
    /\ ctl' \in {ctl, [ctl EXCEPT ![r] = "acked"]}
    /\ UNCHANGED <<session, tab, conv, doc, status, completed, scopes, op, removal, pages, bounds, known>>

\* the controller missed the result and reads it from the stored details (deliveryDetails)
InspectDelivery(r) ==
    /\ ctl[r] = "sent" /\ current = r /\ completed = r
    /\ ctl' = [ctl EXCEPT ![r] = "answered"]
    /\ known' = [known EXCEPT ![Owner(r)] = conv]
    /\ UNCHANGED <<stored, op, removal, pages, bounds>>

\* the user gives up an unconfirmed delivery (discardExactDelivery, discardOrphan)
DiscardRead(r) ==
    /\ ~Held
    /\ ctl[r] = "sent" /\ session = Owner(r)
    /\ current \in {r, None}
    /\ completed = None /\ \A s \in Sessions : scopes[s].current = None
    /\ tab # None => job[tab] = NoJob
    /\ op' = [Idle EXCEPT !.kind = "discard", !.phase = "commit", !.req = r, !.at = Here]
    /\ UNCHANGED <<stored, removal, pages, bounds, controller>>

\* the owner must still be the one read before the page was asked (updateIf)
DiscardCommit ==
    /\ At("discard", "commit")
    /\ op' = Idle
    /\ \/ Here # op.at /\ UNCHANGED <<stored, ctl>>
       \/ /\ Here = op.at
          /\ current' = None /\ completed' = None /\ status' = "NEEDS_REBIND"
          /\ ctl' \in {ctl, [ctl EXCEPT ![op.req] = "discarded"]}
          /\ UNCHANGED <<session, tab, conv, doc, scopes, acked>>
    /\ UNCHANGED <<removal, pages, bounds, known>>

\* the user picks a parked delivery to recover (selectDeliveryScope)
SelectScope(s) ==
    LET slot == scopes[s] IN
    /\ ~Held
    /\ slot.current # None /\ slot.conv # None
    /\ session' = s /\ tab' = slot.tab /\ conv' = slot.conv /\ doc' = slot.doc
    /\ current' = slot.current /\ completed' = slot.completed
    /\ scopes' = [Parked EXCEPT ![s] = NoSlot]
    /\ status' = "AMBIGUOUS"
    /\ UNCHANGED <<acked, op, removal, pages, bounds, controller>>

-----------------------------------------------------------------------------
(* Beside the gate.                                                         *)

Aborted(r, t) == IF job[t].req = r THEN [job EXCEPT ![t].aborted = TRUE] ELSE job

\* cancelPrompt and handleDeliveryStop
CancelPrompt(r) ==
    /\ ctl[r] = "sent" /\ current = r /\ tab # None
    /\ job[tab].req = r /\ ~job[tab].aborted
    /\ job' = Aborted(r, tab)
    /\ UNCHANGED <<stored, op, removal, url, page, born, typed, where, used, bounds, controller>>

\* inspectBoundTabTopology: the bound tab shows something else
InspectTopology ==
    /\ status = "BOUND"
    /\ url[tab] # conv \/ page[tab] # doc
    /\ OnlyStatus("AMBIGUOUS")
    /\ job' = IF current # None THEN Aborted(current, tab) ELSE job
    /\ UNCHANGED <<op, removal, url, page, born, typed, where, used, bounds, controller>>

\* chrome.tabs.onRemoved: the state is read, and the stored tab cleared later
RemovalRead(t) ==
    /\ removal[t] = "due"
    /\ removal' = [removal EXCEPT ![t] = IF tab = t THEN "matched" ELSE "handled"]
    /\ UNCHANGED <<stored, op, pages, bounds, controller>>

RemovalWrite(t) ==
    /\ removal[t] = "matched"
    /\ removal' = [removal EXCEPT ![t] = "handled"]
    /\ ForgetTab
    /\ UNCHANGED <<op, pages, bounds, controller>>

\* Chrome stops the worker; it starts again at the next event
WorkerStops ==
    /\ stops < MaxStops /\ stops' = stops + 1
    /\ Held \/ \E t \in Tabs : removal[t] = "matched"
    /\ op' = Idle
    /\ removal' = [t \in Tabs |-> IF removal[t] = "matched" THEN "handled" ELSE removal[t]]
    /\ UNCHANGED <<stored, pages, moves, controller>>

-----------------------------------------------------------------------------
(* The user at the browser.                                                 *)

Move == moves < MaxMoves /\ moves' = moves + 1

\* within the document, or by loading another one
Navigate(t, u) ==
    /\ Move /\ url[t] # None /\ u \in (used \cup {Root}) \ {url[t]}
    /\ url' = [url EXCEPT ![t] = u]
    /\ born' = [born EXCEPT ![t] = None]
    /\ \/ UNCHANGED <<page, job, op>>
       \/ page' = [page EXCEPT ![t] = @ + 1] /\ LosesPage(t)
    /\ UNCHANGED <<stored, removal, typed, where, used, stops, controller>>

Reload(t) ==
    /\ Move /\ url[t] # None
    /\ page' = [page EXCEPT ![t] = @ + 1] /\ LosesPage(t)
    /\ UNCHANGED <<stored, removal, url, born, typed, where, used, stops, controller>>

CloseTab(t) ==
    /\ Move /\ url[t] # None
    /\ url' = [url EXCEPT ![t] = None]
    /\ born' = [born EXCEPT ![t] = None]
    /\ removal' = [removal EXCEPT ![t] = "due"]
    /\ LosesPage(t)
    /\ UNCHANGED <<stored, page, typed, where, used, stops, controller>>

-----------------------------------------------------------------------------
PromptStep ==
    \/ PromptTarget \/ PromptBind \/ PromptReserve \/ PromptCheck \/ PromptDeliver
    \/ PromptRecover \/ PromptObserve \/ PromptPromote \/ PromptVerify
    \/ PromptSend \/ PromptFails

WorkerStep == PromptStep \/ PrepareRead \/ PrepareBind \/ DiscardCommit

PageStep(t) == TypePrompt(t) \/ SettleJob(t) \/ AnswerPrompt(t) \/ FailPrompt(t) \/ ShowNewConversation(t)

ControllerStep ==
    \/ \E r \in Requests :
          StartPrompt(r) \/ AcknowledgeDelivery(r) \/ InspectDelivery(r) \/ DiscardRead(r) \/ CancelPrompt(r)
    \/ \E s \in Sessions : PrepareStart(s) \/ SelectScope(s) \/ \E t \in Tabs : RebindStart(s, t)

BrowserStep ==
    \/ InspectTopology \/ WorkerStops
    \/ \E t \in Tabs : RemovalRead(t) \/ RemovalWrite(t) \/ Reload(t) \/ CloseTab(t) \/ \E u \in Urls : Navigate(t, u)

Next == WorkerStep \/ ControllerStep \/ BrowserStep \/ \E t \in Tabs : PageStep(t)

Spec == Init /\ [][Next]_vars

-----------------------------------------------------------------------------
(* Properties.                                                              *)

Phases == {"none", "target", "bind", "reserve", "check", "deliver", "waiting", "recover",
           "observe", "replied", "send", "failed", "read", "commit"}
Codes == {"none", "NEEDS_REBIND", "MISMATCH", "CONFLICT", "RECOVERY_REQUIRED", "UNREADY", "DOCUMENT", "GONE",
          "MANUAL", "BINDING", "CHANNEL", "BUSY", "AUTH", "INTERRUPTED", "TIMEOUT"}
SlotTypes == [tab : Tabs \cup {None}, conv : Urls \cup {None}, doc : Nat,
              current : Requests \cup {None}, completed : Requests \cup {None}]
JobTypes == [req : Requests \cup {None}, conv : Urls \cup {None}, sent : BOOLEAN, aborted : BOOLEAN,
             observing : BOOLEAN]
Places == [session : Sessions \cup {None}, tab : Tabs \cup {None}, conv : Urls \cup {None}, doc : Nat]
OpTypes == [kind : {"none", "prompt", "prepare", "discard"}, phase : Phases, req : Requests \cup {None},
            at : Places, bootstrap : BOOLEAN, reserved : BOOLEAN, started : BOOLEAN,
            reply : [conv : Urls \cup {None}, doc : Nat], code : Codes]

TypeOK ==
    /\ session \in Sessions \cup {None}
    /\ tab \in Tabs \cup {None} /\ conv \in Urls \cup {None} /\ doc \in Nat
    /\ status \in {"ROOT_READY", "BOUND", "NEEDS_REBIND", "AUTH_REQUIRED", "AMBIGUOUS"}
    /\ current \in Requests \cup {None} /\ completed \in Requests \cup {None}
    /\ scopes \in [Sessions -> SlotTypes]
    /\ acked \in (Requests \X Sessions \X Urls) \cup {None}
    /\ op \in OpTypes
    /\ removal \in [Tabs -> {"unopened", "none", "due", "matched", "handled"}]
    /\ url \in [Tabs -> Urls \cup {None}] /\ page \in [Tabs -> Nat]
    /\ job \in [Tabs -> JobTypes] /\ born \in [Tabs -> Convs \cup {None}]
    /\ typed \in [Requests -> Nat] /\ where \in [Requests -> Convs \cup {None}]
    /\ used \subseteq Convs
    /\ known \in [Sessions -> Urls]
    /\ ctl \in [Requests -> {"new", "sent", "notSent", "answered", "acked", "discarded"}]

Owns(r) == {s \in Sessions : scopes[s].current = r} \cup IF current = r THEN {session} ELSE {}
Owned(r) == Owns(r) # {}
RecordedConv(r) == IF current = r THEN conv ELSE scopes[CHOOSE s \in Sessions : scopes[s].current = r].conv

\* No prompt is typed twice, although the controller sends one again when told it was not
\* dispatched, and the worker may stop between any two steps of handlePrompt.
TypedAtMostOnce == \A r \in Requests : typed[r] <= 1

\* "Not dispatched" is only said of a prompt that no page has or will get, and whose
\* reservation is cleared (the dispatchStatus of handlePrompt's catch block).
NotDispatchedIsTrue ==
    \A r \in Requests : ctl[r] = "notSent" =>
        typed[r] = 0 /\ ~Owned(r) /\ \A t \in Tabs : job[t].req # r

\* What was typed, and how often, is what the controller was told.
TypedAsTold == TypedAtMostOnce /\ NotDispatchedIsTrue

\* However sessions are switched, parked and picked again, a delivery stays with the session
\* it was sent for, and with no other.
OwnedByItsSession == \A r \in Requests : Owns(r) \subseteq {Owner(r)}

\* A delivery that a page was asked to send leaves the stored state only when the controller
\* acknowledges its response or the user discards it.
UnresolvedIsKept ==
    [][\A r \in Requests :
        Owned(r) /\ ~Owned(r)' =>
            \/ typed[r] = 0 /\ At("prompt", "failed") /\ op.req = r
            \/ ctl[r] = "answered" /\ ~Held
            \/ At("discard", "commit") /\ op.req = r]_vars

\* An unresolved delivery never moves to another conversation: prepare, rebind and park keep
\* the one it was recorded with, unless that was the start page.
KeepsItsConversation ==
    [][\A r \in Requests :
        Owned(r) /\ Owned(r)' /\ RecordedConv(r) # Root => RecordedConv(r)' = RecordedConv(r)]_vars

\* An unresolved delivery neither disappears nor moves.
KeptWhereItIs == UnresolvedIsKept /\ KeepsItsConversation

\* The response stored for a delivery was read in the conversation its prompt was typed into,
\* and that is the conversation stored with it.
ResponseIsFromItsConversation ==
    /\ current # None /\ completed = current => where[current] = conv
    /\ \A s \in Sessions :
        scopes[s].current # None /\ scopes[s].completed = scopes[s].current =>
            where[scopes[s].current] = scopes[s].conv

\* A delivery and its response belong to the session and the conversation of the prompt.
DeliveryBelongs == TypeOK /\ OwnedByItsSession /\ ResponseIsFromItsConversation

\* When a prompt leaves for its page, no parked delivery of another session is waiting in
\* that tab or that conversation, whatever happened since the target was chosen.
TargetIsExclusive ==
    At("prompt", "deliver") =>
        \A s \in Sessions :
            scopes[s].current # None => scopes[s].tab # op.at.tab /\ scopes[s].conv # op.at.conv

\* The turn gate is released, whatever happens to the page that has the prompt.
GateIsReleased == Held ~> ~Held

Fairness ==
    /\ WF_vars(WorkerStep)
    /\ \A t \in Tabs : WF_vars(AnswerPrompt(t) \/ FailPrompt(t))
FairSpec == Spec /\ Fairness

=============================================================================
