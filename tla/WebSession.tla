----------------------------- MODULE WebSession -----------------------------
(***************************************************************************)
(* The controller's side of the browser extension: one                     *)
(* WebExtensionTransport and the WebSessionAdapters that share it          *)
(* (src/src/runtime/web/session-adapter.js).                               *)
(*                                                                         *)
(* A socket, a timer and a caller each raise events in any order; the      *)
(* handler of one event and the continuations of the promises it settles   *)
(* run to the end before the next event, so each is one action.  The       *)
(* extension is external: it owes an answer to every request it was sent,  *)
(* gives those answers in any order, late or never, and through whichever  *)
(* socket it then has.                                                     *)
(*                                                                         *)
(* Abstracted: payloads, bindings other than whose session they name, and  *)
(* the clock, of which only "silent for longer than staleAfterMs" is kept. *)
(***************************************************************************)
EXTENDS FiniteSets

CONSTANTS
    Adapters,       \* the adapters created over the transport
    PrimaryAdapter, \* the one whose close() the server calls
    Sockets,        \* connections the extension opens (bound)
    Turns,          \* prompts that callers submit (bound); a turn is submitted once
    Calls,          \* fresh ids of all other requests (bound)
    Operations,     \* the operations callers use, besides prompts
    BindFirst,      \* callers submit in the continuation of resume(), as reviews do
    None            \* null

ASSUME WebSessionAssumption ==
    /\ PrimaryAdapter \in Adapters
    /\ None \notin Adapters \cup Sockets \cup Turns \cup Calls
    /\ Turns \cap Calls = {}

Binding == {"START", "RESUME", "REBIND"}    \* operations that replace the session's binding
Exclusive == Binding \cup {"DISCARD", "RECOVER"}
AboutTurn == {"DISCARD", "RECOVER", "CONFIRM"}
Kinds == Exclusive \cup {"PROMPT", "ACK", "CONFIRM", "LOOK"}
Ids == Turns \cup Calls

ASSUME OperationsAssumption ==
    /\ None \notin Kinds
    /\ Operations \subseteq Kinds \ {"PROMPT"}
    /\ BindFirst \in BOOLEAN

Settled == {"completed", "failed", "interrupted", "ambiguous", "abandoned"}

VARIABLES
    \* WebExtensionTransport
    socket,         \* the selected peer
    authentication, \* #authenticationState
    heard,          \* #lastExtensionActivity, as the staleness test sees it
    binding,        \* the adapter whose session #binding names
    \* the sockets themselves
    open,           \* those whose readyState is OPEN
    linked,         \* attached ones whose "close" event has not been delivered
    unused,         \* those not opened yet
    \* WebSessionAdapter, per adapter
    ready,
    activeTurn,
    ambiguousTurn,
    sessionOperation,
    pending,        \* request id -> kind of the request waiting for an answer
    interrupts,     \* turns with an unsettled interrupt promise
    turnBinding,    \* binding captured by the running #completeTurn
    \* promises as their callers see them
    outcome,        \* of a turn's completion
    stopped,        \* of the last interrupt of a turn
    owner,          \* the adapter a turn was submitted to
    about,          \* the turn a pending DISCARD, RECOVER or CONFIRM names
    \* the extension
    owed,           \* answers it still owes, as <<request id, kind>>
    closed          \* close() was called: the server is shutting down

connection == <<socket, authentication, heard, open, linked, unused>>
adapter == <<ready, activeTurn, ambiguousTurn, sessionOperation, pending, interrupts, turnBinding>>
promises == <<outcome, stopped, owner, about>>
vars == <<connection, binding, adapter, promises, owed, closed>>

FlagTypes ==
    /\ ready \in [Adapters -> BOOLEAN]
    /\ closed \in BOOLEAN

ConnectionTypes ==
    /\ socket \in Sockets \cup {None}
    /\ authentication \in {"DISCONNECTED", "CHALLENGE_SENT", "AUTHENTICATED", "REJECTED"}
    /\ heard \in {"never", "recently", "longAgo"}
    /\ binding \in Adapters \cup {None}
    /\ open \subseteq linked /\ linked \subseteq Sockets /\ unused \subseteq Sockets

AdapterTypes ==
    /\ activeTurn \in [Adapters -> Turns \cup {None}]
    /\ ambiguousTurn \in [Adapters -> Turns \cup {None}]
    /\ sessionOperation \in [Adapters -> Exclusive \cup {None}]
    /\ pending \in [Adapters -> [Ids -> Kinds \cup {None}]]
    /\ interrupts \in [Adapters -> SUBSET Turns]
    /\ turnBinding \in [Adapters -> Adapters \cup {None}]

PromiseTypes ==
    /\ outcome \in [Turns -> {"new", "inFlight", "resolved"} \cup Settled]
    /\ stopped \in [Turns -> {"never", "asked", "confirmed", "unconfirmed"}]
    /\ owner \in [Turns -> Adapters \cup {None}]
    /\ about \in [Calls -> Turns \cup {None}]
    /\ owed \subseteq Ids \X (Kinds \cup {"CANCEL"})

TypeOK == FlagTypes /\ ConnectionTypes /\ AdapterTypes /\ PromiseTypes

Init ==
    /\ socket = None /\ authentication = "DISCONNECTED" /\ heard = "never"
    /\ binding = None
    /\ open = {} /\ linked = {} /\ unused = Sockets
    /\ ready = [a \in Adapters |-> FALSE]
    /\ activeTurn = [a \in Adapters |-> None]
    /\ ambiguousTurn = [a \in Adapters |-> None]
    /\ sessionOperation = [a \in Adapters |-> None]
    /\ pending = [a \in Adapters |-> [i \in Ids |-> None]]
    /\ interrupts = [a \in Adapters |-> {}]
    /\ turnBinding = [a \in Adapters |-> None]
    /\ outcome = [t \in Turns |-> "new"]
    /\ stopped = [t \in Turns |-> "never"]
    /\ owner = [t \in Turns |-> None]
    /\ about = [c \in Calls |-> None]
    /\ owed = {}
    /\ closed = FALSE

Authenticated == authentication = "AUTHENTICATED"
CanSend == Authenticated /\ socket \in open
Responsive == CanSend /\ heard = "recently"

Waiting(a) == {i \in Ids : pending[a][i] # None}
Interrupting == {t \in Turns : \E a \in Adapters : t \in interrupts[a]}
Prompts(a) == {t \in Turns : pending[a][t] = "PROMPT"}

----------------------------------------------------------------------------
(* The loss of a connection.  Every adapter on the transport drops its      *)
(* readiness and all its requests; a prompt that was out becomes ambiguous, *)
(* for the page may well have taken it.                                     *)

\* A fault: the prompt that was out is forgotten.
NothingLost(a) == ambiguousTurn[a]

LostTurn(a) == IF Prompts(a) # {} THEN CHOOSE t \in Prompts(a) : TRUE ELSE ambiguousTurn[a]

Unconfirmed(T) == [t \in Turns |-> IF t \in T THEN "unconfirmed" ELSE stopped[t]]

ReadyAfterLoss(a) == FALSE

RequestsLost ==
    /\ ready' = [a \in Adapters |-> ReadyAfterLoss(a)]
    /\ ambiguousTurn' = [a \in Adapters |-> LostTurn(a)]
    /\ pending' = [a \in Adapters |-> [i \in Ids |-> None]]
    /\ activeTurn' = [a \in Adapters |-> None]
    /\ turnBinding' = [a \in Adapters |-> None]
    /\ sessionOperation' = [a \in Adapters |-> None]
    /\ interrupts' = [a \in Adapters |-> {}]
    /\ outcome' = [t \in Turns |->
         IF \E a \in Adapters : t \in Prompts(a) THEN "ambiguous" ELSE outcome[t]]
    /\ stopped' = Unconfirmed(Interrupting)
    /\ about' = [c \in Calls |-> None]
    /\ UNCHANGED owner

KeepRequests == UNCHANGED <<adapter, promises>>

\* #onClose(socket): nothing to do unless it is the selected peer.
CloseEvent(s) ==
    /\ s \in linked \ open
    /\ linked' = linked \ {s}
    /\ UNCHANGED <<open, unused, binding, owed, closed>>
    /\ IF s = socket
       THEN /\ socket' = None /\ authentication' = "DISCONNECTED" /\ heard' = "never"
            /\ RequestsLost
       ELSE UNCHANGED <<socket, authentication, heard>> /\ KeepRequests

\* The peer vanished: readyState changes before the "close" event is delivered.
SocketDrops(s) ==
    /\ s \in open
    /\ open' = open \ {s}
    /\ UNCHANGED <<socket, authentication, heard, linked, unused, binding, owed, closed>>
    /\ KeepRequests

\* attach(socket): a live authenticated peer wins, any other is replaced.
AttachRefused(s) ==
    /\ s \in unused /\ ~closed
    /\ socket # None /\ Responsive
    /\ unused' = unused \ {s}
    /\ UNCHANGED <<socket, authentication, heard, open, linked, binding, owed, closed>>
    /\ KeepRequests

\* A fault: the requests sent to the peer that is replaced are left to their timers.
ReplacedQuietly == KeepRequests
ReplacesPeer == IF socket # None THEN RequestsLost ELSE KeepRequests

Attach(s) ==
    /\ s \in unused /\ ~closed
    /\ ~(socket # None /\ Responsive)
    /\ unused' = unused \ {s}
    /\ linked' = linked \cup {s}
    /\ open' = (open \ {socket}) \cup {s}
    /\ socket' = s /\ authentication' = "CHALLENGE_SENT" /\ heard' = "never"
    /\ UNCHANGED <<binding, owed, closed>>
    /\ ReplacesPeer

\* The challenge of a connection is consumed by its first answer.
Authenticate(s) ==
    /\ s \in linked /\ s = socket /\ authentication = "CHALLENGE_SENT"
    /\ \/ /\ s \in open
          /\ authentication' = "AUTHENTICATED" /\ heard' = "recently"
          /\ UNCHANGED open
       \/ /\ authentication' = "REJECTED" /\ open' = open \ {s}
          /\ UNCHANGED heard
    /\ UNCHANGED <<socket, linked, unused, binding, owed, closed>>
    /\ KeepRequests

\* staleAfterMs pass without a message of the extension.
GoesSilent ==
    /\ Authenticated /\ heard = "recently"
    /\ heard' = "longAgo"
    /\ UNCHANGED <<socket, authentication, open, linked, unused, binding, owed, closed>>
    /\ KeepRequests

\* expireStaleConnection(), from the activity timer.
ExpireStaleConnection ==
    /\ socket # None /\ Authenticated /\ heard = "longAgo"
    /\ socket' = None /\ authentication' = "DISCONNECTED" /\ heard' = "never"
    /\ open' = open \ {socket}
    /\ UNCHANGED <<linked, unused, binding, owed, closed>>
    /\ RequestsLost

Heartbeat(s) ==
    /\ s \in linked /\ s = socket /\ Authenticated
    /\ heard # "recently"
    /\ heard' = "recently"
    /\ UNCHANGED <<socket, authentication, open, linked, unused, binding, owed, closed>>
    /\ KeepRequests

----------------------------------------------------------------------------
(* #request: a request that cannot be sent is forgotten and thrown back.    *)

Send(a, i, kind) ==
    /\ pending' = [pending EXCEPT ![a][i] = kind]
    /\ owed' = owed \cup {<<i, kind>>}

\* The id of a request is fresh: nobody waits for it and no answer to it can still come.
Fresh(c) == /\ \A a \in Adapters : pending[a][c] = None
            /\ \A kind \in Kinds : <<c, kind>> \notin owed

\* A fault: only another operation on the session is looked for.
NoSessionOperation(a) == sessionOperation[a] = None

NoOperation(a) ==
    /\ activeTurn[a] = None
    /\ sessionOperation[a] = None
    /\ Waiting(a) = {}

\* start(), resume() and rebind(): readiness is given up before the request.
BeginBinding(a, kind, c) ==
    /\ kind \in Binding \cap Operations /\ Fresh(c) /\ ~closed
    /\ Authenticated
    /\ ambiguousTurn[a] = None /\ NoOperation(a)
    /\ ready' = [ready EXCEPT ![a] = FALSE]
    /\ IF CanSend
       THEN /\ sessionOperation' = [sessionOperation EXCEPT ![a] = kind]
            /\ Send(a, c, kind)
       ELSE UNCHANGED <<sessionOperation, pending, owed>>
    /\ UNCHANGED <<connection, binding, activeTurn, ambiguousTurn, interrupts,
                   turnBinding, promises, closed>>

\* discardDelivery() and recoverDelivery(): allowed over the ambiguous turn they name.
BeginSettling(a, kind, c, t) ==
    /\ kind \in {"DISCARD", "RECOVER"} \cap Operations /\ Fresh(c) /\ ~closed
    /\ owner[t] = a
    /\ NoOperation(a)
    /\ ambiguousTurn[a] \in {None, t}
    /\ CanSend
    /\ sessionOperation' = [sessionOperation EXCEPT ![a] = kind]
    /\ about' = [about EXCEPT ![c] = t]
    /\ Send(a, c, kind)
    /\ UNCHANGED <<connection, binding, ready, activeTurn, ambiguousTurn, interrupts,
                   turnBinding, outcome, stopped, owner, closed>>

\* confirmDeliveryAcknowledgement() up to its await: only its own start is guarded.
BeginConfirm(a, c, t) ==
    /\ "CONFIRM" \in Operations /\ Fresh(c) /\ ~closed
    /\ owner[t] = a
    /\ activeTurn[a] = None /\ ambiguousTurn[a] \in {None, t}
    /\ CanSend
    /\ about' = [about EXCEPT ![c] = t]
    /\ Send(a, c, "CONFIRM")
    /\ UNCHANGED <<connection, binding, ready, activeTurn, ambiguousTurn, sessionOperation,
                   interrupts, turnBinding, outcome, stopped, owner, closed>>

\* inspectDelivery(), focusDelivery() and stopDelivery() change nothing here.
BeginLook(a, c) ==
    /\ "LOOK" \in Operations /\ Fresh(c) /\ ~closed
    /\ CanSend
    /\ Send(a, c, "LOOK")
    /\ UNCHANGED <<connection, binding, ready, activeTurn, ambiguousTurn, sessionOperation,
                   interrupts, turnBinding, promises, closed>>

MaySubmit(a) ==
    /\ ambiguousTurn[a] = None
    /\ ready[a]
    /\ binding # None
    /\ activeTurn[a] = None

\* Nothing here looks at the other requests of the adapter; a caller that submits in the
\* continuation of resume(), which tolerates none, finds none (submitRoleTurn).
SubmitTurn(a, t) ==
    /\ owner[t] = None /\ ~closed
    /\ BindFirst => Waiting(a) = {}
    /\ MaySubmit(a)
    /\ CanSend
    /\ activeTurn' = [activeTurn EXCEPT ![a] = t]
    /\ turnBinding' = [turnBinding EXCEPT ![a] = binding]
    /\ outcome' = [outcome EXCEPT ![t] = "inFlight"]
    /\ owner' = [owner EXCEPT ![t] = a]
    /\ Send(a, t, "PROMPT")
    /\ UNCHANGED <<connection, binding, ready, ambiguousTurn, sessionOperation, interrupts,
                   stopped, about, closed>>

\* The request id of an acknowledgement is the turn itself.  Callers acknowledge a turn
\* whose answer they hold, or one they observed completed: nothing is owed for it.
AcknowledgeDelivery(a, t) ==
    /\ "ACK" \in Operations /\ ~closed
    /\ owner[t] = a /\ outcome[t] \in {"completed", "failed", "ambiguous"}
    /\ <<t, "PROMPT">> \notin owed
    /\ pending[a][t] = None
    /\ CanSend
    /\ Send(a, t, "ACK")
    /\ UNCHANGED <<connection, binding, ready, activeTurn, ambiguousTurn, sessionOperation,
                   interrupts, turnBinding, promises, closed>>

\* interrupt(): a second call joins the promise of the first.
Interrupt(a, t) ==
    /\ ~closed
    /\ pending[a][t] # None /\ t \notin interrupts[a]
    /\ IF CanSend
       THEN /\ interrupts' = [interrupts EXCEPT ![a] = @ \cup {t}]
            /\ stopped' = [stopped EXCEPT ![t] = "asked"]
            /\ owed' = owed \cup {<<t, "CANCEL">>}
       ELSE /\ stopped' = Unconfirmed({t})
            /\ UNCHANGED <<interrupts, owed>>
    /\ UNCHANGED <<connection, binding, ready, activeTurn, ambiguousTurn, sessionOperation,
                   pending, turnBinding, outcome, owner, about, closed>>

----------------------------------------------------------------------------
(* Timers.                                                                  *)

\* A prompt's timer is the longest: an operation that can only begin before the prompt
\* has ended by then.
Armed(a, i) ==
    /\ pending[a][i] # None
    /\ pending[a][i] = "PROMPT" =>
         \A c \in Calls : pending[a][c] \notin Exclusive \cup {"CONFIRM"}

\* The timer of #request, with the handling of the rejection it causes.
RequestTimeout(a, i) ==
    /\ Armed(a, i)
    /\ pending' = [pending EXCEPT ![a][i] = None]
    /\ IF pending[a][i] = "PROMPT"
       THEN /\ ambiguousTurn' = [ambiguousTurn EXCEPT ![a] = i]
            /\ activeTurn' = [activeTurn EXCEPT ![a] = None]
            /\ turnBinding' = [turnBinding EXCEPT ![a] = None]
            /\ outcome' = [outcome EXCEPT ![i] = "ambiguous"]
       ELSE UNCHANGED <<ambiguousTurn, activeTurn, turnBinding, outcome>>
    /\ sessionOperation' =
         IF pending[a][i] \in Exclusive THEN [sessionOperation EXCEPT ![a] = None] ELSE sessionOperation
    /\ ready' = IF pending[a][i] \in Binding THEN [ready EXCEPT ![a] = FALSE] ELSE ready
    /\ about' = IF i \in Calls THEN [about EXCEPT ![i] = None] ELSE about
    /\ UNCHANGED <<connection, binding, interrupts, stopped, owner, owed, closed>>

InterruptTimeout(a, t) ==
    /\ t \in interrupts[a]
    /\ interrupts' = [interrupts EXCEPT ![a] = @ \ {t}]
    /\ stopped' = Unconfirmed({t})
    /\ UNCHANGED <<connection, binding, ready, activeTurn, ambiguousTurn, sessionOperation, pending,
                   turnBinding, outcome, owner, about, owed, closed>>

----------------------------------------------------------------------------
(* Messages of the extension.  An answer is dropped when its socket is not  *)
(* the selected one, the peer is not authenticated, or no request of that   *)
(* id still waits for an answer of that type.                               *)

Expected(kind) ==
    CASE kind = "PROMPT" -> {"RESULT", "ERROR", "CANCELLED"}
      [] kind = "ACK" -> {"ACKED", "ERROR"}
      [] OTHER -> {"DONE", "FAILED"}

\* What the extension may answer to what it owes.
Answers(kind) ==
    CASE kind = "PROMPT" -> {"RESULT", "ERROR"}
      [] kind = "CANCEL" -> {"CANCELLED", "ERROR"}
      [] OTHER -> Expected(kind)

Accepts(a, i, type) == pending[a][i] # None /\ type \in Expected(pending[a][i])

\* A fault: whatever ends the turn counts as a confirmation.
SettleAnyway(a, i, confirmed) ==
    /\ interrupts' = [interrupts EXCEPT ![a] = @ \ {i}]
    /\ stopped' = IF i \in interrupts[a] THEN [stopped EXCEPT ![i] = "confirmed"] ELSE stopped

SettleInterrupt(a, i, confirmed) ==
    /\ interrupts' = [interrupts EXCEPT ![a] = @ \ {i}]
    /\ stopped' = IF i \in interrupts[a]
                  THEN [stopped EXCEPT ![i] = IF confirmed THEN "confirmed" ELSE "unconfirmed"]
                  ELSE stopped

Ended(a, i, how, result) ==
    /\ pending' = [pending EXCEPT ![a][i] = None]
    /\ SettleInterrupt(a, i, how = "CANCELLED")
    /\ activeTurn' = [activeTurn EXCEPT ![a] = None]
    /\ turnBinding' = [turnBinding EXCEPT ![a] = None]
    /\ outcome' = [outcome EXCEPT ![i] = result]
    /\ UNCHANGED <<ambiguousTurn, sessionOperation, about>>

\* #completeTurn after a result whose trace, evidence and session all match.
TurnCompletes(a, t) ==
    /\ turnBinding[a] = a
    /\ binding' = a
    /\ Ended(a, t, "RESULT", "completed")
    /\ UNCHANGED ready

\* A refused result, or an error: some codes take the session's readiness with them.
TurnFails(a, t, type) ==
    /\ \/ UNCHANGED ready
       \/ ready' = [ready EXCEPT ![a] = FALSE]
    /\ Ended(a, t, type, "failed")
    /\ UNCHANGED binding

TurnInterrupted(a, t) ==
    /\ Ended(a, t, "CANCELLED", "interrupted")
    /\ UNCHANGED <<ready, binding>>

\* The answer to start(), resume() or rebind(); a session that differs is refused.
SessionBound(a, c, type) ==
    /\ pending' = [pending EXCEPT ![a][c] = None]
    /\ sessionOperation' = [sessionOperation EXCEPT ![a] = None]
    /\ \/ /\ type = "DONE"
          /\ ready' = [ready EXCEPT ![a] = TRUE] /\ binding' = a
       \/ ready' = [ready EXCEPT ![a] = FALSE] /\ UNCHANGED binding
    /\ UNCHANGED <<activeTurn, ambiguousTurn, interrupts, turnBinding, outcome, stopped, about>>

\* The rest of discardDelivery(), recoverDelivery() and confirmDeliveryAcknowledgement():
\* the last two clear whatever turn is ambiguous by then.
DeliverySettled(a, c, type) ==
    LET kind == pending[a][c]
        t == about[c]
        settles == type = "DONE" /\ ambiguousTurn[a] # None
                   /\ (kind = "DISCARD" => ambiguousTurn[a] = t)
    IN  /\ pending' = [pending EXCEPT ![a][c] = None]
        /\ sessionOperation' =
             IF kind \in Exclusive THEN [sessionOperation EXCEPT ![a] = None] ELSE sessionOperation
        /\ \/ /\ type = "DONE"
              /\ ambiguousTurn' = IF settles THEN [ambiguousTurn EXCEPT ![a] = None] ELSE ambiguousTurn
              /\ outcome' = IF outcome[t] = "ambiguous" /\ settles
                            THEN [outcome EXCEPT ![t] = "resolved"] ELSE outcome
              /\ ready' = IF kind \in Exclusive THEN [ready EXCEPT ![a] = FALSE] ELSE ready
           \/ UNCHANGED <<ambiguousTurn, outcome, ready>>
        /\ about' = [about EXCEPT ![c] = None]
        /\ UNCHANGED <<binding, activeTurn, interrupts, turnBinding, stopped>>

\* ACK and LOOK.
Answered(a, i) ==
    /\ pending' = [pending EXCEPT ![a][i] = None]
    /\ SettleInterrupt(a, i, FALSE)
    /\ UNCHANGED <<binding, ready, activeTurn, ambiguousTurn, sessionOperation, turnBinding, outcome, about>>

Dispatch(a, i, type) ==
    \/ /\ pending[a][i] = "PROMPT"
       /\ \/ type = "RESULT" /\ TurnCompletes(a, i)
          \/ type \in {"RESULT", "ERROR"} /\ TurnFails(a, i, type)
          \/ type = "CANCELLED" /\ TurnInterrupted(a, i)
    \/ pending[a][i] \in Binding /\ SessionBound(a, i, type)
    \/ pending[a][i] \in AboutTurn /\ DeliverySettled(a, i, type)
    \/ pending[a][i] = "ACK" /\ Answered(a, i)
    \/ pending[a][i] = "LOOK" /\ Answered(a, i)

Message(s, i, type) ==
    /\ s \in linked
    /\ \E kind \in Kinds \cup {"CANCEL"} :
         <<i, kind>> \in owed /\ type \in Answers(kind) /\ owed' = owed \ {<<i, kind>>}
    /\ IF s = socket /\ Authenticated
       THEN /\ heard' = "recently"
            /\ \/ \E a \in Adapters : Accepts(a, i, type) /\ Dispatch(a, i, type)
               \/ /\ \A a \in Adapters : ~Accepts(a, i, type)
                  /\ UNCHANGED <<adapter, binding, outcome, stopped, about>>
       ELSE UNCHANGED <<heard, adapter, binding, outcome, stopped, about>>
    /\ UNCHANGED <<socket, authentication, open, linked, unused, owner, closed>>

\* web.manual-intervention for a turn the extension is still working on.
ManualIntervention(s, t) ==
    /\ s \in linked /\ s = socket /\ Authenticated
    /\ <<t, "PROMPT">> \in owed
    /\ heard' = "recently"
    /\ ready' = [a \in Adapters |-> ready[a] /\ pending[a][t] = None]
    /\ ambiguousTurn' = [a \in Adapters |-> IF pending[a][t] # None THEN t ELSE ambiguousTurn[a]]
    /\ pending' = [a \in Adapters |-> [pending[a] EXCEPT ![t] = None]]
    /\ LET running == {a \in Adapters : pending[a][t] = "PROMPT"}
       IN  /\ activeTurn' = [a \in Adapters |-> IF a \in running THEN None ELSE activeTurn[a]]
           /\ turnBinding' = [a \in Adapters |-> IF a \in running THEN None ELSE turnBinding[a]]
           /\ outcome' = IF running # {} THEN [outcome EXCEPT ![t] = "ambiguous"] ELSE outcome
    /\ interrupts' = [a \in Adapters |-> interrupts[a] \ {t}]
    /\ stopped' = Unconfirmed({t} \cap Interrupting)
    /\ UNCHANGED <<socket, authentication, open, linked, unused, binding, sessionOperation,
                   owner, about, owed, closed>>

\* close(), when the server shuts down: prompts are given up, not made ambiguous.
Close ==
    /\ ~closed
    /\ closed' = TRUE
    /\ LET a == PrimaryAdapter
       IN  /\ ready' = [ready EXCEPT ![a] = FALSE]
           /\ outcome' = [t \in Turns |-> IF t \in Prompts(a) THEN "abandoned" ELSE outcome[t]]
           /\ pending' = [pending EXCEPT ![a] = [i \in Ids |-> None]]
           /\ activeTurn' = [activeTurn EXCEPT ![a] = None]
           /\ turnBinding' = [turnBinding EXCEPT ![a] = None]
           /\ sessionOperation' = [sessionOperation EXCEPT ![a] = None]
           /\ stopped' = Unconfirmed(interrupts[a])
           /\ interrupts' = [interrupts EXCEPT ![a] = {}]
    /\ open' = open \ {socket}
    /\ socket' = None /\ authentication' = "DISCONNECTED" /\ heard' = "never"
    /\ about' = [c \in Calls |-> IF pending[PrimaryAdapter][c] # None THEN None ELSE about[c]]
    /\ UNCHANGED <<linked, unused, binding, ambiguousTurn, owner, owed>>

----------------------------------------------------------------------------
ConnectionEvent ==
    \/ \E s \in Sockets :
         \/ CloseEvent(s) \/ SocketDrops(s) \/ AttachRefused(s) \/ Attach(s)
         \/ Authenticate(s) \/ Heartbeat(s)
    \/ GoesSilent \/ ExpireStaleConnection

Call ==
    \/ \E a \in Adapters, c \in Calls :
         \/ \E kind \in Binding : BeginBinding(a, kind, c)
         \/ \E kind \in {"DISCARD", "RECOVER"}, t \in Turns : BeginSettling(a, kind, c, t)
         \/ \E t \in Turns : BeginConfirm(a, c, t)
         \/ BeginLook(a, c)
    \/ \E a \in Adapters, t \in Turns :
         SubmitTurn(a, t) \/ AcknowledgeDelivery(a, t) \/ Interrupt(a, t)
    \/ Close

Timer ==
    \E a \in Adapters :
      \/ \E i \in Ids : RequestTimeout(a, i)
      \/ \E t \in Turns : InterruptTimeout(a, t)

ExtensionMessage ==
    \E s \in Sockets :
      \/ \E i \in Ids : \E type \in {"RESULT", "ERROR", "CANCELLED", "ACKED", "DONE", "FAILED"} :
           Message(s, i, type)
      \/ \E t \in Turns : ManualIntervention(s, t)

Next == ConnectionEvent \/ Call \/ Timer \/ ExtensionMessage

\* A timer that is armed fires unless it is cleared first.
Fairness ==
    /\ \A a \in Adapters :
         /\ \A i \in Ids : WF_vars(RequestTimeout(a, i))
         /\ \A t \in Turns : WF_vars(InterruptTimeout(a, t))

Spec == Init /\ [][Next]_vars /\ Fairness

----------------------------------------------------------------------------
(* Properties.                                                              *)

\* Every request that waits was sent over the connection that is authenticated now: no
\* promise is left to an adapter by a connection that is gone.
NoRequestOutlivesItsConnection ==
    ~closed => \A a \in Adapters : Waiting(a) # {} => Authenticated

\* An adapter has at most one prompt out, the active turn, and a turn is active
\* exactly as long as its answer is awaited.
OnePromptInFlight ==
    \A a \in Adapters : Prompts(a) = {activeTurn[a]} \ {None}

\* While the session's binding is being replaced the adapter is not ready and no
\* prompt is out, although submitTurn() never looks at the running operation.
QuietWhileBinding ==
    \A a \in Adapters : sessionOperation[a] \in Binding => ~ready[a] /\ Prompts(a) = {}

\* No adapter stays ready across a reconnection: readiness is earned anew on each.
ReadinessDiesWithItsConnection ==
    ~closed => \A a \in Adapters : ready[a] => Authenticated /\ binding # None

\* A connection that is gone leaves neither a request nor a readiness behind.
ConnectionEndsEverything == NoRequestOutlivesItsConnection /\ ReadinessDiesWithItsConnection

\* The page never gets a prompt beside another, nor while its binding is replaced.
PromptsAreExclusive == OnePromptInFlight /\ QuietWhileBinding

\* A confirmed interrupt means that the turn itself ended as interrupted.
ConfirmedInterruptsEndTheTurn ==
    \A t \in Turns : stopped[t] = "confirmed" => outcome[t] = "interrupted"

\* What the invariants rest on: only turns are prompted or acknowledged, each by its
\* owner, a prompt that is out is one whose outcome the caller still waits for, and
\* without a peer nothing is authenticated.
RequestKinds ==
    /\ \A a \in Adapters, c \in Calls : pending[a][c] \notin {"PROMPT", "ACK"}
    /\ \A a \in Adapters, t \in Turns : pending[a][t] \in {None, "PROMPT", "ACK"}
    /\ \A a \in Adapters, t \in Turns :
         pending[a][t] = "PROMPT" => outcome[t] = "inFlight" /\ owner[t] = a
    /\ \A t \in Turns : owner[t] = None => outcome[t] = "new"
    /\ socket = None => authentication = "DISCONNECTED"

\* The adapter implements the promise of WebTurnLedger: a turn settles exactly once,
\* turns of an adapter do not overlap, and none starts over an ambiguous one: "Web turn
\* ... requires recovery before another operation".
Ledger == INSTANCE WebTurnLedger WITH
    NoAdapter <- None

TurnsFollowTheLedger == Ledger!LedgerSpec
=============================================================================
