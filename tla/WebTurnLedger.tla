--------------------------- MODULE WebTurnLedger ---------------------------
(***************************************************************************)
(* What a Web session adapter promises the orchestrator about its turns.   *)
(* A turn is submitted at most once, settles exactly once, and an adapter  *)
(* neither overlaps two turns nor starts one over a turn whose outcome is  *)
(* still ambiguous.  WebSession is shown to implement this specification.  *)
(***************************************************************************)
CONSTANTS Adapters, Turns, NoAdapter

VARIABLES
    owner,      \* the adapter a turn was submitted to, or NoAdapter
    outcome     \* what the caller has been told of the turn

ledgerVars == <<owner, outcome>>

Settled == {"completed", "failed", "interrupted", "ambiguous", "abandoned"}
Outcomes == {"new", "inFlight", "resolved"} \cup Settled

LedgerTypeOK ==
    /\ owner \in [Turns -> Adapters \cup {NoAdapter}]
    /\ outcome \in [Turns -> Outcomes]

LedgerInit ==
    /\ owner = [t \in Turns |-> NoAdapter]
    /\ outcome = [t \in Turns |-> "new"]

Submit(a, t) ==
    /\ outcome[t] = "new"
    /\ \A u \in Turns : owner[u] = a => outcome[u] \notin {"inFlight", "ambiguous"}
    /\ owner' = [owner EXCEPT ![t] = a]
    /\ outcome' = [outcome EXCEPT ![t] = "inFlight"]

\* One event may settle the turns of several adapters: they share a connection.
Settle(T) ==
    /\ T # {}
    /\ \A t \in T : outcome[t] = "inFlight"
    /\ \E how \in [T -> Settled] :
         outcome' = [t \in Turns |-> IF t \in T THEN how[t] ELSE outcome[t]]
    /\ UNCHANGED owner

\* The user, or a later observation of the page, decides an ambiguous turn.
Resolve(t) ==
    /\ outcome[t] = "ambiguous"
    /\ outcome' = [outcome EXCEPT ![t] = "resolved"]
    /\ UNCHANGED owner

LedgerNext ==
    \/ \E a \in Adapters, t \in Turns : Submit(a, t)
    \/ \E T \in SUBSET Turns : Settle(T)
    \/ \E t \in Turns : Resolve(t)

\* The safety part: what a step may do to the turns.
LedgerSafety == LedgerInit /\ [][LedgerNext]_ledgerVars

LedgerSpec ==
    /\ LedgerSafety
    /\ \A t \in Turns : WF_ledgerVars(\E T \in SUBSET Turns : t \in T /\ Settle(T))
=============================================================================
