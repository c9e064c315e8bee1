-------------------------- MODULE WebSessionProofs --------------------------
(***************************************************************************)
(* Proofs about WebSession, for any number of adapters, sockets and turns. *)
(*                                                                         *)
(* IInv is the five safety properties, their types, and RequestKinds: an   *)
(* answer is matched to a request by its id alone, so that the properties  *)
(* are kept only because an id is never used for two kinds of request, and *)
(* because a prompt that is out belongs to a turn its caller still waits   *)
(* for.  Flags, connection, adapters and promises have types of their own: *)
(* an action disturbs few of them, and a step proved for one group does    *)
(* not need the others.  The last part shows that the adapters keep the    *)
(* ledger of WebTurnLedger.                                                *)
(***************************************************************************)
EXTENDS WebSession, TLAPS

USE DEF vars, connection, adapter, promises

\* The inductive invariant
IInv ==
    /\ TypeOK
    /\ RequestKinds
    /\ OnePromptInFlight
    /\ QuietWhileBinding
    /\ NoRequestOutlivesItsConnection
    /\ ReadinessDiesWithItsConnection
    /\ ConfirmedInterruptsEndTheTurn
-----------------------------------------------------------------------------
(* Type correctness *)

\* Every step keeps the flags Boolean
LEMMA FlagsStep == FlagTypes /\ [Next]_vars => FlagTypes'
  <1> SUFFICES ASSUME FlagTypes, [Next]_vars PROVE FlagTypes'
    OBVIOUS
  <1> USE DEF FlagTypes
  <1>1. ASSUME NEW s \in Sockets, CloseEvent(s)
        PROVE  FlagTypes'
    BY <1>1 DEF CloseEvent, RequestsLost, KeepRequests, ReadyAfterLoss
  <1>2. ASSUME NEW s \in Sockets, SocketDrops(s)
        PROVE  FlagTypes'
    BY <1>2 DEF SocketDrops, KeepRequests
  <1>3. ASSUME NEW s \in Sockets, AttachRefused(s)
        PROVE  FlagTypes'
    BY <1>3 DEF AttachRefused, KeepRequests
  <1>4. ASSUME NEW s \in Sockets, Attach(s)
        PROVE  FlagTypes'
    BY <1>4 DEF Attach, ReplacesPeer, RequestsLost, KeepRequests, ReadyAfterLoss
  <1>5. ASSUME NEW s \in Sockets, Authenticate(s)
        PROVE  FlagTypes'
    BY <1>5 DEF Authenticate, KeepRequests
  <1>6. ASSUME NEW s \in Sockets, Heartbeat(s)
        PROVE  FlagTypes'
    BY <1>6 DEF Heartbeat, KeepRequests
  <1>7. CASE GoesSilent
    BY <1>7 DEF GoesSilent, KeepRequests
  <1>8. CASE ExpireStaleConnection
    BY <1>8 DEF ExpireStaleConnection, RequestsLost, ReadyAfterLoss
  <1>9. ASSUME NEW a \in Adapters, NEW c \in Calls, NEW kind \in Binding, BeginBinding(a, kind, c)
        PROVE  FlagTypes'
    BY <1>9 DEF BeginBinding, Send
  <1>10. ASSUME NEW a \in Adapters, NEW c \in Calls, NEW kind \in {"DISCARD", "RECOVER"},
                NEW t \in Turns, BeginSettling(a, kind, c, t)
         PROVE  FlagTypes'
    BY <1>10 DEF BeginSettling, Send
  <1>11. ASSUME NEW a \in Adapters, NEW c \in Calls, NEW t \in Turns, BeginConfirm(a, c, t)
         PROVE  FlagTypes'
    BY <1>11 DEF BeginConfirm, Send
  <1>12. ASSUME NEW a \in Adapters, NEW c \in Calls, BeginLook(a, c)
         PROVE  FlagTypes'
    BY <1>12 DEF BeginLook, Send
  <1>13. ASSUME NEW a \in Adapters, NEW t \in Turns, SubmitTurn(a, t)
         PROVE  FlagTypes'
    BY <1>13 DEF SubmitTurn, MaySubmit, Send
  <1>14. ASSUME NEW a \in Adapters, NEW t \in Turns, AcknowledgeDelivery(a, t)
         PROVE  FlagTypes'
    BY <1>14 DEF AcknowledgeDelivery, Send
  <1>15. ASSUME NEW a \in Adapters, NEW t \in Turns, Interrupt(a, t)
         PROVE  FlagTypes'
    BY <1>15 DEF Interrupt
  <1>16. CASE Close
    BY <1>16 DEF Close
  <1>17. ASSUME NEW a \in Adapters, NEW i \in Ids, RequestTimeout(a, i)
         PROVE  FlagTypes'
    BY <1>17 DEF RequestTimeout, Armed
  <1>18. ASSUME NEW a \in Adapters, NEW t \in Turns, InterruptTimeout(a, t)
         PROVE  FlagTypes'
    BY <1>18 DEF InterruptTimeout
  <1>19. ASSUME NEW s \in Sockets, NEW i \in Ids,
                NEW type \in {"RESULT", "ERROR", "CANCELLED", "ACKED", "DONE", "FAILED"},
                Message(s, i, type)
         PROVE  FlagTypes'
    <2>1. /\ UNCHANGED <<socket, authentication, open, linked, unused, owner, closed>>
          /\ heard' \in {heard, "recently"}
          /\ owed' \subseteq owed
      BY <1>19 DEF Message
    <2>2. ASSUME NEW a \in Adapters, pending[a][i] = "PROMPT", type = "RESULT", TurnCompletes(a, i),
                 Authenticated
          PROVE  FlagTypes'
      BY <2>1, <2>2 DEF TurnCompletes, Ended, SettleInterrupt
    <2>3. ASSUME NEW a \in Adapters, pending[a][i] = "PROMPT", type \in {"RESULT", "ERROR"}, TurnFails(a, i, type),
                 Authenticated
          PROVE  FlagTypes'
      BY <2>1, <2>3 DEF TurnFails, Ended, SettleInterrupt
    <2>4. ASSUME NEW a \in Adapters, pending[a][i] = "PROMPT", type = "CANCELLED", TurnInterrupted(a, i),
                 Authenticated
          PROVE  FlagTypes'
      BY <2>1, <2>4 DEF TurnInterrupted, Ended, SettleInterrupt
    <2>5. ASSUME NEW a \in Adapters, pending[a][i] \in Binding, SessionBound(a, i, type),
                 Authenticated
          PROVE  FlagTypes'
      BY <2>1, <2>5 DEF SessionBound
    <2>6. ASSUME NEW a \in Adapters, pending[a][i] \in AboutTurn, DeliverySettled(a, i, type),
                 Authenticated
          PROVE  FlagTypes'
      BY <2>1, <2>6 DEF DeliverySettled
    <2>7. ASSUME NEW a \in Adapters, pending[a][i] \in {"ACK", "LOOK"}, Answered(a, i),
                 Authenticated
          PROVE  FlagTypes'
      BY <2>1, <2>7 DEF Answered, SettleInterrupt
    <2>8. CASE UNCHANGED <<adapter, binding, outcome, stopped, about>>
      BY <2>1, <2>8 DEF adapter
    <2> QED
      BY <1>19, <2>1, <2>2, <2>3, <2>4, <2>5, <2>6, <2>7, <2>8 DEF Message, Dispatch
  <1>20. ASSUME NEW s \in Sockets, NEW t \in Turns, ManualIntervention(s, t)
         PROVE  FlagTypes'
    BY <1>20 DEF ManualIntervention
  <1>21. CASE UNCHANGED vars
    BY <1>21
  <1> HIDE DEF FlagTypes
  <1> QED
    BY <1>1, <1>2, <1>3, <1>4, <1>5, <1>6, <1>7, <1>8, <1>9, <1>10, <1>11, <1>12, <1>13,
      <1>14, <1>15, <1>16, <1>17, <1>18, <1>19, <1>20, <1>21 DEF Next, ConnectionEvent,
      Call, Timer, ExtensionMessage

\* Every step keeps the types of the connection
LEMMA ConnectionTypesStep == ConnectionTypes /\ [Next]_vars => ConnectionTypes'
  <1> SUFFICES ASSUME ConnectionTypes, [Next]_vars PROVE ConnectionTypes'
    OBVIOUS
  <1> USE DEF ConnectionTypes
  <1>1. ASSUME NEW s \in Sockets, CloseEvent(s)
        PROVE  ConnectionTypes'
    BY <1>1 DEF CloseEvent
  <1>2. ASSUME NEW s \in Sockets, SocketDrops(s)
        PROVE  ConnectionTypes'
    BY <1>2 DEF SocketDrops
  <1>3. ASSUME NEW s \in Sockets, AttachRefused(s)
        PROVE  ConnectionTypes'
    BY <1>3 DEF AttachRefused
  <1>4. ASSUME NEW s \in Sockets, Attach(s)
        PROVE  ConnectionTypes'
    BY <1>4 DEF Attach, ReplacesPeer
  <1>5. ASSUME NEW s \in Sockets, Authenticate(s)
        PROVE  ConnectionTypes'
    BY <1>5 DEF Authenticate
  <1>6. ASSUME NEW s \in Sockets, Heartbeat(s)
        PROVE  ConnectionTypes'
    BY <1>6 DEF Heartbeat
  <1>7. CASE GoesSilent
    BY <1>7 DEF GoesSilent
  <1>8. CASE ExpireStaleConnection
    BY <1>8 DEF ExpireStaleConnection
  <1>9. ASSUME NEW a \in Adapters, NEW c \in Calls, NEW kind \in Binding, BeginBinding(a, kind, c)
        PROVE  ConnectionTypes'
    BY <1>9 DEF BeginBinding
  <1>10. ASSUME NEW a \in Adapters, NEW c \in Calls, NEW kind \in {"DISCARD", "RECOVER"},
                NEW t \in Turns, BeginSettling(a, kind, c, t)
         PROVE  ConnectionTypes'
    BY <1>10 DEF BeginSettling
  <1>11. ASSUME NEW a \in Adapters, NEW c \in Calls, NEW t \in Turns, BeginConfirm(a, c, t)
         PROVE  ConnectionTypes'
    BY <1>11 DEF BeginConfirm
  <1>12. ASSUME NEW a \in Adapters, NEW c \in Calls, BeginLook(a, c)
         PROVE  ConnectionTypes'
    BY <1>12 DEF BeginLook
  <1>13. ASSUME NEW a \in Adapters, NEW t \in Turns, SubmitTurn(a, t)
         PROVE  ConnectionTypes'
    BY <1>13 DEF SubmitTurn
  <1>14. ASSUME NEW a \in Adapters, NEW t \in Turns, AcknowledgeDelivery(a, t)
         PROVE  ConnectionTypes'
    BY <1>14 DEF AcknowledgeDelivery
  <1>15. ASSUME NEW a \in Adapters, NEW t \in Turns, Interrupt(a, t)
         PROVE  ConnectionTypes'
    BY <1>15 DEF Interrupt
  <1>16. CASE Close
    BY <1>16 DEF Close
  <1>17. ASSUME NEW a \in Adapters, NEW i \in Ids, RequestTimeout(a, i)
         PROVE  ConnectionTypes'
    BY <1>17 DEF RequestTimeout
  <1>18. ASSUME NEW a \in Adapters, NEW t \in Turns, InterruptTimeout(a, t)
         PROVE  ConnectionTypes'
    BY <1>18 DEF InterruptTimeout
  <1>19. ASSUME NEW s \in Sockets, NEW i \in Ids,
                NEW type \in {"RESULT", "ERROR", "CANCELLED", "ACKED", "DONE", "FAILED"},
                Message(s, i, type)
         PROVE  ConnectionTypes'
    <2>1. /\ UNCHANGED <<socket, authentication, open, linked, unused, owner, closed>>
          /\ heard' \in {heard, "recently"}
          /\ owed' \subseteq owed
      BY <1>19 DEF Message
    <2>2. ASSUME NEW a \in Adapters, pending[a][i] = "PROMPT", type = "RESULT", TurnCompletes(a, i),
                 Authenticated
          PROVE  ConnectionTypes'
      BY <2>1, <2>2 DEF TurnCompletes, Ended, SettleInterrupt
    <2>3. ASSUME NEW a \in Adapters, pending[a][i] = "PROMPT", type \in {"RESULT", "ERROR"}, TurnFails(a, i, type),
                 Authenticated
          PROVE  ConnectionTypes'
      BY <2>1, <2>3 DEF TurnFails, Ended, SettleInterrupt
    <2>4. ASSUME NEW a \in Adapters, pending[a][i] = "PROMPT", type = "CANCELLED", TurnInterrupted(a, i),
                 Authenticated
          PROVE  ConnectionTypes'
      BY <2>1, <2>4 DEF TurnInterrupted, Ended, SettleInterrupt
    <2>5. ASSUME NEW a \in Adapters, pending[a][i] \in Binding, SessionBound(a, i, type),
                 Authenticated
          PROVE  ConnectionTypes'
      BY <2>1, <2>5 DEF SessionBound
    <2>6. ASSUME NEW a \in Adapters, pending[a][i] \in AboutTurn, DeliverySettled(a, i, type),
                 Authenticated
          PROVE  ConnectionTypes'
      BY <2>1, <2>6 DEF DeliverySettled
    <2>7. ASSUME NEW a \in Adapters, pending[a][i] \in {"ACK", "LOOK"}, Answered(a, i),
                 Authenticated
          PROVE  ConnectionTypes'
      BY <2>1, <2>7 DEF Answered, SettleInterrupt
    <2>8. CASE UNCHANGED <<adapter, binding, outcome, stopped, about>>
      BY <2>1, <2>8 DEF adapter
    <2> QED
      BY <1>19, <2>1, <2>2, <2>3, <2>4, <2>5, <2>6, <2>7, <2>8 DEF Message, Dispatch
  <1>20. ASSUME NEW s \in Sockets, NEW t \in Turns, ManualIntervention(s, t)
         PROVE  ConnectionTypes'
    BY <1>20 DEF ManualIntervention
  <1>21. CASE UNCHANGED vars
    BY <1>21
  <1> HIDE DEF ConnectionTypes
  <1> QED
    BY <1>1, <1>2, <1>3, <1>4, <1>5, <1>6, <1>7, <1>8, <1>9, <1>10, <1>11, <1>12, <1>13,
      <1>14, <1>15, <1>16, <1>17, <1>18, <1>19, <1>20, <1>21 DEF Next, ConnectionEvent,
      Call, Timer, ExtensionMessage

\* The loss of a connection keeps the types of the adapters
LEMMA LossKeepsAdapterTypes == AdapterTypes /\ RequestsLost => AdapterTypes'
  <1> SUFFICES ASSUME AdapterTypes, RequestsLost PROVE AdapterTypes'
    OBVIOUS
  <1> USE DEF AdapterTypes, RequestsLost, LostTurn, Prompts
  <1>1. activeTurn' \in [Adapters -> Turns \cup {None}]
    OBVIOUS
  <1>2. ambiguousTurn' \in [Adapters -> Turns \cup {None}]
    OBVIOUS
  <1>3. sessionOperation' \in [Adapters -> Exclusive \cup {None}]
    OBVIOUS
  <1>4. pending' \in [Adapters -> [Ids -> Kinds \cup {None}]]
    OBVIOUS
  <1>5. interrupts' \in [Adapters -> SUBSET Turns]
    OBVIOUS
  <1>6. turnBinding' \in [Adapters -> Adapters \cup {None}]
    OBVIOUS
  <1> QED
    BY <1>1, <1>2, <1>3, <1>4, <1>5, <1>6

\* The loss of a connection keeps the types of the promises
LEMMA LossKeepsPromiseTypes == PromiseTypes /\ UNCHANGED owed /\ RequestsLost => PromiseTypes'
  <1> SUFFICES ASSUME PromiseTypes, UNCHANGED owed, RequestsLost PROVE PromiseTypes'
    OBVIOUS
  <1> USE DEF PromiseTypes, RequestsLost, Unconfirmed, Settled
  <1>1. outcome' \in [Turns -> {"new", "inFlight", "resolved"} \cup Settled]
    OBVIOUS
  <1>2. stopped' \in [Turns -> {"never", "asked", "confirmed", "unconfirmed"}]
    OBVIOUS
  <1>3. owner' \in [Turns -> Adapters \cup {None}]
    OBVIOUS
  <1>4. about' \in [Calls -> Turns \cup {None}]
    OBVIOUS
  <1>5. owed' \subseteq Ids \X (Kinds \cup {"CANCEL"})
    OBVIOUS
  <1> QED
    BY <1>1, <1>2, <1>3, <1>4, <1>5
\* A request that is sent is one of an adapter, and keeps the type of `pending'
LEMMA SendKeepsType ==
  ASSUME AdapterTypes, NEW a \in Adapters, NEW i \in Ids, NEW kind \in Kinds, Send(a, i, kind)
  PROVE  pending' \in [Adapters -> [Ids -> Kinds \cup {None}]]
  <1>1. [pending[a] EXCEPT ![i] = kind] \in [Ids -> Kinds \cup {None}]
    BY DEF AdapterTypes
  <1> QED
    BY <1>1 DEF AdapterTypes, Send

\* A request that is answered or given up leaves the type of `pending'
LEMMA ClearKeepsType ==
  ASSUME AdapterTypes, NEW a \in Adapters, NEW i \in Ids,
         pending' = [pending EXCEPT ![a][i] = None]
  PROVE  pending' \in [Adapters -> [Ids -> Kinds \cup {None}]]
  <1>1. [pending[a] EXCEPT ![i] = None] \in [Ids -> Kinds \cup {None}]
    BY DEF AdapterTypes
  <1> QED
    BY <1>1 DEF AdapterTypes

\* So does the end of a turn, whatever ends it
LEMMA EndedKeepsAdapterTypes ==
  ASSUME AdapterTypes, NEW a \in Adapters, NEW i \in Ids, NEW how, NEW result,
         Ended(a, i, how, result)
  PROVE  AdapterTypes'
  <1>1. activeTurn' \in [Adapters -> Turns \cup {None}]
    BY DEF AdapterTypes, Ended
  <1>2. ambiguousTurn' \in [Adapters -> Turns \cup {None}]
    BY DEF AdapterTypes, Ended
  <1>3. sessionOperation' \in [Adapters -> Exclusive \cup {None}]
    BY DEF AdapterTypes, Ended
  <1>4. pending' \in [Adapters -> [Ids -> Kinds \cup {None}]]
    BY ClearKeepsType DEF Ended
  <1>5. interrupts' \in [Adapters -> SUBSET Turns]
    BY DEF AdapterTypes, Ended, SettleInterrupt
  <1>6. turnBinding' \in [Adapters -> Adapters \cup {None}]
    BY DEF AdapterTypes, Ended
  <1> QED
    BY <1>1, <1>2, <1>3, <1>4, <1>5, <1>6 DEF AdapterTypes

\* A step that leaves the adapters alone keeps their types
LEMMA KeptKeepsAdapterTypes == AdapterTypes /\ UNCHANGED adapter => AdapterTypes'
  BY DEF AdapterTypes, adapter

\* Every step keeps the types of the adapters
LEMMA AdapterTypesStep == AdapterTypes /\ ConnectionTypes /\ RequestKinds /\ [Next]_vars => AdapterTypes'
  <1> SUFFICES ASSUME AdapterTypes /\ ConnectionTypes /\ RequestKinds, [Next]_vars PROVE AdapterTypes'
    OBVIOUS
  <1>1. ASSUME NEW s \in Sockets, CloseEvent(s)
        PROVE  AdapterTypes'
    BY <1>1, LossKeepsAdapterTypes, KeptKeepsAdapterTypes DEF CloseEvent, KeepRequests
  <1>2. ASSUME NEW s \in Sockets, SocketDrops(s)
        PROVE  AdapterTypes'
    BY <1>2, KeptKeepsAdapterTypes DEF SocketDrops, KeepRequests
  <1>3. ASSUME NEW s \in Sockets, AttachRefused(s)
        PROVE  AdapterTypes'
    BY <1>3, KeptKeepsAdapterTypes DEF AttachRefused, KeepRequests
  <1>4. ASSUME NEW s \in Sockets, Attach(s)
        PROVE  AdapterTypes'
    BY <1>4, LossKeepsAdapterTypes, KeptKeepsAdapterTypes DEF Attach, ReplacesPeer, KeepRequests
  <1>5. ASSUME NEW s \in Sockets, Authenticate(s)
        PROVE  AdapterTypes'
    BY <1>5, KeptKeepsAdapterTypes DEF Authenticate, KeepRequests
  <1>6. ASSUME NEW s \in Sockets, Heartbeat(s)
        PROVE  AdapterTypes'
    BY <1>6, KeptKeepsAdapterTypes DEF Heartbeat, KeepRequests
  <1>7. CASE GoesSilent
    BY <1>7, KeptKeepsAdapterTypes DEF GoesSilent, KeepRequests
  <1>8. CASE ExpireStaleConnection
    BY <1>8, LossKeepsAdapterTypes DEF ExpireStaleConnection
  <1> USE DEF AdapterTypes, ConnectionTypes, RequestKinds, Ids, Kinds, Exclusive, Binding, AboutTurn
  <1>9. ASSUME NEW a \in Adapters, NEW c \in Calls, NEW kind \in Binding, BeginBinding(a, kind, c)
        PROVE  AdapterTypes'
    <2>1. activeTurn' \in [Adapters -> Turns \cup {None}]
      BY <1>9 DEF BeginBinding, Send
    <2>2. ambiguousTurn' \in [Adapters -> Turns \cup {None}]
      BY <1>9 DEF BeginBinding
    <2>3. sessionOperation' \in [Adapters -> Exclusive \cup {None}]
      <3>1. sessionOperation' = sessionOperation \/ sessionOperation' = [sessionOperation EXCEPT ![a] = kind]
        BY <1>9 DEF BeginBinding
      <3>2. kind \in Exclusive
        OBVIOUS
      <3> HIDE DEF ConnectionTypes, RequestKinds, Ids, Kinds, Exclusive, Binding, AboutTurn
      <3> QED
        BY <3>1, <3>2
    <2>4. pending' \in [Adapters -> [Ids -> Kinds \cup {None}]]
      <3>1. CASE Send(a, c, kind)
        BY <3>1, SendKeepsType
      <3>2. CASE UNCHANGED pending
        BY <3>2
      <3> QED
        BY <1>9, <3>1, <3>2 DEF BeginBinding
    <2>5. interrupts' \in [Adapters -> SUBSET Turns]
      BY <1>9 DEF BeginBinding, Send
    <2>6. turnBinding' \in [Adapters -> Adapters \cup {None}]
      BY <1>9 DEF BeginBinding, Send
    <2> QED
      BY <2>1, <2>2, <2>3, <2>4, <2>5, <2>6
  <1>10. ASSUME NEW a \in Adapters, NEW c \in Calls, NEW kind \in {"DISCARD", "RECOVER"},
                NEW t \in Turns, BeginSettling(a, kind, c, t)
         PROVE  AdapterTypes'
    <2>1. activeTurn' \in [Adapters -> Turns \cup {None}]
      BY <1>10 DEF BeginSettling, Send
    <2>2. ambiguousTurn' \in [Adapters -> Turns \cup {None}]
      BY <1>10 DEF BeginSettling, Send
    <2>3. sessionOperation' \in [Adapters -> Exclusive \cup {None}]
      BY <1>10 DEF BeginSettling, Send
    <2>4. pending' \in [Adapters -> [Ids -> Kinds \cup {None}]]
      BY <1>10, SendKeepsType DEF BeginSettling
    <2>5. interrupts' \in [Adapters -> SUBSET Turns]
      BY <1>10 DEF BeginSettling, Send
    <2>6. turnBinding' \in [Adapters -> Adapters \cup {None}]
      BY <1>10 DEF BeginSettling, Send
    <2> QED
      BY <2>1, <2>2, <2>3, <2>4, <2>5, <2>6
  <1>11. ASSUME NEW a \in Adapters, NEW c \in Calls, NEW t \in Turns, BeginConfirm(a, c, t)
         PROVE  AdapterTypes'
    <2>1. activeTurn' \in [Adapters -> Turns \cup {None}]
      BY <1>11 DEF BeginConfirm, Send
    <2>2. ambiguousTurn' \in [Adapters -> Turns \cup {None}]
      BY <1>11 DEF BeginConfirm, Send
    <2>3. sessionOperation' \in [Adapters -> Exclusive \cup {None}]
      BY <1>11 DEF BeginConfirm, Send
    <2>4. pending' \in [Adapters -> [Ids -> Kinds \cup {None}]]
      BY <1>11, SendKeepsType DEF BeginConfirm
    <2>5. interrupts' \in [Adapters -> SUBSET Turns]
      BY <1>11 DEF BeginConfirm, Send
    <2>6. turnBinding' \in [Adapters -> Adapters \cup {None}]
      BY <1>11 DEF BeginConfirm, Send
    <2> QED
      BY <2>1, <2>2, <2>3, <2>4, <2>5, <2>6
  <1>12. ASSUME NEW a \in Adapters, NEW c \in Calls, BeginLook(a, c)
         PROVE  AdapterTypes'
    <2>1. activeTurn' \in [Adapters -> Turns \cup {None}]
      BY <1>12 DEF BeginLook, Send
    <2>2. ambiguousTurn' \in [Adapters -> Turns \cup {None}]
      BY <1>12 DEF BeginLook, Send
    <2>3. sessionOperation' \in [Adapters -> Exclusive \cup {None}]
      BY <1>12 DEF BeginLook, Send
    <2>4. pending' \in [Adapters -> [Ids -> Kinds \cup {None}]]
      BY <1>12, SendKeepsType DEF BeginLook
    <2>5. interrupts' \in [Adapters -> SUBSET Turns]
      BY <1>12 DEF BeginLook, Send
    <2>6. turnBinding' \in [Adapters -> Adapters \cup {None}]
      BY <1>12 DEF BeginLook, Send
    <2> QED
      BY <2>1, <2>2, <2>3, <2>4, <2>5, <2>6
  <1>13. ASSUME NEW a \in Adapters, NEW t \in Turns, SubmitTurn(a, t)
         PROVE  AdapterTypes'
    <2>1. activeTurn' \in [Adapters -> Turns \cup {None}]
      BY <1>13 DEF SubmitTurn, MaySubmit, Send
    <2>2. ambiguousTurn' \in [Adapters -> Turns \cup {None}]
      BY <1>13 DEF SubmitTurn, MaySubmit, Send
    <2>3. sessionOperation' \in [Adapters -> Exclusive \cup {None}]
      BY <1>13 DEF SubmitTurn, MaySubmit, Send
    <2>4. pending' \in [Adapters -> [Ids -> Kinds \cup {None}]]
      BY <1>13, SendKeepsType DEF SubmitTurn, MaySubmit
    <2>5. interrupts' \in [Adapters -> SUBSET Turns]
      BY <1>13 DEF SubmitTurn, MaySubmit, Send
    <2>6. turnBinding' \in [Adapters -> Adapters \cup {None}]
      BY <1>13 DEF SubmitTurn, MaySubmit, Send
    <2> QED
      BY <2>1, <2>2, <2>3, <2>4, <2>5, <2>6
  <1>14. ASSUME NEW a \in Adapters, NEW t \in Turns, AcknowledgeDelivery(a, t)
         PROVE  AdapterTypes'
    <2>1. activeTurn' \in [Adapters -> Turns \cup {None}]
      BY <1>14 DEF AcknowledgeDelivery, Send
    <2>2. ambiguousTurn' \in [Adapters -> Turns \cup {None}]
      BY <1>14 DEF AcknowledgeDelivery, Send
    <2>3. sessionOperation' \in [Adapters -> Exclusive \cup {None}]
      BY <1>14 DEF AcknowledgeDelivery, Send
    <2>4. pending' \in [Adapters -> [Ids -> Kinds \cup {None}]]
      BY <1>14, SendKeepsType DEF AcknowledgeDelivery
    <2>5. interrupts' \in [Adapters -> SUBSET Turns]
      BY <1>14 DEF AcknowledgeDelivery, Send
    <2>6. turnBinding' \in [Adapters -> Adapters \cup {None}]
      BY <1>14 DEF AcknowledgeDelivery, Send
    <2> QED
      BY <2>1, <2>2, <2>3, <2>4, <2>5, <2>6
  <1>15. ASSUME NEW a \in Adapters, NEW t \in Turns, Interrupt(a, t)
         PROVE  AdapterTypes'
    <2>1. activeTurn' \in [Adapters -> Turns \cup {None}]
      BY <1>15 DEF Interrupt, Unconfirmed
    <2>2. ambiguousTurn' \in [Adapters -> Turns \cup {None}]
      BY <1>15 DEF Interrupt, Unconfirmed
    <2>3. sessionOperation' \in [Adapters -> Exclusive \cup {None}]
      BY <1>15 DEF Interrupt, Unconfirmed
    <2>4. pending' \in [Adapters -> [Ids -> Kinds \cup {None}]]
      BY <1>15 DEF Interrupt, Unconfirmed
    <2>5. interrupts' \in [Adapters -> SUBSET Turns]
      BY <1>15 DEF Interrupt, Unconfirmed
    <2>6. turnBinding' \in [Adapters -> Adapters \cup {None}]
      BY <1>15 DEF Interrupt, Unconfirmed
    <2> QED
      BY <2>1, <2>2, <2>3, <2>4, <2>5, <2>6
  <1>16. CASE Close
    <2>1. activeTurn' \in [Adapters -> Turns \cup {None}]
      BY <1>16 DEF Close
    <2>2. ambiguousTurn' \in [Adapters -> Turns \cup {None}]
      BY <1>16 DEF Close
    <2>3. sessionOperation' \in [Adapters -> Exclusive \cup {None}]
      BY <1>16 DEF Close
    <2>4. pending' \in [Adapters -> [Ids -> Kinds \cup {None}]]
      BY <1>16 DEF Close
    <2>5. interrupts' \in [Adapters -> SUBSET Turns]
      BY <1>16 DEF Close
    <2>6. turnBinding' \in [Adapters -> Adapters \cup {None}]
      BY <1>16 DEF Close
    <2> QED
      BY <2>1, <2>2, <2>3, <2>4, <2>5, <2>6
  <1>17. ASSUME NEW a \in Adapters, NEW i \in Ids, RequestTimeout(a, i)
         PROVE  AdapterTypes'
    <2>1. /\ \/ UNCHANGED <<ambiguousTurn, activeTurn, turnBinding>>
             \/ /\ i \in Turns
                /\ ambiguousTurn' = [ambiguousTurn EXCEPT ![a] = i]
                /\ activeTurn' = [activeTurn EXCEPT ![a] = None]
                /\ turnBinding' = [turnBinding EXCEPT ![a] = None]
          /\ sessionOperation' \in {sessionOperation, [sessionOperation EXCEPT ![a] = None]}
          /\ pending' = [pending EXCEPT ![a][i] = None]
          /\ interrupts' = interrupts
      <3>1. CASE pending[a][i] = "PROMPT"
        <4>1. i \in Turns
          BY <3>1 DEF RequestKinds, Ids
        <4> QED
          BY <1>17, <3>1, <4>1 DEF RequestTimeout
      <3>2. CASE pending[a][i] # "PROMPT"
        BY <1>17, <3>2 DEF RequestTimeout
      <3> QED
        BY <3>1, <3>2
    <2> HIDE DEF ConnectionTypes, RequestKinds, Ids, Kinds, Exclusive, Binding, AboutTurn
    <2>2. activeTurn' \in [Adapters -> Turns \cup {None}]
      BY <2>1
    <2>3. ambiguousTurn' \in [Adapters -> Turns \cup {None}]
      BY <2>1
    <2>4. turnBinding' \in [Adapters -> Adapters \cup {None}]
      BY <2>1
    <2>5. sessionOperation' \in [Adapters -> Exclusive \cup {None}]
      BY <2>1
    <2>6. pending' \in [Adapters -> [Ids -> Kinds \cup {None}]]
      <3>1. [pending[a] EXCEPT ![i] = None] \in [Ids -> Kinds \cup {None}]
        OBVIOUS
      <3> QED
        BY <2>1, <3>1
    <2>7. interrupts' \in [Adapters -> SUBSET Turns]
      BY <2>1
    <2> QED
      BY <2>2, <2>3, <2>4, <2>5, <2>6, <2>7
  <1>18. ASSUME NEW a \in Adapters, NEW t \in Turns, InterruptTimeout(a, t)
         PROVE  AdapterTypes'
    BY <1>18 DEF InterruptTimeout, Unconfirmed
  <1>19. ASSUME NEW s \in Sockets, NEW i \in Ids,
                NEW type \in {"RESULT", "ERROR", "CANCELLED", "ACKED", "DONE", "FAILED"},
                Message(s, i, type)
         PROVE  AdapterTypes'
    <2> HIDE DEF AdapterTypes, ConnectionTypes, RequestKinds, Ids, Kinds, Exclusive, Binding, AboutTurn
    <2>1. ASSUME NEW a \in Adapters, TurnCompletes(a, i) PROVE AdapterTypes'
      BY <2>1, EndedKeepsAdapterTypes DEF TurnCompletes
    <2>2. ASSUME NEW a \in Adapters, TurnFails(a, i, type) PROVE AdapterTypes'
      BY <2>2, EndedKeepsAdapterTypes DEF TurnFails
    <2>3. ASSUME NEW a \in Adapters, TurnInterrupted(a, i) PROVE AdapterTypes'
      BY <2>3, EndedKeepsAdapterTypes DEF TurnInterrupted
    <2>4. ASSUME NEW a \in Adapters, SessionBound(a, i, type) PROVE AdapterTypes'
      <3>1. pending' \in [Adapters -> [Ids -> Kinds \cup {None}]]
        BY <2>4, ClearKeepsType DEF SessionBound
      <3>2. sessionOperation' \in [Adapters -> Exclusive \cup {None}]
        BY <2>4 DEF SessionBound, AdapterTypes
      <3> QED
        BY <2>4, <3>1, <3>2 DEF SessionBound, AdapterTypes
    <2>5. ASSUME NEW a \in Adapters, DeliverySettled(a, i, type) PROVE AdapterTypes'
      <3>1. pending' \in [Adapters -> [Ids -> Kinds \cup {None}]]
        BY <2>5, ClearKeepsType DEF DeliverySettled
      <3>2. sessionOperation' \in [Adapters -> Exclusive \cup {None}]
        BY <2>5 DEF DeliverySettled, AdapterTypes
      <3>3. ambiguousTurn' \in [Adapters -> Turns \cup {None}]
        BY <2>5 DEF DeliverySettled, AdapterTypes
      <3> QED
        BY <2>5, <3>1, <3>2, <3>3 DEF DeliverySettled, AdapterTypes
    <2>6. ASSUME NEW a \in Adapters, Answered(a, i) PROVE AdapterTypes'
      <3>1. pending' \in [Adapters -> [Ids -> Kinds \cup {None}]]
        BY <2>6, ClearKeepsType DEF Answered
      <3>2. interrupts' \in [Adapters -> SUBSET Turns]
        BY <2>6 DEF Answered, SettleInterrupt, AdapterTypes
      <3> QED
        BY <2>6, <3>1, <3>2 DEF Answered, AdapterTypes
    <2> QED
      BY <1>19, <2>1, <2>2, <2>3, <2>4, <2>5, <2>6, KeptKeepsAdapterTypes DEF Message, Dispatch
  <1>20. ASSUME NEW s \in Sockets, NEW t \in Turns, ManualIntervention(s, t)
         PROVE  AdapterTypes'
    BY <1>20 DEF ManualIntervention, Unconfirmed
  <1>21. CASE UNCHANGED vars
    BY <1>21
  <1> HIDE DEF AdapterTypes, ConnectionTypes, RequestKinds, Ids, Kinds, Exclusive, Binding, AboutTurn
  <1> QED
    BY <1>1, <1>2, <1>3, <1>4, <1>5, <1>6, <1>7, <1>8, <1>9, <1>10, <1>11, <1>12, <1>13,
      <1>14, <1>15, <1>16, <1>17, <1>18, <1>19, <1>20, <1>21 DEF Next, ConnectionEvent,
      Call, Timer, ExtensionMessage

\* Every step keeps the types of the promises
LEMMA PromiseTypesStep == PromiseTypes /\ AdapterTypes /\ [Next]_vars => PromiseTypes'
  <1> SUFFICES ASSUME PromiseTypes /\ AdapterTypes, [Next]_vars PROVE PromiseTypes'
    OBVIOUS
  <1> USE DEF PromiseTypes, AdapterTypes, Ids, Kinds, Exclusive, Binding, AboutTurn, Settled
  <1>1. ASSUME NEW s \in Sockets, CloseEvent(s)
        PROVE  PromiseTypes'
    BY <1>1, LossKeepsPromiseTypes DEF CloseEvent, KeepRequests
  <1>2. ASSUME NEW s \in Sockets, SocketDrops(s)
        PROVE  PromiseTypes'
    BY <1>2 DEF SocketDrops, KeepRequests
  <1>3. ASSUME NEW s \in Sockets, AttachRefused(s)
        PROVE  PromiseTypes'
    BY <1>3 DEF AttachRefused, KeepRequests
  <1>4. ASSUME NEW s \in Sockets, Attach(s)
        PROVE  PromiseTypes'
    BY <1>4, LossKeepsPromiseTypes DEF Attach, ReplacesPeer, KeepRequests
  <1>5. ASSUME NEW s \in Sockets, Authenticate(s)
        PROVE  PromiseTypes'
    BY <1>5 DEF Authenticate, KeepRequests
  <1>6. ASSUME NEW s \in Sockets, Heartbeat(s)
        PROVE  PromiseTypes'
    BY <1>6 DEF Heartbeat, KeepRequests
  <1>7. CASE GoesSilent
    BY <1>7 DEF GoesSilent, KeepRequests
  <1>8. CASE ExpireStaleConnection
    BY <1>8, LossKeepsPromiseTypes DEF ExpireStaleConnection
  <1>9. ASSUME NEW a \in Adapters, NEW c \in Calls, NEW kind \in Binding, BeginBinding(a, kind, c)
        PROVE  PromiseTypes'
    BY <1>9 DEF BeginBinding, Send
  <1>10. ASSUME NEW a \in Adapters, NEW c \in Calls, NEW kind \in {"DISCARD", "RECOVER"},
                NEW t \in Turns, BeginSettling(a, kind, c, t)
         PROVE  PromiseTypes'
    <2>1. outcome' \in [Turns -> {"new", "inFlight", "resolved"} \cup Settled]
      BY <1>10 DEF BeginSettling, Send
    <2>2. stopped' \in [Turns -> {"never", "asked", "confirmed", "unconfirmed"}]
      BY <1>10 DEF BeginSettling, Send
    <2>3. owner' \in [Turns -> Adapters \cup {None}]
      BY <1>10 DEF BeginSettling, Send
    <2>4. about' \in [Calls -> Turns \cup {None}]
      BY <1>10 DEF BeginSettling, Send
    <2>5. owed' \subseteq Ids \X (Kinds \cup {"CANCEL"})
      BY <1>10 DEF BeginSettling, Send
    <2> QED
      BY <2>1, <2>2, <2>3, <2>4, <2>5
  <1>11. ASSUME NEW a \in Adapters, NEW c \in Calls, NEW t \in Turns, BeginConfirm(a, c, t)
         PROVE  PromiseTypes'
    BY <1>11 DEF BeginConfirm, Send
  <1>12. ASSUME NEW a \in Adapters, NEW c \in Calls, BeginLook(a, c)
         PROVE  PromiseTypes'
    BY <1>12 DEF BeginLook, Send
  <1>13. ASSUME NEW a \in Adapters, NEW t \in Turns, SubmitTurn(a, t)
         PROVE  PromiseTypes'
    <2>1. outcome' \in [Turns -> {"new", "inFlight", "resolved"} \cup Settled]
      BY <1>13 DEF SubmitTurn, MaySubmit, Send
    <2>2. stopped' \in [Turns -> {"never", "asked", "confirmed", "unconfirmed"}]
      BY <1>13 DEF SubmitTurn, MaySubmit, Send
    <2>3. owner' \in [Turns -> Adapters \cup {None}]
      BY <1>13 DEF SubmitTurn, MaySubmit, Send
    <2>4. about' \in [Calls -> Turns \cup {None}]
      BY <1>13 DEF SubmitTurn, MaySubmit, Send
    <2>5. owed' \subseteq Ids \X (Kinds \cup {"CANCEL"})
      BY <1>13 DEF SubmitTurn, MaySubmit, Send
    <2> QED
      BY <2>1, <2>2, <2>3, <2>4, <2>5
  <1>14. ASSUME NEW a \in Adapters, NEW t \in Turns, AcknowledgeDelivery(a, t)
         PROVE  PromiseTypes'
    BY <1>14 DEF AcknowledgeDelivery, Send
  <1>15. ASSUME NEW a \in Adapters, NEW t \in Turns, Interrupt(a, t)
         PROVE  PromiseTypes'
    BY <1>15 DEF Interrupt, Unconfirmed
  <1>16. CASE Close
    BY <1>16 DEF Close, Unconfirmed, Prompts
  <1>17. ASSUME NEW a \in Adapters, NEW i \in Ids, RequestTimeout(a, i)
         PROVE  PromiseTypes'
    BY <1>17 DEF RequestTimeout, Armed
  <1>18. ASSUME NEW a \in Adapters, NEW t \in Turns, InterruptTimeout(a, t)
         PROVE  PromiseTypes'
    BY <1>18 DEF InterruptTimeout, Unconfirmed
  <1>19. ASSUME NEW s \in Sockets, NEW i \in Ids,
                NEW type \in {"RESULT", "ERROR", "CANCELLED", "ACKED", "DONE", "FAILED"},
                Message(s, i, type)
         PROVE  PromiseTypes'
    <2>1. /\ UNCHANGED <<socket, authentication, open, linked, unused, owner, closed>>
          /\ heard' \in {heard, "recently"}
          /\ owed' \subseteq owed
      BY <1>19 DEF Message
    <2>2. ASSUME NEW a \in Adapters, pending[a][i] = "PROMPT", type = "RESULT", TurnCompletes(a, i),
                 Authenticated
          PROVE  PromiseTypes'
      BY <2>1, <2>2 DEF TurnCompletes, Ended, SettleInterrupt
    <2>3. ASSUME NEW a \in Adapters, pending[a][i] = "PROMPT", type \in {"RESULT", "ERROR"}, TurnFails(a, i, type),
                 Authenticated
          PROVE  PromiseTypes'
      BY <2>1, <2>3 DEF TurnFails, Ended, SettleInterrupt
    <2>4. ASSUME NEW a \in Adapters, pending[a][i] = "PROMPT", type = "CANCELLED", TurnInterrupted(a, i),
                 Authenticated
          PROVE  PromiseTypes'
      BY <2>1, <2>4 DEF TurnInterrupted, Ended, SettleInterrupt
    <2>5. ASSUME NEW a \in Adapters, pending[a][i] \in Binding, SessionBound(a, i, type),
                 Authenticated
          PROVE  PromiseTypes'
      BY <2>1, <2>5 DEF SessionBound
    <2>6. ASSUME NEW a \in Adapters, pending[a][i] \in AboutTurn, DeliverySettled(a, i, type),
                 Authenticated
          PROVE  PromiseTypes'
      BY <2>1, <2>6 DEF DeliverySettled
    <2>7. ASSUME NEW a \in Adapters, pending[a][i] \in {"ACK", "LOOK"}, Answered(a, i),
                 Authenticated
          PROVE  PromiseTypes'
      BY <2>1, <2>7 DEF Answered, SettleInterrupt
    <2>8. CASE UNCHANGED <<adapter, binding, outcome, stopped, about>>
      BY <2>1, <2>8 DEF adapter
    <2> QED
      BY <1>19, <2>1, <2>2, <2>3, <2>4, <2>5, <2>6, <2>7, <2>8 DEF Message, Dispatch
  <1>20. ASSUME NEW s \in Sockets, NEW t \in Turns, ManualIntervention(s, t)
         PROVE  PromiseTypes'
    BY <1>20 DEF ManualIntervention, Unconfirmed
  <1>21. CASE UNCHANGED vars
    BY <1>21
  <1> HIDE DEF PromiseTypes, AdapterTypes, Ids, Kinds, Exclusive, Binding, AboutTurn, Settled
  <1> QED
    BY <1>1, <1>2, <1>3, <1>4, <1>5, <1>6, <1>7, <1>8, <1>9, <1>10, <1>11, <1>12, <1>13,
      <1>14, <1>15, <1>16, <1>17, <1>18, <1>19, <1>20, <1>21 DEF Next, ConnectionEvent,
      Call, Timer, ExtensionMessage

\* The initial state has the types and the facts about requests
LEMMA InitHolds == Init => IInv
  <1> SUFFICES ASSUME Init PROVE IInv
    OBVIOUS
  <1> USE DEF Init
  <1>1. FlagTypes
    BY DEF FlagTypes
  <1>2. ConnectionTypes /\ PromiseTypes
    BY DEF ConnectionTypes, PromiseTypes
  <1>3. AdapterTypes
    BY DEF AdapterTypes
  <1>4. RequestKinds
    BY WebSessionAssumption, OperationsAssumption DEF RequestKinds, Ids, Kinds, Exclusive, Binding
  <1>5. OnePromptInFlight /\ QuietWhileBinding
    BY WebSessionAssumption, OperationsAssumption
    DEF OnePromptInFlight, QuietWhileBinding, Prompts, Ids, Kinds, Exclusive, Binding
  <1>6. NoRequestOutlivesItsConnection /\ ReadinessDiesWithItsConnection
    BY DEF NoRequestOutlivesItsConnection, ReadinessDiesWithItsConnection, Waiting
  <1>7. ConfirmedInterruptsEndTheTurn
    BY DEF ConfirmedInterruptsEndTheTurn
  <1> QED
    BY <1>1, <1>2, <1>3, <1>4, <1>5, <1>6, <1>7 DEF IInv, TypeOK
-----------------------------------------------------------------------------
(* The invariants *)

USE WebSessionAssumption, OperationsAssumption

\* A loss leaves no request waiting, nobody's turn active, and new only what nobody submitted
LEMMA LossEndsRequests ==
    ASSUME PromiseTypes, RequestKinds, RequestsLost
    PROVE  /\ \A a \in Adapters, i \in Ids : pending'[a][i] = None
           /\ \A a \in Adapters : activeTurn'[a] = None
           /\ \A t \in Turns : owner'[t] = None => outcome'[t] = "new"
  <1>1. \A a \in Adapters, i \in Ids : pending'[a][i] = None
    BY DEF RequestsLost
  <1>2. \A a \in Adapters : activeTurn'[a] = None
    BY DEF RequestsLost
  <1>3. ASSUME NEW t \in Turns, owner'[t] = None
        PROVE  outcome'[t] = "new"
    <2>1. owner[t] = None /\ outcome[t] = "new"
      BY <1>3 DEF RequestsLost, RequestKinds
    <2>2. \A a \in Adapters : t \notin Prompts(a)
      BY <2>1 DEF Prompts, RequestKinds
    <2> QED
      BY <2>1, <2>2 DEF RequestsLost
  <1> QED
    BY <1>1, <1>2, <1>3

\* Every step keeps the facts about the requests that wait
LEMMA RequestKindsStep == AdapterTypes /\ PromiseTypes /\ RequestKinds /\ [Next]_vars => RequestKinds'
  <1> SUFFICES ASSUME AdapterTypes /\ PromiseTypes /\ RequestKinds, [Next]_vars PROVE RequestKinds'
    OBVIOUS
  <1> USE DEF AdapterTypes, PromiseTypes, RequestKinds, Ids, Kinds, Exclusive, Binding, AboutTurn
  <1>1. ASSUME NEW s \in Sockets, CloseEvent(s)
        PROVE  RequestKinds'
    BY <1>1 DEF CloseEvent, RequestsLost, KeepRequests, LostTurn, Prompts
  <1>2. ASSUME NEW s \in Sockets, SocketDrops(s)
        PROVE  RequestKinds'
    BY <1>2 DEF SocketDrops, KeepRequests
  <1>3. ASSUME NEW s \in Sockets, AttachRefused(s)
        PROVE  RequestKinds'
    BY <1>3 DEF AttachRefused, KeepRequests
  <1>4. ASSUME NEW s \in Sockets, Attach(s)
        PROVE  RequestKinds'
    BY <1>4 DEF Attach, ReplacesPeer, RequestsLost, KeepRequests, LostTurn, Prompts
  <1>5. ASSUME NEW s \in Sockets, Authenticate(s)
        PROVE  RequestKinds'
    BY <1>5 DEF Authenticate, KeepRequests
  <1>6. ASSUME NEW s \in Sockets, Heartbeat(s)
        PROVE  RequestKinds'
    BY <1>6 DEF Heartbeat, KeepRequests
  <1>7. CASE GoesSilent
    BY <1>7 DEF GoesSilent, KeepRequests
  <1>8. CASE ExpireStaleConnection
    <2>1. RequestsLost /\ authentication' = "DISCONNECTED"
      BY <1>8 DEF ExpireStaleConnection
    <2> QED
      BY <2>1, LossEndsRequests
  <1>9. ASSUME NEW a \in Adapters, NEW c \in Calls, NEW kind \in Binding, BeginBinding(a, kind, c)
        PROVE  RequestKinds'
    <2>1. CASE CanSend
      <3>1. \A x \in Adapters, y \in Calls : pending'[x][y] \notin {"PROMPT", "ACK"}
        <4>1. pending' = [pending EXCEPT ![a][c] = kind]
          BY <1>9, <2>1 DEF BeginBinding, Send
        <4>2. kind \notin {"PROMPT", "ACK"}
          BY <1>9
        <4> QED
          BY <4>1, <4>2
      <3>0. \A x \in Adapters, u \in Turns : pending'[x][u] = pending[x][u]
        <4>1. pending' = [pending EXCEPT ![a][c] = kind] /\ c \notin Turns
          BY <1>9, <2>1 DEF BeginBinding, Send
        <4> QED
          BY <4>1
      <3>2. \A x \in Adapters, u \in Turns : pending'[x][u] \in {None, "PROMPT", "ACK"}
        BY <3>0
      <3>3. \A x \in Adapters, u \in Turns : pending'[x][u] = "PROMPT" => outcome'[u] = "inFlight" /\ owner'[u] = x
        <4>1. UNCHANGED <<outcome, owner>>
          BY <1>9 DEF BeginBinding, promises
        <4> QED
          BY <3>0, <4>1
      <3>4. \A u \in Turns : owner'[u] = None => outcome'[u] = "new"
        BY <1>9, <2>1 DEF BeginBinding, Send
      <3>5. socket' = None => authentication' = "DISCONNECTED"
        BY <1>9, <2>1 DEF BeginBinding, Send
      <3> QED
        BY <3>1, <3>2, <3>3, <3>4, <3>5
    <2>2. CASE ~CanSend
      BY <1>9, <2>2 DEF BeginBinding
    <2> QED
      BY <2>1, <2>2
  <1>10. ASSUME NEW a \in Adapters, NEW c \in Calls, NEW kind \in {"DISCARD", "RECOVER"},
                NEW t \in Turns, BeginSettling(a, kind, c, t)
         PROVE  RequestKinds'
    BY <1>10 DEF BeginSettling, Send
  <1>11. ASSUME NEW a \in Adapters, NEW c \in Calls, NEW t \in Turns, BeginConfirm(a, c, t)
         PROVE  RequestKinds'
    BY <1>11 DEF BeginConfirm, Send
  <1>12. ASSUME NEW a \in Adapters, NEW c \in Calls, BeginLook(a, c)
         PROVE  RequestKinds'
    BY <1>12 DEF BeginLook, Send
  <1>13. ASSUME NEW a \in Adapters, NEW t \in Turns, SubmitTurn(a, t)
         PROVE  RequestKinds'
    BY <1>13 DEF SubmitTurn, MaySubmit, Send
  <1>14. ASSUME NEW a \in Adapters, NEW t \in Turns, AcknowledgeDelivery(a, t)
         PROVE  RequestKinds'
    BY <1>14 DEF AcknowledgeDelivery, Send
  <1>15. ASSUME NEW a \in Adapters, NEW t \in Turns, Interrupt(a, t)
         PROVE  RequestKinds'
    BY <1>15 DEF Interrupt, Unconfirmed
  <1>16. CASE Close
    BY <1>16 DEF Close, Unconfirmed, Prompts
  <1>17. ASSUME NEW a \in Adapters, NEW i \in Ids, RequestTimeout(a, i)
         PROVE  RequestKinds'
    BY <1>17 DEF RequestTimeout, Armed
  <1>18. ASSUME NEW a \in Adapters, NEW t \in Turns, InterruptTimeout(a, t)
         PROVE  RequestKinds'
    BY <1>18 DEF InterruptTimeout, Unconfirmed
  <1>19. ASSUME NEW s \in Sockets, NEW i \in Ids,
                NEW type \in {"RESULT", "ERROR", "CANCELLED", "ACKED", "DONE", "FAILED"},
                Message(s, i, type)
         PROVE  RequestKinds'
    <2>1. /\ UNCHANGED <<socket, authentication, open, linked, unused, owner, closed>>
          /\ heard' \in {heard, "recently"}
          /\ owed' \subseteq owed
      BY <1>19 DEF Message
    <2>2. ASSUME NEW a \in Adapters, pending[a][i] = "PROMPT", type = "RESULT", TurnCompletes(a, i),
                 Authenticated
          PROVE  RequestKinds'
      BY <2>1, <2>2 DEF TurnCompletes, Ended, SettleInterrupt
    <2>3. ASSUME NEW a \in Adapters, pending[a][i] = "PROMPT", type \in {"RESULT", "ERROR"}, TurnFails(a, i, type),
                 Authenticated
          PROVE  RequestKinds'
      BY <2>1, <2>3 DEF TurnFails, Ended, SettleInterrupt
    <2>4. ASSUME NEW a \in Adapters, pending[a][i] = "PROMPT", type = "CANCELLED", TurnInterrupted(a, i),
                 Authenticated
          PROVE  RequestKinds'
      BY <2>1, <2>4 DEF TurnInterrupted, Ended, SettleInterrupt
    <2>5. ASSUME NEW a \in Adapters, pending[a][i] \in Binding, SessionBound(a, i, type),
                 Authenticated
          PROVE  RequestKinds'
      BY <2>1, <2>5 DEF SessionBound
    <2>6. ASSUME NEW a \in Adapters, pending[a][i] \in AboutTurn, DeliverySettled(a, i, type),
                 Authenticated
          PROVE  RequestKinds'
      BY <2>1, <2>6 DEF DeliverySettled
    <2>7. ASSUME NEW a \in Adapters, pending[a][i] \in {"ACK", "LOOK"}, Answered(a, i),
                 Authenticated
          PROVE  RequestKinds'
      BY <2>1, <2>7 DEF Answered, SettleInterrupt
    <2>8. CASE UNCHANGED <<adapter, binding, outcome, stopped, about>>
      BY <2>1, <2>8 DEF adapter
    <2> QED
      BY <1>19, <2>1, <2>2, <2>3, <2>4, <2>5, <2>6, <2>7, <2>8 DEF Message, Dispatch
  <1>20. ASSUME NEW s \in Sockets, NEW t \in Turns, ManualIntervention(s, t)
         PROVE  RequestKinds'
    BY <1>20 DEF ManualIntervention, Unconfirmed
  <1>21. CASE UNCHANGED vars
    BY <1>21
  <1> HIDE DEF AdapterTypes, PromiseTypes, RequestKinds, Ids, Kinds, Exclusive, Binding, AboutTurn
  <1> QED
    BY <1>1, <1>2, <1>3, <1>4, <1>5, <1>6, <1>7, <1>8, <1>9, <1>10, <1>11, <1>12, <1>13,
      <1>14, <1>15, <1>16, <1>17, <1>18, <1>19, <1>20, <1>21 DEF Next, ConnectionEvent,
      Call, Timer, ExtensionMessage

\* Every step keeps one prompt per adapter, the active turn
LEMMA OnePromptStep == AdapterTypes /\ PromiseTypes /\ RequestKinds /\ OnePromptInFlight /\ [Next]_vars => OnePromptInFlight'
  <1> SUFFICES ASSUME AdapterTypes /\ PromiseTypes /\ RequestKinds /\ OnePromptInFlight, [Next]_vars PROVE OnePromptInFlight'
    OBVIOUS
  <1> USE DEF AdapterTypes, PromiseTypes, RequestKinds, OnePromptInFlight, Prompts, Ids, Kinds, Exclusive, Binding, AboutTurn
  <1>1. ASSUME NEW s \in Sockets, CloseEvent(s)
        PROVE  OnePromptInFlight'
    BY <1>1 DEF CloseEvent, RequestsLost, KeepRequests, LostTurn, Prompts
  <1>2. ASSUME NEW s \in Sockets, SocketDrops(s)
        PROVE  OnePromptInFlight'
    BY <1>2 DEF SocketDrops, KeepRequests
  <1>3. ASSUME NEW s \in Sockets, AttachRefused(s)
        PROVE  OnePromptInFlight'
    BY <1>3 DEF AttachRefused, KeepRequests
  <1>4. ASSUME NEW s \in Sockets, Attach(s)
        PROVE  OnePromptInFlight'
    BY <1>4 DEF Attach, ReplacesPeer, RequestsLost, KeepRequests, LostTurn, Prompts
  <1>5. ASSUME NEW s \in Sockets, Authenticate(s)
        PROVE  OnePromptInFlight'
    BY <1>5 DEF Authenticate, KeepRequests
  <1>6. ASSUME NEW s \in Sockets, Heartbeat(s)
        PROVE  OnePromptInFlight'
    BY <1>6 DEF Heartbeat, KeepRequests
  <1>7. CASE GoesSilent
    BY <1>7 DEF GoesSilent, KeepRequests
  <1>8. CASE ExpireStaleConnection
    <2>1. RequestsLost /\ authentication' = "DISCONNECTED"
      BY <1>8 DEF ExpireStaleConnection
    <2> QED
      BY <2>1, LossEndsRequests
  <1>9. ASSUME NEW a \in Adapters, NEW c \in Calls, NEW kind \in Binding, BeginBinding(a, kind, c)
        PROVE  OnePromptInFlight'
    <2>1. CASE CanSend
      <3>1. pending' = [pending EXCEPT ![a][c] = kind] /\ c \notin Turns
        BY <1>9, <2>1 DEF BeginBinding, Send
      <3>2. \A x \in Adapters, u \in Turns : pending'[x][u] = pending[x][u]
        BY <3>1
      <3>3. UNCHANGED activeTurn
        BY <1>9 DEF BeginBinding
      <3> QED
        BY <3>2, <3>3
    <2>2. CASE ~CanSend
      BY <1>9, <2>2 DEF BeginBinding
    <2> QED
      BY <2>1, <2>2
  <1>10. ASSUME NEW a \in Adapters, NEW c \in Calls, NEW kind \in {"DISCARD", "RECOVER"},
                NEW t \in Turns, BeginSettling(a, kind, c, t)
         PROVE  OnePromptInFlight'
    BY <1>10 DEF BeginSettling, Send
  <1>11. ASSUME NEW a \in Adapters, NEW c \in Calls, NEW t \in Turns, BeginConfirm(a, c, t)
         PROVE  OnePromptInFlight'
    BY <1>11 DEF BeginConfirm, Send
  <1>12. ASSUME NEW a \in Adapters, NEW c \in Calls, BeginLook(a, c)
         PROVE  OnePromptInFlight'
    BY <1>12 DEF BeginLook, Send
  <1>13. ASSUME NEW a \in Adapters, NEW t \in Turns, SubmitTurn(a, t)
         PROVE  OnePromptInFlight'
    BY <1>13 DEF SubmitTurn, MaySubmit, Send
  <1>14. ASSUME NEW a \in Adapters, NEW t \in Turns, AcknowledgeDelivery(a, t)
         PROVE  OnePromptInFlight'
    BY <1>14 DEF AcknowledgeDelivery, Send
  <1>15. ASSUME NEW a \in Adapters, NEW t \in Turns, Interrupt(a, t)
         PROVE  OnePromptInFlight'
    BY <1>15 DEF Interrupt, Unconfirmed
  <1>16. CASE Close
    BY <1>16 DEF Close, Unconfirmed, Prompts
  <1>17. ASSUME NEW a \in Adapters, NEW i \in Ids, RequestTimeout(a, i)
         PROVE  OnePromptInFlight'
    BY <1>17 DEF RequestTimeout, Armed
  <1>18. ASSUME NEW a \in Adapters, NEW t \in Turns, InterruptTimeout(a, t)
         PROVE  OnePromptInFlight'
    BY <1>18 DEF InterruptTimeout, Unconfirmed
  <1>19. ASSUME NEW s \in Sockets, NEW i \in Ids,
                NEW type \in {"RESULT", "ERROR", "CANCELLED", "ACKED", "DONE", "FAILED"},
                Message(s, i, type)
         PROVE  OnePromptInFlight'
    <2>1. /\ UNCHANGED <<socket, authentication, open, linked, unused, owner, closed>>
          /\ heard' \in {heard, "recently"}
          /\ owed' \subseteq owed
      BY <1>19 DEF Message
    <2>2. ASSUME NEW a \in Adapters, pending[a][i] = "PROMPT", type = "RESULT", TurnCompletes(a, i),
                 Authenticated
          PROVE  OnePromptInFlight'
      BY <2>1, <2>2 DEF TurnCompletes, Ended, SettleInterrupt
    <2>3. ASSUME NEW a \in Adapters, pending[a][i] = "PROMPT", type \in {"RESULT", "ERROR"}, TurnFails(a, i, type),
                 Authenticated
          PROVE  OnePromptInFlight'
      BY <2>1, <2>3 DEF TurnFails, Ended, SettleInterrupt
    <2>4. ASSUME NEW a \in Adapters, pending[a][i] = "PROMPT", type = "CANCELLED", TurnInterrupted(a, i),
                 Authenticated
          PROVE  OnePromptInFlight'
      BY <2>1, <2>4 DEF TurnInterrupted, Ended, SettleInterrupt
    <2>5. ASSUME NEW a \in Adapters, pending[a][i] \in Binding, SessionBound(a, i, type),
                 Authenticated
          PROVE  OnePromptInFlight'
      BY <2>1, <2>5 DEF SessionBound
    <2>6. ASSUME NEW a \in Adapters, pending[a][i] \in AboutTurn, DeliverySettled(a, i, type),
                 Authenticated
          PROVE  OnePromptInFlight'
      BY <2>1, <2>6 DEF DeliverySettled
    <2>7. ASSUME NEW a \in Adapters, pending[a][i] \in {"ACK", "LOOK"}, Answered(a, i),
                 Authenticated
          PROVE  OnePromptInFlight'
      BY <2>1, <2>7 DEF Answered, SettleInterrupt
    <2>8. CASE UNCHANGED <<adapter, binding, outcome, stopped, about>>
      BY <2>1, <2>8 DEF adapter
    <2> QED
      BY <1>19, <2>1, <2>2, <2>3, <2>4, <2>5, <2>6, <2>7, <2>8 DEF Message, Dispatch
  <1>20. ASSUME NEW s \in Sockets, NEW t \in Turns, ManualIntervention(s, t)
         PROVE  OnePromptInFlight'
    BY <1>20 DEF ManualIntervention, Unconfirmed
  <1>21. CASE UNCHANGED vars
    BY <1>21
  <1> HIDE DEF AdapterTypes, PromiseTypes, RequestKinds, OnePromptInFlight, Prompts, Ids, Kinds, Exclusive, Binding, AboutTurn
  <1> QED
    BY <1>1, <1>2, <1>3, <1>4, <1>5, <1>6, <1>7, <1>8, <1>9, <1>10, <1>11, <1>12, <1>13,
      <1>14, <1>15, <1>16, <1>17, <1>18, <1>19, <1>20, <1>21 DEF Next, ConnectionEvent,
      Call, Timer, ExtensionMessage

\* Every step keeps an adapter quiet while its binding is replaced
LEMMA QuietStep == AdapterTypes /\ PromiseTypes /\ FlagTypes /\ RequestKinds /\ OnePromptInFlight /\ QuietWhileBinding /\ [Next]_vars => QuietWhileBinding'
  <1> SUFFICES ASSUME AdapterTypes /\ PromiseTypes /\ FlagTypes /\ RequestKinds /\ OnePromptInFlight /\ QuietWhileBinding, [Next]_vars PROVE QuietWhileBinding'
    OBVIOUS
  <1> USE DEF AdapterTypes, FlagTypes, RequestKinds, OnePromptInFlight, QuietWhileBinding, Prompts, Ids, Kinds, Exclusive, Binding, AboutTurn
  <1>1. ASSUME NEW s \in Sockets, CloseEvent(s)
        PROVE  QuietWhileBinding'
    BY <1>1 DEF CloseEvent, RequestsLost, KeepRequests, ReadyAfterLoss
  <1>2. ASSUME NEW s \in Sockets, SocketDrops(s)
        PROVE  QuietWhileBinding'
    BY <1>2 DEF SocketDrops, KeepRequests
  <1>3. ASSUME NEW s \in Sockets, AttachRefused(s)
        PROVE  QuietWhileBinding'
    BY <1>3 DEF AttachRefused, KeepRequests
  <1>4. ASSUME NEW s \in Sockets, Attach(s)
        PROVE  QuietWhileBinding'
    BY <1>4 DEF Attach, ReplacesPeer, RequestsLost, KeepRequests, ReadyAfterLoss
  <1>5. ASSUME NEW s \in Sockets, Authenticate(s)
        PROVE  QuietWhileBinding'
    BY <1>5 DEF Authenticate, KeepRequests
  <1>6. ASSUME NEW s \in Sockets, Heartbeat(s)
        PROVE  QuietWhileBinding'
    BY <1>6 DEF Heartbeat, KeepRequests
  <1>7. CASE GoesSilent
    BY <1>7 DEF GoesSilent, KeepRequests
  <1>8. CASE ExpireStaleConnection
    BY <1>8 DEF ExpireStaleConnection, RequestsLost, ReadyAfterLoss
  <1>9. ASSUME NEW a \in Adapters, NEW c \in Calls, NEW kind \in Binding, BeginBinding(a, kind, c)
        PROVE  QuietWhileBinding'
    <2>1. CASE CanSend
      BY <1>9, <2>1 DEF BeginBinding, Send, NoOperation, Waiting
    <2>2. CASE ~CanSend
      BY <1>9, <2>2 DEF BeginBinding, NoOperation, Waiting
    <2> QED
      BY <2>1, <2>2
  <1>10. ASSUME NEW a \in Adapters, NEW c \in Calls, NEW kind \in {"DISCARD", "RECOVER"},
                NEW t \in Turns, BeginSettling(a, kind, c, t)
         PROVE  QuietWhileBinding'
    BY <1>10 DEF BeginSettling, Send
  <1>11. ASSUME NEW a \in Adapters, NEW c \in Calls, NEW t \in Turns, BeginConfirm(a, c, t)
         PROVE  QuietWhileBinding'
    BY <1>11 DEF BeginConfirm, Send
  <1>12. ASSUME NEW a \in Adapters, NEW c \in Calls, BeginLook(a, c)
         PROVE  QuietWhileBinding'
    BY <1>12 DEF BeginLook, Send
  <1>13. ASSUME NEW a \in Adapters, NEW t \in Turns, SubmitTurn(a, t)
         PROVE  QuietWhileBinding'
    BY <1>13 DEF SubmitTurn, MaySubmit, Send
  <1>14. ASSUME NEW a \in Adapters, NEW t \in Turns, AcknowledgeDelivery(a, t)
         PROVE  QuietWhileBinding'
    BY <1>14 DEF AcknowledgeDelivery, Send
  <1>15. ASSUME NEW a \in Adapters, NEW t \in Turns, Interrupt(a, t)
         PROVE  QuietWhileBinding'
    BY <1>15 DEF Interrupt, Unconfirmed
  <1>16. CASE Close
    BY <1>16 DEF Close, Unconfirmed, Prompts
  <1>17. ASSUME NEW a \in Adapters, NEW i \in Ids, RequestTimeout(a, i)
         PROVE  QuietWhileBinding'
    BY <1>17 DEF RequestTimeout, Armed
  <1>18. ASSUME NEW a \in Adapters, NEW t \in Turns, InterruptTimeout(a, t)
         PROVE  QuietWhileBinding'
    BY <1>18 DEF InterruptTimeout, Unconfirmed
  <1>19. ASSUME NEW s \in Sockets, NEW i \in Ids,
                NEW type \in {"RESULT", "ERROR", "CANCELLED", "ACKED", "DONE", "FAILED"},
                Message(s, i, type)
         PROVE  QuietWhileBinding'
    <2>1. /\ UNCHANGED <<socket, authentication, open, linked, unused, owner, closed>>
          /\ heard' \in {heard, "recently"}
          /\ owed' \subseteq owed
      BY <1>19 DEF Message
    <2>2. ASSUME NEW a \in Adapters, pending[a][i] = "PROMPT", type = "RESULT", TurnCompletes(a, i),
                 Authenticated
          PROVE  QuietWhileBinding'
      BY <2>1, <2>2 DEF TurnCompletes, Ended, SettleInterrupt
    <2>3. ASSUME NEW a \in Adapters, pending[a][i] = "PROMPT", type \in {"RESULT", "ERROR"}, TurnFails(a, i, type),
                 Authenticated
          PROVE  QuietWhileBinding'
      BY <2>1, <2>3 DEF TurnFails, Ended, SettleInterrupt
    <2>4. ASSUME NEW a \in Adapters, pending[a][i] = "PROMPT", type = "CANCELLED", TurnInterrupted(a, i),
                 Authenticated
          PROVE  QuietWhileBinding'
      BY <2>1, <2>4 DEF TurnInterrupted, Ended, SettleInterrupt
    <2>5. ASSUME NEW a \in Adapters, pending[a][i] \in Binding, SessionBound(a, i, type),
                 Authenticated
          PROVE  QuietWhileBinding'
      BY <2>1, <2>5 DEF SessionBound
    <2>6. ASSUME NEW a \in Adapters, pending[a][i] \in AboutTurn, DeliverySettled(a, i, type),
                 Authenticated
          PROVE  QuietWhileBinding'
      BY <2>1, <2>6 DEF DeliverySettled
    <2>7. ASSUME NEW a \in Adapters, pending[a][i] \in {"ACK", "LOOK"}, Answered(a, i),
                 Authenticated
          PROVE  QuietWhileBinding'
      BY <2>1, <2>7 DEF Answered, SettleInterrupt
    <2>8. CASE UNCHANGED <<adapter, binding, outcome, stopped, about>>
      BY <2>1, <2>8 DEF adapter
    <2> QED
      BY <1>19, <2>1, <2>2, <2>3, <2>4, <2>5, <2>6, <2>7, <2>8 DEF Message, Dispatch
  <1>20. ASSUME NEW s \in Sockets, NEW t \in Turns, ManualIntervention(s, t)
         PROVE  QuietWhileBinding'
    BY <1>20 DEF ManualIntervention, Unconfirmed
  <1>21. CASE UNCHANGED vars
    BY <1>21
  <1> HIDE DEF AdapterTypes, FlagTypes, RequestKinds, OnePromptInFlight, QuietWhileBinding, Prompts, Ids, Kinds, Exclusive, Binding, AboutTurn
  <1> QED
    BY <1>1, <1>2, <1>3, <1>4, <1>5, <1>6, <1>7, <1>8, <1>9, <1>10, <1>11, <1>12, <1>13,
      <1>14, <1>15, <1>16, <1>17, <1>18, <1>19, <1>20, <1>21 DEF Next, ConnectionEvent,
      Call, Timer, ExtensionMessage

\* Every step leaves requests to an authenticated connection only
LEMMA NoRequestStep == AdapterTypes /\ PromiseTypes /\ FlagTypes /\ RequestKinds /\ NoRequestOutlivesItsConnection /\ [Next]_vars => NoRequestOutlivesItsConnection'
  <1> SUFFICES ASSUME AdapterTypes /\ PromiseTypes /\ FlagTypes /\ RequestKinds /\ NoRequestOutlivesItsConnection, [Next]_vars PROVE NoRequestOutlivesItsConnection'
    OBVIOUS
  <1> USE DEF AdapterTypes, FlagTypes, RequestKinds, NoRequestOutlivesItsConnection, Waiting, Authenticated, CanSend, Ids, Kinds, Exclusive, Binding, AboutTurn
  <1>1. ASSUME NEW s \in Sockets, CloseEvent(s)
        PROVE  NoRequestOutlivesItsConnection'
    BY <1>1 DEF CloseEvent, RequestsLost, KeepRequests
  <1>2. ASSUME NEW s \in Sockets, SocketDrops(s)
        PROVE  NoRequestOutlivesItsConnection'
    BY <1>2 DEF SocketDrops, KeepRequests
  <1>3. ASSUME NEW s \in Sockets, AttachRefused(s)
        PROVE  NoRequestOutlivesItsConnection'
    BY <1>3 DEF AttachRefused, KeepRequests
  <1>4. ASSUME NEW s \in Sockets, Attach(s)
        PROVE  NoRequestOutlivesItsConnection'
    BY <1>4 DEF Attach, ReplacesPeer, RequestsLost, KeepRequests
  <1>5. ASSUME NEW s \in Sockets, Authenticate(s)
        PROVE  NoRequestOutlivesItsConnection'
    BY <1>5 DEF Authenticate, KeepRequests
  <1>6. ASSUME NEW s \in Sockets, Heartbeat(s)
        PROVE  NoRequestOutlivesItsConnection'
    BY <1>6 DEF Heartbeat, KeepRequests
  <1>7. CASE GoesSilent
    BY <1>7 DEF GoesSilent, KeepRequests
  <1>8. CASE ExpireStaleConnection
    BY <1>8 DEF ExpireStaleConnection, RequestsLost
  <1>9. ASSUME NEW a \in Adapters, NEW c \in Calls, NEW kind \in Binding, BeginBinding(a, kind, c)
        PROVE  NoRequestOutlivesItsConnection'
    <2>1. CASE CanSend
      BY <1>9, <2>1 DEF BeginBinding, Send
    <2>2. CASE ~CanSend
      BY <1>9, <2>2 DEF BeginBinding
    <2> QED
      BY <2>1, <2>2
  <1>10. ASSUME NEW a \in Adapters, NEW c \in Calls, NEW kind \in {"DISCARD", "RECOVER"},
                NEW t \in Turns, BeginSettling(a, kind, c, t)
         PROVE  NoRequestOutlivesItsConnection'
    BY <1>10 DEF BeginSettling, Send
  <1>11. ASSUME NEW a \in Adapters, NEW c \in Calls, NEW t \in Turns, BeginConfirm(a, c, t)
         PROVE  NoRequestOutlivesItsConnection'
    BY <1>11 DEF BeginConfirm, Send
  <1>12. ASSUME NEW a \in Adapters, NEW c \in Calls, BeginLook(a, c)
         PROVE  NoRequestOutlivesItsConnection'
    BY <1>12 DEF BeginLook, Send
  <1>13. ASSUME NEW a \in Adapters, NEW t \in Turns, SubmitTurn(a, t)
         PROVE  NoRequestOutlivesItsConnection'
    BY <1>13 DEF SubmitTurn, MaySubmit, Send
  <1>14. ASSUME NEW a \in Adapters, NEW t \in Turns, AcknowledgeDelivery(a, t)
         PROVE  NoRequestOutlivesItsConnection'
    BY <1>14 DEF AcknowledgeDelivery, Send
  <1>15. ASSUME NEW a \in Adapters, NEW t \in Turns, Interrupt(a, t)
         PROVE  NoRequestOutlivesItsConnection'
    BY <1>15 DEF Interrupt, Unconfirmed
  <1>16. CASE Close
    BY <1>16 DEF Close, Unconfirmed, Prompts
  <1>17. ASSUME NEW a \in Adapters, NEW i \in Ids, RequestTimeout(a, i)
         PROVE  NoRequestOutlivesItsConnection'
    BY <1>17 DEF RequestTimeout, Armed
  <1>18. ASSUME NEW a \in Adapters, NEW t \in Turns, InterruptTimeout(a, t)
         PROVE  NoRequestOutlivesItsConnection'
    BY <1>18 DEF InterruptTimeout, Unconfirmed
  <1>19. ASSUME NEW s \in Sockets, NEW i \in Ids,
                NEW type \in {"RESULT", "ERROR", "CANCELLED", "ACKED", "DONE", "FAILED"},
                Message(s, i, type)
         PROVE  NoRequestOutlivesItsConnection'
    <2>1. /\ UNCHANGED <<socket, authentication, open, linked, unused, owner, closed>>
          /\ heard' \in {heard, "recently"}
          /\ owed' \subseteq owed
      BY <1>19 DEF Message
    <2>2. ASSUME NEW a \in Adapters, pending[a][i] = "PROMPT", type = "RESULT", TurnCompletes(a, i),
                 Authenticated
          PROVE  NoRequestOutlivesItsConnection'
      BY <2>1, <2>2 DEF TurnCompletes, Ended, SettleInterrupt
    <2>3. ASSUME NEW a \in Adapters, pending[a][i] = "PROMPT", type \in {"RESULT", "ERROR"}, TurnFails(a, i, type),
                 Authenticated
          PROVE  NoRequestOutlivesItsConnection'
      BY <2>1, <2>3 DEF TurnFails, Ended, SettleInterrupt
    <2>4. ASSUME NEW a \in Adapters, pending[a][i] = "PROMPT", type = "CANCELLED", TurnInterrupted(a, i),
                 Authenticated
          PROVE  NoRequestOutlivesItsConnection'
      BY <2>1, <2>4 DEF TurnInterrupted, Ended, SettleInterrupt
    <2>5. ASSUME NEW a \in Adapters, pending[a][i] \in Binding, SessionBound(a, i, type),
                 Authenticated
          PROVE  NoRequestOutlivesItsConnection'
      BY <2>1, <2>5 DEF SessionBound
    <2>6. ASSUME NEW a \in Adapters, pending[a][i] \in AboutTurn, DeliverySettled(a, i, type),
                 Authenticated
          PROVE  NoRequestOutlivesItsConnection'
      BY <2>1, <2>6 DEF DeliverySettled
    <2>7. ASSUME NEW a \in Adapters, pending[a][i] \in {"ACK", "LOOK"}, Answered(a, i),
                 Authenticated
          PROVE  NoRequestOutlivesItsConnection'
      BY <2>1, <2>7 DEF Answered, SettleInterrupt
    <2>8. CASE UNCHANGED <<adapter, binding, outcome, stopped, about>>
      BY <2>1, <2>8 DEF adapter
    <2> QED
      BY <1>19, <2>1, <2>2, <2>3, <2>4, <2>5, <2>6, <2>7, <2>8 DEF Message, Dispatch
  <1>20. ASSUME NEW s \in Sockets, NEW t \in Turns, ManualIntervention(s, t)
         PROVE  NoRequestOutlivesItsConnection'
    BY <1>20 DEF ManualIntervention, Unconfirmed
  <1>21. CASE UNCHANGED vars
    BY <1>21
  <1> HIDE DEF AdapterTypes, FlagTypes, RequestKinds, NoRequestOutlivesItsConnection, Waiting, Authenticated, CanSend, Ids, Kinds, Exclusive, Binding, AboutTurn
  <1> QED
    BY <1>1, <1>2, <1>3, <1>4, <1>5, <1>6, <1>7, <1>8, <1>9, <1>10, <1>11, <1>12, <1>13,
      <1>14, <1>15, <1>16, <1>17, <1>18, <1>19, <1>20, <1>21 DEF Next, ConnectionEvent,
      Call, Timer, ExtensionMessage

\* Every step leaves readiness to an authenticated connection only
LEMMA ReadinessStep == AdapterTypes /\ PromiseTypes /\ RequestKinds /\ ConnectionTypes /\ FlagTypes /\ ReadinessDiesWithItsConnection /\ [Next]_vars => ReadinessDiesWithItsConnection'
  <1> SUFFICES ASSUME AdapterTypes /\ PromiseTypes /\ RequestKinds /\ ConnectionTypes /\ FlagTypes /\ ReadinessDiesWithItsConnection, [Next]_vars PROVE ReadinessDiesWithItsConnection'
    OBVIOUS
  <1> USE DEF AdapterTypes, RequestKinds, ConnectionTypes, FlagTypes, ReadinessDiesWithItsConnection, Authenticated, CanSend, Ids, Kinds, Exclusive, Binding, AboutTurn
  <1>1. ASSUME NEW s \in Sockets, CloseEvent(s)
        PROVE  ReadinessDiesWithItsConnection'
    BY <1>1 DEF CloseEvent, RequestsLost, KeepRequests, ReadyAfterLoss
  <1>2. ASSUME NEW s \in Sockets, SocketDrops(s)
        PROVE  ReadinessDiesWithItsConnection'
    BY <1>2 DEF SocketDrops, KeepRequests
  <1>3. ASSUME NEW s \in Sockets, AttachRefused(s)
        PROVE  ReadinessDiesWithItsConnection'
    BY <1>3 DEF AttachRefused, KeepRequests
  <1>4. ASSUME NEW s \in Sockets, Attach(s)
        PROVE  ReadinessDiesWithItsConnection'
    BY <1>4 DEF Attach, ReplacesPeer, RequestsLost, KeepRequests, ReadyAfterLoss
  <1>5. ASSUME NEW s \in Sockets, Authenticate(s)
        PROVE  ReadinessDiesWithItsConnection'
    BY <1>5 DEF Authenticate, KeepRequests
  <1>6. ASSUME NEW s \in Sockets, Heartbeat(s)
        PROVE  ReadinessDiesWithItsConnection'
    BY <1>6 DEF Heartbeat, KeepRequests
  <1>7. CASE GoesSilent
    BY <1>7 DEF GoesSilent, KeepRequests
  <1>8. CASE ExpireStaleConnection
    BY <1>8 DEF ExpireStaleConnection, RequestsLost, ReadyAfterLoss
  <1>9. ASSUME NEW a \in Adapters, NEW c \in Calls, NEW kind \in Binding, BeginBinding(a, kind, c)
        PROVE  ReadinessDiesWithItsConnection'
    <2>1. CASE CanSend
      BY <1>9, <2>1 DEF BeginBinding, Send
    <2>2. CASE ~CanSend
      BY <1>9, <2>2 DEF BeginBinding
    <2> QED
      BY <2>1, <2>2
  <1>10. ASSUME NEW a \in Adapters, NEW c \in Calls, NEW kind \in {"DISCARD", "RECOVER"},
                NEW t \in Turns, BeginSettling(a, kind, c, t)
         PROVE  ReadinessDiesWithItsConnection'
    BY <1>10 DEF BeginSettling, Send
  <1>11. ASSUME NEW a \in Adapters, NEW c \in Calls, NEW t \in Turns, BeginConfirm(a, c, t)
         PROVE  ReadinessDiesWithItsConnection'
    BY <1>11 DEF BeginConfirm, Send
  <1>12. ASSUME NEW a \in Adapters, NEW c \in Calls, BeginLook(a, c)
         PROVE  ReadinessDiesWithItsConnection'
    BY <1>12 DEF BeginLook, Send
  <1>13. ASSUME NEW a \in Adapters, NEW t \in Turns, SubmitTurn(a, t)
         PROVE  ReadinessDiesWithItsConnection'
    BY <1>13 DEF SubmitTurn, MaySubmit, Send
  <1>14. ASSUME NEW a \in Adapters, NEW t \in Turns, AcknowledgeDelivery(a, t)
         PROVE  ReadinessDiesWithItsConnection'
    BY <1>14 DEF AcknowledgeDelivery, Send
  <1>15. ASSUME NEW a \in Adapters, NEW t \in Turns, Interrupt(a, t)
         PROVE  ReadinessDiesWithItsConnection'
    BY <1>15 DEF Interrupt, Unconfirmed
  <1>16. CASE Close
    BY <1>16 DEF Close, Unconfirmed, Prompts
  <1>17. ASSUME NEW a \in Adapters, NEW i \in Ids, RequestTimeout(a, i)
         PROVE  ReadinessDiesWithItsConnection'
    BY <1>17 DEF RequestTimeout, Armed
  <1>18. ASSUME NEW a \in Adapters, NEW t \in Turns, InterruptTimeout(a, t)
         PROVE  ReadinessDiesWithItsConnection'
    BY <1>18 DEF InterruptTimeout, Unconfirmed
  <1>19. ASSUME NEW s \in Sockets, NEW i \in Ids,
                NEW type \in {"RESULT", "ERROR", "CANCELLED", "ACKED", "DONE", "FAILED"},
                Message(s, i, type)
         PROVE  ReadinessDiesWithItsConnection'
    <2>1. /\ UNCHANGED <<socket, authentication, open, linked, unused, owner, closed>>
          /\ heard' \in {heard, "recently"}
          /\ owed' \subseteq owed
      BY <1>19 DEF Message
    <2>2. ASSUME NEW a \in Adapters, pending[a][i] = "PROMPT", type = "RESULT", TurnCompletes(a, i),
                 Authenticated
          PROVE  ReadinessDiesWithItsConnection'
      BY <2>1, <2>2 DEF TurnCompletes, Ended, SettleInterrupt
    <2>3. ASSUME NEW a \in Adapters, pending[a][i] = "PROMPT", type \in {"RESULT", "ERROR"}, TurnFails(a, i, type),
                 Authenticated
          PROVE  ReadinessDiesWithItsConnection'
      <3>1. \A x \in Adapters : ready'[x] => ready[x] \/ binding' = a
        BY <2>1, <2>3 DEF TurnFails, Ended
      <3>2. binding' \in {binding, a}
        BY <2>1, <2>3 DEF TurnFails, Ended
      <3> QED
        BY <2>1, <2>3, <3>1, <3>2
    <2>4. ASSUME NEW a \in Adapters, pending[a][i] = "PROMPT", type = "CANCELLED", TurnInterrupted(a, i),
                 Authenticated
          PROVE  ReadinessDiesWithItsConnection'
      BY <2>1, <2>4 DEF TurnInterrupted, Ended, SettleInterrupt
    <2>5. ASSUME NEW a \in Adapters, pending[a][i] \in Binding, SessionBound(a, i, type),
                 Authenticated
          PROVE  ReadinessDiesWithItsConnection'
      <3>1. \A x \in Adapters : ready'[x] => ready[x] \/ binding' = a
        <4> HIDE DEF AdapterTypes, ConnectionTypes, RequestKinds, ReadinessDiesWithItsConnection,
              Ids, Kinds, Exclusive, Binding, AboutTurn
        <4> QED
          BY <2>1, <2>5 DEF SessionBound
      <3>2. binding' \in {binding, a}
        BY <2>1, <2>5 DEF SessionBound
      <3> QED
        BY <2>1, <2>5, <3>1, <3>2
    <2>6. ASSUME NEW a \in Adapters, pending[a][i] \in AboutTurn, DeliverySettled(a, i, type),
                 Authenticated
          PROVE  ReadinessDiesWithItsConnection'
      <3>1. \A x \in Adapters : ready'[x] => ready[x]
        <4> HIDE DEF AdapterTypes, ConnectionTypes, RequestKinds, ReadinessDiesWithItsConnection,
              Ids, Kinds, Exclusive, Binding, AboutTurn
        <4>1. ready' = ready \/ ready' = [ready EXCEPT ![a] = FALSE]
          BY <2>6 DEF DeliverySettled
        <4> QED
          BY <4>1
      <3>2. UNCHANGED <<socket, authentication, closed, binding>>
        BY <2>1, <2>6 DEF DeliverySettled
      <3> QED
        BY <3>1, <3>2
    <2>7. ASSUME NEW a \in Adapters, pending[a][i] \in {"ACK", "LOOK"}, Answered(a, i),
                 Authenticated
          PROVE  ReadinessDiesWithItsConnection'
      BY <2>1, <2>7 DEF Answered, SettleInterrupt
    <2>8. CASE UNCHANGED <<adapter, binding, outcome, stopped, about>>
      BY <2>1, <2>8 DEF adapter
    <2> QED
      BY <1>19, <2>1, <2>2, <2>3, <2>4, <2>5, <2>6, <2>7, <2>8 DEF Message, Dispatch
  <1>20. ASSUME NEW s \in Sockets, NEW t \in Turns, ManualIntervention(s, t)
         PROVE  ReadinessDiesWithItsConnection'
    BY <1>20 DEF ManualIntervention, Unconfirmed
  <1>21. CASE UNCHANGED vars
    BY <1>21
  <1> HIDE DEF AdapterTypes, RequestKinds, ConnectionTypes, FlagTypes, ReadinessDiesWithItsConnection, Authenticated, CanSend, Ids, Kinds, Exclusive, Binding, AboutTurn
  <1> QED
    BY <1>1, <1>2, <1>3, <1>4, <1>5, <1>6, <1>7, <1>8, <1>9, <1>10, <1>11, <1>12, <1>13,
      <1>14, <1>15, <1>16, <1>17, <1>18, <1>19, <1>20, <1>21 DEF Next, ConnectionEvent,
      Call, Timer, ExtensionMessage

\* Every step keeps confirmed interrupts to interrupted turns
LEMMA ConfirmedStep == AdapterTypes /\ PromiseTypes /\ RequestKinds /\ ConfirmedInterruptsEndTheTurn /\ [Next]_vars => ConfirmedInterruptsEndTheTurn'
  <1> SUFFICES ASSUME AdapterTypes /\ PromiseTypes /\ RequestKinds /\ ConfirmedInterruptsEndTheTurn, [Next]_vars PROVE ConfirmedInterruptsEndTheTurn'
    OBVIOUS
  <1> USE DEF AdapterTypes, PromiseTypes, RequestKinds, ConfirmedInterruptsEndTheTurn, Ids, Kinds, Exclusive, Binding, AboutTurn
  <1>1. ASSUME NEW s \in Sockets, CloseEvent(s)
        PROVE  ConfirmedInterruptsEndTheTurn'
    BY <1>1 DEF CloseEvent, RequestsLost, KeepRequests, Unconfirmed, Prompts
  <1>2. ASSUME NEW s \in Sockets, SocketDrops(s)
        PROVE  ConfirmedInterruptsEndTheTurn'
    BY <1>2 DEF SocketDrops, KeepRequests
  <1>3. ASSUME NEW s \in Sockets, AttachRefused(s)
        PROVE  ConfirmedInterruptsEndTheTurn'
    BY <1>3 DEF AttachRefused, KeepRequests
  <1>4. ASSUME NEW s \in Sockets, Attach(s)
        PROVE  ConfirmedInterruptsEndTheTurn'
    BY <1>4 DEF Attach, ReplacesPeer, RequestsLost, KeepRequests, Unconfirmed, Prompts
  <1>5. ASSUME NEW s \in Sockets, Authenticate(s)
        PROVE  ConfirmedInterruptsEndTheTurn'
    BY <1>5 DEF Authenticate, KeepRequests
  <1>6. ASSUME NEW s \in Sockets, Heartbeat(s)
        PROVE  ConfirmedInterruptsEndTheTurn'
    BY <1>6 DEF Heartbeat, KeepRequests
  <1>7. CASE GoesSilent
    BY <1>7 DEF GoesSilent, KeepRequests
  <1>8. CASE ExpireStaleConnection
    BY <1>8 DEF ExpireStaleConnection, RequestsLost, Unconfirmed, Prompts
  <1>9. ASSUME NEW a \in Adapters, NEW c \in Calls, NEW kind \in Binding, BeginBinding(a, kind, c)
        PROVE  ConfirmedInterruptsEndTheTurn'
    <2>1. CASE CanSend
      BY <1>9, <2>1 DEF BeginBinding, Send
    <2>2. CASE ~CanSend
      BY <1>9, <2>2 DEF BeginBinding
    <2> QED
      BY <2>1, <2>2
  <1>10. ASSUME NEW a \in Adapters, NEW c \in Calls, NEW kind \in {"DISCARD", "RECOVER"},
                NEW t \in Turns, BeginSettling(a, kind, c, t)
         PROVE  ConfirmedInterruptsEndTheTurn'
    BY <1>10 DEF BeginSettling, Send
  <1>11. ASSUME NEW a \in Adapters, NEW c \in Calls, NEW t \in Turns, BeginConfirm(a, c, t)
         PROVE  ConfirmedInterruptsEndTheTurn'
    BY <1>11 DEF BeginConfirm, Send
  <1>12. ASSUME NEW a \in Adapters, NEW c \in Calls, BeginLook(a, c)
         PROVE  ConfirmedInterruptsEndTheTurn'
    BY <1>12 DEF BeginLook, Send
  <1>13. ASSUME NEW a \in Adapters, NEW t \in Turns, SubmitTurn(a, t)
         PROVE  ConfirmedInterruptsEndTheTurn'
    BY <1>13 DEF SubmitTurn, MaySubmit, Send
  <1>14. ASSUME NEW a \in Adapters, NEW t \in Turns, AcknowledgeDelivery(a, t)
         PROVE  ConfirmedInterruptsEndTheTurn'
    BY <1>14 DEF AcknowledgeDelivery, Send
  <1>15. ASSUME NEW a \in Adapters, NEW t \in Turns, Interrupt(a, t)
         PROVE  ConfirmedInterruptsEndTheTurn'
    BY <1>15 DEF Interrupt, Unconfirmed
  <1>16. CASE Close
    BY <1>16 DEF Close, Unconfirmed, Prompts
  <1>17. ASSUME NEW a \in Adapters, NEW i \in Ids, RequestTimeout(a, i)
         PROVE  ConfirmedInterruptsEndTheTurn'
    BY <1>17 DEF RequestTimeout, Armed
  <1>18. ASSUME NEW a \in Adapters, NEW t \in Turns, InterruptTimeout(a, t)
         PROVE  ConfirmedInterruptsEndTheTurn'
    BY <1>18 DEF InterruptTimeout, Unconfirmed
  <1>19. ASSUME NEW s \in Sockets, NEW i \in Ids,
                NEW type \in {"RESULT", "ERROR", "CANCELLED", "ACKED", "DONE", "FAILED"},
                Message(s, i, type)
         PROVE  ConfirmedInterruptsEndTheTurn'
    <2>1. /\ UNCHANGED <<socket, authentication, open, linked, unused, owner, closed>>
          /\ heard' \in {heard, "recently"}
          /\ owed' \subseteq owed
      BY <1>19 DEF Message
    <2>2. ASSUME NEW a \in Adapters, pending[a][i] = "PROMPT", type = "RESULT", TurnCompletes(a, i),
                 Authenticated
          PROVE  ConfirmedInterruptsEndTheTurn'
      BY <2>1, <2>2 DEF TurnCompletes, Ended, SettleInterrupt
    <2>3. ASSUME NEW a \in Adapters, pending[a][i] = "PROMPT", type \in {"RESULT", "ERROR"}, TurnFails(a, i, type),
                 Authenticated
          PROVE  ConfirmedInterruptsEndTheTurn'
      BY <2>1, <2>3 DEF TurnFails, Ended, SettleInterrupt
    <2>4. ASSUME NEW a \in Adapters, pending[a][i] = "PROMPT", type = "CANCELLED", TurnInterrupted(a, i),
                 Authenticated
          PROVE  ConfirmedInterruptsEndTheTurn'
      BY <2>1, <2>4 DEF TurnInterrupted, Ended, SettleInterrupt
    <2>5. ASSUME NEW a \in Adapters, pending[a][i] \in Binding, SessionBound(a, i, type),
                 Authenticated
          PROVE  ConfirmedInterruptsEndTheTurn'
      BY <2>1, <2>5 DEF SessionBound
    <2>6. ASSUME NEW a \in Adapters, pending[a][i] \in AboutTurn, DeliverySettled(a, i, type),
                 Authenticated
          PROVE  ConfirmedInterruptsEndTheTurn'
      BY <2>1, <2>6 DEF DeliverySettled
    <2>7. ASSUME NEW a \in Adapters, pending[a][i] \in {"ACK", "LOOK"}, Answered(a, i),
                 Authenticated
          PROVE  ConfirmedInterruptsEndTheTurn'
      BY <2>1, <2>7 DEF Answered, SettleInterrupt
    <2>8. CASE UNCHANGED <<adapter, binding, outcome, stopped, about>>
      BY <2>1, <2>8 DEF adapter
    <2> QED
      BY <1>19, <2>1, <2>2, <2>3, <2>4, <2>5, <2>6, <2>7, <2>8 DEF Message, Dispatch
  <1>20. ASSUME NEW s \in Sockets, NEW t \in Turns, ManualIntervention(s, t)
         PROVE  ConfirmedInterruptsEndTheTurn'
    BY <1>20 DEF ManualIntervention, Unconfirmed
  <1>21. CASE UNCHANGED vars
    BY <1>21
  <1> HIDE DEF AdapterTypes, PromiseTypes, RequestKinds, ConfirmedInterruptsEndTheTurn, Ids, Kinds, Exclusive, Binding, AboutTurn
  <1> QED
    BY <1>1, <1>2, <1>3, <1>4, <1>5, <1>6, <1>7, <1>8, <1>9, <1>10, <1>11, <1>12, <1>13,
      <1>14, <1>15, <1>16, <1>17, <1>18, <1>19, <1>20, <1>21 DEF Next, ConnectionEvent,
      Call, Timer, ExtensionMessage

\* Every step keeps the invariant
LEMMA IInvStep == IInv /\ [Next]_vars => IInv'
  BY FlagsStep, ConnectionTypesStep, AdapterTypesStep, PromiseTypesStep, RequestKindsStep,
    OnePromptStep, QuietStep, NoRequestStep, ReadinessStep, ConfirmedStep DEF IInv, TypeOK

\* The invariant holds in every behaviour
THEOREM IInvHolds == Spec => []IInv
  <1>1. Init => IInv
    BY InitHolds
  <1>2. IInv /\ [Next]_vars => IInv'
    BY IInvStep
  <1> QED
    BY <1>1, <1>2, PTL DEF Spec

\* Every variable keeps its type, whatever the sockets, the extension and the callers do
THEOREM TypeCorrect == Spec => []TypeOK
  BY IInvHolds, PTL DEF IInv

\* An adapter never has two prompts out, and its active turn is the one that is out (submitTurn, #completeTurn)
THEOREM OnePromptAlways == Spec => []OnePromptInFlight
  BY IInvHolds, PTL DEF IInv

\* No prompt is out, and none can be submitted, while start(), resume() or rebind() runs
THEOREM QuietAlways == Spec => []QuietWhileBinding
  BY IInvHolds, PTL DEF IInv

\* No request is left waiting for an answer over a connection that is gone (#onClose, attach, expireStaleConnection)
THEOREM NoStaleRequests == Spec => []NoRequestOutlivesItsConnection
  BY IInvHolds, PTL DEF IInv

\* No adapter is ready without an authenticated connection and a binding
THEOREM NoStaleReadiness == Spec => []ReadinessDiesWithItsConnection
  BY IInvHolds, PTL DEF IInv

\* A connection that is gone leaves neither a request nor a readiness behind
THEOREM ConnectionsEndCleanly == Spec => []ConnectionEndsEverything
  BY IInvHolds, PTL DEF IInv, ConnectionEndsEverything

\* The page never gets a prompt beside another, nor while its binding is replaced
THEOREM PromptsNeverMeet == Spec => []PromptsAreExclusive
  BY IInvHolds, PTL DEF IInv, PromptsAreExclusive

\* An interrupt is confirmed only for a turn that ended as interrupted (#settleInterrupt)
THEOREM ConfirmedAlways == Spec => []ConfirmedInterruptsEndTheTurn
  BY IInvHolds, PTL DEF IInv

-----------------------------------------------------------------------------
(***************************************************************************)
(* The ledger, for callers that bind first.  Its turns are those of        *)
(* WebSession itself; what a step does to them is read off the requests    *)
(* that wait, so LedgerInv ties the two: a turn in flight is a prompt that *)
(* waits, an ambiguous turn is the one its adapter remembers, and an       *)
(* operation about a turn is over before another turn can be ambiguous.    *)
(* Without BindFirst the last part fails, and with it the ledger: the      *)
(* acknowledgement of one turn forgets that a later one is ambiguous.      *)
(***************************************************************************)

\* A turn whose outcome is awaited has its prompt out.
InFlightIsOut ==
    \A t \in Turns : outcome[t] = "inFlight" =>
      owner[t] \in Adapters /\ pending[owner[t]][t] = "PROMPT"

\* An ambiguous turn is the one its adapter remembers.
AmbiguousIsRemembered ==
    \A t \in Turns : outcome[t] = "ambiguous" =>
      owner[t] \in Adapters /\ ambiguousTurn[owner[t]] = t

\* No prompt is out over an ambiguous turn.
NoneOverAmbiguous ==
    \A a \in Adapters, t \in Turns : pending[a][t] = "PROMPT" => ambiguousTurn[a] = None

\* An adapter acknowledges only a turn of its own whose answer was given.
AckedIsAnswered ==
    \A a \in Adapters, t \in Turns :
      pending[a][t] = "ACK" => owner[t] = a /\ <<t, "PROMPT">> \notin owed

\* While an operation about a turn waits, no prompt is out and no other turn is ambiguous.
OperationEndsFirst ==
    \A a \in Adapters, c \in Calls : pending[a][c] \in AboutTurn =>
      /\ \A t \in Turns : pending[a][t] # "PROMPT"
      /\ ambiguousTurn[a] \in {None, about[c]}

\* The id of a call waits at one adapter.
OneWaiter ==
    \A x, y \in Adapters, c \in Calls :
      x # y => pending[x][c] = None \/ pending[y][c] = None

LedgerInv ==
    /\ InFlightIsOut
    /\ AmbiguousIsRemembered
    /\ NoneOverAmbiguous
    /\ AckedIsAnswered
    /\ OperationEndsFirst
    /\ OneWaiter

(* What a step may do to the requests and the turns. *)

\* The extension owes no prompt that it did not owe before.
NoNewPrompt == \A u \in Turns : <<u, "PROMPT">> \in owed' => <<u, "PROMPT">> \in owed

Unmoved == UNCHANGED <<pending, outcome, owner, ambiguousTurn, about>> /\ NoNewPrompt

Lost == RequestsLost /\ NoNewPrompt

\* A request that is no prompt is sent.
Asked(a, i, kind) ==
    /\ kind # "PROMPT"
    /\ pending[a][i] = None
    /\ kind \in AboutTurn => /\ \A u \in Turns : pending[a][u] # "PROMPT"
                             /\ ambiguousTurn[a] \in {None, about'[i]}
    /\ kind = "ACK" => i \in Turns /\ owner[i] = a /\ <<i, "PROMPT">> \notin owed
    /\ i \in Calls => \A x \in Adapters : pending[x][i] = None
    /\ pending'[a][i] = kind
    /\ \A x \in Adapters, y \in Ids : x # a \/ y # i => pending'[x][y] = pending[x][y]
    /\ \A y \in Calls : y # i => about'[y] = about[y]
    /\ UNCHANGED <<outcome, owner, ambiguousTurn>>
    /\ NoNewPrompt

\* A turn is submitted over nothing that waits and nothing that is ambiguous.
Submitted(a, t) ==
    /\ owner[t] = None
    /\ ambiguousTurn[a] = None
    /\ \A y \in Ids : pending[a][y] = None
    /\ pending'[a][t] = "PROMPT"
    /\ \A x \in Adapters, y \in Ids : x # a \/ y # t => pending'[x][y] = pending[x][y]
    /\ outcome' = [outcome EXCEPT ![t] = "inFlight"]
    /\ owner' = [owner EXCEPT ![t] = a]
    /\ UNCHANGED <<ambiguousTurn, about>>
    /\ \A u \in Turns : <<u, "PROMPT">> \in owed' => u = t \/ <<u, "PROMPT">> \in owed

\* A request is over.
Over(a, i) ==
    /\ pending[a][i] # None
    /\ pending'[a][i] = None
    /\ \A x \in Adapters, y \in Ids : x # a \/ y # i => pending'[x][y] = pending[x][y]
    /\ \A y \in Calls : y # i => about'[y] = about[y]
    /\ UNCHANGED owner
    /\ NoNewPrompt

\* ... without an effect on the turns.
Dismissed(a, i) ==
    /\ Over(a, i)
    /\ pending[a][i] # "PROMPT"
    /\ UNCHANGED <<outcome, ambiguousTurn>>

\* ... and was a prompt whose turn ends.
Concluded(a, t) ==
    /\ Over(a, t)
    /\ pending[a][t] = "PROMPT"
    /\ \E how \in {"completed", "failed", "interrupted"} : outcome' = [outcome EXCEPT ![t] = how]
    /\ UNCHANGED ambiguousTurn

\* ... and was a prompt of which nothing is known.
Doubted(a, t) ==
    /\ Over(a, t)
    /\ pending[a][t] = "PROMPT"
    /\ \A u \in Calls : pending[a][u] \notin AboutTurn
    /\ outcome' = [outcome EXCEPT ![t] = "ambiguous"]
    /\ ambiguousTurn' = [ambiguousTurn EXCEPT ![a] = t]

\* ... and decides an ambiguous turn.
Decided(a, c) ==
    /\ Over(a, c)
    /\ pending[a][c] \in AboutTurn
    /\ ambiguousTurn[a] # None
    /\ ambiguousTurn' = [ambiguousTurn EXCEPT ![a] = None]
    /\ outcome' = IF outcome[about[c]] = "ambiguous"
                  THEN [outcome EXCEPT ![about[c]] = "resolved"] ELSE outcome

\* The user works on the page of the prompt.
Intervened(t) ==
    /\ <<t, "PROMPT">> \in owed
    /\ \A x \in Adapters : pending'[x][t] = None
    /\ \A x \in Adapters, y \in Ids : y # t => pending'[x][y] = pending[x][y]
    /\ \A x \in Adapters : ambiguousTurn'[x] = IF pending[x][t] # None THEN t ELSE ambiguousTurn[x]
    /\ outcome' = IF \E x \in Adapters : pending[x][t] = "PROMPT"
                  THEN [outcome EXCEPT ![t] = "ambiguous"] ELSE outcome
    /\ UNCHANGED <<owner, about>>
    /\ NoNewPrompt

\* The primary adapter gives its requests up.
GivenUp ==
    /\ \A x \in Adapters, y \in Ids :
         pending'[x][y] = IF x = PrimaryAdapter THEN None ELSE pending[x][y]
    /\ outcome' = [t \in Turns |-> IF t \in Prompts(PrimaryAdapter) THEN "abandoned" ELSE outcome[t]]
    /\ \A y \in Calls : pending[PrimaryAdapter][y] = None => about'[y] = about[y]
    /\ UNCHANGED <<owner, ambiguousTurn>>
    /\ NoNewPrompt

Moved ==
    \/ Unmoved
    \/ Lost
    \/ \E a \in Adapters, i \in Ids, kind \in Kinds : Asked(a, i, kind)
    \/ \E a \in Adapters, t \in Turns : Submitted(a, t)
    \/ \E a \in Adapters, i \in Ids : Dismissed(a, i)
    \/ \E a \in Adapters, t \in Turns : Concluded(a, t)
    \/ \E a \in Adapters, t \in Turns : Doubted(a, t)
    \/ \E a \in Adapters, c \in Calls : Decided(a, c)
    \/ \E t \in Turns : Intervened(t)
    \/ GivenUp

\* The end of a prompt concludes its turn
LEMMA EndedMoves ==
  ASSUME AdapterTypes, PromiseTypes, RequestKinds, NEW a \in Adapters, NEW i \in Ids, pending[a][i] = "PROMPT",
         NEW sig, NEW how \in {"completed", "failed", "interrupted"}, Ended(a, i, sig, how),
         UNCHANGED owner, NoNewPrompt
  PROVE  Moved
  <1>1. i \in Turns
    BY DEF RequestKinds, Ids
  <1>2. pending'[a][i] = None /\ (\A x \in Adapters, y \in Ids : x # a \/ y # i => pending'[x][y] = pending[x][y])
    BY DEF Ended, AdapterTypes, PromiseTypes, Ids, Kinds, Exclusive, Binding, AboutTurn
  <1>3. Over(a, i)
    BY <1>2, OperationsAssumption DEF Ended, Over, Kinds
  <1> QED
    BY <1>1, <1>3 DEF Ended, Moved, Concluded

\* Every step is one of these moves
LEMMA MovesStep ==
  ASSUME BindFirst, AdapterTypes, PromiseTypes, RequestKinds, OnePromptInFlight, LedgerInv, [Next]_vars
  PROVE  Moved
  <1>1. ASSUME NEW s \in Sockets, CloseEvent(s)
        PROVE  Moved
    <2>1. RequestsLost \/ UNCHANGED <<adapter, promises>>
      BY <1>1, Zenon DEF CloseEvent, KeepRequests
    <2>2. UNCHANGED owed
      BY <1>1 DEF CloseEvent, KeepRequests
    <2>3. CASE RequestsLost
      BY <2>2, <2>3 DEF Moved, Lost, NoNewPrompt
    <2>4. CASE UNCHANGED <<adapter, promises>>
      BY <2>2, <2>4 DEF Moved, Unmoved, NoNewPrompt
    <2> QED
      BY <2>1, <2>3, <2>4
  <1>2. ASSUME NEW s \in Sockets, SocketDrops(s)
        PROVE  Moved
    BY <1>2 DEF SocketDrops, KeepRequests, Moved, Unmoved, NoNewPrompt
  <1>3. ASSUME NEW s \in Sockets, AttachRefused(s)
        PROVE  Moved
    BY <1>3 DEF AttachRefused, KeepRequests, Moved, Unmoved, NoNewPrompt
  <1>4. ASSUME NEW s \in Sockets, Attach(s)
        PROVE  Moved
    <2>1. RequestsLost \/ UNCHANGED <<adapter, promises>>
      BY <1>4, Zenon DEF Attach, ReplacesPeer, KeepRequests
    <2>2. UNCHANGED owed
      BY <1>4 DEF Attach, ReplacesPeer, KeepRequests
    <2>3. CASE RequestsLost
      BY <2>2, <2>3 DEF Moved, Lost, NoNewPrompt
    <2>4. CASE UNCHANGED <<adapter, promises>>
      BY <2>2, <2>4 DEF Moved, Unmoved, NoNewPrompt
    <2> QED
      BY <2>1, <2>3, <2>4
  <1>5. ASSUME NEW s \in Sockets, Authenticate(s)
        PROVE  Moved
    BY <1>5 DEF Authenticate, KeepRequests, Moved, Unmoved, NoNewPrompt
  <1>6. ASSUME NEW s \in Sockets, Heartbeat(s)
        PROVE  Moved
    BY <1>6 DEF Heartbeat, KeepRequests, Moved, Unmoved, NoNewPrompt
  <1>7. CASE GoesSilent
    BY <1>7 DEF GoesSilent, KeepRequests, Moved, Unmoved, NoNewPrompt
  <1>8. CASE ExpireStaleConnection
    <2>1. RequestsLost \/ UNCHANGED <<adapter, promises>>
      BY <1>8, Zenon DEF ExpireStaleConnection
    <2>2. UNCHANGED owed
      BY <1>8 DEF ExpireStaleConnection
    <2>3. CASE RequestsLost
      BY <2>2, <2>3 DEF Moved, Lost, NoNewPrompt
    <2>4. CASE UNCHANGED <<adapter, promises>>
      BY <2>2, <2>4 DEF Moved, Unmoved, NoNewPrompt
    <2> QED
      BY <2>1, <2>3, <2>4
  <1>9. ASSUME NEW a \in Adapters, NEW c \in Calls, NEW kind \in Binding, BeginBinding(a, kind, c)
        PROVE  Moved
    <2>1. CASE CanSend
      <3>1. pending'[a][c] = kind /\ (\A x \in Adapters, y \in Ids : x # a \/ y # c => pending'[x][y] = pending[x][y])
        BY <1>9, <2>1 DEF BeginBinding, Send, AdapterTypes, PromiseTypes, Ids, Kinds, Exclusive, Binding, AboutTurn
      <3>2. NoNewPrompt
        BY <1>9, <2>1 DEF BeginBinding, Send, NoNewPrompt, Ids, Kinds, Exclusive, Binding, AboutTurn
      <3>3. /\ UNCHANGED <<outcome, owner, ambiguousTurn>>
           /\ \A y \in Calls : y # c => about'[y] = about[y]
        BY <1>9, <2>1 DEF BeginBinding, AdapterTypes, PromiseTypes, Ids, Kinds, Exclusive, Binding, AboutTurn
      <3>4. /\ pending[a][c] = None
            /\ \A x \in Adapters : pending[x][c] = None
        BY <1>9, <2>1 DEF BeginBinding, Fresh, NoOperation, Waiting, OnePromptInFlight, Prompts, RequestKinds, AdapterTypes, PromiseTypes, Ids, Kinds, Exclusive, Binding, AboutTurn
      <3>5. kind \in Kinds /\ c \in Ids
        BY <1>9, <2>1 DEF BeginBinding, Ids, Kinds, Exclusive, Binding, AboutTurn
      <3> QED
        BY <3>1, <3>2, <3>3, <3>4, <3>5 DEF Moved, Asked, Ids, Kinds, Exclusive, Binding, AboutTurn
    <2>2. CASE ~CanSend
      BY <1>9, <2>2 DEF BeginBinding, Moved, Unmoved, NoNewPrompt
    <2> QED
      BY <2>1, <2>2
  <1>10. ASSUME NEW a \in Adapters, NEW c \in Calls, NEW kind \in {"DISCARD", "RECOVER"},
                NEW t \in Turns, BeginSettling(a, kind, c, t)
        PROVE  Moved
    <2>1. pending'[a][c] = kind /\ (\A x \in Adapters, y \in Ids : x # a \/ y # c => pending'[x][y] = pending[x][y])
      BY <1>10 DEF BeginSettling, Send, AdapterTypes, PromiseTypes, Ids, Kinds, Exclusive, Binding, AboutTurn
    <2>2. NoNewPrompt
      BY <1>10 DEF BeginSettling, Send, NoNewPrompt, Ids, Kinds, Exclusive, Binding, AboutTurn
    <2>3. /\ UNCHANGED <<outcome, owner, ambiguousTurn>>
         /\ \A y \in Calls : y # c => about'[y] = about[y]
      BY <1>10 DEF BeginSettling, AdapterTypes, PromiseTypes, Ids, Kinds, Exclusive, Binding, AboutTurn
    <2>4. /\ pending[a][c] = None
          /\ \A x \in Adapters : pending[x][c] = None
          /\ \A u \in Turns : pending[a][u] # "PROMPT"
          /\ ambiguousTurn[a] \in {None, about'[c]}
      BY <1>10 DEF BeginSettling, Fresh, NoOperation, Waiting, OnePromptInFlight, Prompts, RequestKinds, AdapterTypes, PromiseTypes, Ids, Kinds, Exclusive, Binding, AboutTurn
    <2>5. kind \in Kinds /\ c \in Ids
      BY <1>10 DEF BeginSettling, Ids, Kinds, Exclusive, Binding, AboutTurn
    <2> QED
      BY <2>1, <2>2, <2>3, <2>4, <2>5 DEF Moved, Asked, Ids, Kinds, Exclusive, Binding, AboutTurn
  <1>11. ASSUME NEW a \in Adapters, NEW c \in Calls, NEW t \in Turns, BeginConfirm(a, c, t)
        PROVE  Moved
    <2>1. pending'[a][c] = "CONFIRM" /\ (\A x \in Adapters, y \in Ids : x # a \/ y # c => pending'[x][y] = pending[x][y])
      BY <1>11 DEF BeginConfirm, Send, AdapterTypes, PromiseTypes, Ids, Kinds, Exclusive, Binding, AboutTurn
    <2>2. NoNewPrompt
      BY <1>11 DEF BeginConfirm, Send, NoNewPrompt, Ids, Kinds, Exclusive, Binding, AboutTurn
    <2>3. /\ UNCHANGED <<outcome, owner, ambiguousTurn>>
         /\ \A y \in Calls : y # c => about'[y] = about[y]
      BY <1>11 DEF BeginConfirm, AdapterTypes, PromiseTypes, Ids, Kinds, Exclusive, Binding, AboutTurn
    <2>4. /\ pending[a][c] = None
          /\ \A x \in Adapters : pending[x][c] = None
          /\ \A u \in Turns : pending[a][u] # "PROMPT"
          /\ ambiguousTurn[a] \in {None, about'[c]}
      BY <1>11 DEF BeginConfirm, Fresh, NoOperation, Waiting, OnePromptInFlight, Prompts, RequestKinds, AdapterTypes, PromiseTypes, Ids, Kinds, Exclusive, Binding, AboutTurn
    <2>5. "CONFIRM" \in Kinds /\ c \in Ids
      BY <1>11 DEF BeginConfirm, Ids, Kinds, Exclusive, Binding, AboutTurn
    <2> QED
      BY <2>1, <2>2, <2>3, <2>4, <2>5 DEF Moved, Asked, Ids, Kinds, Exclusive, Binding, AboutTurn
  <1>12. ASSUME NEW a \in Adapters, NEW c \in Calls, BeginLook(a, c)
        PROVE  Moved
    <2>1. pending'[a][c] = "LOOK" /\ (\A x \in Adapters, y \in Ids : x # a \/ y # c => pending'[x][y] = pending[x][y])
      BY <1>12 DEF BeginLook, Send, AdapterTypes, PromiseTypes, Ids, Kinds, Exclusive, Binding, AboutTurn
    <2>2. NoNewPrompt
      BY <1>12 DEF BeginLook, Send, NoNewPrompt, Ids, Kinds, Exclusive, Binding, AboutTurn
    <2>3. /\ UNCHANGED <<outcome, owner, ambiguousTurn>>
         /\ \A y \in Calls : y # c => about'[y] = about[y]
      BY <1>12 DEF BeginLook, AdapterTypes, PromiseTypes, Ids, Kinds, Exclusive, Binding, AboutTurn
    <2>4. /\ pending[a][c] = None
          /\ \A x \in Adapters : pending[x][c] = None
      BY <1>12 DEF BeginLook, Fresh, NoOperation, Waiting, OnePromptInFlight, Prompts, RequestKinds, AdapterTypes, PromiseTypes, Ids, Kinds, Exclusive, Binding, AboutTurn
    <2>5. "LOOK" \in Kinds /\ c \in Ids
      BY <1>12 DEF BeginLook, Ids, Kinds, Exclusive, Binding, AboutTurn
    <2> QED
      BY <2>1, <2>2, <2>3, <2>4, <2>5 DEF Moved, Asked, Ids, Kinds, Exclusive, Binding, AboutTurn
  <1>13. ASSUME NEW a \in Adapters, NEW t \in Turns, SubmitTurn(a, t)
        PROVE  Moved
    <2>1. pending'[a][t] = "PROMPT" /\ (\A x \in Adapters, y \in Ids : x # a \/ y # t => pending'[x][y] = pending[x][y])
      BY <1>13 DEF SubmitTurn, Send, AdapterTypes, PromiseTypes, Ids, Kinds, Exclusive, Binding, AboutTurn
    <2>2. \A u \in Turns : <<u, "PROMPT">> \in owed' => u = t \/ <<u, "PROMPT">> \in owed
      BY <1>13 DEF SubmitTurn, Send
    <2>3. owner[t] = None /\ ambiguousTurn[a] = None /\ (\A y \in Ids : pending[a][y] = None)
      BY <1>13 DEF SubmitTurn, MaySubmit, Waiting
    <2> QED
      BY <1>13, <2>1, <2>2, <2>3 DEF SubmitTurn, Moved, Submitted
  <1>14. ASSUME NEW a \in Adapters, NEW t \in Turns, AcknowledgeDelivery(a, t)
        PROVE  Moved
    <2>1. pending'[a][t] = "ACK" /\ (\A x \in Adapters, y \in Ids : x # a \/ y # t => pending'[x][y] = pending[x][y])
      BY <1>14 DEF AcknowledgeDelivery, Send, AdapterTypes, PromiseTypes, Ids, Kinds, Exclusive, Binding, AboutTurn
    <2>2. NoNewPrompt
      BY <1>14 DEF AcknowledgeDelivery, Send, NoNewPrompt, Ids, Kinds, Exclusive, Binding, AboutTurn
    <2>3. /\ UNCHANGED <<outcome, owner, ambiguousTurn>>
         /\ \A y \in Calls : y # t => about'[y] = about[y]
      BY <1>14 DEF AcknowledgeDelivery, AdapterTypes, PromiseTypes, Ids, Kinds, Exclusive, Binding, AboutTurn
    <2>4. pending[a][t] = None /\ owner[t] = a /\ <<t, "PROMPT">> \notin owed
      BY <1>14 DEF AcknowledgeDelivery, Fresh, NoOperation, Waiting, OnePromptInFlight, Prompts, RequestKinds, AdapterTypes, PromiseTypes, Ids, Kinds, Exclusive, Binding, AboutTurn
    <2>5. "ACK" \in Kinds /\ t \in Ids
      BY <1>14 DEF AcknowledgeDelivery, Ids, Kinds, Exclusive, Binding, AboutTurn
    <2> QED
      BY <2>1, <2>2, <2>3, <2>4, <2>5, WebSessionAssumption DEF Moved, Asked, AboutTurn, Ids, Kinds, Exclusive, Binding, AboutTurn
  <1>15. ASSUME NEW a \in Adapters, NEW t \in Turns, Interrupt(a, t)
        PROVE  Moved
    <2>1. NoNewPrompt
      BY <1>15 DEF Interrupt, NoNewPrompt
    <2> QED
      BY <1>15, <2>1 DEF Interrupt, Moved, Unmoved
  <1>16. CASE Close
    <2>1. \A x \in Adapters, y \in Ids :
            pending'[x][y] = IF x = PrimaryAdapter THEN None ELSE pending[x][y]
      BY <1>16, WebSessionAssumption DEF Close, AdapterTypes, PromiseTypes, Ids, Kinds, Exclusive, Binding, AboutTurn
    <2>2. \A y \in Calls : pending[PrimaryAdapter][y] = None => about'[y] = about[y]
      BY <1>16 DEF Close
    <2> QED
      BY <1>16, <2>1, <2>2 DEF Close, Moved, GivenUp, NoNewPrompt
  <1>17. ASSUME NEW a \in Adapters, NEW i \in Ids, RequestTimeout(a, i)
        PROVE  Moved
    <2>1. pending'[a][i] = None /\ (\A x \in Adapters, y \in Ids : x # a \/ y # i => pending'[x][y] = pending[x][y])
      BY <1>17 DEF RequestTimeout, AdapterTypes, PromiseTypes, Ids, Kinds, Exclusive, Binding, AboutTurn
    <2>2. \A y \in Calls : y # i => about'[y] = about[y]
      BY <1>17 DEF RequestTimeout, AdapterTypes, PromiseTypes, Ids, Kinds, Exclusive, Binding, AboutTurn
    <2>3. Over(a, i)
      BY <1>17, <2>1, <2>2 DEF RequestTimeout, Armed, Over, NoNewPrompt
    <2>4. CASE pending[a][i] = "PROMPT"
      <3>1. i \in Turns
        BY <2>4 DEF RequestKinds, Ids
      <3>2. \A u \in Calls : pending[a][u] \notin AboutTurn
        BY <1>17, <2>4 DEF RequestTimeout, Armed, AboutTurn, Exclusive
      <3> QED
        BY <1>17, <2>3, <2>4, <3>1, <3>2 DEF RequestTimeout, Moved, Doubted
    <2>5. CASE pending[a][i] # "PROMPT"
      BY <1>17, <2>3, <2>5 DEF RequestTimeout, Moved, Dismissed
    <2> QED
      BY <2>4, <2>5
  <1>18. ASSUME NEW a \in Adapters, NEW t \in Turns, InterruptTimeout(a, t)
        PROVE  Moved
    BY <1>18 DEF InterruptTimeout, KeepRequests, Moved, Unmoved, NoNewPrompt
  <1>19. ASSUME NEW s \in Sockets, NEW i \in Ids,
                NEW type \in {"RESULT", "ERROR", "CANCELLED", "ACKED", "DONE", "FAILED"},
                Message(s, i, type)
        PROVE  Moved
    <2>1. UNCHANGED owner /\ NoNewPrompt
      BY <1>19 DEF Message, NoNewPrompt
    <2>2. ASSUME NEW a \in Adapters, pending[a][i] = "PROMPT", type = "RESULT", TurnCompletes(a, i),
                 Authenticated
          PROVE  Moved
      <3> DEFINE how == "completed"
      <3>1. \E sig : Ended(a, i, sig, how)
        BY <2>2, Zenon DEF TurnCompletes
      <3> QED
        BY <2>1, <2>2, <3>1, EndedMoves
    <2>3. ASSUME NEW a \in Adapters, pending[a][i] = "PROMPT", type \in {"RESULT", "ERROR"}, TurnFails(a, i, type),
                 Authenticated
          PROVE  Moved
      <3> DEFINE how == "failed"
      <3>1. \E sig : Ended(a, i, sig, how)
        BY <2>3, Zenon DEF TurnFails
      <3> QED
        BY <2>1, <2>3, <3>1, EndedMoves
    <2>4. ASSUME NEW a \in Adapters, pending[a][i] = "PROMPT", type = "CANCELLED", TurnInterrupted(a, i),
                 Authenticated
          PROVE  Moved
      <3> DEFINE how == "interrupted"
      <3>1. \E sig : Ended(a, i, sig, how)
        BY <2>4, Zenon DEF TurnInterrupted
      <3> QED
        BY <2>1, <2>4, <3>1, EndedMoves
    <2>5. ASSUME NEW a \in Adapters, pending[a][i] \in Binding, SessionBound(a, i, type),
                 Authenticated
          PROVE  Moved
      <3>1. pending'[a][i] = None /\ (\A x \in Adapters, y \in Ids : x # a \/ y # i => pending'[x][y] = pending[x][y])
        BY <2>5 DEF SessionBound, AdapterTypes, PromiseTypes, Ids, Kinds, Exclusive, Binding, AboutTurn
      <3>2. \A y \in Calls : y # i => about'[y] = about[y]
        BY <2>5 DEF SessionBound, AdapterTypes, PromiseTypes, Ids, Kinds, Exclusive, Binding, AboutTurn
      <3>3. Over(a, i)
        BY <2>1, <2>5, <3>1, <3>2, WebSessionAssumption, OperationsAssumption DEF Over, Ids, Kinds, Exclusive, Binding, AboutTurn
      <3> QED
        BY <2>5, <3>3 DEF SessionBound, Moved, Dismissed, Binding
    <2>6. ASSUME NEW a \in Adapters, pending[a][i] \in {"ACK", "LOOK"}, Answered(a, i),
                 Authenticated
          PROVE  Moved
      <3>1. pending'[a][i] = None /\ (\A x \in Adapters, y \in Ids : x # a \/ y # i => pending'[x][y] = pending[x][y])
        BY <2>6 DEF Answered, SettleInterrupt, AdapterTypes, PromiseTypes, Ids, Kinds, Exclusive, Binding, AboutTurn
      <3>2. \A y \in Calls : y # i => about'[y] = about[y]
        BY <2>6 DEF Answered, SettleInterrupt, AdapterTypes, PromiseTypes, Ids, Kinds, Exclusive, Binding, AboutTurn
      <3>3. Over(a, i)
        BY <2>1, <2>6, <3>1, <3>2, WebSessionAssumption, OperationsAssumption DEF Over, Ids, Kinds, Exclusive, Binding, AboutTurn
      <3> QED
        BY <2>6, <3>3 DEF Answered, SettleInterrupt, Moved, Dismissed, Binding
    <2>7. ASSUME NEW a \in Adapters, pending[a][i] \in AboutTurn, DeliverySettled(a, i, type),
                 Authenticated
          PROVE  Moved
      <3>1. pending'[a][i] = None /\ (\A x \in Adapters, y \in Ids : x # a \/ y # i => pending'[x][y] = pending[x][y])
        BY <2>7 DEF DeliverySettled, AdapterTypes, PromiseTypes, Ids, Kinds, Exclusive, Binding, AboutTurn
      <3>2. \A y \in Calls : y # i => about'[y] = about[y]
        BY <2>7 DEF DeliverySettled, AdapterTypes, PromiseTypes, Ids, Kinds, Exclusive, Binding, AboutTurn
      <3>3. i \in Calls
        BY <2>7, OperationsAssumption DEF RequestKinds, Ids, AboutTurn, Kinds, Exclusive, Binding
      <3>4. Over(a, i)
        BY <2>1, <2>7, <3>1, <3>2, OperationsAssumption DEF Over, Ids, Kinds, Exclusive, Binding, AboutTurn
      <3>5. \/ UNCHANGED <<outcome, ambiguousTurn>>
            \/ /\ ambiguousTurn[a] # None
               /\ ambiguousTurn' = [ambiguousTurn EXCEPT ![a] = None]
               /\ outcome' = IF outcome[about[i]] = "ambiguous"
                             THEN [outcome EXCEPT ![about[i]] = "resolved"] ELSE outcome
        BY <2>7 DEF DeliverySettled
      <3> QED
        BY <2>7, <3>3, <3>4, <3>5 DEF Moved, Dismissed, Decided, AboutTurn
    <2>8. CASE UNCHANGED <<adapter, binding, outcome, stopped, about>>
      BY <2>1, <2>8 DEF adapter, Moved, Unmoved
    <2> QED
      BY <1>19, <2>2, <2>3, <2>4, <2>5, <2>6, <2>7, <2>8 DEF Message, Dispatch
  <1>20. ASSUME NEW s \in Sockets, NEW t \in Turns, ManualIntervention(s, t)
        PROVE  Moved
    <2>1. \A x \in Adapters : pending'[x][t] = None
      BY <1>20 DEF ManualIntervention, AdapterTypes, PromiseTypes, Ids, Kinds, Exclusive, Binding, AboutTurn
    <2>2. \A x \in Adapters, y \in Ids : y # t => pending'[x][y] = pending[x][y]
      BY <1>20 DEF ManualIntervention, AdapterTypes, PromiseTypes, Ids, Kinds, Exclusive, Binding, AboutTurn
    <2>3. \A x \in Adapters : ambiguousTurn'[x] = IF pending[x][t] # None THEN t ELSE ambiguousTurn[x]
      BY <1>20 DEF ManualIntervention
    <2>4. outcome' = IF \E x \in Adapters : pending[x][t] = "PROMPT"
                    THEN [outcome EXCEPT ![t] = "ambiguous"] ELSE outcome
      BY <1>20 DEF ManualIntervention
    <2> QED
      BY <1>20, <2>1, <2>2, <2>3, <2>4 DEF ManualIntervention, Moved, Intervened, NoNewPrompt
  <1>21. CASE UNCHANGED vars
    BY <1>21 DEF Moved, Unmoved, NoNewPrompt
  <1> QED
    BY <1>1, <1>2, <1>3, <1>4, <1>5, <1>6, <1>7, <1>8, <1>9, <1>10, <1>11, <1>12, <1>13, <1>14, <1>15, <1>16, <1>17, <1>18, <1>19, <1>20, <1>21 DEF Next, ConnectionEvent, Call, Timer, ExtensionMessage

\* A turn in flight keeps its prompt out
LEMMA InFlightStep ==
  ASSUME AdapterTypes, PromiseTypes, RequestKinds, OnePromptInFlight, LedgerInv, Moved
  PROVE  InFlightIsOut'
  <1> USE WebSessionAssumption, OperationsAssumption DEF AdapterTypes, PromiseTypes, Ids
  <1>1. CASE Unmoved
    BY <1>1 DEF Unmoved, LedgerInv, InFlightIsOut, RequestKinds, OnePromptInFlight, Prompts, NoNewPrompt
  <1>2. CASE Lost
    BY <1>2 DEF Lost, RequestsLost, LostTurn, Prompts, LedgerInv, InFlightIsOut, RequestKinds, OnePromptInFlight, Prompts, NoNewPrompt
  <1>3. ASSUME NEW a \in Adapters, NEW i \in Ids, NEW kind \in Kinds, Asked(a, i, kind)
       PROVE  InFlightIsOut'
    <2>1. ASSUME NEW u \in Turns, outcome[u] = "inFlight"
          PROVE  owner[u] \in Adapters /\ pending'[owner[u]][u] = "PROMPT"
      <3>1. owner[u] \in Adapters /\ pending[owner[u]][u] = "PROMPT"
        BY <2>1 DEF LedgerInv, InFlightIsOut
      <3>2. pending[a][i] # "PROMPT"
        BY <1>3, OperationsAssumption DEF Asked, Kinds
      <3> QED
        BY <1>3, <3>1, <3>2 DEF Asked
    <2> QED
      BY <1>3, <2>1 DEF Asked, InFlightIsOut
  <1>4. ASSUME NEW a \in Adapters, NEW t \in Turns, Submitted(a, t)
       PROVE  InFlightIsOut'
    BY <1>4 DEF Submitted, LedgerInv, InFlightIsOut, RequestKinds, OnePromptInFlight, Prompts, NoNewPrompt
  <1>5. ASSUME NEW a \in Adapters, NEW i \in Ids, Dismissed(a, i)
       PROVE  InFlightIsOut'
    BY <1>5 DEF Dismissed, Over, LedgerInv, InFlightIsOut, RequestKinds, OnePromptInFlight, Prompts, NoNewPrompt
  <1>6. ASSUME NEW a \in Adapters, NEW t \in Turns, Concluded(a, t)
       PROVE  InFlightIsOut'
    BY <1>6 DEF Concluded, Over, LedgerInv, InFlightIsOut, RequestKinds, OnePromptInFlight, Prompts, NoNewPrompt
  <1>7. ASSUME NEW a \in Adapters, NEW t \in Turns, Doubted(a, t)
       PROVE  InFlightIsOut'
    BY <1>7 DEF Doubted, Over, LedgerInv, InFlightIsOut, RequestKinds, OnePromptInFlight, Prompts, NoNewPrompt
  <1>8. ASSUME NEW a \in Adapters, NEW c \in Calls, Decided(a, c)
       PROVE  InFlightIsOut'
    BY <1>8 DEF Decided, Over, LedgerInv, InFlightIsOut, RequestKinds, OnePromptInFlight, Prompts, NoNewPrompt
  <1>9. ASSUME NEW t \in Turns, Intervened(t)
       PROVE  InFlightIsOut'
    BY <1>9 DEF Intervened, LedgerInv, InFlightIsOut, RequestKinds, OnePromptInFlight, Prompts, NoNewPrompt
  <1>10. CASE GivenUp
    BY <1>10 DEF GivenUp, Prompts, LedgerInv, InFlightIsOut, RequestKinds, OnePromptInFlight, Prompts, NoNewPrompt
  <1> QED
    BY <1>1, <1>2, <1>3, <1>4, <1>5, <1>6, <1>7, <1>8, <1>9, <1>10 DEF Moved

\* An ambiguous turn stays the one its adapter remembers
LEMMA AmbiguousStep ==
  ASSUME AdapterTypes, PromiseTypes, RequestKinds, OnePromptInFlight, LedgerInv, Moved
  PROVE  AmbiguousIsRemembered'
  <1> USE WebSessionAssumption, OperationsAssumption DEF AdapterTypes, PromiseTypes, Ids
  <1>1. CASE Unmoved
    BY <1>1 DEF Unmoved, LedgerInv, AmbiguousIsRemembered, NoneOverAmbiguous, OperationEndsFirst, RequestKinds, OnePromptInFlight, Prompts, Kinds, Exclusive, Binding, AboutTurn
  <1>2. CASE Lost
    BY <1>2 DEF Lost, RequestsLost, LostTurn, Prompts, LedgerInv, AmbiguousIsRemembered, NoneOverAmbiguous, OperationEndsFirst, RequestKinds, OnePromptInFlight, Prompts, Kinds, Exclusive, Binding, AboutTurn
  <1>3. ASSUME NEW a \in Adapters, NEW i \in Ids, NEW kind \in Kinds, Asked(a, i, kind)
       PROVE  AmbiguousIsRemembered'
    BY <1>3 DEF Asked, LedgerInv, AmbiguousIsRemembered, NoneOverAmbiguous, OperationEndsFirst, RequestKinds, OnePromptInFlight, Prompts, Kinds, Exclusive, Binding, AboutTurn
  <1>4. ASSUME NEW a \in Adapters, NEW t \in Turns, Submitted(a, t)
       PROVE  AmbiguousIsRemembered'
    BY <1>4 DEF Submitted, LedgerInv, AmbiguousIsRemembered, NoneOverAmbiguous, OperationEndsFirst, RequestKinds, OnePromptInFlight, Prompts, Kinds, Exclusive, Binding, AboutTurn
  <1>5. ASSUME NEW a \in Adapters, NEW i \in Ids, Dismissed(a, i)
       PROVE  AmbiguousIsRemembered'
    BY <1>5 DEF Dismissed, Over, LedgerInv, AmbiguousIsRemembered, NoneOverAmbiguous, OperationEndsFirst, RequestKinds, OnePromptInFlight, Prompts, Kinds, Exclusive, Binding, AboutTurn
  <1>6. ASSUME NEW a \in Adapters, NEW t \in Turns, Concluded(a, t)
       PROVE  AmbiguousIsRemembered'
    BY <1>6 DEF Concluded, Over, LedgerInv, AmbiguousIsRemembered, NoneOverAmbiguous, OperationEndsFirst, RequestKinds, OnePromptInFlight, Prompts, Kinds, Exclusive, Binding, AboutTurn
  <1>7. ASSUME NEW a \in Adapters, NEW t \in Turns, Doubted(a, t)
       PROVE  AmbiguousIsRemembered'
    BY <1>7 DEF Doubted, Over, LedgerInv, AmbiguousIsRemembered, NoneOverAmbiguous, OperationEndsFirst, RequestKinds, OnePromptInFlight, Prompts, Kinds, Exclusive, Binding, AboutTurn
  <1>8. ASSUME NEW a \in Adapters, NEW c \in Calls, Decided(a, c)
       PROVE  AmbiguousIsRemembered'
    BY <1>8 DEF Decided, Over, LedgerInv, AmbiguousIsRemembered, NoneOverAmbiguous, OperationEndsFirst, RequestKinds, OnePromptInFlight, Prompts, Kinds, Exclusive, Binding, AboutTurn
  <1>9. ASSUME NEW t \in Turns, Intervened(t)
       PROVE  AmbiguousIsRemembered'
    <2>1. CASE \E x \in Adapters : pending[x][t] = "PROMPT"
      <3>1. PICK x \in Adapters : pending[x][t] = "PROMPT"
        BY <2>1
      <3>2. owner[t] = x /\ UNCHANGED owner /\ ambiguousTurn'[x] = t
        BY <1>9, <3>1, OperationsAssumption DEF Intervened, RequestKinds, Kinds
      <3>3. ASSUME NEW u \in Turns \ {t}, outcome[u] = "ambiguous"
            PROVE  owner[u] \in Adapters /\ ambiguousTurn'[owner[u]] = u
        <4>1. owner[u] \in Adapters /\ ambiguousTurn[owner[u]] = u
          BY <3>3 DEF LedgerInv, AmbiguousIsRemembered
        <4>2. pending[owner[u]][t] # "PROMPT"
          BY <4>1, WebSessionAssumption DEF LedgerInv, NoneOverAmbiguous
        <4>3. pending[owner[u]][t] # "ACK"
          BY <1>9, <4>1 DEF Intervened, LedgerInv, AckedIsAnswered
        <4>4. pending[owner[u]][t] = None
          BY <4>1, <4>2, <4>3 DEF RequestKinds
        <4> QED
          BY <1>9, <4>1, <4>4 DEF Intervened
      <3>4. \A u \in Turns \ {t} : outcome'[u] = outcome[u]
        BY <1>9 DEF Intervened
      <3> QED
        BY <3>2, <3>3, <3>4 DEF AmbiguousIsRemembered
    <2>2. CASE ~ \E x \in Adapters : pending[x][t] = "PROMPT"
      <3>1. \A x \in Adapters : pending[x][t] = None
        BY <1>9, <2>2 DEF Intervened, LedgerInv, AckedIsAnswered, RequestKinds
      <3> QED
        BY <1>9, <2>2, <3>1 DEF Intervened, LedgerInv, AmbiguousIsRemembered
    <2> QED
      BY <2>1, <2>2
  <1>10. CASE GivenUp
    BY <1>10 DEF GivenUp, Prompts, LedgerInv, AmbiguousIsRemembered, NoneOverAmbiguous, OperationEndsFirst, RequestKinds, OnePromptInFlight, Prompts, Kinds, Exclusive, Binding, AboutTurn
  <1> QED
    BY <1>1, <1>2, <1>3, <1>4, <1>5, <1>6, <1>7, <1>8, <1>9, <1>10 DEF Moved

\* No prompt comes to be out over an ambiguous turn
LEMMA NoneOverStep ==
  ASSUME AdapterTypes, PromiseTypes, RequestKinds, OnePromptInFlight, LedgerInv, Moved
  PROVE  NoneOverAmbiguous'
  <1> USE WebSessionAssumption, OperationsAssumption DEF AdapterTypes, PromiseTypes, Ids
  <1>1. CASE Unmoved
    BY <1>1 DEF Unmoved, LedgerInv, NoneOverAmbiguous, OnePromptInFlight, Prompts, RequestKinds, Kinds, Exclusive, Binding, AboutTurn
  <1>2. CASE Lost
    BY <1>2 DEF Lost, RequestsLost, LostTurn, Prompts, LedgerInv, NoneOverAmbiguous, OnePromptInFlight, Prompts, RequestKinds, Kinds, Exclusive, Binding, AboutTurn
  <1>3. ASSUME NEW a \in Adapters, NEW i \in Ids, NEW kind \in Kinds, Asked(a, i, kind)
       PROVE  NoneOverAmbiguous'
    BY <1>3 DEF Asked, LedgerInv, NoneOverAmbiguous, OnePromptInFlight, Prompts, RequestKinds, Kinds, Exclusive, Binding, AboutTurn
  <1>4. ASSUME NEW a \in Adapters, NEW t \in Turns, Submitted(a, t)
       PROVE  NoneOverAmbiguous'
    <2>1. ASSUME NEW x \in Adapters, NEW u \in Turns, pending'[x][u] = "PROMPT"
          PROVE  ambiguousTurn[x] = None
      <3>1. CASE x = a
        BY <1>4, <3>1 DEF Submitted
      <3>2. CASE x # a
        BY <1>4, <2>1, <3>2 DEF Submitted, LedgerInv, NoneOverAmbiguous
      <3> QED
        BY <3>1, <3>2
    <2> QED
      BY <1>4, <2>1 DEF Submitted, NoneOverAmbiguous
  <1>5. ASSUME NEW a \in Adapters, NEW i \in Ids, Dismissed(a, i)
       PROVE  NoneOverAmbiguous'
    BY <1>5 DEF Dismissed, Over, LedgerInv, NoneOverAmbiguous, OnePromptInFlight, Prompts, RequestKinds, Kinds, Exclusive, Binding, AboutTurn
  <1>6. ASSUME NEW a \in Adapters, NEW t \in Turns, Concluded(a, t)
       PROVE  NoneOverAmbiguous'
    BY <1>6 DEF Concluded, Over, LedgerInv, NoneOverAmbiguous, OnePromptInFlight, Prompts, RequestKinds, Kinds, Exclusive, Binding, AboutTurn
  <1>7. ASSUME NEW a \in Adapters, NEW t \in Turns, Doubted(a, t)
       PROVE  NoneOverAmbiguous'
    BY <1>7 DEF Doubted, Over, LedgerInv, NoneOverAmbiguous, OnePromptInFlight, Prompts, RequestKinds, Kinds, Exclusive, Binding, AboutTurn
  <1>8. ASSUME NEW a \in Adapters, NEW c \in Calls, Decided(a, c)
       PROVE  NoneOverAmbiguous'
    BY <1>8 DEF Decided, Over, LedgerInv, NoneOverAmbiguous, OnePromptInFlight, Prompts, RequestKinds, Kinds, Exclusive, Binding, AboutTurn
  <1>9. ASSUME NEW t \in Turns, Intervened(t)
       PROVE  NoneOverAmbiguous'
    <2>1. ASSUME NEW x \in Adapters, NEW u \in Turns, pending'[x][u] = "PROMPT"
          PROVE  ambiguousTurn'[x] = None
      <3>1. u # t /\ pending[x][u] = "PROMPT"
        BY <1>9, <2>1, OperationsAssumption DEF Intervened, Kinds
      <3>2. pending[x][t] # "PROMPT"
        BY <3>1 DEF OnePromptInFlight, Prompts
      <3>3. pending[x][t] = None
        BY <1>9, <3>2 DEF Intervened, LedgerInv, AckedIsAnswered, RequestKinds
      <3> QED
        BY <1>9, <3>1, <3>3 DEF Intervened, LedgerInv, NoneOverAmbiguous
    <2> QED
      BY <2>1 DEF NoneOverAmbiguous
  <1>10. CASE GivenUp
    BY <1>10 DEF GivenUp, Prompts, LedgerInv, NoneOverAmbiguous, OnePromptInFlight, Prompts, RequestKinds, Kinds, Exclusive, Binding, AboutTurn
  <1> QED
    BY <1>1, <1>2, <1>3, <1>4, <1>5, <1>6, <1>7, <1>8, <1>9, <1>10 DEF Moved

\* An acknowledged turn stays answered
LEMMA AckedStep ==
  ASSUME AdapterTypes, PromiseTypes, RequestKinds, OnePromptInFlight, LedgerInv, Moved
  PROVE  AckedIsAnswered'
  <1> USE WebSessionAssumption, OperationsAssumption DEF Ids
  <1>1. CASE Unmoved
    BY <1>1 DEF Unmoved, LedgerInv, AckedIsAnswered, NoNewPrompt, RequestKinds
  <1>2. CASE Lost
    <2>1. \A x \in Adapters, u \in Turns : pending'[x][u] = None \/ pending'[x][u] = pending[x][u]
      BY <1>2 DEF Lost, RequestsLost, Ids
    <2>2. UNCHANGED owner /\ NoNewPrompt
      BY <1>2 DEF Lost, RequestsLost
    <2> QED
      BY <2>1, <2>2, OperationsAssumption DEF LedgerInv, AckedIsAnswered, NoNewPrompt, Kinds
  <1>3. ASSUME NEW a \in Adapters, NEW i \in Ids, NEW kind \in Kinds, Asked(a, i, kind)
       PROVE  AckedIsAnswered'
    BY <1>3 DEF Asked, LedgerInv, AckedIsAnswered, NoNewPrompt, RequestKinds
  <1>4. ASSUME NEW a \in Adapters, NEW t \in Turns, Submitted(a, t)
       PROVE  AckedIsAnswered'
    BY <1>4 DEF Submitted, LedgerInv, AckedIsAnswered, NoNewPrompt, RequestKinds
  <1>5. ASSUME NEW a \in Adapters, NEW i \in Ids, Dismissed(a, i)
       PROVE  AckedIsAnswered'
    BY <1>5 DEF Dismissed, Over, LedgerInv, AckedIsAnswered, NoNewPrompt, RequestKinds
  <1>6. ASSUME NEW a \in Adapters, NEW t \in Turns, Concluded(a, t)
       PROVE  AckedIsAnswered'
    <2>1. \A x \in Adapters, u \in Turns : pending'[x][u] = None \/ pending'[x][u] = pending[x][u]
      BY <1>6 DEF Concluded, Over, Ids
    <2>2. UNCHANGED owner /\ NoNewPrompt
      BY <1>6 DEF Concluded, Over
    <2> QED
      BY <2>1, <2>2, OperationsAssumption DEF LedgerInv, AckedIsAnswered, NoNewPrompt, Kinds
  <1>7. ASSUME NEW a \in Adapters, NEW t \in Turns, Doubted(a, t)
       PROVE  AckedIsAnswered'
    <2>1. \A x \in Adapters, u \in Turns : pending'[x][u] = None \/ pending'[x][u] = pending[x][u]
      BY <1>7 DEF Doubted, Over, Ids
    <2>2. UNCHANGED owner /\ NoNewPrompt
      BY <1>7 DEF Doubted, Over
    <2> QED
      BY <2>1, <2>2, OperationsAssumption DEF LedgerInv, AckedIsAnswered, NoNewPrompt, Kinds
  <1>8. ASSUME NEW a \in Adapters, NEW c \in Calls, Decided(a, c)
       PROVE  AckedIsAnswered'
    BY <1>8 DEF Decided, Over, LedgerInv, AckedIsAnswered, NoNewPrompt, RequestKinds
  <1>9. ASSUME NEW t \in Turns, Intervened(t)
       PROVE  AckedIsAnswered'
    <2>1. \A x \in Adapters, u \in Turns : pending'[x][u] = None \/ pending'[x][u] = pending[x][u]
      BY <1>9 DEF Intervened, Ids
    <2>2. UNCHANGED owner /\ NoNewPrompt
      BY <1>9 DEF Intervened
    <2> QED
      BY <2>1, <2>2, OperationsAssumption DEF LedgerInv, AckedIsAnswered, NoNewPrompt, Kinds
  <1>10. CASE GivenUp
    <2>1. \A x \in Adapters, u \in Turns : pending'[x][u] = None \/ pending'[x][u] = pending[x][u]
      BY <1>10 DEF GivenUp, Ids
    <2>2. UNCHANGED owner /\ NoNewPrompt
      BY <1>10 DEF GivenUp
    <2> QED
      BY <2>1, <2>2, OperationsAssumption DEF LedgerInv, AckedIsAnswered, NoNewPrompt, Kinds
  <1> QED
    BY <1>1, <1>2, <1>3, <1>4, <1>5, <1>6, <1>7, <1>8, <1>9, <1>10 DEF Moved

\* An operation about a turn ends first
LEMMA EndsFirstStep ==
  ASSUME AdapterTypes, PromiseTypes, RequestKinds, OnePromptInFlight, LedgerInv, Moved
  PROVE  OperationEndsFirst'
  <1> USE WebSessionAssumption, OperationsAssumption DEF Ids
  <1>1. CASE Unmoved
    BY <1>1 DEF Unmoved, LedgerInv, OperationEndsFirst, OneWaiter, AckedIsAnswered, RequestKinds, OnePromptInFlight, Prompts, AboutTurn
  <1>2. CASE Lost
    <2>1. SUFFICES ASSUME NEW x \in Adapters, NEW y \in Calls, pending'[x][y] \in AboutTurn
                   PROVE  /\ \A u \in Turns : pending'[x][u] # "PROMPT"
                          /\ ambiguousTurn'[x] \in {None, about'[y]}
      BY DEF OperationEndsFirst
    <2>2. None \notin AboutTurn
      BY OperationsAssumption DEF AboutTurn, Kinds, Exclusive, Binding
    <2> QED
      BY <1>2, <2>1, <2>2 DEF Lost, RequestsLost, Ids
  <1>3. ASSUME NEW a \in Adapters, NEW i \in Ids, NEW kind \in Kinds, Asked(a, i, kind)
       PROVE  OperationEndsFirst'
    <2>1. SUFFICES ASSUME NEW x \in Adapters, NEW y \in Calls, pending'[x][y] \in AboutTurn
                   PROVE  /\ \A u \in Turns : pending'[x][u] # "PROMPT"
                          /\ ambiguousTurn'[x] \in {None, about'[y]}
      BY DEF OperationEndsFirst
    <2>2. None \notin AboutTurn
      BY OperationsAssumption DEF AboutTurn, Kinds, Exclusive, Binding
    <2>3. CASE x = a /\ y = i
      BY <1>3, <2>1, <2>3 DEF Asked, Ids
    <2>4. CASE ~ (x = a /\ y = i)
      <3>1. pending[x][y] = pending'[x][y]
        BY <1>3, <2>4 DEF Asked, Ids
      <3>2. /\ \A u \in Turns : pending[x][u] # "PROMPT"
            /\ ambiguousTurn[x] \in {None, about[y]}
        BY <2>1, <3>1 DEF LedgerInv, OperationEndsFirst
      <3>3. y # i
        BY <1>3, <2>1, <2>2, <2>4, <3>1 DEF Asked
      <3>4. \A u \in Turns : pending'[x][u] # "PROMPT"
        BY <1>3, <3>2 DEF Asked, Ids
      <3> QED
        BY <1>3, <3>2, <3>3, <3>4 DEF Asked
    <2> QED
      BY <2>3, <2>4
  <1>4. ASSUME NEW a \in Adapters, NEW t \in Turns, Submitted(a, t)
       PROVE  OperationEndsFirst'
    <2>1. SUFFICES ASSUME NEW x \in Adapters, NEW y \in Calls, pending'[x][y] \in AboutTurn
                   PROVE  /\ \A u \in Turns : pending'[x][u] # "PROMPT"
                          /\ ambiguousTurn'[x] \in {None, about'[y]}
      BY DEF OperationEndsFirst
    <2>2. None \notin AboutTurn
      BY OperationsAssumption DEF AboutTurn, Kinds, Exclusive, Binding
    <2>3. y # t
      BY WebSessionAssumption
    <2>4. x # a
      BY <1>4, <2>1, <2>2, <2>3 DEF Submitted, Ids
    <2>5. pending[x][y] = pending'[x][y]
      BY <1>4, <2>4 DEF Submitted, Ids
    <2>6. /\ \A u \in Turns : pending[x][u] # "PROMPT"
          /\ ambiguousTurn[x] \in {None, about[y]}
      BY <2>1, <2>5 DEF LedgerInv, OperationEndsFirst
    <2> QED
      BY <1>4, <2>4, <2>6 DEF Submitted, Ids
  <1>5. ASSUME NEW a \in Adapters, NEW i \in Ids, Dismissed(a, i)
       PROVE  OperationEndsFirst'
    <2>1. SUFFICES ASSUME NEW x \in Adapters, NEW y \in Calls, pending'[x][y] \in AboutTurn
                   PROVE  /\ \A u \in Turns : pending'[x][u] # "PROMPT"
                          /\ ambiguousTurn'[x] \in {None, about'[y]}
      BY DEF OperationEndsFirst
    <2>2. None \notin AboutTurn
      BY OperationsAssumption DEF AboutTurn, Kinds, Exclusive, Binding
    <2>3. pending[x][y] = pending'[x][y] /\ ~ (x = a /\ y = i)
      BY <1>5, <2>1, <2>2 DEF Dismissed, Over, Ids
    <2>4. /\ \A u \in Turns : pending[x][u] # "PROMPT"
          /\ ambiguousTurn[x] \in {None, about[y]}
      BY <2>1, <2>3 DEF LedgerInv, OperationEndsFirst
    <2>5. about'[y] = about[y]
      BY <1>5, <2>1, <2>2, <2>3 DEF Dismissed, Over, LedgerInv, OneWaiter
    <2>6. \A u \in Turns : pending'[x][u] # "PROMPT"
      BY <1>5, <2>4, OperationsAssumption DEF Dismissed, Over, Ids, Kinds
    <2>7. ambiguousTurn'[x] \in {None, ambiguousTurn[x]}
      BY <1>5 DEF Dismissed
    <2> QED
      BY <2>4, <2>5, <2>6, <2>7
  <1>6. ASSUME NEW a \in Adapters, NEW t \in Turns, Concluded(a, t)
       PROVE  OperationEndsFirst'
    BY <1>6 DEF Concluded, Over, LedgerInv, OperationEndsFirst, OneWaiter, AckedIsAnswered, RequestKinds, OnePromptInFlight, Prompts, AboutTurn
  <1>7. ASSUME NEW a \in Adapters, NEW t \in Turns, Doubted(a, t)
       PROVE  OperationEndsFirst'
    BY <1>7 DEF Doubted, Over, LedgerInv, OperationEndsFirst, OneWaiter, AckedIsAnswered, RequestKinds, OnePromptInFlight, Prompts, AboutTurn
  <1>8. ASSUME NEW a \in Adapters, NEW c \in Calls, Decided(a, c)
       PROVE  OperationEndsFirst'
    <2>1. SUFFICES ASSUME NEW x \in Adapters, NEW y \in Calls, pending'[x][y] \in AboutTurn
                   PROVE  /\ \A u \in Turns : pending'[x][u] # "PROMPT"
                          /\ ambiguousTurn'[x] \in {None, about'[y]}
      BY DEF OperationEndsFirst
    <2>2. None \notin AboutTurn
      BY OperationsAssumption DEF AboutTurn, Kinds, Exclusive, Binding
    <2>3. pending[x][y] = pending'[x][y] /\ ~ (x = a /\ y = c)
      BY <1>8, <2>1, <2>2 DEF Decided, Over, Ids
    <2>4. /\ \A u \in Turns : pending[x][u] # "PROMPT"
          /\ ambiguousTurn[x] \in {None, about[y]}
      BY <2>1, <2>3 DEF LedgerInv, OperationEndsFirst
    <2>5. about'[y] = about[y]
      BY <1>8, <2>1, <2>2, <2>3 DEF Decided, Over, LedgerInv, OneWaiter
    <2>6. \A u \in Turns : pending'[x][u] # "PROMPT"
      BY <1>8, <2>4, OperationsAssumption DEF Decided, Over, Ids, Kinds
    <2>7. ambiguousTurn'[x] \in {None, ambiguousTurn[x]}
      BY <1>8 DEF Decided, AdapterTypes
    <2> QED
      BY <2>4, <2>5, <2>6, <2>7
  <1>9. ASSUME NEW t \in Turns, Intervened(t)
       PROVE  OperationEndsFirst'
    BY <1>9 DEF Intervened, LedgerInv, OperationEndsFirst, OneWaiter, AckedIsAnswered, RequestKinds, OnePromptInFlight, Prompts, AboutTurn
  <1>10. CASE GivenUp
    <2>1. SUFFICES ASSUME NEW x \in Adapters, NEW y \in Calls, pending'[x][y] \in AboutTurn
                   PROVE  /\ \A u \in Turns : pending'[x][u] # "PROMPT"
                          /\ ambiguousTurn'[x] \in {None, about'[y]}
      BY DEF OperationEndsFirst
    <2>2. None \notin AboutTurn
      BY OperationsAssumption DEF AboutTurn, Kinds, Exclusive, Binding
    <2>3. x # PrimaryAdapter /\ pending[x][y] = pending'[x][y]
      BY <1>10, <2>1, <2>2 DEF GivenUp, Ids
    <2>4. /\ \A u \in Turns : pending[x][u] # "PROMPT"
          /\ ambiguousTurn[x] \in {None, about[y]}
      BY <2>1, <2>3 DEF LedgerInv, OperationEndsFirst
    <2>5. about'[y] = about[y]
      BY <1>10, <2>1, <2>2, <2>3, WebSessionAssumption DEF GivenUp, LedgerInv, OneWaiter
    <2> QED
      BY <1>10, <2>3, <2>4, <2>5 DEF GivenUp, Ids
  <1> QED
    BY <1>1, <1>2, <1>3, <1>4, <1>5, <1>6, <1>7, <1>8, <1>9, <1>10 DEF Moved

\* An id keeps to one adapter
LEMMA OneWaiterStep ==
  ASSUME AdapterTypes, PromiseTypes, RequestKinds, OnePromptInFlight, LedgerInv, Moved
  PROVE  OneWaiter'
  <1> USE WebSessionAssumption, OperationsAssumption DEF Ids
  <1>1. CASE Unmoved
    BY <1>1 DEF Unmoved, LedgerInv, OneWaiter, RequestKinds
  <1>2. CASE Lost
    BY <1>2 DEF Lost, RequestsLost, LostTurn, Prompts, LedgerInv, OneWaiter, RequestKinds
  <1>3. ASSUME NEW a \in Adapters, NEW i \in Ids, NEW kind \in Kinds, Asked(a, i, kind)
       PROVE  OneWaiter'
    BY <1>3 DEF Asked, LedgerInv, OneWaiter, RequestKinds
  <1>4. ASSUME NEW a \in Adapters, NEW t \in Turns, Submitted(a, t)
       PROVE  OneWaiter'
    BY <1>4 DEF Submitted, LedgerInv, OneWaiter, RequestKinds
  <1>5. ASSUME NEW a \in Adapters, NEW i \in Ids, Dismissed(a, i)
       PROVE  OneWaiter'
    BY <1>5 DEF Dismissed, Over, LedgerInv, OneWaiter, RequestKinds
  <1>6. ASSUME NEW a \in Adapters, NEW t \in Turns, Concluded(a, t)
       PROVE  OneWaiter'
    BY <1>6 DEF Concluded, Over, LedgerInv, OneWaiter, RequestKinds
  <1>7. ASSUME NEW a \in Adapters, NEW t \in Turns, Doubted(a, t)
       PROVE  OneWaiter'
    BY <1>7 DEF Doubted, Over, LedgerInv, OneWaiter, RequestKinds
  <1>8. ASSUME NEW a \in Adapters, NEW c \in Calls, Decided(a, c)
       PROVE  OneWaiter'
    BY <1>8 DEF Decided, Over, LedgerInv, OneWaiter, RequestKinds
  <1>9. ASSUME NEW t \in Turns, Intervened(t)
       PROVE  OneWaiter'
    BY <1>9 DEF Intervened, LedgerInv, OneWaiter, RequestKinds
  <1>10. CASE GivenUp
    BY <1>10 DEF GivenUp, Prompts, LedgerInv, OneWaiter, RequestKinds
  <1> QED
    BY <1>1, <1>2, <1>3, <1>4, <1>5, <1>6, <1>7, <1>8, <1>9, <1>10 DEF Moved

\* Turns that settle the same way at once settle in the ledger
LEMMA SettledTogether ==
  ASSUME PromiseTypes, NEW T \in SUBSET Turns, \A t \in T : outcome[t] = "inFlight", NEW end \in Settled,
         outcome' = [t \in Turns |-> IF t \in T THEN end ELSE outcome[t]], UNCHANGED owner
  PROVE  Ledger!LedgerNext \/ UNCHANGED <<owner, outcome>>
  <1>1. CASE T = {}
    <2>1. outcome' = [t \in Turns |-> outcome[t]]
      BY <1>1
    <2> QED
      BY <2>1 DEF PromiseTypes
  <1>2. CASE T # {}
    <2> DEFINE how == [t \in T |-> end]
    <2>1. how \in [T -> Ledger!Settled]
      BY DEF Ledger!Settled, Settled
    <2>2. outcome' = [t \in Turns |-> IF t \in T THEN how[t] ELSE outcome[t]]
      OBVIOUS
    <2>3. Ledger!Settle(T)
      BY <1>2, <2>1, <2>2 DEF Ledger!Settle
    <2> QED
      BY <2>3 DEF Ledger!LedgerNext
  <1> QED
    BY <1>1, <1>2

\* ... and so does one turn
LEMMA SettledAlone ==
  ASSUME PromiseTypes, NEW t \in Turns, outcome[t] = "inFlight", NEW end \in Settled,
         outcome' = [outcome EXCEPT ![t] = end], UNCHANGED owner
  PROVE  Ledger!LedgerNext \/ UNCHANGED <<owner, outcome>>
  <1>1. outcome' = [u \in Turns |-> IF u \in {t} THEN end ELSE outcome[u]]
    BY DEF PromiseTypes
  <1> QED
    BY <1>1, SettledTogether

\* Every step is one of the ledger's, or changes nothing of it
LEMMA LedgerStep ==
  ASSUME AdapterTypes, PromiseTypes, RequestKinds, OnePromptInFlight, LedgerInv, Moved
  PROVE  Ledger!LedgerNext \/ UNCHANGED <<owner, outcome>>
  <1> USE WebSessionAssumption, OperationsAssumption DEF AdapterTypes, PromiseTypes, Ids
  <1>1. CASE Unmoved
    BY <1>1 DEF Unmoved
  <1>2. CASE Lost
    <2> DEFINE T == {t \in Turns : \E a \in Adapters : t \in Prompts(a)}
    <2>1. \A t \in T : outcome[t] = "inFlight"
      BY DEF Prompts, RequestKinds
    <2>2. outcome' = [t \in Turns |-> IF t \in T THEN "ambiguous" ELSE outcome[t]] /\ UNCHANGED owner
      BY <1>2 DEF Lost, RequestsLost
    <2> QED
      BY <2>1, <2>2, SettledTogether DEF Settled
  <1>3. ASSUME NEW a \in Adapters, NEW i \in Ids, NEW kind \in Kinds, Asked(a, i, kind)
       PROVE  Ledger!LedgerNext \/ UNCHANGED <<owner, outcome>>
    BY <1>3 DEF Asked
  <1>4. ASSUME NEW a \in Adapters, NEW t \in Turns, Submitted(a, t)
       PROVE  Ledger!LedgerNext \/ UNCHANGED <<owner, outcome>>
    <2>1. outcome[t] = "new" /\ ambiguousTurn[a] = None /\ (\A u \in Turns : pending[a][u] = None)
      BY <1>4 DEF Submitted, RequestKinds, Ids
    <2>2. ASSUME NEW u \in Turns, owner[u] = a
          PROVE  outcome[u] \notin {"inFlight", "ambiguous"}
      <3>1. outcome[u] # "inFlight"
        BY <2>1, <2>2, OperationsAssumption DEF LedgerInv, InFlightIsOut, Kinds
      <3>2. outcome[u] # "ambiguous"
        BY <2>1, <2>2, WebSessionAssumption DEF LedgerInv, AmbiguousIsRemembered
      <3> QED
        BY <3>1, <3>2
    <2> QED
      BY <1>4, <2>1, <2>2 DEF Submitted, Ledger!LedgerNext, Ledger!Submit
  <1>5. ASSUME NEW a \in Adapters, NEW i \in Ids, Dismissed(a, i)
       PROVE  Ledger!LedgerNext \/ UNCHANGED <<owner, outcome>>
    BY <1>5 DEF Dismissed, Over
  <1>6. ASSUME NEW a \in Adapters, NEW t \in Turns, Concluded(a, t)
       PROVE  Ledger!LedgerNext \/ UNCHANGED <<owner, outcome>>
    <2>1. PICK how \in {"completed", "failed", "interrupted"} : outcome' = [outcome EXCEPT ![t] = how]
      BY <1>6 DEF Concluded
    <2>2. outcome[t] = "inFlight" /\ UNCHANGED owner
      BY <1>6 DEF Concluded, Over, RequestKinds
    <2> QED
      BY <2>1, <2>2, SettledAlone DEF Settled
  <1>7. ASSUME NEW a \in Adapters, NEW t \in Turns, Doubted(a, t)
       PROVE  Ledger!LedgerNext \/ UNCHANGED <<owner, outcome>>
    <2>1. outcome[t] = "inFlight" /\ UNCHANGED owner
      BY <1>7 DEF Doubted, Over, RequestKinds
    <2> QED
      BY <1>7, <2>1, SettledAlone DEF Doubted, Settled
  <1>8. ASSUME NEW a \in Adapters, NEW c \in Calls, Decided(a, c)
       PROVE  Ledger!LedgerNext \/ UNCHANGED <<owner, outcome>>
    <2>1. CASE outcome[about[c]] = "ambiguous"
      <3>1. about[c] \in Turns
        BY <1>8 DEF Decided, LedgerInv, OperationEndsFirst
      <3> QED
        BY <1>8, <2>1, <3>1 DEF Decided, Over, Ledger!LedgerNext, Ledger!Resolve
    <2>2. CASE outcome[about[c]] # "ambiguous"
      BY <1>8, <2>2 DEF Decided, Over
    <2> QED
      BY <2>1, <2>2
  <1>9. ASSUME NEW t \in Turns, Intervened(t)
       PROVE  Ledger!LedgerNext \/ UNCHANGED <<owner, outcome>>
    <2>1. CASE \E x \in Adapters : pending[x][t] = "PROMPT"
      <3>1. outcome[t] = "inFlight" /\ UNCHANGED owner
        BY <1>9, <2>1 DEF Intervened, RequestKinds
      <3> QED
        BY <1>9, <2>1, <3>1, SettledAlone DEF Intervened, Settled
    <2>2. CASE ~ \E x \in Adapters : pending[x][t] = "PROMPT"
      BY <1>9, <2>2 DEF Intervened
    <2> QED
      BY <2>1, <2>2
  <1>10. CASE GivenUp
    <2> DEFINE T == Prompts(PrimaryAdapter)
    <2>1. T \subseteq Turns /\ \A t \in T : outcome[t] = "inFlight"
      BY DEF Prompts, RequestKinds
    <2>2. outcome' = [t \in Turns |-> IF t \in T THEN "abandoned" ELSE outcome[t]] /\ UNCHANGED owner
      BY <1>10 DEF GivenUp
    <2> QED
      BY <2>1, <2>2, SettledTogether DEF Settled
  <1> QED
    BY <1>1, <1>2, <1>3, <1>4, <1>5, <1>6, <1>7, <1>8, <1>9, <1>10 DEF Moved

\* What the ledger rests on holds at first
LEMMA LedgerInvInit == Init => LedgerInv
  BY WebSessionAssumption, OperationsAssumption DEF Init, LedgerInv, InFlightIsOut, AmbiguousIsRemembered,
    NoneOverAmbiguous, AckedIsAnswered, OperationEndsFirst, OneWaiter, Ids, AboutTurn, Kinds, Exclusive, Binding

\* ... and is kept by every step
LEMMA LedgerInvStep ==
  ASSUME BindFirst, IInv, LedgerInv, [Next]_vars
  PROVE  LedgerInv' /\ (Ledger!LedgerNext \/ UNCHANGED <<owner, outcome>>)
  <1>1. AdapterTypes /\ PromiseTypes /\ RequestKinds /\ OnePromptInFlight
    BY DEF IInv, TypeOK
  <1>2. Moved
    BY <1>1, MovesStep
  <1>3. InFlightIsOut' /\ AmbiguousIsRemembered' /\ NoneOverAmbiguous'
    BY <1>1, <1>2, InFlightStep, AmbiguousStep, NoneOverStep
  <1>4. AckedIsAnswered' /\ OperationEndsFirst' /\ OneWaiter'
    BY <1>1, <1>2, AckedStep, EndsFirstStep, OneWaiterStep
  <1>5. Ledger!LedgerNext \/ UNCHANGED <<owner, outcome>>
    BY <1>1, <1>2, LedgerStep
  <1> QED
    BY <1>3, <1>4, <1>5 DEF LedgerInv

\* The adapters keep the ledger of turns, where callers bind before they submit (submitRoleTurn): a turn is
\* submitted once, settles once, and none starts beside or over one that is not settled
THEOREM LedgerIsKept ==
  ASSUME BindFirst
  PROVE  Spec => Ledger!LedgerSafety
  <1>1. Init => LedgerInv
    BY LedgerInvInit
  <1>2. IInv /\ LedgerInv /\ [Next]_vars => LedgerInv'
    BY LedgerInvStep
  <1>3. IInv /\ LedgerInv /\ [Next]_vars => [Ledger!LedgerNext]_(Ledger!ledgerVars)
    BY LedgerInvStep DEF Ledger!ledgerVars
  <1>4. Init => Ledger!LedgerInit
    BY DEF Init, Ledger!LedgerInit
  <1> QED
    BY <1>1, <1>2, <1>3, <1>4, IInvHolds, PTL DEF Spec, Ledger!LedgerSafety

=============================================================================
