--------------------------- MODULE FileGetProofs ---------------------------
(***************************************************************************)
(* Proofs about FileGet, for any set of peers and connection ids and any   *)
(* number of requests: first what it knows of the connections, then what   *)
(* becomes of a request from send_request on.                              *)
(***************************************************************************)
EXTENDS FileGet, FiniteSetTheorems, SequenceTheorems, TLAPS

-----------------------------------------------------------------------------
(***************************************************************************)
(* Facts about the operators the actions are made of.                      *)
(***************************************************************************)

\* try_send_request indexes into the connection list within its bounds.
LEMMA TargetType ==
    ASSUME NEW conns \in Seq(ConnectionIds), conns # <<>>, NEW r \in Nat
    PROVE  Target(conns, r) \in ToSet(conns) /\ Target(conns, r) \in ConnectionIds
<1>1. Len(conns) \in Nat \ {0}
  OBVIOUS
<1>2. (r % Len(conns)) + 1 \in 1..Len(conns)
  BY <1>1
<1>3. (r % Len(conns)) + 1 \in DOMAIN conns
  BY <1>2
<1> QED
  BY <1>3 DEF Target, ToSet

\* What try_send_request queues is a sequence of notifications.
LEMMA NotificationsType ==
    ASSUME NEW p \in Peers, NEW conns \in Seq(ConnectionIds), conns # <<>>,
           NEW rs \in Seq(RequestIds)
    PROVE  Notifications(p, conns, rs) \in Seq(BehaviourActions)
<1>1. ASSUME NEW i \in DOMAIN rs
      PROVE  NotifyHandler(p, Target(conns, rs[i]), rs[i]) \in BehaviourActions
  <2>1. rs[i] \in RequestIds /\ rs[i] \in Nat
    BY BoundsAssumption DEF RequestIds
  <2>2. Target(conns, rs[i]) \in ConnectionIds
    BY <2>1, TargetType
  <2> QED
    BY <2>1, <2>2 DEF NotifyHandler, BehaviourActions, NotifyActions
<1>2. DOMAIN rs = 1..Len(rs) /\ Len(rs) \in Nat
  OBVIOUS
<1> QED
  BY <1>1, <1>2 DEF Notifications

\* A finite set of ids can be visited in any order as a sequence.
LEMMA OrdersType ==
    ASSUME NEW n \in Nat, NEW S \in SUBSET (1..n), NEW order \in Orders(S)
    PROVE  order \in Seq(S)
<1>1. IsFiniteSet(1..n)
  BY FS_Interval
<1>2. IsFiniteSet(S)
  BY <1>1, FS_Subset
<1>3. Cardinality(S) \in Nat
  BY <1>2, FS_CardinalityType
<1>4. order \in [1..Cardinality(S) -> S]
  BY DEF Orders, Bijection, Injection
<1> QED
  BY <1>3, <1>4

\* Every event of the behaviour for an id of either generator is well formed.
LEMMA EventType ==
    ASSUME NEW origin \in {"out", "in"}, NEW event \in EventsFrom(origin),
           NEW error \in Errors, NEW p \in Peers, NEW r \in Nat
    PROVE  /\ GenerateEvent(event, error, p, r, origin) \in EventActions
           /\ GenerateEvent(event, error, p, r, origin) \in BehaviourActions
BY DEF GenerateEvent, BehaviourActions, EventActions, EventsFrom, EventNames

\* A sequence of events is a sequence of actions of the behaviour.
LEMMA EventsAreActions ==
    ASSUME NEW t \in Seq(EventActions) PROVE t \in Seq(BehaviourActions)
BY DEF BehaviourActions

\* What on_connection_closed queues is a sequence of events.
LEMMA ClosedEventsType ==
    ASSUME NEW p \in Peers, NEW outbound \in Seq(InboundIds),
           NEW inbound \in Seq(RequestIds)
    PROVE  /\ ClosedEvents(p, outbound, inbound) \in Seq(EventActions)
           /\ ClosedEvents(p, outbound, inbound) \in Seq(BehaviourActions)
<1> DEFINE first == [i \in DOMAIN outbound |->
                       GenerateEvent("OutboundFailure", "ConnectionClosed",
                                     p, outbound[i], "in")]
           second == [i \in DOMAIN inbound |->
                       GenerateEvent("InboundFailure", "ConnectionClosed",
                                     p, inbound[i], "out")]
<1>1. \A i \in DOMAIN outbound : outbound[i] \in Nat
  BY BoundsAssumption DEF InboundIds
<1>2. \A i \in DOMAIN inbound : inbound[i] \in Nat
  BY BoundsAssumption DEF RequestIds
<1>3. first \in Seq(EventActions)
  <2>1. \A i \in DOMAIN outbound : first[i] \in EventActions
    BY <1>1, EventType DEF EventsFrom, Errors
  <2> QED
    BY <2>1
<1>4. second \in Seq(EventActions)
  <2>1. \A i \in DOMAIN inbound : second[i] \in EventActions
    BY <1>2, EventType DEF EventsFrom, Errors
  <2> QED
    BY <2>1
<1>5. ClosedEvents(p, outbound, inbound) \in Seq(EventActions)
  BY <1>3, <1>4, ConcatProperties DEF ClosedEvents
<1> QED
  BY <1>5, EventsAreActions

\* What one_dial_failure queues is a sequence of events.
LEMMA DialFailureEventsType ==
    ASSUME NEW p \in Peers, pending_outbound_requests \in [Peers -> Seq(RequestIds)]
    PROVE  /\ DialFailureEvents(p) \in Seq(EventActions)
           /\ DialFailureEvents(p) \in Seq(BehaviourActions)
<1> DEFINE rs == pending_outbound_requests[p]
<1>1. rs \in Seq(RequestIds) /\ \A i \in DOMAIN rs : rs[i] \in Nat
  BY BoundsAssumption DEF RequestIds
<1>2. \A i \in DOMAIN rs : GenerateEvent("OutboundFailure", "DialFailure",
                                       p, rs[i], "out") \in EventActions
  BY <1>1, EventType DEF EventsFrom, Errors
<1> HIDE DEF rs
<1>3. DialFailureEvents(p) \in Seq(EventActions)
  BY <1>1, <1>2 DEF DialFailureEvents, rs
<1> QED
  BY <1>3, EventsAreActions

\* Handing requests to connections keeps the pending sets typed.
LEMMA DispatchedType ==
    ASSUME NEW pending \in [ConnectionIds -> SUBSET RequestIds],
           NEW conns, NEW rs \in Seq(RequestIds)
    PROVE  Dispatched(pending, conns, rs) \in [ConnectionIds -> SUBSET RequestIds]
BY DEF Dispatched, ToSet

\* Adding an id to the set of a connection, or taking one out.
LEMMA UpdateType ==
    ASSUME NEW S, NEW f \in [ConnectionIds -> SUBSET S],
           NEW c \in ConnectionIds, NEW r \in S
    PROVE  /\ [f EXCEPT ![c] = @ \ {r}] \in [ConnectionIds -> SUBSET S]
           /\ [f EXCEPT ![c] = @ \cup {r}] \in [ConnectionIds -> SUBSET S]
OBVIOUS

\* Removing a pending entry touches one connection and drops one id.
LEMMA RemovePendingType ==
    ASSUME NEW S, NEW pending \in [ConnectionIds -> SUBSET S],
           NEW p \in Peers, NEW c \in ConnectionIds, NEW r
    PROVE  RemovePending(pending, p, c, r) \in [ConnectionIds -> SUBSET S]
<1>1. [pending EXCEPT ![c] = @ \ {r}] \in [ConnectionIds -> SUBSET S]
  OBVIOUS
<1> QED
  BY <1>1 DEF RemovePending

-----------------------------------------------------------------------------
(***************************************************************************)
(* Type correctness.                                                       *)
(***************************************************************************)

\* A FileGet fresh from from_config, in an idle swarm, is well typed.
LEMMA TypeInit == Init => TypeOK
<1> SUFFICES ASSUME Init PROVE TypeOK
  OBVIOUS
<1>1. next_request_id \in 1..(MaxRequests + 1) /\ next_inbound_id \in 1..(MaxInbound + 1)
  BY BoundsAssumption DEF Init
<1>2. connected \in [Peers -> Seq(ConnectionIds)]
  BY DEF Init
<1>3. pending_outbound_requests \in [Peers -> Seq(RequestIds)]
  BY DEF Init
<1>4. pending_events \in Seq(BehaviourActions)
  BY DEF Init
<1>5. /\ pending_inbound_responses \in [ConnectionIds -> SUBSET RequestIds]
      /\ pending_outbound_responses \in [ConnectionIds -> SUBSET InboundIds]
      /\ held \in [ConnectionIds -> SUBSET RequestIds]
      /\ open \in [ConnectionIds -> SUBSET InboundIds]
      /\ requested \in [ConnectionIds -> SUBSET InboundIds]
      /\ late \in [ConnectionIds -> SUBSET InboundIds]
  BY DEF Init
<1>6. /\ panicked \in BOOLEAN
      /\ pool \in [Peers -> SUBSET ConnectionIds]
      /\ used \in SUBSET ConnectionIds
      /\ dialing \in [Peers -> Nat]
      /\ reported \in [RequestIds -> EventNames \cup {"None"}]
  BY DEF Init
<1> QED
  BY <1>1, <1>2, <1>3, <1>4, <1>5, <1>6 DEF TypeOK

\* Every call into FileGet and every step of its environment keeps the types.
LEMMA TypeStep == TypeOK /\ [Next]_vars => TypeOK'
<1> USE BoundsAssumption
<1> SUFFICES ASSUME TypeOK, [Next]_vars PROVE TypeOK'
  OBVIOUS
<1>1. ASSUME NEW p \in Peers, SendRequest(p) PROVE TypeOK'
  <2> DEFINE r == next_request_id
  <2>1. r \in RequestIds /\ r + 1 \in 1..(MaxRequests + 1) /\ <<r>> \in Seq(RequestIds)
    BY <1>1 DEF SendRequest, TypeOK, RequestIds
  <2>2. Dial(p) \in BehaviourActions
    BY DEF Dial, BehaviourActions, DialActions
  <2>3. CASE connected[p] # <<>>
    <3>1. Notifications(p, connected[p], <<r>>) \in Seq(BehaviourActions)
      BY <2>1, <2>3, NotificationsType DEF TypeOK
    <3>a. /\ pending_events' = pending_events \o Notifications(p, connected[p], <<r>>)
          /\ pending_inbound_responses' =
                Dispatched(pending_inbound_responses, connected[p], <<r>>)
          /\ UNCHANGED pending_outbound_requests
      BY <1>1, <2>3 DEF SendRequest
    <3>2. pending_events' \in Seq(BehaviourActions)
      BY <3>a, <3>1, ConcatProperties DEF TypeOK
    <3>3. pending_inbound_responses' \in [ConnectionIds -> SUBSET RequestIds]
      BY <3>a, <2>1, DispatchedType DEF TypeOK
    <3> QED
      BY <1>1, <2>1, <3>a, <3>2, <3>3
      DEF SendRequest, TypeOK, NextId, handlerVars, swarmVars
  <2>4. CASE connected[p] = <<>>
    <3>a. /\ pending_events' = Append(pending_events, Dial(p))
          /\ pending_outbound_requests' =
                [pending_outbound_requests EXCEPT ![p] = Append(@, r)]
          /\ UNCHANGED pending_inbound_responses
      BY <1>1, <2>4 DEF SendRequest
    <3>1. pending_events' \in Seq(BehaviourActions)
      BY <3>a, <2>2, AppendProperties DEF TypeOK
    <3>b. Append(pending_outbound_requests[p], r) \in Seq(RequestIds)
      BY <2>1, AppendProperties DEF TypeOK
    <3>2. pending_outbound_requests' \in [Peers -> Seq(RequestIds)]
      BY <3>a, <3>b DEF TypeOK
    <3> QED
      BY <1>1, <2>1, <3>a, <3>1, <3>2
      DEF SendRequest, TypeOK, NextId, handlerVars, swarmVars
  <2> QED
    BY <2>3, <2>4
<1>2. ASSUME NEW p \in Peers, NEW c \in ConnectionIds,
             EstablishConnection(p, c), dialing' \in [Peers -> Nat]
      PROVE  TypeOK'
  <2> DEFINE conns == WithConnection(connected[p], c)
             pending == IF pool[p] = {} THEN pending_outbound_requests[p] ELSE <<>>
             fresh == [pending_inbound_responses EXCEPT ![c] = {}]
  <2>1. conns \in Seq(ConnectionIds) /\ conns # <<>>
    <3>1. connected[p] \in Seq(ConnectionIds)
      BY DEF TypeOK
    <3>2. conns = Append(connected[p], c)
      BY DEF WithConnection
    <3> QED
      BY <3>1, <3>2, AppendProperties
  <2>2. pending \in Seq(RequestIds)
    BY DEF TypeOK
  <2>3. fresh \in [ConnectionIds -> SUBSET RequestIds]
    BY DEF TypeOK
  <2>4. OnConnectionEstablished(p, c, pool[p])
    BY <1>2 DEF EstablishConnection
  <2>5. pending_inbound_responses' = Dispatched(fresh, conns, pending)
    BY <2>4 DEF OnConnectionEstablished
  <2>6. pending_inbound_responses' \in [ConnectionIds -> SUBSET RequestIds]
    <3> HIDE DEF conns, pending, fresh
    <3> QED BY <2>2, <2>3, <2>5, DispatchedType
  <2>7. pending_events' = pending_events \o Notifications(p, conns, pending)
    BY <2>4 DEF OnConnectionEstablished
  <2>8. pending_events' \in Seq(BehaviourActions)
    <3> HIDE DEF conns, pending
    <3> QED BY <2>1, <2>2, <2>7, NotificationsType, ConcatProperties DEF TypeOK
  <2>9. pending_outbound_requests' \in [Peers -> Seq(RequestIds)]
    BY <2>4 DEF OnConnectionEstablished, TypeOK
  <2>10. connected' \in [Peers -> Seq(ConnectionIds)]
    BY <2>1, <2>4 DEF OnConnectionEstablished, TypeOK
  <2> QED
    BY <1>2, <2>4, <2>6, <2>8, <2>9, <2>10
    DEF EstablishConnection, OnConnectionEstablished, TypeOK, handlerVars
<1>3. ASSUME NEW p \in Peers, NEW queue \in Seq(BehaviourActions),
             OneDialFailure(p, queue)
      PROVE  /\ pending_events' \in Seq(BehaviourActions)
             /\ pending_outbound_requests' \in [Peers -> Seq(RequestIds)]
  <2>1. DialFailureEvents(p) \in Seq(BehaviourActions)
    BY DialFailureEventsType DEF TypeOK
  <2>2. pending_events' = queue \o DialFailureEvents(p)
    BY <1>3 DEF OneDialFailure
  <2> QED
    BY <1>3, <2>1, <2>2, ConcatProperties DEF OneDialFailure, TypeOK
<1>4. ASSUME NEW p \in Peers, DialFails(p) PROVE TypeOK'
  <2>1. OneDialFailure(p, pending_events) /\ pending_events \in Seq(BehaviourActions)
    BY <1>4 DEF DialFails, TypeOK
  <2>2. dialing' \in [Peers -> Nat]
    BY <1>4 DEF DialFails, TypeOK
  <2> QED
    BY <1>3, <1>4, <2>1, <2>2 DEF DialFails, OneDialFailure, TypeOK, handlerVars
<1>5. ASSUME NEW p \in Peers, OtherDialFails(p) PROVE TypeOK'
  <2>1. OneDialFailure(p, pending_events) /\ pending_events \in Seq(BehaviourActions)
    BY <1>5 DEF OtherDialFails, TypeOK
  <2> QED
    BY <1>3, <1>5, <2>1
    DEF OtherDialFails, OneDialFailure, TypeOK, handlerVars, swarmVars
<1>6. ASSUME NEW p \in Peers, NEW c \in ConnectionIds, CloseConnection(p, c)
      PROVE  TypeOK'
  <2>1. OnConnectionClosed(p, c)
    BY <1>6 DEF CloseConnection, Contract!Close
  <2>2. CASE c \in ToSet(connected[p])
    <3>1. PICK i \in DOMAIN connected[p] :
            /\ connected[p][i] = c
            /\ connected' = [connected EXCEPT ![p] = RemoveAt(@, i)]
      BY <2>1, <2>2 DEF OnConnectionClosed
    <3>2. PICK outbound \in Orders(pending_outbound_responses[c]),
               inbound \in Orders(pending_inbound_responses[c]) :
            pending_events' = pending_events \o ClosedEvents(p, outbound, inbound)
      BY <2>1, <2>2 DEF OnConnectionClosed
    <3>3. outbound \in Seq(InboundIds) /\ inbound \in Seq(RequestIds)
      <4>1. /\ pending_outbound_responses[c] \subseteq 1..MaxInbound
            /\ pending_inbound_responses[c] \subseteq 1..MaxRequests
        BY DEF TypeOK, InboundIds, RequestIds
      <4>2. /\ outbound \in Seq(pending_outbound_responses[c])
            /\ inbound \in Seq(pending_inbound_responses[c])
        BY <4>1, OrdersType
      <4> QED
        BY <4>1, <4>2 DEF InboundIds, RequestIds
    <3>4. pending_events' \in Seq(BehaviourActions)
      BY <3>2, <3>3, ClosedEventsType, ConcatProperties DEF TypeOK
    <3>5. RemoveAt(connected[p], i) \in Seq(ConnectionIds)
      BY DEF RemoveAt, TypeOK
    <3>6. connected' \in [Peers -> Seq(ConnectionIds)]
      BY <3>1, <3>5 DEF TypeOK
    <3>7. /\ pending_inbound_responses' = [pending_inbound_responses EXCEPT ![c] = {}]
          /\ pending_outbound_responses' = [pending_outbound_responses EXCEPT ![c] = {}]
          /\ UNCHANGED <<next_request_id, pending_outbound_requests, panicked>>
      BY <2>1, <2>2 DEF OnConnectionClosed
    <3> QED
      BY <1>6, <3>4, <3>6, <3>7 DEF CloseConnection, Contract!Close, TypeOK
  <2>3. CASE c \notin ToSet(connected[p])
    BY <1>6, <2>1, <2>3
    DEF CloseConnection, Contract!Close, OnConnectionClosed, TypeOK
  <2> QED
    BY <2>2, <2>3
<1>7. ASSUME NEW p \in Peers, NEW c \in ConnectionIds, ChangeAddress(p, c)
      PROVE  TypeOK'
  BY <1>7 DEF ChangeAddress, OnAddressChange, TypeOK, swarmVars, handlerVars
<1>9. ASSUME NEW p \in Peers, NEW r \in RequestIds \cup InboundIds,
             NEW origin \in {"out", "in"}, NEW event \in EventsFrom(origin),
             NEW error \in Errors, PushEvent(event, error, p, r, origin)
      PROVE  pending_events' \in Seq(BehaviourActions)
  <2>1. GenerateEvent(event, error, p, r, origin) \in BehaviourActions
    BY EventType DEF RequestIds, InboundIds
  <2> QED
    BY <1>9, <2>1, AppendProperties DEF PushEvent, TypeOK
<1>10. ASSUME NEW p \in Peers, NEW c \in ConnectionIds, NEW r \in RequestIds,
              HandlerResponse(p, c, r)
       PROVE  TypeOK'
  <2>1. OnResponse(p, c, r)
    BY <1>10 DEF HandlerResponse, Contract!EndOutbound
  <2>2. pending_events' \in Seq(BehaviourActions)
    BY <1>9, <2>1 DEF OnResponse, EventsFrom, Errors
  <2>3. pending_inbound_responses' \in [ConnectionIds -> SUBSET RequestIds]
    BY <2>1, RemovePendingType DEF OnResponse, TypeOK
  <2>4. panicked' \in BOOLEAN
    BY <2>1 DEF OnResponse
  <2> QED
    BY <1>10, <2>1, <2>2, <2>3, <2>4
    DEF HandlerResponse, Contract!EndOutbound, OnResponse, TypeOK, swarmVars
<1>11. ASSUME NEW p \in Peers, NEW c \in ConnectionIds, NEW r \in RequestIds,
              HandlerOutboundError(p, c, r)
       PROVE  TypeOK'
  <2>1. PICK error \in {"Timeout", "UnsupportedProtocols"} :
          OnOutboundFailure(error, p, c, r)
    BY <1>11 DEF HandlerOutboundError, Contract!EndOutbound
  <2>2. pending_events' \in Seq(BehaviourActions)
    BY <1>9, <2>1 DEF OnOutboundFailure, EventsFrom, Errors
  <2>3. pending_inbound_responses' \in [ConnectionIds -> SUBSET RequestIds]
    BY <2>1, RemovePendingType DEF OnOutboundFailure, TypeOK
  <2> QED
    BY <1>11, <2>1, <2>2, <2>3
    DEF HandlerOutboundError, Contract!EndOutbound, OnOutboundFailure, TypeOK,
        swarmVars
<1>12. ASSUME NEW p \in Peers, NEW c \in ConnectionIds, HandlerListens(p, c)
       PROVE  TypeOK'
  BY <1>12
  DEF HandlerListens, Contract!Listen, NextId, TypeOK, InboundIds, behaviourVars,
      swarmVars
<1>13. ASSUME NEW p \in Peers, NEW c \in ConnectionIds, NEW r \in InboundIds,
              HandlerRequest(p, c, r)
       PROVE  TypeOK'
  <2> DEFINE received == GenerateEvent("RequestReceived", "None", p, r, "in")
             closed == GenerateEvent("InboundFailure", "ConnectionClosed", p, r, "in")
  <2>1. OnRequest(p, c, r)
    BY <1>13 DEF HandlerRequest, Contract!Request
  <2>2. received \in BehaviourActions /\ closed \in BehaviourActions
    BY EventType DEF EventsFrom, Errors, InboundIds
  <2>3. pending_events' \in {Append(pending_events, received),
                            pending_events \o <<received, closed>>}
    BY <2>1 DEF OnRequest, PushEvent
  <2>4. pending_events' \in Seq(BehaviourActions)
    <3> HIDE DEF received, closed
    <3>1. <<received, closed>> \in Seq(BehaviourActions)
      BY <2>2
    <3>2. pending_events \in Seq(BehaviourActions)
      BY DEF TypeOK
    <3>3. Append(pending_events, received) \in Seq(BehaviourActions)
      BY <2>2, <3>2, AppendProperties
    <3>4. pending_events \o <<received, closed>> \in Seq(BehaviourActions)
      BY <3>1, <3>2, ConcatProperties
    <3> QED
      BY <2>3, <3>3, <3>4
  <2>5. pending_outbound_responses' \in [ConnectionIds -> SUBSET InboundIds]
    BY <2>1 DEF OnRequest, TypeOK
  <2>6. /\ open' \in [ConnectionIds -> SUBSET InboundIds]
        /\ requested' \in [ConnectionIds -> SUBSET InboundIds]
        /\ late' \in [ConnectionIds -> SUBSET InboundIds]
    <3>1. /\ open' \in {open, [open EXCEPT ![c] = @ \ {r}]}
          /\ requested' \in {requested, [requested EXCEPT ![c] = @ \cup {r}]}
          /\ late' \in {late, [late EXCEPT ![c] = @ \ {r}]}
      BY <1>13 DEF HandlerRequest, Contract!Request
    <3>2. /\ open \in [ConnectionIds -> SUBSET InboundIds]
          /\ requested \in [ConnectionIds -> SUBSET InboundIds]
          /\ late \in [ConnectionIds -> SUBSET InboundIds]
      BY DEF TypeOK
    <3>3. [open EXCEPT ![c] = @ \ {r}] \in [ConnectionIds -> SUBSET InboundIds]
      BY <3>2, UpdateType
    <3>4. [requested EXCEPT ![c] = @ \cup {r}] \in [ConnectionIds -> SUBSET InboundIds]
      BY <3>2, UpdateType
    <3>5. [late EXCEPT ![c] = @ \ {r}] \in [ConnectionIds -> SUBSET InboundIds]
      BY <3>2, UpdateType
    <3> QED
      BY <3>1, <3>2, <3>3, <3>4, <3>5
  <2> QED
    BY <1>13, <2>1, <2>4, <2>5, <2>6
    DEF HandlerRequest, Contract!Request, OnRequest, TypeOK, swarmVars
<1>14. ASSUME NEW p \in Peers, NEW c \in ConnectionIds, NEW r \in InboundIds,
              HandlerAnswered(p, c, r)
       PROVE  TypeOK'
  <2>1. PICK event \in {"ResponseSent", "InboundFailure"},
             error \in {"None", "ResponseOmission"} :
          OnAnswered(event, error, p, c, r)
    BY <1>14 DEF HandlerAnswered, Contract!Answered
  <2>2. pending_events' \in Seq(BehaviourActions)
    BY <1>9, <2>1 DEF OnAnswered, EventsFrom, Errors
  <2>3. pending_outbound_responses' \in [ConnectionIds -> SUBSET InboundIds]
    BY <2>1, RemovePendingType DEF OnAnswered, TypeOK
  <2>4. panicked' \in BOOLEAN
    BY <2>1 DEF OnAnswered
  <2> QED
    BY <1>14, <2>1, <2>2, <2>3, <2>4
    DEF HandlerAnswered, Contract!Answered, OnAnswered, TypeOK, swarmVars
<1>15. ASSUME NEW p \in Peers, NEW c \in ConnectionIds, NEW r \in InboundIds,
              HandlerInboundError(p, c, r)
       PROVE  TypeOK'
  <2>1. PICK error \in {"Timeout", "UnsupportedProtocols"} :
          OnInboundFailure(error, p, c, r)
    BY <1>15
    DEF HandlerInboundError, Contract!TimeOutInbound, Contract!RejectInbound,
        Contract!EndInbound
  <2>2. pending_events' \in Seq(BehaviourActions)
    BY <1>9, <2>1 DEF OnInboundFailure, EventsFrom, Errors
  <2>3. pending_outbound_responses' \in [ConnectionIds -> SUBSET InboundIds]
    BY <2>1, RemovePendingType DEF OnInboundFailure, TypeOK
  <2>4. /\ open' \in [ConnectionIds -> SUBSET InboundIds]
        /\ requested' \in [ConnectionIds -> SUBSET InboundIds]
        /\ late' \in [ConnectionIds -> SUBSET InboundIds]
    <3>1. /\ open' = [open EXCEPT ![c] = @ \ {r}]
          /\ requested' = [requested EXCEPT ![c] = @ \ {r}]
          /\ late' \in {late, [late EXCEPT ![c] = @ \cup {r}]}
      BY <1>15
      DEF HandlerInboundError, Contract!TimeOutInbound, Contract!RejectInbound,
          Contract!EndInbound
    <3>2. /\ open \in [ConnectionIds -> SUBSET InboundIds]
          /\ requested \in [ConnectionIds -> SUBSET InboundIds]
          /\ late \in [ConnectionIds -> SUBSET InboundIds]
      BY DEF TypeOK
    <3>3. open' \in [ConnectionIds -> SUBSET InboundIds]
      BY <3>1, <3>2, UpdateType
    <3>4. requested' \in [ConnectionIds -> SUBSET InboundIds]
      BY <3>1, <3>2, UpdateType
    <3>5. late' \in [ConnectionIds -> SUBSET InboundIds]
      BY <3>1, <3>2, UpdateType
    <3> QED
      BY <3>3, <3>4, <3>5
  <2> QED
    BY <1>15, <2>1, <2>2, <2>3, <2>4
    DEF HandlerInboundError, Contract!TimeOutInbound, Contract!RejectInbound,
        Contract!EndInbound, OnInboundFailure, TypeOK, swarmVars
<1>16. ASSUME pending_events # <<>>
       PROVE  /\ Head(pending_events) \in BehaviourActions
              /\ Tail(pending_events) \in Seq(BehaviourActions)
  BY <1>16, HeadTailProperties DEF TypeOK
<1>17. ASSUME PollDial PROVE TypeOK'
  <2> DEFINE e == Head(pending_events)
  <2>1. e.peer \in Peers
    BY <1>16, <1>17
    DEF PollDial, BehaviourActions, DialActions, NotifyActions, EventActions
  <2>2. CASE OneDialFailure(e.peer, Tail(pending_events)) /\ UNCHANGED dialing
    BY <1>3, <1>16, <1>17, <2>1, <2>2
    DEF PollDial, OneDialFailure, TypeOK, handlerVars
  <2>3. CASE /\ dialing' = [dialing EXCEPT ![e.peer] = @ + 1]
             /\ pending_events' = Tail(pending_events)
             /\ UNCHANGED <<next_request_id, connected, panicked,
                            pending_inbound_responses, pending_outbound_responses,
                            pending_outbound_requests>>
    <3>1. dialing[e.peer] + 1 \in Nat
      BY <2>1 DEF TypeOK
    <3>2. dialing' \in [Peers -> Nat]
      BY <2>1, <2>3, <3>1 DEF TypeOK
    <3> QED
      BY <1>16, <1>17, <2>3, <3>2 DEF PollDial, TypeOK, handlerVars
  <2> QED
    BY <1>17, <2>2, <2>3 DEF PollDial
<1>18. ASSUME PollNotify PROVE TypeOK'
  <2> DEFINE e == Head(pending_events)
  <2>1. e.request \in RequestIds
    BY <1>16, <1>18
    DEF PollNotify, Contract!Take, handlerVars, BehaviourActions, DialActions,
        NotifyActions, EventActions
  <2>2. /\ \/ held' = [held EXCEPT ![e.conn] = @ \cup {e.request}]
           \/ held' = held
        /\ UNCHANGED <<next_inbound_id, open, requested, late>>
    BY <1>18 DEF PollNotify, Contract!Take, handlerVars
  <2>3. held' \in [ConnectionIds -> SUBSET RequestIds]
    <3>1. held \in [ConnectionIds -> SUBSET RequestIds]
      BY DEF TypeOK
    <3>2. CASE held' = [held EXCEPT ![e.conn] = @ \cup {e.request}]
      BY <2>1, <3>1, <3>2
    <3> QED
      BY <2>2, <3>1, <3>2
  <2>4. /\ UNCHANGED <<next_request_id, connected, pending_inbound_responses,
                       pending_outbound_responses, pending_outbound_requests,
                       panicked, swarmVars, reported>>
        /\ pending_events' = Tail(pending_events)
    BY <1>18 DEF PollNotify
  <2> QED
    BY <1>16, <1>18, <2>2, <2>3, <2>4 DEF PollNotify, TypeOK, swarmVars
<1>19. ASSUME PollEvent PROVE TypeOK'
  <2> DEFINE e == Head(pending_events)
  <2>1. e.event \in EventNames
    BY <1>16, <1>19
    DEF PollEvent, BehaviourActions, DialActions, NotifyActions, EventActions
  <2>2. reported' \in [RequestIds -> EventNames \cup {"None"}]
    BY <1>19, <2>1 DEF PollEvent, TypeOK
  <2> QED
    BY <1>16, <1>19, <2>2 DEF PollEvent, TypeOK, handlerVars, swarmVars
<1>20. ASSUME NEW p \in Peers, NEW c \in ConnectionIds, DialSucceeds(p, c)
       PROVE  TypeOK'
  <2>1. dialing' \in [Peers -> Nat]
    BY <1>20 DEF DialSucceeds, TypeOK
  <2> QED
    BY <1>2, <1>20, <2>1 DEF DialSucceeds
<1>21. ASSUME NEW p \in Peers, NEW c \in ConnectionIds, ConnectionArrives(p, c)
       PROVE  TypeOK'
  BY <1>2, <1>21 DEF ConnectionArrives, TypeOK
<1>22. CASE UNCHANGED vars
  BY <1>22 DEF vars, TypeOK
<1> QED
  BY <1>1, <1>4, <1>5, <1>6, <1>7, <1>10, <1>11, <1>12, <1>13, <1>14, <1>15,
     <1>17, <1>18, <1>19, <1>20, <1>21, <1>22
  DEF Next, Connections, Handlers, Poll

\* Every reachable state is well typed.
THEOREM TypeCorrect == Spec => []TypeOK
BY TypeInit, TypeStep, PTL DEF Spec

-----------------------------------------------------------------------------
(***************************************************************************)
(* What a step adds to the queue.                                          *)
(***************************************************************************)

\* A step that queues events and no dial or notification.
QueuesEvents == \E t \in Seq(EventActions) : pending_events' = pending_events \o t

\* Pushing one event.
LEMMA PushQueues ==
    ASSUME TypeOK, NEW origin \in {"out", "in"}, NEW event \in EventsFrom(origin),
           NEW error \in Errors, NEW p \in Peers, NEW r \in Nat,
           PushEvent(event, error, p, r, origin)
    PROVE  QueuesEvents
<1> DEFINE e == GenerateEvent(event, error, p, r, origin)
<1>1. e \in EventActions /\ e \in BehaviourActions
  BY EventType
<1>2. pending_events' = Append(pending_events, e)
  BY DEF PushEvent
<1> HIDE DEF e
<1>3. Append(pending_events, e) = pending_events \o <<e>>
  BY <1>1, AppendIsConcat DEF TypeOK
<1>4. <<e>> \in Seq(EventActions)
  BY <1>1
<1> QED
  BY <1>2, <1>3, <1>4 DEF QueuesEvents

\* A handler's report queues events, and leaves requests that wait for a
\* connection, connections and dials alone.
LEMMA HandlersQueue ==
    ASSUME TypeOK, Handlers
    PROVE  /\ QueuesEvents
           /\ UNCHANGED <<next_request_id, pending_outbound_requests, connected,
                          pool, used, dialing>>
<1> DEFINE P == /\ QueuesEvents
                /\ UNCHANGED <<next_request_id, pending_outbound_requests,
                               connected, pool, used, dialing>>
<1> USE BoundsAssumption
<1>1. PICK p \in Peers, c \in ConnectionIds :
        \/ HandlerListens(p, c)
        \/ \E r \in RequestIds : \/ HandlerResponse(p, c, r)
                                \/ HandlerOutboundError(p, c, r)
        \/ \E r \in InboundIds : \/ HandlerRequest(p, c, r)
                                \/ HandlerAnswered(p, c, r)
                                \/ HandlerInboundError(p, c, r)
  BY DEF Handlers
<1>2. CASE HandlerListens(p, c)
  <2>1. pending_events' = pending_events
    BY <1>2 DEF HandlerListens, Contract!Listen, behaviourVars
  <2>2. pending_events \o <<>> = pending_events /\ <<>> \in Seq(EventActions)
    BY ConcatEmptySeq DEF TypeOK
  <2>3. QueuesEvents
    BY <2>1, <2>2 DEF QueuesEvents
  <2> QED
    BY <1>2, <2>3 DEF HandlerListens, Contract!Listen, behaviourVars, swarmVars
<1>3. ASSUME NEW r \in RequestIds, HandlerResponse(p, c, r) PROVE P
  <2>1. QueuesEvents
    BY <1>3, PushQueues
    DEF HandlerResponse, Contract!EndOutbound, OnResponse, EventsFrom, Errors,
        RequestIds
  <2> QED
    BY <1>3, <2>1 DEF HandlerResponse, Contract!EndOutbound, OnResponse, swarmVars
<1>4. ASSUME NEW r \in RequestIds, HandlerOutboundError(p, c, r) PROVE P
  <2>1. PICK error \in {"Timeout", "UnsupportedProtocols"} :
          OnOutboundFailure(error, p, c, r)
    BY <1>4 DEF HandlerOutboundError, Contract!EndOutbound
  <2>2. QueuesEvents
    BY <2>1, PushQueues DEF OnOutboundFailure, EventsFrom, Errors, RequestIds
  <2> QED
    BY <1>4, <2>1, <2>2
    DEF HandlerOutboundError, Contract!EndOutbound, OnOutboundFailure, swarmVars
<1>5. ASSUME NEW r \in InboundIds, HandlerRequest(p, c, r) PROVE P
  <2> DEFINE received == GenerateEvent("RequestReceived", "None", p, r, "in")
             closed == GenerateEvent("InboundFailure", "ConnectionClosed", p, r, "in")
  <2>1. OnRequest(p, c, r)
    BY <1>5 DEF HandlerRequest, Contract!Request
  <2>2. QueuesEvents
    <3>1. CASE c \in ToSet(connected[p])
      BY <2>1, <3>1, PushQueues DEF OnRequest, EventsFrom, Errors, InboundIds
    <3>2. CASE c \notin ToSet(connected[p])
      <4>1. received \in EventActions /\ closed \in EventActions
        BY EventType DEF EventsFrom, Errors, InboundIds
      <4>2. pending_events' = pending_events \o <<received, closed>>
        BY <2>1, <3>2 DEF OnRequest
      <4> HIDE DEF received, closed
      <4>3. <<received, closed>> \in Seq(EventActions)
        BY <4>1
      <4> QED
        BY <4>2, <4>3 DEF QueuesEvents
    <3> QED
      BY <3>1, <3>2
  <2> QED
    BY <1>5, <2>1, <2>2 DEF HandlerRequest, Contract!Request, OnRequest, swarmVars
<1>6. ASSUME NEW r \in InboundIds, HandlerAnswered(p, c, r) PROVE P
  <2>1. PICK event \in {"ResponseSent", "InboundFailure"},
             error \in {"None", "ResponseOmission"} :
          OnAnswered(event, error, p, c, r)
    BY <1>6 DEF HandlerAnswered, Contract!Answered
  <2>2. QueuesEvents
    BY <2>1, PushQueues DEF OnAnswered, EventsFrom, Errors, InboundIds
  <2> QED
    BY <1>6, <2>1, <2>2
    DEF HandlerAnswered, Contract!Answered, OnAnswered, swarmVars
<1>7. ASSUME NEW r \in InboundIds, HandlerInboundError(p, c, r) PROVE P
  <2>1. PICK error \in {"Timeout", "UnsupportedProtocols"} :
          OnInboundFailure(error, p, c, r)
    BY <1>7
    DEF HandlerInboundError, Contract!TimeOutInbound, Contract!RejectInbound,
        Contract!EndInbound
  <2>2. QueuesEvents
    BY <2>1, PushQueues DEF OnInboundFailure, EventsFrom, Errors, InboundIds
  <2> QED
    BY <1>7, <2>1, <2>2
    DEF HandlerInboundError, Contract!TimeOutInbound, Contract!RejectInbound,
        Contract!EndInbound, OnInboundFailure, swarmVars
<1> QED
  BY <1>1, <1>2, <1>3, <1>4, <1>5, <1>6, <1>7

-----------------------------------------------------------------------------
(***************************************************************************)
(* `connected' follows the swarm's pool.                                   *)
(***************************************************************************)

\* The elements of a concatenation are those of its parts.
LEMMA ToSetConcat ==
    ASSUME NEW S, NEW s \in Seq(S), NEW t \in Seq(S)
    PROVE  ToSet(s \o t) = ToSet(s) \cup ToSet(t)
<1>1. \A q \in Seq(S) : ToSet(q) = Range(q)
  BY DEF ToSet, Range
<1>2. s \o t \in Seq(S)
  BY ConcatProperties
<1>3. Range(s \o t) = Range(s) \cup Range(t)
  BY RangeConcatenation
<1> QED
  BY <1>1, <1>2, <1>3

\* Appending an element adds it.
LEMMA ToSetAppend ==
    ASSUME NEW S, NEW s \in Seq(S), NEW e \in S
    PROVE  ToSet(Append(s, e)) = ToSet(s) \cup {e}
<1>1. Append(s, e) = s \o <<e>> /\ <<e>> \in Seq(S)
  BY AppendIsConcat
<1>2. ToSet(<<e>>) = {e}
  BY DEF ToSet
<1>3. ToSet(s \o <<e>>) = ToSet(s) \cup ToSet(<<e>>)
  BY <1>1, ToSetConcat
<1> QED
  BY <1>1, <1>2, <1>3

\* Pushing a connection that is not in the list keeps the list free of
\* repetitions.
LEMMA InjectiveAppend ==
    ASSUME NEW S, NEW s \in Seq(S), NEW e \in S, IsInjective(s), e \notin ToSet(s)
    PROVE  IsInjective(Append(s, e))
<1>1. /\ Append(s, e) \in Seq(S)
      /\ Len(Append(s, e)) = Len(s) + 1
      /\ \A i \in 1..Len(s) : Append(s, e)[i] = s[i]
      /\ Append(s, e)[Len(s) + 1] = e
  BY AppendProperties
<1>2. DOMAIN Append(s, e) = 1..(Len(s) + 1) /\ DOMAIN s = 1..Len(s)
  BY <1>1
<1>3. \A i \in 1..Len(s) : s[i] # e
  BY <1>2 DEF ToSet
<1> QED
  BY <1>1, <1>2, <1>3 DEF IsInjective

\* Removing position i from a list without repetitions removes that element
\* and no other.
LEMMA RemoveAtInjective ==
    ASSUME NEW S, NEW s \in Seq(S), IsInjective(s), NEW i \in DOMAIN s
    PROVE  /\ IsInjective(RemoveAt(s, i))
           /\ ToSet(RemoveAt(s, i)) = ToSet(s) \ {s[i]}
<1> DEFINE n == Len(s)
           t == RemoveAt(s, i)
           Old(j) == IF j < i THEN j ELSE j + 1
<1>1. n \in Nat /\ DOMAIN s = 1..n /\ i \in 1..n
  OBVIOUS
<1>2. /\ t \in Seq(S)
      /\ Len(t) = n - 1
      /\ \A j \in 1..(n - 1) : t[j] = s[Old(j)]
  <2> DEFINE a == SubSeq(s, 1, i - 1)
             b == SubSeq(s, i + 1, n)
  <2>1. /\ a \in Seq(S)
        /\ Len(a) = i - 1
        /\ \A j \in 1..(i - 1) : a[j] = s[j]
    BY <1>1, SubSeqProperties
  <2>2. /\ b \in Seq(S)
        /\ Len(b) = n - i
        /\ \A j \in 1..(n - i) : b[j] = s[i + j]
    BY <1>1, SubSeqProperties
  <2>3. /\ a \o b \in Seq(S)
        /\ Len(a \o b) = Len(a) + Len(b)
        /\ \A j \in 1..(Len(a) + Len(b)) :
              (a \o b)[j] = IF j <= Len(a) THEN a[j] ELSE b[j - Len(a)]
    BY <2>1, <2>2, ConcatProperties
  <2>4. t = a \o b
    BY DEF RemoveAt
  <2> HIDE DEF a, b, t
  <2>5. ASSUME NEW j \in 1..(n - 1) PROVE t[j] = s[Old(j)]
    <3>1. CASE j < i
      BY <1>1, <2>1, <2>2, <2>3, <2>4, <3>1
    <3>2. CASE j >= i
      <4>1. t[j] = b[j - (i - 1)] /\ j - (i - 1) \in 1..(n - i)
        BY <1>1, <2>1, <2>2, <2>3, <2>4, <3>2, SMTT(30)
      <4>2. b[j - (i - 1)] = s[i + (j - (i - 1))]
        BY <2>2, <4>1
      <4>3. i + (j - (i - 1)) = j + 1
        BY <1>1
      <4> QED
        BY <3>2, <4>1, <4>2, <4>3
    <3> QED
      BY <1>1, <3>1, <3>2
  <2>6. t \in Seq(S)
    BY <2>3, <2>4
  <2>7. Len(t) = Len(a) + Len(b)
    BY <2>3, <2>4
  <2>8. Len(t) = n - 1
    BY <1>1, <2>1, <2>2, <2>7
  <2> QED
    BY <2>5, <2>6, <2>8
<1>3. DOMAIN t = 1..(n - 1)
  BY <1>1, <1>2
<1>4. IsInjective(t)
  <2> SUFFICES ASSUME NEW j \in 1..(n - 1), NEW k \in 1..(n - 1), t[j] = t[k]
               PROVE  j = k
    BY <1>3 DEF IsInjective
  <2>1. Old(j) \in DOMAIN s /\ Old(k) \in DOMAIN s
    BY <1>1
  <2>2. s[Old(j)] = s[Old(k)]
    BY <1>2
  <2>3. Old(j) = Old(k)
    <3> HIDE DEF Old, t, n
    <3> QED
      BY <2>1, <2>2 DEF IsInjective
  <2> QED
    BY <1>1, <2>3
<1>5. ASSUME NEW x \in ToSet(t) PROVE x \in ToSet(s) \ {s[i]}
  <2>1. PICK j \in 1..(n - 1) : x = t[j]
    BY <1>3 DEF ToSet
  <2>2. Old(j) \in DOMAIN s /\ Old(j) # i /\ x = s[Old(j)]
    BY <1>1, <1>2, <2>1
  <2> QED
    BY <2>2 DEF ToSet, IsInjective
<1>6. ASSUME NEW x \in ToSet(s) \ {s[i]} PROVE x \in ToSet(t)
  <2>1. PICK k \in 1..n : x = s[k] /\ k # i
    BY <1>1 DEF ToSet
  <2>2. CASE k < i
    <3>1. k \in DOMAIN t /\ x = t[k]
      BY <1>1, <1>2, <1>3, <2>1, <2>2
    <3> QED
      BY <3>1 DEF ToSet
  <2>3. CASE k > i
    <3>1. k - 1 \in DOMAIN t /\ x = t[k - 1]
      BY <1>1, <1>2, <1>3, <2>1, <2>3
    <3> QED
      BY <3>1 DEF ToSet
  <2> QED
    BY <1>1, <2>1, <2>2, <2>3
<1> QED
  BY <1>4, <1>5, <1>6

\* An established connection has a used id and belongs to one peer.
PoolOwnership ==
    \A p, q \in Peers, c \in ConnectionIds :
        c \in pool[p] => c \in used /\ (c \in pool[q] => p = q)

ConnInv == ConnectedMirrorsPool /\ PoolOwnership

\* A connection that comes up was not listed before.
LEMMA ConnEstablish ==
    ASSUME TypeOK, ConnInv, NEW p \in Peers, NEW c \in ConnectionIds,
           EstablishConnection(p, c)
    PROVE  ConnInv'
<1>1. /\ c \notin used
      /\ used' = used \cup {c}
      /\ pool' = [pool EXCEPT ![p] = @ \cup {c}]
      /\ connected' = [connected EXCEPT ![p] = Append(connected[p], c)]
  BY DEF EstablishConnection, OnConnectionEstablished, WithConnection
<1>2. connected[p] \in Seq(ConnectionIds) /\ ToSet(connected[p]) = pool[p]
      /\ IsInjective(connected[p]) /\ c \notin pool[p]
  BY <1>1 DEF TypeOK, ConnInv, ConnectedMirrorsPool, PoolOwnership
<1>3. /\ ToSet(Append(connected[p], c)) = pool[p] \cup {c}
      /\ IsInjective(Append(connected[p], c))
  BY <1>2, ToSetAppend, InjectiveAppend
<1>4. ConnectedMirrorsPool'
  <2> SUFFICES ASSUME NEW q \in Peers
               PROVE  ToSet(connected'[q]) = pool'[q] /\ IsInjective(connected'[q])
    BY DEF ConnectedMirrorsPool
  <2>1. CASE q = p
    BY <1>1, <1>3, <2>1 DEF TypeOK
  <2>2. CASE q # p
    BY <1>1, <2>2 DEF TypeOK, ConnInv, ConnectedMirrorsPool
  <2> QED
    BY <2>1, <2>2
<1>5. PoolOwnership'
  BY <1>1 DEF TypeOK, ConnInv, PoolOwnership
<1> QED
  BY <1>4, <1>5 DEF ConnInv

\* on_connection_closed finds the connection and removes only it.
LEMMA ConnClose ==
    ASSUME TypeOK, ConnInv, NEW p \in Peers, NEW c \in ConnectionIds,
           CloseConnection(p, c)
    PROVE  ConnInv' /\ c \in ToSet(connected[p])
<1>1. /\ c \in pool[p]
      /\ used' = used
      /\ pool' = [pool EXCEPT ![p] = @ \ {c}]
      /\ OnConnectionClosed(p, c)
  BY DEF CloseConnection, Contract!Close
<1>2. connected[p] \in Seq(ConnectionIds) /\ ToSet(connected[p]) = pool[p]
      /\ IsInjective(connected[p])
  BY DEF TypeOK, ConnInv, ConnectedMirrorsPool
<1>3. PICK i \in DOMAIN connected[p] :
        /\ connected[p][i] = c
        /\ connected' = [connected EXCEPT ![p] = RemoveAt(connected[p], i)]
  BY <1>1, <1>2 DEF OnConnectionClosed
<1>4. /\ IsInjective(RemoveAt(connected[p], i))
      /\ ToSet(RemoveAt(connected[p], i)) = pool[p] \ {c}
  BY <1>2, <1>3, RemoveAtInjective
<1>5. ConnectedMirrorsPool'
  <2> SUFFICES ASSUME NEW q \in Peers
               PROVE  ToSet(connected'[q]) = pool'[q] /\ IsInjective(connected'[q])
    BY DEF ConnectedMirrorsPool
  <2>1. CASE q = p
    BY <1>1, <1>3, <1>4, <2>1 DEF TypeOK
  <2>2. CASE q # p
    BY <1>1, <1>3, <2>2 DEF TypeOK, ConnInv, ConnectedMirrorsPool
  <2> QED
    BY <2>1, <2>2
<1>6. PoolOwnership'
  BY <1>1 DEF TypeOK, ConnInv, PoolOwnership
<1> QED
  BY <1>1, <1>2, <1>5, <1>6 DEF ConnInv

\* Every other step leaves the connections alone.
LEMMA ConnUnchanged ==
    ASSUME TypeOK, [Next]_vars
    PROVE  \/ UNCHANGED <<connected, pool, used>>
           \/ \E p \in Peers, c \in ConnectionIds :
                 EstablishConnection(p, c) \/ CloseConnection(p, c)
<1>1. ASSUME NEW p \in Peers,
             \/ SendRequest(p)
             \/ DialFails(p)
             \/ OtherDialFails(p)
             \/ \E c \in ConnectionIds : ChangeAddress(p, c)
      PROVE  UNCHANGED <<connected, pool, used>>
  BY <1>1
  DEF SendRequest, DialFails, OtherDialFails, ChangeAddress, OneDialFailure,
      OnAddressChange, swarmVars
<1>2. ASSUME Handlers PROVE UNCHANGED <<connected, pool, used>>
  BY <1>2, HandlersQueue
<1>3. ASSUME Poll PROVE UNCHANGED <<connected, pool, used>>
  BY <1>3
  DEF Poll, PollDial, PollNotify, Contract!Take, handlerVars, PollEvent,
      OneDialFailure, swarmVars
<1>4. ASSUME NEW p \in Peers, NEW c \in ConnectionIds,
             DialSucceeds(p, c) \/ ConnectionArrives(p, c)
      PROVE  EstablishConnection(p, c)
  BY <1>4 DEF DialSucceeds, ConnectionArrives
<1>5. CASE UNCHANGED vars
  BY <1>5 DEF vars
<1> QED
  BY <1>1, <1>2, <1>3, <1>4, <1>5 DEF Next, Connections

\* `connected' and the pool agree at the start.
LEMMA ConnInit == Init => ConnInv
BY DEF Init, ConnInv, ConnectedMirrorsPool, PoolOwnership, ToSet, IsInjective

\* They agree after every step.
LEMMA ConnStep == TypeOK /\ ConnInv /\ [Next]_vars => ConnInv'
<1> SUFFICES ASSUME TypeOK, ConnInv, [Next]_vars PROVE ConnInv'
  OBVIOUS
<1>1. CASE UNCHANGED <<connected, pool, used>>
  BY <1>1 DEF ConnInv, ConnectedMirrorsPool, PoolOwnership
<1> QED
  BY <1>1, ConnUnchanged, ConnEstablish, ConnClose

\* `connected' and the pool agree in every reachable state, and the pool only
\* holds connection ids that were given out, each under one peer.
LEMMA ConnInvariant == Spec => []ConnInv
BY ConnInit, ConnStep, TypeCorrect, PTL DEF Spec

\* The list of connections is exactly the swarm's, whatever the order of
\* connects and closes.
THEOREM ConnectionsMirrored == Spec => []ConnectedMirrorsPool
<1>1. ConnInv => ConnectedMirrorsPool
  BY DEF ConnInv
<1> QED
  BY <1>1, ConnInvariant, PTL

-----------------------------------------------------------------------------
(***************************************************************************)
(* Parked requests have a dial to wait for.                                *)
(***************************************************************************)

\* A failed dial queues events.
LEMMA DialFailureQueues ==
    ASSUME TypeOK, NEW p \in Peers, OneDialFailure(p, pending_events)
    PROVE  QueuesEvents
<1>1. DialFailureEvents(p) \in Seq(EventActions)
  BY DialFailureEventsType DEF TypeOK
<1> QED
  BY <1>1 DEF OneDialFailure, QueuesEvents

\* A closing connection queues events.
LEMMA CloseQueues ==
    ASSUME TypeOK, ConnInv, NEW p \in Peers, NEW c \in ConnectionIds,
           CloseConnection(p, c)
    PROVE  /\ QueuesEvents
           /\ pending_inbound_responses' = [pending_inbound_responses EXCEPT ![c] = {}]
           /\ pending_outbound_responses' = [pending_outbound_responses EXCEPT ![c] = {}]
           /\ UNCHANGED <<next_request_id, pending_outbound_requests, panicked>>
<1>1. c \in ToSet(connected[p]) /\ OnConnectionClosed(p, c)
  BY ConnClose DEF CloseConnection, Contract!Close
<1>2. PICK outbound \in Orders(pending_outbound_responses[c]),
           inbound \in Orders(pending_inbound_responses[c]) :
        pending_events' = pending_events \o ClosedEvents(p, outbound, inbound)
  BY <1>1 DEF OnConnectionClosed
<1>3. /\ pending_outbound_responses[c] \subseteq InboundIds
      /\ pending_inbound_responses[c] \subseteq RequestIds
  BY DEF TypeOK
<1>4. /\ outbound \in Seq(pending_outbound_responses[c])
      /\ inbound \in Seq(pending_inbound_responses[c])
  BY <1>3, OrdersType, BoundsAssumption DEF InboundIds, RequestIds
<1>5. outbound \in Seq(InboundIds) /\ inbound \in Seq(RequestIds)
  BY <1>3, <1>4, SeqMonotonic
<1>6. QueuesEvents
  BY <1>2, <1>5, ClosedEventsType DEF QueuesEvents
<1> QED
  BY <1>1, <1>6 DEF OnConnectionClosed

\* What is queued stays queued when more is queued.
LEMMA ContainsConcat ==
    ASSUME NEW S, NEW s \in Seq(S), NEW t \in Seq(S), NEW e, Contains(s, e)
    PROVE  Contains(s \o t, e)
<1>1. PICK i \in 1..Len(s) : s[i] = e
  BY DEF Contains
<1>2. /\ Len(s \o t) = Len(s) + Len(t)
      /\ \A j \in 1..(Len(s) + Len(t)) :
            (s \o t)[j] = IF j <= Len(s) THEN s[j] ELSE t[j - Len(s)]
  BY ConcatProperties
<1>3. i \in 1..Len(s \o t) /\ (s \o t)[i] = e
  BY <1>1, <1>2
<1> QED
  BY <1>3 DEF Contains

\* What is queued behind the first action is there when that one is taken.
LEMMA ContainsTail ==
    ASSUME NEW S, NEW s \in Seq(S), s # <<>>, NEW e, Contains(s, e), e # Head(s)
    PROVE  Contains(Tail(s), e)
<1>1. PICK i \in 1..Len(s) : s[i] = e
  BY DEF Contains
<1>2. /\ Len(Tail(s)) = Len(s) - 1
      /\ \A j \in 1..Len(Tail(s)) : Tail(s)[j] = s[j + 1]
  BY HeadTailProperties
<1>3. i # 1
  BY <1>1
<1>4. i - 1 \in 1..Len(Tail(s)) /\ Tail(s)[i - 1] = e
  BY <1>1, <1>2, <1>3
<1> QED
  BY <1>4 DEF Contains

\* A step that parks nothing, connects nobody who has parked requests and
\* ends no dial keeps the invariant.
LEMMA ParkedFrame ==
    ASSUME TypeOK, ParkedRequestsAwaitDial,
           NEW t \in Seq(BehaviourActions), pending_events' = pending_events \o t,
           \A q \in Peers :
              pending_outbound_requests'[q] # <<>> =>
                 /\ pending_outbound_requests[q] # <<>>
                 /\ pool'[q] \subseteq pool[q]
                 /\ dialing'[q] = dialing[q]
    PROVE  ParkedRequestsAwaitDial'
<1> SUFFICES ASSUME NEW q \in Peers, pending_outbound_requests'[q] # <<>>
             PROVE  /\ pool'[q] = {}
                    /\ dialing'[q] > 0 \/ Contains(pending_events', Dial(q))
  BY DEF ParkedRequestsAwaitDial, Dial
<1>1. /\ pool[q] = {}
      /\ dialing[q] > 0 \/ Contains(pending_events, Dial(q))
  BY DEF ParkedRequestsAwaitDial
<1>2. Contains(pending_events, Dial(q)) => Contains(pending_events', Dial(q))
  BY ContainsConcat DEF TypeOK
<1> QED
  BY <1>1, <1>2

\* No step strands a parked request: what sends or fails the requests of a
\* peer takes all of them, and a dial stays until it has done so.
LEMMA ParkedStep ==
    TypeOK /\ ConnInv /\ ParkedRequestsAwaitDial /\ [Next]_vars
       => ParkedRequestsAwaitDial'
<1> SUFFICES ASSUME TypeOK, ConnInv, ParkedRequestsAwaitDial, [Next]_vars
             PROVE  ParkedRequestsAwaitDial'
  OBVIOUS
<1>1. ASSUME QueuesEvents, UNCHANGED dialing,
             \A q \in Peers : pool'[q] \subseteq pool[q],
             \A q \in Peers : pending_outbound_requests'[q] \in
                                {<<>>, pending_outbound_requests[q]}
      PROVE  ParkedRequestsAwaitDial'
  <2>1. PICK t \in Seq(EventActions) : pending_events' = pending_events \o t
    BY <1>1 DEF QueuesEvents
  <2> QED
    BY <1>1, <2>1, EventsAreActions, ParkedFrame
<1>2. ASSUME NEW p \in Peers, SendRequest(p) PROVE ParkedRequestsAwaitDial'
  <2> DEFINE r == next_request_id
  <2>1. r \in RequestIds /\ <<r>> \in Seq(RequestIds) /\ UNCHANGED <<pool, dialing>>
    BY <1>2 DEF SendRequest, swarmVars
  <2>2. CASE connected[p] # <<>>
    <3>1. Notifications(p, connected[p], <<r>>) \in Seq(BehaviourActions)
      BY <2>1, <2>2, NotificationsType DEF TypeOK
    <3>2. /\ pending_events' = pending_events \o Notifications(p, connected[p], <<r>>)
          /\ UNCHANGED pending_outbound_requests
      BY <1>2, <2>2 DEF SendRequest
    <3> QED
      BY <2>1, <3>1, <3>2, ParkedFrame
  <2>3. CASE connected[p] = <<>>
    <3>1. /\ pending_events' = Append(pending_events, Dial(p))
          /\ pending_outbound_requests' =
                [pending_outbound_requests EXCEPT ![p] = Append(@, r)]
      BY <1>2, <2>3 DEF SendRequest
    <3>2. pool[p] = {}
      BY <2>3 DEF ConnInv, ConnectedMirrorsPool, ToSet
    <3>3. Dial(p) \in BehaviourActions
      BY DEF Dial, BehaviourActions, DialActions
    <3>4. pending_events \in Seq(BehaviourActions)
      BY DEF TypeOK
    <3>5. Contains(pending_events', Dial(p))
      BY <3>1, <3>3, <3>4, AppendProperties DEF Contains
    <3>6. pending_events' = pending_events \o <<Dial(p)>>
          /\ <<Dial(p)>> \in Seq(BehaviourActions)
      BY <3>1, <3>3, <3>4, AppendIsConcat
    <3>7. \A q \in Peers : Contains(pending_events, Dial(q))
                             => Contains(pending_events', Dial(q))
      BY <3>4, <3>6, ContainsConcat
    <3> SUFFICES ASSUME NEW q \in Peers, pending_outbound_requests'[q] # <<>>
                 PROVE  /\ pool'[q] = {}
                        /\ dialing'[q] > 0 \/ Contains(pending_events', Dial(q))
      BY DEF ParkedRequestsAwaitDial, Dial
    <3>8. CASE q = p
      BY <2>1, <3>2, <3>5, <3>8
    <3>9. CASE q # p
      <4>1. pending_outbound_requests[q] # <<>>
        BY <3>1, <3>9 DEF TypeOK
      <4> QED
        BY <2>1, <3>7, <4>1 DEF ParkedRequestsAwaitDial
    <3> QED
      BY <3>8, <3>9
  <2> QED
    BY <2>2, <2>3
<1>3. ASSUME NEW p \in Peers, NEW c \in ConnectionIds,
             EstablishConnection(p, c),
             \A q \in Peers \ {p} : dialing'[q] = dialing[q]
      PROVE  ParkedRequestsAwaitDial'
  <2> DEFINE conns == WithConnection(connected[p], c)
             pending == IF pool[p] = {} THEN pending_outbound_requests[p] ELSE <<>>
  <2>1. OnConnectionEstablished(p, c, pool[p])
    BY <1>3 DEF EstablishConnection
  <2>2. pending_events' = pending_events \o Notifications(p, conns, pending)
    BY <2>1 DEF OnConnectionEstablished
  <2>3. pending_outbound_requests'[p] = <<>>
    <3>1. CASE pool[p] = {}
      BY <2>1, <3>1 DEF OnConnectionEstablished, TypeOK
    <3>2. CASE pool[p] # {}
      BY <2>1, <3>2 DEF OnConnectionEstablished, ParkedRequestsAwaitDial
    <3> QED
      BY <3>1, <3>2
  <2>4. \A q \in Peers \ {p} :
           /\ pending_outbound_requests'[q] = pending_outbound_requests[q]
           /\ pool'[q] = pool[q]
    BY <1>3, <2>1 DEF EstablishConnection, OnConnectionEstablished, TypeOK
  <2>5. Notifications(p, conns, pending) \in Seq(BehaviourActions)
    <3>1. conns \in Seq(ConnectionIds) /\ conns # <<>>
      <4>1. connected[p] \in Seq(ConnectionIds) /\ conns = Append(connected[p], c)
        BY DEF TypeOK, WithConnection
      <4> QED
        BY <4>1, AppendProperties
    <3>2. pending \in Seq(RequestIds)
      BY DEF TypeOK
    <3> HIDE DEF conns, pending
    <3> QED
      BY <3>1, <3>2, NotificationsType
  <2> QED
    <3> HIDE DEF conns, pending
    <3> QED BY <1>3, <2>2, <2>3, <2>4, <2>5, ParkedFrame
<1>4. ASSUME NEW p \in Peers, OneDialFailure(p, pending_events), UNCHANGED pool,
             \A q \in Peers \ {p} : dialing'[q] = dialing[q]
      PROVE  ParkedRequestsAwaitDial'
  <2>1. PICK t \in Seq(EventActions) : pending_events' = pending_events \o t
    BY <1>4, DialFailureQueues DEF QueuesEvents
  <2>2. /\ pending_outbound_requests'[p] = <<>>
        /\ \A q \in Peers \ {p} :
              pending_outbound_requests'[q] = pending_outbound_requests[q]
    BY <1>4 DEF OneDialFailure, TypeOK
  <2> QED
    BY <1>4, <2>1, <2>2, EventsAreActions, ParkedFrame
<1>5. ASSUME NEW p \in Peers, DialFails(p) PROVE ParkedRequestsAwaitDial'
  BY <1>4, <1>5 DEF DialFails, TypeOK
<1>6. ASSUME NEW p \in Peers, OtherDialFails(p) PROVE ParkedRequestsAwaitDial'
  BY <1>4, <1>6 DEF OtherDialFails, swarmVars
<1>7. ASSUME NEW p \in Peers, NEW c \in ConnectionIds, CloseConnection(p, c)
      PROVE  ParkedRequestsAwaitDial'
  <2>1. QueuesEvents /\ UNCHANGED pending_outbound_requests
    BY <1>7, CloseQueues
  <2>2. UNCHANGED dialing /\ \A q \in Peers : pool'[q] \subseteq pool[q]
    BY <1>7 DEF CloseConnection, Contract!Close, TypeOK
  <2> QED
    BY <1>1, <2>1, <2>2
<1>8. ASSUME UNCHANGED <<pending_outbound_requests, pool, dialing, pending_events>>
      PROVE  ParkedRequestsAwaitDial'
  BY <1>8 DEF ParkedRequestsAwaitDial, Contains, Dial
<1>9. ASSUME NEW p \in Peers, NEW c \in ConnectionIds, ChangeAddress(p, c)
      PROVE  ParkedRequestsAwaitDial'
  BY <1>8, <1>9 DEF ChangeAddress, OnAddressChange, swarmVars
<1>10. ASSUME Handlers PROVE ParkedRequestsAwaitDial'
  <2>1. QueuesEvents /\ UNCHANGED <<pending_outbound_requests, pool, dialing>>
    BY <1>10, HandlersQueue
  <2> QED
    BY <1>1, <2>1
<1>11. ASSUME PollNotify \/ PollEvent PROVE ParkedRequestsAwaitDial'
  <2>1. /\ pending_events # <<>>
        /\ Head(pending_events).type # "Dial"
        /\ pending_events' = Tail(pending_events)
        /\ UNCHANGED <<pending_outbound_requests, pool, dialing>>
    BY <1>11 DEF PollNotify, Contract!Take, handlerVars, PollEvent, swarmVars
  <2>2. \A q \in Peers : Dial(q) # Head(pending_events)
    BY <2>1 DEF Dial
  <2>3. \A q \in Peers : Contains(pending_events, Dial(q))
                           => Contains(pending_events', Dial(q))
    BY <2>1, <2>2, ContainsTail DEF TypeOK
  <2> QED
    BY <2>1, <2>3 DEF ParkedRequestsAwaitDial, Dial
<1>12. ASSUME PollDial PROVE ParkedRequestsAwaitDial'
  <2> DEFINE e == Head(pending_events)
  <2>1. /\ pending_events # <<>>
        /\ e.type = "Dial"
        /\ UNCHANGED pool
    BY <1>12 DEF PollDial
  <2>2. e \in BehaviourActions /\ Tail(pending_events) \in Seq(BehaviourActions)
    BY <2>1, HeadTailProperties DEF TypeOK
  <2>3. e.peer \in Peers
    BY <2>1, <2>2 DEF BehaviourActions, DialActions, NotifyActions, EventActions
  <2>4. \A q \in Peers \ {e.peer} : Dial(q) # e
    BY DEF Dial
  <2>5. \A q \in Peers \ {e.peer} : Contains(pending_events, Dial(q))
                                     => Contains(Tail(pending_events), Dial(q))
    BY <2>1, <2>4, ContainsTail DEF TypeOK
  <2>6. CASE /\ dialing' = [dialing EXCEPT ![e.peer] = @ + 1]
             /\ pending_events' = Tail(pending_events)
             /\ UNCHANGED pending_outbound_requests
             /\ pool[e.peer] = {}
    <3> SUFFICES ASSUME NEW q \in Peers, pending_outbound_requests'[q] # <<>>
                 PROVE  /\ pool'[q] = {}
                        /\ dialing'[q] > 0 \/ Contains(pending_events', Dial(q))
      BY DEF ParkedRequestsAwaitDial, Dial
    <3>1. CASE q = e.peer
      <4>1. dialing'[q] = dialing[q] + 1 /\ dialing[q] \in Nat
        BY <2>3, <2>6, <3>1 DEF TypeOK
      <4> QED
        BY <2>1, <2>6, <3>1, <4>1
    <3>2. CASE q # e.peer
      <4>1. dialing'[q] = dialing[q]
        BY <2>3, <2>6, <3>2 DEF TypeOK
      <4> QED
        BY <2>1, <2>5, <2>6, <3>2, <4>1 DEF ParkedRequestsAwaitDial
    <3> QED
      BY <3>1, <3>2
  <2>7. CASE OneDialFailure(e.peer, Tail(pending_events)) /\ UNCHANGED dialing
    <3>1. /\ pending_events' = Tail(pending_events) \o DialFailureEvents(e.peer)
          /\ pending_outbound_requests' =
                [pending_outbound_requests EXCEPT ![e.peer] = <<>>]
      BY <2>7 DEF OneDialFailure
    <3>2. DialFailureEvents(e.peer) \in Seq(BehaviourActions)
      BY <2>3, DialFailureEventsType DEF TypeOK
    <3> SUFFICES ASSUME NEW q \in Peers, pending_outbound_requests'[q] # <<>>
                 PROVE  /\ pool'[q] = {}
                        /\ dialing'[q] > 0 \/ Contains(pending_events', Dial(q))
      BY DEF ParkedRequestsAwaitDial, Dial
    <3>3. q # e.peer /\ pending_outbound_requests[q] # <<>>
      BY <2>3, <3>1 DEF TypeOK
    <3>4. Contains(Tail(pending_events), Dial(q)) => Contains(pending_events', Dial(q))
      BY <2>2, <3>1, <3>2, ContainsConcat
    <3> QED
      BY <2>1, <2>5, <2>7, <3>3, <3>4 DEF ParkedRequestsAwaitDial
  <2> QED
    BY <1>12, <2>6, <2>7 DEF PollDial
<1>13. ASSUME NEW p \in Peers, NEW c \in ConnectionIds,
              DialSucceeds(p, c) \/ ConnectionArrives(p, c)
       PROVE  ParkedRequestsAwaitDial'
  <2>1. EstablishConnection(p, c)
    BY <1>13 DEF DialSucceeds, ConnectionArrives
  <2>2. \A q \in Peers \ {p} : dialing'[q] = dialing[q]
    BY <1>13 DEF DialSucceeds, ConnectionArrives, TypeOK
  <2> QED
    BY <1>3, <2>1, <2>2
<1>14. CASE UNCHANGED vars
  BY <1>8, <1>14 DEF vars
<1> QED
  BY <1>2, <1>5, <1>6, <1>7, <1>9, <1>10, <1>11, <1>12, <1>13, <1>14
  DEF Next, Connections, Poll

\* No request is ever parked without a dial that will decide its fate.
THEOREM ParkedRequestsAreDialed == Spec => []ParkedRequestsAwaitDial
<1>1. Init => ParkedRequestsAwaitDial
  BY DEF Init, ParkedRequestsAwaitDial
<1> QED
  BY <1>1, ParkedStep, TypeCorrect, ConnInvariant, PTL DEF Spec

-----------------------------------------------------------------------------
(***************************************************************************)
(* Requests.                                                               *)
(*                                                                         *)
(* No assertion of FileGet fails: a handler only answers a request that is *)
(* pending on its connection.  An id goes from the list of parked requests *)
(* or from send_request through the queue to the handler, is in at most    *)
(* one of these places at a time, and from the moment it is queued for an  *)
(* established connection it is recorded as pending there.                 *)
(*                                                                         *)
(* Requests to a peer leave in their order, and the application is told    *)
(* the fate of each exactly once.                                          *)
(***************************************************************************)

\* The notifications in a queue.
Notified(queue) == {e \in ToSet(queue) : e.type = "NotifyHandler"}

\* No request is in a queue twice.
DistinctNotified(queue) ==
    \A i, j \in DOMAIN queue :
        (/\ queue[i].type = "NotifyHandler"
         /\ queue[j].type = "NotifyHandler"
         /\ queue[i].request = queue[j].request) => i = j

\* What a handler works on is pending on its connection.
HandlersTracked ==
    \A c \in ConnectionIds :
        /\ held[c] \subseteq pending_inbound_responses[c]
        /\ requested[c] \subseteq pending_outbound_responses[c]
        /\ c \notin used => held[c] = {} /\ requested[c] = {}
        /\ \A r \in held[c] : r < next_request_id

\* A request queued for a handler was not handed out before, and is pending
\* on the connection unless that is gone.
QueueTracked ==
    /\ DistinctNotified(pending_events)
    /\ \A e \in Notified(pending_events) :
         /\ e.conn \in used
         /\ e.request < next_request_id
         /\ \A c \in ConnectionIds : e.request \notin held[c]
         /\ e.conn \in pool[e.peer] =>
               e.request \in pending_inbound_responses[e.conn]

\* A parked request is neither queued nor handed out, and parked once.
ParkedTracked ==
    /\ \A p \in Peers : IsInjective(pending_outbound_requests[p])
    /\ \A p \in Peers : \A r \in ToSet(pending_outbound_requests[p]) :
         /\ r < next_request_id
         /\ \A c \in ConnectionIds : r \notin held[c]
         /\ \A e \in Notified(pending_events) : e.request # r
         /\ \A q \in Peers : r \in ToSet(pending_outbound_requests[q]) => p = q

PanicInv == HandlersTracked /\ QueueTracked /\ ParkedTracked /\ NoPanic
-----------------------------------------------------------------------------
(***************************************************************************)
(* Queues.                                                                 *)
(***************************************************************************)

\* The notifications of a concatenation.
LEMMA NotifiedConcat ==
    ASSUME NEW s \in Seq(BehaviourActions), NEW t \in Seq(BehaviourActions)
    PROVE  Notified(s \o t) = Notified(s) \cup Notified(t)
<1>1. ToSet(s \o t) = ToSet(s) \cup ToSet(t)
  BY ToSetConcat
<1> QED
  BY <1>1 DEF Notified

\* Two queues without repetitions and with different requests.
LEMMA DistinctConcat ==
    ASSUME NEW S, NEW s \in Seq(S), NEW t \in Seq(S),
           DistinctNotified(s), DistinctNotified(t),
           \A a \in Notified(s), b \in Notified(t) : a.request # b.request
    PROVE  DistinctNotified(s \o t)
<1> DEFINE u == s \o t
<1>1. /\ u \in Seq(S)
      /\ Len(u) = Len(s) + Len(t)
      /\ \A i \in 1..(Len(s) + Len(t)) :
            u[i] = IF i <= Len(s) THEN s[i] ELSE t[i - Len(s)]
  BY ConcatProperties
<1> HIDE DEF u
<1>2. /\ DOMAIN u = 1..(Len(s) + Len(t))
      /\ DOMAIN s = 1..Len(s)
      /\ DOMAIN t = 1..Len(t)
      /\ Len(s) \in Nat
      /\ Len(t) \in Nat
  BY <1>1
<1> SUFFICES ASSUME NEW i \in DOMAIN u, NEW j \in DOMAIN u, i <= j,
                    u[i].type = "NotifyHandler", u[j].type = "NotifyHandler",
                    u[i].request = u[j].request
             PROVE  i = j
  BY <1>2 DEF DistinctNotified, u
<1>3. CASE j <= Len(s)
  <2>1. i \in DOMAIN s /\ j \in DOMAIN s /\ u[i] = s[i] /\ u[j] = s[j]
    BY <1>1, <1>2, <1>3
  <2> QED
    BY <2>1 DEF DistinctNotified
<1>4. CASE i > Len(s)
  <2>1. /\ i - Len(s) \in DOMAIN t
        /\ j - Len(s) \in DOMAIN t
        /\ u[i] = t[i - Len(s)]
        /\ u[j] = t[j - Len(s)]
    BY <1>1, <1>2, <1>4
  <2>2. i - Len(s) = j - Len(s)
    BY <2>1 DEF DistinctNotified
  <2> QED
    BY <1>2, <2>2
<1>5. CASE i <= Len(s) /\ j > Len(s)
  <2>1. i \in DOMAIN s /\ u[i] = s[i] /\ j - Len(s) \in DOMAIN t /\ u[j] = t[j - Len(s)]
    BY <1>1, <1>2, <1>5
  <2>2. u[i] \in Notified(s) /\ u[j] \in Notified(t)
    BY <2>1 DEF Notified, ToSet
  <2> QED
    BY <2>2
<1> QED
  BY <1>2, <1>3, <1>4, <1>5

\* Events are no notifications.
LEMMA EventsNotNotified ==
    ASSUME NEW t \in Seq(EventActions)
    PROVE  Notified(t) = {} /\ DistinctNotified(t)
<1>1. \A i \in DOMAIN t : t[i] \in EventActions
  OBVIOUS
<1>2. \A i \in DOMAIN t : t[i].type = "GenerateEvent"
  BY <1>1 DEF EventActions
<1> QED
  BY <1>2 DEF Notified, DistinctNotified, ToSet

\* Taking the first action off the queue.
LEMMA TailNotified ==
    ASSUME NEW S, NEW s \in Seq(S), s # <<>>, DistinctNotified(s)
    PROVE  /\ Notified(Tail(s)) \subseteq Notified(s)
           /\ DistinctNotified(Tail(s))
           /\ Head(s).type = "NotifyHandler" =>
                 /\ Head(s) \in Notified(s)
                 /\ \A e \in Notified(Tail(s)) : e.request # Head(s).request
<1>1. /\ Tail(s) \in Seq(S)
      /\ Len(Tail(s)) = Len(s) - 1
      /\ \A i \in 1..Len(Tail(s)) : Tail(s)[i] = s[i + 1]
  BY HeadTailProperties
<1>2. /\ Len(s) \in Nat \ {0}
      /\ DOMAIN s = 1..Len(s)
      /\ DOMAIN Tail(s) = 1..(Len(s) - 1)
      /\ Head(s) = s[1]
  BY <1>1
<1>3. ASSUME NEW e \in Notified(Tail(s))
      PROVE  /\ e \in Notified(s)
             /\ Head(s).type = "NotifyHandler" => e.request # Head(s).request
  <2>1. PICK i \in DOMAIN Tail(s) : e = Tail(s)[i] /\ e.type = "NotifyHandler"
    BY DEF Notified, ToSet
  <2>2. i + 1 \in DOMAIN s /\ e = s[i + 1] /\ 1 \in DOMAIN s /\ i + 1 # 1
    BY <1>1, <1>2, <2>1
  <2>3. e \in Notified(s)
    BY <2>1, <2>2 DEF Notified, ToSet
  <2> QED
    BY <1>2, <2>1, <2>2, <2>3 DEF DistinctNotified
<1>4. DistinctNotified(Tail(s))
  <2> SUFFICES ASSUME NEW i \in DOMAIN Tail(s), NEW j \in DOMAIN Tail(s),
                      Tail(s)[i].type = "NotifyHandler",
                      Tail(s)[j].type = "NotifyHandler",
                      Tail(s)[i].request = Tail(s)[j].request
               PROVE  i = j
    BY DEF DistinctNotified
  <2>1. /\ i + 1 \in DOMAIN s
        /\ j + 1 \in DOMAIN s
        /\ Tail(s)[i] = s[i + 1]
        /\ Tail(s)[j] = s[j + 1]
    BY <1>1, <1>2
  <2>2. i + 1 = j + 1
    BY <2>1 DEF DistinctNotified
  <2> QED
    BY <1>2, <2>2
<1>5. Head(s).type = "NotifyHandler" => Head(s) \in Notified(s)
  BY <1>2 DEF Notified, ToSet
<1> QED
  BY <1>3, <1>4, <1>5

\* What try_send_request queues for requests without repetitions.
LEMMA NotificationsNotified ==
    ASSUME NEW p, NEW conns, NEW rs \in Seq(RequestIds), IsInjective(rs)
    PROVE  /\ Notified(Notifications(p, conns, rs)) =
                 {NotifyHandler(p, Target(conns, r), r) : r \in ToSet(rs)}
           /\ DistinctNotified(Notifications(p, conns, rs))
<1> DEFINE t == Notifications(p, conns, rs)
<1>1. /\ DOMAIN t = DOMAIN rs
      /\ \A i \in DOMAIN rs : t[i] = NotifyHandler(p, Target(conns, rs[i]), rs[i])
  BY DEF Notifications
<1>2. \A i \in DOMAIN rs : t[i].type = "NotifyHandler" /\ t[i].request = rs[i]
  BY <1>1 DEF NotifyHandler
<1> HIDE DEF t
<1>3. DistinctNotified(t)
  BY <1>1, <1>2 DEF DistinctNotified, IsInjective
<1>4. Notified(t) = {NotifyHandler(p, Target(conns, r), r) : r \in ToSet(rs)}
  BY <1>1, <1>2 DEF Notified, ToSet
<1> QED
  BY <1>3, <1>4 DEF t

\* What try_send_request queues names the peer and a request it was given.
LEMMA NotifiedFields ==
    ASSUME NEW p, NEW conns, NEW rs \in Seq(RequestIds)
    PROVE  \A e \in Notified(Notifications(p, conns, rs)) :
              e.peer = p /\ e.request \in ToSet(rs)
BY DEF Notified, Notifications, NotifyHandler, ToSet

\* The fields of a queued notification.
LEMMA NotifiedType ==
    ASSUME TypeOK, NEW e \in Notified(pending_events)
    PROVE  e.peer \in Peers /\ e.conn \in ConnectionIds /\ e.request \in RequestIds
<1>1. PICK i \in DOMAIN pending_events :
        e = pending_events[i] /\ e.type = "NotifyHandler"
  BY DEF Notified, ToSet
<1>2. e \in BehaviourActions
  BY <1>1 DEF TypeOK
<1> QED
  BY <1>1, <1>2 DEF BehaviourActions, DialActions, NotifyActions, EventActions

\* Queueing events leaves the notifications as they are.
LEMMA QueuesNothingNotified ==
    ASSUME TypeOK, DistinctNotified(pending_events), QueuesEvents
    PROVE  /\ Notified(pending_events') = Notified(pending_events)
           /\ DistinctNotified(pending_events')
<1>1. PICK t \in Seq(EventActions) : pending_events' = pending_events \o t
  BY DEF QueuesEvents
<1>2. t \in Seq(BehaviourActions) /\ Notified(t) = {} /\ DistinctNotified(t)
  BY EventsAreActions, EventsNotNotified
<1>3. pending_events \in Seq(BehaviourActions)
  BY DEF TypeOK
<1>4. Notified(pending_events \o t) = Notified(pending_events) \cup Notified(t)
  BY <1>2, <1>3, NotifiedConcat
<1>5. DistinctNotified(pending_events \o t)
  BY <1>2, <1>3, DistinctConcat
<1> QED
  BY <1>1, <1>2, <1>4, <1>5

-----------------------------------------------------------------------------
(***************************************************************************)
(* The invariant is inductive.                                             *)
(***************************************************************************)

\* A step that queues no notification, hands out no request and parks none
\* keeps what is known of queued and parked requests, if requests queued for
\* a connection that stays remain pending there.
LEMMA TrackedFrame ==
    ASSUME TypeOK, PanicInv,
           DistinctNotified(pending_events'),
           Notified(pending_events') \subseteq Notified(pending_events),
           used \subseteq used',
           next_request_id' = next_request_id,
           \A c \in ConnectionIds : held'[c] \subseteq held[c],
           \A e \in Notified(pending_events) :
              e.conn \in pool'[e.peer] =>
                 /\ e.conn \in pool[e.peer]
                 /\ e.request \in pending_inbound_responses[e.conn] =>
                       e.request \in pending_inbound_responses'[e.conn],
           \A p \in Peers : pending_outbound_requests'[p] \in
                              {<<>>, pending_outbound_requests[p]}
    PROVE  QueueTracked' /\ ParkedTracked'
<1>1. QueueTracked'
  BY DEF PanicInv, QueueTracked
<1>2. ASSUME NEW p \in Peers
      PROVE  /\ IsInjective(pending_outbound_requests'[p])
             /\ ToSet(pending_outbound_requests'[p])
                   \subseteq ToSet(pending_outbound_requests[p])
  <2>1. CASE pending_outbound_requests'[p] = <<>>
    BY <2>1 DEF IsInjective, ToSet
  <2>2. CASE pending_outbound_requests'[p] = pending_outbound_requests[p]
    BY <2>2 DEF PanicInv, ParkedTracked
  <2> QED
    BY <2>1, <2>2
<1>3. ParkedTracked'
  BY <1>2, ZenonT(30) DEF PanicInv, ParkedTracked
<1> QED
  BY <1>1, <1>3

\* send_request.
LEMMA PanicSend ==
    ASSUME TypeOK, ConnInv, PanicInv, NEW p \in Peers, SendRequest(p)
    PROVE  PanicInv'
<1> DEFINE r == next_request_id
<1> USE BoundsAssumption
<1>1. /\ r \in RequestIds
      /\ r \in Nat
      /\ next_request_id' = r + 1
      /\ <<r>> \in Seq(RequestIds)
      /\ UNCHANGED <<held, requested, used, pool, panicked, pending_outbound_responses>>
  BY DEF SendRequest, NextId, RequestIds, handlerVars, swarmVars
<1>2. RequestIds \subseteq Nat
  BY DEF RequestIds
<1>3. /\ \A e \in Notified(pending_events) : e.request < r /\ e.request \in Nat
      /\ \A c \in ConnectionIds : \A x \in held[c] : x < r /\ x \in Nat
      /\ \A q \in Peers : \A x \in ToSet(pending_outbound_requests[q]) : x < r /\ x \in Nat
  <2>1. \A e \in Notified(pending_events) : e.request < r /\ e.request \in Nat
    BY <1>2, NotifiedType DEF PanicInv, QueueTracked
  <2>2. \A c \in ConnectionIds : \A x \in held[c] : x < r /\ x \in Nat
    BY <1>2 DEF PanicInv, HandlersTracked, TypeOK
  <2>3. \A q \in Peers : \A x \in ToSet(pending_outbound_requests[q]) : x < r /\ x \in Nat
    <3>1. \A q \in Peers : ToSet(pending_outbound_requests[q]) \subseteq RequestIds
      BY DEF TypeOK, ToSet
    <3> QED
      BY <1>2, <3>1 DEF PanicInv, ParkedTracked
  <2> QED
    BY <2>1, <2>2, <2>3
<1>4. NoPanic'
  BY <1>1 DEF PanicInv, NoPanic
<1>5. CASE connected[p] # <<>>
  <2> DEFINE conns == connected[p]
             c == Target(conns, r)
             t == Notifications(p, conns, <<r>>)
  <2>1. /\ pending_events' = pending_events \o t
        /\ pending_inbound_responses' =
              Dispatched(pending_inbound_responses, conns, <<r>>)
        /\ UNCHANGED pending_outbound_requests
    BY <1>5 DEF SendRequest
  <2>2. conns \in Seq(ConnectionIds) /\ conns # <<>> /\ ToSet(conns) = pool[p]
    BY <1>5 DEF TypeOK, ConnInv, ConnectedMirrorsPool
  <2>3. c \in pool[p] /\ c \in ConnectionIds /\ c \in used
    BY <1>1, <2>2, TargetType DEF ConnInv, PoolOwnership
  <2>4. ToSet(<<r>>) = {r} /\ IsInjective(<<r>>)
    BY DEF ToSet, IsInjective
  <2>5. /\ Notified(t) = {NotifyHandler(p, c, r)}
        /\ DistinctNotified(t)
        /\ t \in Seq(BehaviourActions)
    <3>1. /\ Notified(t) = {NotifyHandler(p, Target(conns, x), x) : x \in ToSet(<<r>>)}
          /\ DistinctNotified(t)
      BY <1>1, <2>4, NotificationsNotified
    <3>2. t \in Seq(BehaviourActions)
      BY <1>1, <2>2, NotificationsType
    <3> QED
      BY <2>4, <3>1, <3>2
  <2>6. /\ \A d \in ConnectionIds :
              pending_inbound_responses[d] \subseteq pending_inbound_responses'[d]
        /\ r \in pending_inbound_responses'[c]
    BY <2>1, <2>3, <2>4 DEF Dispatched
  <2> HIDE DEF conns, c, t
  <2>7. /\ Notified(pending_events') = Notified(pending_events) \cup {NotifyHandler(p, c, r)}
        /\ DistinctNotified(pending_events')
    <3>1. pending_events \in Seq(BehaviourActions) /\ DistinctNotified(pending_events)
      BY DEF TypeOK, PanicInv, QueueTracked
    <3>2. \A a \in Notified(pending_events), b \in Notified(t) : a.request # b.request
      BY <1>1, <1>3, <2>5 DEF NotifyHandler
    <3>3. DistinctNotified(pending_events \o t)
      BY <2>5, <3>1, <3>2, DistinctConcat
    <3>4. Notified(pending_events \o t) = Notified(pending_events) \cup Notified(t)
      BY <2>5, <3>1, NotifiedConcat
    <3> QED
      BY <2>1, <2>5, <3>3, <3>4
  <2>8. HandlersTracked'
    BY <1>1, <1>3, <2>6 DEF PanicInv, HandlersTracked
  <2>9. QueueTracked'
    <3> SUFFICES ASSUME NEW e \in Notified(pending_events')
                 PROVE  /\ e.conn \in used
                        /\ e.request < r + 1
                        /\ \A d \in ConnectionIds : e.request \notin held[d]
                        /\ e.conn \in pool[e.peer] =>
                              e.request \in pending_inbound_responses'[e.conn]
      BY <1>1, <2>7 DEF QueueTracked
    <3>1. CASE e \in Notified(pending_events)
      BY <1>1, <1>3, <2>6, <3>1, NotifiedType DEF PanicInv, QueueTracked
    <3>2. CASE e = NotifyHandler(p, c, r)
      <4>1. e.conn = c /\ e.request = r /\ e.peer = p
        BY <3>2 DEF NotifyHandler
      <4>2. \A d \in ConnectionIds : r \notin held[d]
        BY <1>1, <1>3
      <4> QED
        BY <1>1, <2>3, <2>6, <4>1, <4>2
    <3> QED
      BY <2>7, <3>1, <3>2
  <2>10. ParkedTracked'
    <3>1. \A q \in Peers : \A x \in ToSet(pending_outbound_requests[q]) :
             /\ x < r + 1
             /\ \A e \in Notified(pending_events') : e.request # x
      BY <1>1, <1>3, <2>7 DEF PanicInv, ParkedTracked, NotifyHandler
    <3> QED
      BY <1>1, <2>1, <3>1 DEF PanicInv, ParkedTracked
  <2> QED
    BY <1>4, <2>8, <2>9, <2>10 DEF PanicInv
<1>6. CASE connected[p] = <<>>
  <2>1. /\ pending_events' = Append(pending_events, Dial(p))
        /\ pending_outbound_requests' =
              [pending_outbound_requests EXCEPT ![p] = Append(pending_outbound_requests[p], r)]
        /\ UNCHANGED pending_inbound_responses
    BY <1>6 DEF SendRequest
  <2>2. pending_events \in Seq(BehaviourActions) /\ DistinctNotified(pending_events)
    BY DEF TypeOK, PanicInv, QueueTracked
  <2>3. /\ Dial(p) \in BehaviourActions
        /\ <<Dial(p)>> \in Seq(BehaviourActions)
        /\ Notified(<<Dial(p)>>) = {}
        /\ DistinctNotified(<<Dial(p)>>)
    BY DEF Dial, BehaviourActions, DialActions, Notified, DistinctNotified, ToSet
  <2>4. pending_events' = pending_events \o <<Dial(p)>>
    BY <2>1, <2>2, <2>3, AppendIsConcat
  <2>5. DistinctNotified(pending_events')
    BY <2>2, <2>3, <2>4, DistinctConcat
  <2>6. Notified(pending_events') = Notified(pending_events)
    <3>1. Notified(pending_events \o <<Dial(p)>>) =
            Notified(pending_events) \cup Notified(<<Dial(p)>>)
      BY <2>2, <2>3, NotifiedConcat
    <3> QED
      BY <2>3, <2>4, <3>1
  <2>7. HandlersTracked'
    BY <1>1, <1>3, <2>1 DEF PanicInv, HandlersTracked
  <2>8. QueueTracked'
    BY <1>1, <1>3, <2>1, <2>5, <2>6 DEF PanicInv, QueueTracked
  <2>9. ParkedTracked'
    <3>1. /\ pending_outbound_requests[p] \in Seq(RequestIds)
          /\ IsInjective(pending_outbound_requests[p])
          /\ r \notin ToSet(pending_outbound_requests[p])
      BY <1>1, <1>3 DEF TypeOK, PanicInv, ParkedTracked
    <3>2. /\ ToSet(pending_outbound_requests'[p]) =
                ToSet(pending_outbound_requests[p]) \cup {r}
          /\ IsInjective(pending_outbound_requests'[p])
      BY <1>1, <2>1, <3>1, ToSetAppend, InjectiveAppend DEF TypeOK
    <3>3. \A q \in Peers \ {p} :
             pending_outbound_requests'[q] = pending_outbound_requests[q]
      BY <2>1 DEF TypeOK
    <3>4. \A q \in Peers : IsInjective(pending_outbound_requests'[q])
      BY <3>2, <3>3 DEF PanicInv, ParkedTracked
    <3>5. ASSUME NEW q \in Peers, NEW x \in ToSet(pending_outbound_requests'[q])
          PROVE  /\ x < r + 1
                 /\ \A c \in ConnectionIds : x \notin held[c]
                 /\ \A e \in Notified(pending_events) : e.request # x
                 /\ \A s \in Peers : x \in ToSet(pending_outbound_requests'[s]) => q = s
      <4>1. CASE x = r
        <5>1. /\ \A c \in ConnectionIds : x \notin held[c]
              /\ \A e \in Notified(pending_events) : e.request # x
              /\ \A s \in Peers : x \notin ToSet(pending_outbound_requests[s])
          BY <1>1, <1>3, <4>1
        <5> QED
          BY <1>1, <3>2, <3>3, <4>1, <5>1
      <4>2. CASE x # r
        <5>1. x \in ToSet(pending_outbound_requests[q])
          BY <3>2, <3>3, <4>2
        <5>2. \A s \in Peers : x \in ToSet(pending_outbound_requests'[s])
                                 => x \in ToSet(pending_outbound_requests[s])
          BY <3>2, <3>3, <4>2
        <5> QED
          BY <1>1, <1>3, <5>1, <5>2 DEF PanicInv, ParkedTracked
      <4> QED
        BY <4>1, <4>2
    <3> QED
      BY <1>1, <2>6, <3>4, <3>5 DEF ParkedTracked
  <2> QED
    BY <1>4, <2>7, <2>8, <2>9 DEF PanicInv
<1> QED
  BY <1>5, <1>6

\* on_connection_established.
LEMMA PanicEstablish ==
    ASSUME TypeOK, ConnInv, PanicInv, NEW p \in Peers, NEW c \in ConnectionIds,
           EstablishConnection(p, c)
    PROVE  PanicInv'
<1> DEFINE conns == WithConnection(connected[p], c)
           rs == IF pool[p] = {} THEN pending_outbound_requests[p] ELSE <<>>
           fresh == [pending_inbound_responses EXCEPT ![c] = {}]
           t == Notifications(p, conns, rs)
           new == {NotifyHandler(p, Target(conns, r), r) : r \in ToSet(rs)}
<1> USE BoundsAssumption
<1>1. /\ c \notin used
      /\ used' = used \cup {c}
      /\ pool' = [pool EXCEPT ![p] = @ \cup {c}]
      /\ OnConnectionEstablished(p, c, pool[p])
      /\ UNCHANGED <<held, requested>>
  BY DEF EstablishConnection, handlerVars
<1>2. /\ pending_inbound_responses' = Dispatched(fresh, conns, rs)
      /\ pending_outbound_responses' = [pending_outbound_responses EXCEPT ![c] = {}]
      /\ pending_events' = pending_events \o t
      /\ pending_outbound_requests' =
            IF pool[p] = {} THEN [pending_outbound_requests EXCEPT ![p] = <<>>]
                            ELSE pending_outbound_requests
      /\ UNCHANGED <<next_request_id, panicked>>
  BY <1>1 DEF OnConnectionEstablished
<1>3. /\ conns \in Seq(ConnectionIds)
      /\ conns # <<>>
      /\ ToSet(conns) = pool[p] \cup {c}
  <2>1. connected[p] \in Seq(ConnectionIds) /\ ToSet(connected[p]) = pool[p]
    BY DEF TypeOK, ConnInv, ConnectedMirrorsPool
  <2>2. conns = Append(connected[p], c)
    BY DEF WithConnection
  <2> QED
    BY <2>1, <2>2, AppendProperties, ToSetAppend
<1>4. /\ rs \in Seq(RequestIds)
      /\ IsInjective(rs)
      /\ ToSet(rs) \subseteq ToSet(pending_outbound_requests[p])
      /\ ToSet(rs) \subseteq RequestIds
  <2>1. CASE pool[p] = {}
    BY <2>1 DEF TypeOK, PanicInv, ParkedTracked, ToSet
  <2>2. CASE pool[p] # {}
    BY <2>2 DEF IsInjective, ToSet
  <2> QED
    BY <2>1, <2>2
<1>5. /\ \A d \in ConnectionIds \ {c} :
            pending_inbound_responses[d] \subseteq pending_inbound_responses'[d]
      /\ \A r \in ToSet(rs) : r \in pending_inbound_responses'[Target(conns, r)]
  <2>1. \A d \in ConnectionIds \ {c} : fresh[d] = pending_inbound_responses[d]
    BY DEF TypeOK
  <2> HIDE DEF fresh, conns, rs
  <2>2. ASSUME NEW r \in ToSet(rs) PROVE Target(conns, r) \in ConnectionIds
    BY <1>3, <1>4, TargetType DEF RequestIds
  <2> QED
    BY <1>2, <2>1, <2>2 DEF Dispatched
<1>6. Notified(t) = new /\ DistinctNotified(t) /\ t \in Seq(BehaviourActions)
  <2> HIDE DEF conns, rs
  <2> QED
    BY <1>3, <1>4, NotificationsNotified, NotificationsType
<1>7. ASSUME NEW e \in new
      PROVE  /\ e.request \in ToSet(rs)
             /\ e.conn = Target(conns, e.request)
             /\ e.conn \in ConnectionIds
             /\ e.conn \in used'
             /\ e.peer = p
  <2>1. PICK r \in ToSet(rs) : e = NotifyHandler(p, Target(conns, r), r)
    OBVIOUS
  <2> HIDE DEF conns, rs, fresh, t, new
  <2>2. Target(conns, r) \in ToSet(conns) /\ Target(conns, r) \in ConnectionIds
    BY <1>3, <1>4, TargetType DEF RequestIds
  <2>3. ToSet(conns) \subseteq used'
    BY <1>1, <1>3 DEF ConnInv, PoolOwnership, TypeOK
  <2> QED
    BY <2>1, <2>2, <2>3 DEF NotifyHandler
<1>8. /\ pending_events \in Seq(BehaviourActions)
      /\ DistinctNotified(pending_events)
  BY DEF TypeOK, PanicInv, QueueTracked
<1>9. \A r \in ToSet(rs) :
         /\ r < next_request_id
         /\ \A d \in ConnectionIds : r \notin held[d]
         /\ \A e \in Notified(pending_events) : e.request # r
         /\ \A q \in Peers : r \in ToSet(pending_outbound_requests[q]) => p = q
  BY <1>4 DEF PanicInv, ParkedTracked
<1> HIDE DEF conns, rs, fresh, t, new
<1>10. /\ Notified(pending_events') = Notified(pending_events) \cup new
       /\ DistinctNotified(pending_events')
  <2>1. \A a \in Notified(pending_events), b \in Notified(t) : a.request # b.request
    BY <1>6, <1>7, <1>9
  <2>2. DistinctNotified(pending_events \o t)
    BY <1>6, <1>8, <2>1, DistinctConcat
  <2>3. Notified(pending_events \o t) = Notified(pending_events) \cup Notified(t)
    BY <1>6, <1>8, NotifiedConcat
  <2> QED
    BY <1>2, <1>6, <2>2, <2>3
<1>11. HandlersTracked'
  <2> SUFFICES ASSUME NEW d \in ConnectionIds
               PROVE  /\ held[d] \subseteq pending_inbound_responses'[d]
                      /\ requested[d] \subseteq pending_outbound_responses'[d]
                      /\ d \notin used' => held[d] = {} /\ requested[d] = {}
                      /\ \A r \in held[d] : r < next_request_id
    BY <1>1, <1>2 DEF HandlersTracked
  <2>1. CASE d = c
    BY <1>1, <2>1 DEF PanicInv, HandlersTracked
  <2>2. CASE d # c
    <3>1. pending_outbound_responses'[d] = pending_outbound_responses[d]
      BY <1>2, <2>2 DEF TypeOK
    <3> QED
      BY <1>1, <1>5, <2>2, <3>1 DEF PanicInv, HandlersTracked
  <2> QED
    BY <2>1, <2>2
<1>12. QueueTracked'
  <2> SUFFICES ASSUME NEW e \in Notified(pending_events')
               PROVE  /\ e.conn \in used'
                      /\ e.request < next_request_id
                      /\ \A d \in ConnectionIds : e.request \notin held[d]
                      /\ e.conn \in pool'[e.peer] =>
                            e.request \in pending_inbound_responses'[e.conn]
    BY <1>1, <1>2, <1>10 DEF QueueTracked
  <2>1. CASE e \in Notified(pending_events)
    <3>1. e.peer \in Peers /\ e.conn \in ConnectionIds /\ e.conn \in used
      BY <2>1, NotifiedType DEF PanicInv, QueueTracked
    <3>2. e.conn # c
      BY <1>1, <3>1
    <3>3. e.conn \in pool'[e.peer] => e.conn \in pool[e.peer]
      BY <1>1, <3>1, <3>2 DEF TypeOK
    <3> QED
      BY <1>1, <1>5, <2>1, <3>1, <3>2, <3>3 DEF PanicInv, QueueTracked
  <2>2. CASE e \in new
    BY <1>5, <1>7, <1>9, <2>2
  <2> QED
    BY <1>10, <2>1, <2>2
<1>13. ParkedTracked'
  <2>1. \A q \in Peers \ {p} :
           pending_outbound_requests'[q] = pending_outbound_requests[q]
    BY <1>2 DEF TypeOK
  <2>2. \/ pending_outbound_requests'[p] = <<>>
        \/ ToSet(rs) = {} /\ pending_outbound_requests'[p] = pending_outbound_requests[p]
    BY <1>2 DEF TypeOK, rs, ToSet
  <2>3. ASSUME NEW q \in Peers
        PROVE  /\ IsInjective(pending_outbound_requests'[q])
               /\ ToSet(pending_outbound_requests'[q])
                     \subseteq ToSet(pending_outbound_requests[q]) \ ToSet(rs)
    <3>1. CASE pending_outbound_requests'[q] = <<>>
      BY <3>1 DEF IsInjective, ToSet
    <3>2. CASE /\ pending_outbound_requests'[q] = pending_outbound_requests[q]
               /\ q # p \/ ToSet(rs) = {}
      BY <1>9, <3>2 DEF PanicInv, ParkedTracked
    <3> QED
      BY <2>1, <2>2, <3>1, <3>2
  <2>4. ASSUME NEW q \in Peers, NEW x \in ToSet(pending_outbound_requests'[q])
        PROVE  \A e \in Notified(pending_events') : e.request # x
    BY <1>7, <1>10, <2>3 DEF PanicInv, ParkedTracked
  <2> QED
    BY <1>1, <1>2, <2>3, <2>4, ZenonT(30) DEF PanicInv, ParkedTracked
<1>14. NoPanic'
  BY <1>2 DEF PanicInv, NoPanic
<1> QED
  BY <1>11, <1>12, <1>13, <1>14 DEF PanicInv

\* on_connection_closed.
LEMMA PanicClose ==
    ASSUME TypeOK, ConnInv, PanicInv, NEW p \in Peers, NEW c \in ConnectionIds,
           CloseConnection(p, c)
    PROVE  PanicInv'
<1>1. /\ c \in pool[p]
      /\ pool' = [pool EXCEPT ![p] = @ \ {c}]
      /\ held' = [held EXCEPT ![c] = {}]
      /\ requested' = [requested EXCEPT ![c] = {}]
      /\ UNCHANGED used
  BY DEF CloseConnection, Contract!Close
<1>2. /\ QueuesEvents
      /\ pending_inbound_responses' = [pending_inbound_responses EXCEPT ![c] = {}]
      /\ pending_outbound_responses' = [pending_outbound_responses EXCEPT ![c] = {}]
      /\ UNCHANGED <<next_request_id, pending_outbound_requests, panicked>>
  BY CloseQueues
<1>3. /\ Notified(pending_events') = Notified(pending_events)
      /\ DistinctNotified(pending_events')
  BY <1>2, QueuesNothingNotified DEF PanicInv, QueueTracked
<1>4. ASSUME NEW e \in Notified(pending_events), e.conn \in pool'[e.peer]
      PROVE  /\ e.conn \in pool[e.peer]
             /\ pending_inbound_responses'[e.conn] = pending_inbound_responses[e.conn]
  <2>1. e.peer \in Peers /\ e.conn \in ConnectionIds
    BY NotifiedType
  <2>2. e.conn \in pool[e.peer] /\ (e.peer = p => e.conn # c)
    BY <1>1, <1>4, <2>1 DEF TypeOK
  <2>3. e.conn # c
    BY <1>1, <2>1, <2>2 DEF ConnInv, PoolOwnership
  <2> QED
    BY <1>2, <2>1, <2>2, <2>3 DEF TypeOK
<1>5. \A d \in ConnectionIds : held'[d] \subseteq held[d]
  BY <1>1 DEF TypeOK
<1>6. QueueTracked' /\ ParkedTracked'
  BY <1>1, <1>2, <1>3, <1>4, <1>5, TrackedFrame
<1>7. HandlersTracked'
  BY <1>1, <1>2 DEF TypeOK, PanicInv, HandlersTracked
<1>8. NoPanic'
  BY <1>2 DEF PanicInv, NoPanic
<1> QED
  BY <1>6, <1>7, <1>8 DEF PanicInv

\* on_connection_handler_event, and the handler's own steps.
LEMMA PanicHandlers ==
    ASSUME TypeOK, ConnInv, PanicInv, Handlers
    PROVE  PanicInv'
<1>1. /\ QueuesEvents
      /\ UNCHANGED <<next_request_id, pending_outbound_requests, connected,
                     pool, used, dialing>>
  BY HandlersQueue
<1>2. /\ Notified(pending_events') = Notified(pending_events)
      /\ DistinctNotified(pending_events')
  BY <1>1, QueuesNothingNotified DEF PanicInv, QueueTracked
<1>3. \A p \in Peers, c \in ConnectionIds :
         c \in pool[p] => c \in ToSet(connected[p]) /\ c \in used
  BY DEF ConnInv, ConnectedMirrorsPool, PoolOwnership
<1>4. ASSUME UNCHANGED <<held, pending_inbound_responses>>
      PROVE  QueueTracked' /\ ParkedTracked'
  BY <1>1, <1>2, <1>4, TrackedFrame
<1>5. ASSUME NEW c \in ConnectionIds, NEW r \in held[c],
             held' = [held EXCEPT ![c] = @ \ {r}],
             pending_inbound_responses' = [pending_inbound_responses EXCEPT ![c] = @ \ {r}],
             UNCHANGED <<requested, pending_outbound_responses>>,
             panicked' = FALSE
      PROVE  PanicInv'
  <2>1. \A d \in ConnectionIds : held'[d] \subseteq held[d]
    BY <1>5 DEF TypeOK
  <2>2. ASSUME NEW e \in Notified(pending_events),
               e.request \in pending_inbound_responses[e.conn]
        PROVE  e.request \in pending_inbound_responses'[e.conn]
    <3>1. e.conn \in ConnectionIds /\ e.request # r
      BY NotifiedType DEF PanicInv, QueueTracked
    <3> QED
      BY <1>5, <2>2, <3>1 DEF TypeOK
  <2>3. QueueTracked' /\ ParkedTracked'
    BY <1>1, <1>2, <2>1, <2>2, TrackedFrame
  <2>4. HandlersTracked'
    BY <1>1, <1>5 DEF TypeOK, PanicInv, HandlersTracked
  <2>5. NoPanic'
    BY <1>5 DEF NoPanic
  <2> QED
    BY <2>3, <2>4, <2>5 DEF PanicInv
<1>6. PICK p \in Peers, c \in ConnectionIds :
        \/ HandlerListens(p, c)
        \/ \E r \in RequestIds : \/ HandlerResponse(p, c, r)
                                \/ HandlerOutboundError(p, c, r)
        \/ \E r \in InboundIds : \/ HandlerRequest(p, c, r)
                                \/ HandlerAnswered(p, c, r)
                                \/ HandlerInboundError(p, c, r)
  BY DEF Handlers
<1>7. CASE HandlerListens(p, c)
  <2>1. UNCHANGED <<held, requested, pending_inbound_responses,
                    pending_outbound_responses, panicked>>
    BY <1>7 DEF HandlerListens, Contract!Listen, behaviourVars
  <2>2. HandlersTracked' /\ NoPanic'
    BY <1>1, <2>1 DEF PanicInv, HandlersTracked, NoPanic
  <2> QED
    BY <1>4, <2>1, <2>2 DEF PanicInv
<1>8. ASSUME NEW r \in RequestIds, HandlerResponse(p, c, r) PROVE PanicInv'
  <2>1. c \in ToSet(connected[p]) /\ r \in held[c] /\ r \in pending_inbound_responses[c]
    BY <1>3, <1>8
    DEF HandlerResponse, Contract!EndOutbound, PanicInv, HandlersTracked
  <2>2. /\ held' = [held EXCEPT ![c] = @ \ {r}]
        /\ pending_inbound_responses' = [pending_inbound_responses EXCEPT ![c] = @ \ {r}]
        /\ UNCHANGED <<requested, pending_outbound_responses>>
        /\ panicked' = FALSE
    BY <1>8, <2>1
    DEF HandlerResponse, Contract!EndOutbound, OnResponse, RemovePending,
        IsPending, PanicInv, NoPanic, TypeOK
  <2> QED
    BY <1>5, <2>1, <2>2
<1>9. ASSUME NEW r \in RequestIds, HandlerOutboundError(p, c, r) PROVE PanicInv'
  <2>1. c \in ToSet(connected[p]) /\ r \in held[c]
    BY <1>3, <1>9 DEF HandlerOutboundError, Contract!EndOutbound
  <2>2. PICK error : OnOutboundFailure(error, p, c, r)
    BY <1>9 DEF HandlerOutboundError, Contract!EndOutbound
  <2>3. /\ held' = [held EXCEPT ![c] = @ \ {r}]
        /\ pending_inbound_responses' = [pending_inbound_responses EXCEPT ![c] = @ \ {r}]
        /\ UNCHANGED <<requested, pending_outbound_responses>>
        /\ panicked' = FALSE
    BY <1>9, <2>1, <2>2
    DEF HandlerOutboundError, Contract!EndOutbound, OnOutboundFailure,
        RemovePending, PanicInv, NoPanic, TypeOK
  <2> QED
    BY <1>5, <2>1, <2>3
<1>10. ASSUME NEW r \in InboundIds, HandlerRequest(p, c, r) PROVE PanicInv'
  <2>1. c \in ToSet(connected[p]) /\ c \in used /\ OnRequest(p, c, r)
    BY <1>3, <1>10 DEF HandlerRequest, Contract!Request
  <2>2. /\ pending_outbound_responses' = [pending_outbound_responses EXCEPT ![c] = @ \cup {r}]
        /\ UNCHANGED <<held, pending_inbound_responses, panicked>>
        /\ requested' \in {requested, [requested EXCEPT ![c] = @ \cup {r}]}
    BY <1>10, <2>1 DEF HandlerRequest, Contract!Request, OnRequest
  <2>3. HandlersTracked'
    BY <1>1, <2>1, <2>2 DEF TypeOK, PanicInv, HandlersTracked
  <2> QED
    BY <1>4, <2>2, <2>3 DEF PanicInv, NoPanic
<1>11. ASSUME NEW r \in InboundIds,
              UNCHANGED <<held, pending_inbound_responses>>,
              pending_outbound_responses' = [pending_outbound_responses EXCEPT ![c] = @ \ {r}],
              requested' = [requested EXCEPT ![c] = @ \ {r}],
              panicked' = FALSE
       PROVE  PanicInv'
  <2>1. HandlersTracked'
    BY <1>1, <1>11 DEF TypeOK, PanicInv, HandlersTracked
  <2> QED
    BY <1>4, <1>11, <2>1 DEF PanicInv, NoPanic
<1>12. ASSUME NEW r \in InboundIds, HandlerAnswered(p, c, r) PROVE PanicInv'
  <2>1. c \in ToSet(connected[p]) /\ r \in pending_outbound_responses[c]
    BY <1>3, <1>12 DEF HandlerAnswered, Contract!Answered, PanicInv, HandlersTracked
  <2>2. PICK event, error : OnAnswered(event, error, p, c, r)
    BY <1>12 DEF HandlerAnswered, Contract!Answered
  <2>3. /\ UNCHANGED <<held, pending_inbound_responses>>
        /\ pending_outbound_responses' = [pending_outbound_responses EXCEPT ![c] = @ \ {r}]
        /\ requested' = [requested EXCEPT ![c] = @ \ {r}]
        /\ panicked' = FALSE
    BY <1>12, <2>1, <2>2
    DEF HandlerAnswered, Contract!Answered, OnAnswered, RemovePending, IsPending,
        PanicInv, NoPanic, TypeOK
  <2> QED
    BY <1>11, <2>3
<1>13. ASSUME NEW r \in InboundIds, HandlerInboundError(p, c, r) PROVE PanicInv'
  <2>1. c \in ToSet(connected[p])
    BY <1>3, <1>13
    DEF HandlerInboundError, Contract!TimeOutInbound, Contract!RejectInbound,
        Contract!EndInbound
  <2>2. PICK error : OnInboundFailure(error, p, c, r)
    BY <1>13
    DEF HandlerInboundError, Contract!TimeOutInbound, Contract!RejectInbound,
        Contract!EndInbound
  <2>3. /\ UNCHANGED <<held, pending_inbound_responses>>
        /\ pending_outbound_responses' = [pending_outbound_responses EXCEPT ![c] = @ \ {r}]
        /\ requested' = [requested EXCEPT ![c] = @ \ {r}]
        /\ panicked' = FALSE
    BY <1>13, <2>1, <2>2
    DEF HandlerInboundError, Contract!TimeOutInbound, Contract!RejectInbound,
        Contract!EndInbound, OnInboundFailure, RemovePending, PanicInv, NoPanic,
        TypeOK
  <2> QED
    BY <1>11, <2>3
<1> QED
  BY <1>6, <1>7, <1>8, <1>9, <1>10, <1>12, <1>13

\* poll.
LEMMA PanicPoll ==
    ASSUME TypeOK, ConnInv, PanicInv, Poll
    PROVE  PanicInv'
<1> DEFINE e == Head(pending_events)
<1>1. /\ pending_events # <<>>
      /\ pending_events \in Seq(BehaviourActions)
      /\ DistinctNotified(pending_events)
  BY
  DEF Poll, PollDial, PollNotify, Contract!Take, handlerVars, PollEvent, TypeOK,
      PanicInv, QueueTracked
<1>2. /\ Notified(Tail(pending_events)) \subseteq Notified(pending_events)
      /\ DistinctNotified(Tail(pending_events))
      /\ e.type = "NotifyHandler" =>
            /\ e \in Notified(pending_events)
            /\ \A a \in Notified(Tail(pending_events)) : a.request # e.request
      /\ e \in BehaviourActions
      /\ Tail(pending_events) \in Seq(BehaviourActions)
  BY <1>1, TailNotified, HeadTailProperties
<1>3. CASE PollDial
  <2>1. /\ UNCHANGED <<pool, used, held, requested, next_request_id, panicked,
                       pending_inbound_responses, pending_outbound_responses>>
        /\ e.type = "Dial"
    BY <1>3 DEF PollDial, OneDialFailure, handlerVars
  <2>2. e.peer \in Peers
    BY <1>2, <2>1 DEF BehaviourActions, DialActions, NotifyActions, EventActions
  <2>3. /\ Notified(pending_events') \subseteq Notified(pending_events)
        /\ DistinctNotified(pending_events')
        /\ \A p \in Peers : pending_outbound_requests'[p] \in
                               {<<>>, pending_outbound_requests[p]}
    <3>1. CASE OneDialFailure(e.peer, Tail(pending_events))
      <4> DEFINE t == DialFailureEvents(e.peer)
      <4>1. pending_events' = Tail(pending_events) \o t
        BY <3>1 DEF OneDialFailure
      <4>2. /\ t \in Seq(BehaviourActions)
            /\ Notified(t) = {}
            /\ DistinctNotified(t)
        BY <2>2, DialFailureEventsType, EventsNotNotified DEF TypeOK
      <4> HIDE DEF t, e
      <4>3. DistinctNotified(Tail(pending_events) \o t)
        BY <1>2, <4>2, DistinctConcat
      <4>4. Notified(Tail(pending_events) \o t) =
              Notified(Tail(pending_events)) \cup Notified(t)
        BY <1>2, <4>2, NotifiedConcat
      <4>5. \A p \in Peers : pending_outbound_requests'[p] \in
                               {<<>>, pending_outbound_requests[p]}
        BY <2>2, <3>1 DEF OneDialFailure, TypeOK
      <4> QED
        BY <1>2, <4>1, <4>2, <4>3, <4>4, <4>5
    <3>2. CASE /\ pending_events' = Tail(pending_events)
               /\ UNCHANGED pending_outbound_requests
      BY <1>2, <3>2
    <3> QED
      BY <1>3, <3>1, <3>2 DEF PollDial
  <2>4. QueueTracked' /\ ParkedTracked'
    BY <2>1, <2>3, TrackedFrame
  <2>5. HandlersTracked' /\ NoPanic'
    BY <2>1 DEF PanicInv, HandlersTracked, NoPanic
  <2> QED
    BY <2>4, <2>5 DEF PanicInv
<1>4. CASE PollNotify
  <2>1. /\ e.type = "NotifyHandler"
        /\ pending_events' = Tail(pending_events)
        /\ held' = IF e.conn \in pool[e.peer]
                   THEN [held EXCEPT ![e.conn] = @ \cup {e.request}] ELSE held
        /\ UNCHANGED <<pool, used, requested, next_request_id, panicked,
                       pending_inbound_responses, pending_outbound_responses,
                       pending_outbound_requests>>
    BY <1>4 DEF PollNotify, Contract!Take, handlerVars, swarmVars
  <2>2. /\ e \in Notified(pending_events)
        /\ e.conn \in ConnectionIds
        /\ e.conn \in used
        /\ e.request < next_request_id
        /\ e.conn \in pool[e.peer] =>
              e.request \in pending_inbound_responses[e.conn]
    BY <1>2, <2>1, NotifiedType DEF PanicInv, QueueTracked
  <2>3. \A c \in ConnectionIds :
           /\ held'[c] \subseteq held[c] \cup {e.request}
           /\ held'[c] # held[c] => c = e.conn /\ e.conn \in pool[e.peer]
    BY <2>1, <2>2 DEF TypeOK
  <2> HIDE DEF e
  <2>4. HandlersTracked'
    BY <2>1, <2>2, <2>3 DEF PanicInv, HandlersTracked
  <2>5. QueueTracked'
    BY <1>2, <2>1, <2>3 DEF PanicInv, QueueTracked
  <2>6. ParkedTracked'
    <3>1. ASSUME NEW p \in Peers, NEW r \in ToSet(pending_outbound_requests[p])
          PROVE  /\ \A c \in ConnectionIds : r \notin held'[c]
                 /\ \A a \in Notified(pending_events') : a.request # r
      <4>1. r # e.request /\ \A c \in ConnectionIds : r \notin held[c]
        BY <2>2 DEF PanicInv, ParkedTracked
      <4>2. \A a \in Notified(pending_events) : a.request # r
        BY DEF PanicInv, ParkedTracked
      <4> QED
        BY <1>2, <2>1, <2>3, <4>1, <4>2
    <3> QED
      BY <2>1, <3>1 DEF PanicInv, ParkedTracked
  <2>7. NoPanic'
    BY <2>1 DEF PanicInv, NoPanic
  <2> QED
    BY <2>4, <2>5, <2>6, <2>7 DEF PanicInv
<1>5. CASE PollEvent
  <2>1. /\ UNCHANGED <<pool, used, held, requested, next_request_id, panicked,
                       pending_inbound_responses, pending_outbound_responses,
                       pending_outbound_requests>>
        /\ pending_events' = Tail(pending_events)
    BY <1>5 DEF PollEvent, handlerVars, swarmVars
  <2>2. QueueTracked' /\ ParkedTracked'
    BY <1>2, <2>1, TrackedFrame
  <2>3. HandlersTracked' /\ NoPanic'
    BY <2>1 DEF PanicInv, HandlersTracked, NoPanic
  <2> QED
    BY <2>2, <2>3 DEF PanicInv
<1> QED
  BY <1>3, <1>4, <1>5 DEF Poll

\* Every step keeps the invariant.
LEMMA PanicStep == TypeOK /\ ConnInv /\ PanicInv /\ [Next]_vars => PanicInv'
<1> SUFFICES ASSUME TypeOK, ConnInv, PanicInv, [Next]_vars PROVE PanicInv'
  OBVIOUS
<1>1. ASSUME NEW p \in Peers, OneDialFailure(p, pending_events),
             UNCHANGED <<pool, used, handlerVars>>
      PROVE  PanicInv'
  <2>1. QueuesEvents
    BY <1>1, DialFailureQueues
  <2>2. /\ Notified(pending_events') = Notified(pending_events)
        /\ DistinctNotified(pending_events')
    BY <2>1, QueuesNothingNotified DEF PanicInv, QueueTracked
  <2>3. /\ UNCHANGED <<pool, used, held, requested, next_request_id, panicked,
                       pending_inbound_responses, pending_outbound_responses>>
        /\ \A q \in Peers : pending_outbound_requests'[q] \in
                               {<<>>, pending_outbound_requests[q]}
    BY <1>1 DEF OneDialFailure, handlerVars, TypeOK
  <2>4. QueueTracked' /\ ParkedTracked'
    BY <2>2, <2>3, TrackedFrame
  <2>5. HandlersTracked' /\ NoPanic'
    BY <2>3 DEF PanicInv, HandlersTracked, NoPanic
  <2> QED
    BY <2>4, <2>5 DEF PanicInv
<1>2. ASSUME NEW p \in Peers, DialFails(p) \/ OtherDialFails(p) PROVE PanicInv'
  BY <1>1, <1>2 DEF DialFails, OtherDialFails, swarmVars
<1>3. ASSUME NEW p \in Peers, NEW c \in ConnectionIds, ChangeAddress(p, c)
      PROVE  PanicInv'
  <2>1. c \in ToSet(connected[p])
    BY <1>3 DEF ChangeAddress, ConnInv, ConnectedMirrorsPool
  <2>2. /\ panicked' = FALSE
        /\ UNCHANGED <<pool, used, held, requested, next_request_id,
                       pending_inbound_responses, pending_outbound_responses,
                       pending_outbound_requests, pending_events>>
    BY <1>3, <2>1
    DEF ChangeAddress, OnAddressChange, swarmVars, handlerVars, PanicInv, NoPanic,
        TypeOK
  <2> QED
    BY <2>2 DEF PanicInv, HandlersTracked, QueueTracked, ParkedTracked, NoPanic
<1>4. ASSUME NEW p \in Peers, NEW c \in ConnectionIds,
             DialSucceeds(p, c) \/ ConnectionArrives(p, c)
      PROVE  PanicInv'
  BY <1>4, PanicEstablish DEF DialSucceeds, ConnectionArrives
<1>5. CASE UNCHANGED vars
  BY <1>5
  DEF vars, PanicInv, HandlersTracked, QueueTracked, ParkedTracked, NoPanic
<1> QED
  BY <1>2, <1>3, <1>4, <1>5, PanicSend, PanicClose, PanicHandlers, PanicPoll
  DEF Next, Connections

\* The invariant holds at the start.
LEMMA PanicInit == Init => PanicInv
BY DEF Init, PanicInv, HandlersTracked, QueueTracked, ParkedTracked, NoPanic,
       Notified, DistinctNotified, ToSet, IsInjective

\* The invariant holds in every reachable state.
LEMMA PanicInvariant == Spec => []PanicInv
BY PanicInit, PanicStep, TypeCorrect, ConnInvariant, PTL DEF Spec

\* No expect and no debug_assert of FileGet ever fails, for any number of
\* peers, connections and requests.
THEOREM FileGetNeverPanics == Spec => []NoPanic
<1>1. PanicInv => NoPanic
  BY DEF PanicInv
<1> QED
  BY <1>1, PanicInvariant, PTL

-----------------------------------------------------------------------------
(***************************************************************************)
(* The order in which requests leave.                                      *)
(***************************************************************************)

\* The notifications for a peer carry increasing requests.
InOrder(queue) ==
    \A i, j \in DOMAIN queue :
        (/\ i < j
         /\ queue[i].type = "NotifyHandler"
         /\ queue[j].type = "NotifyHandler"
         /\ queue[i].peer = queue[j].peer) => queue[i].request < queue[j].request

Increasing(rs) == \A i, j \in DOMAIN rs : i < j => rs[i] < rs[j]

\* Parked requests are in order, and behind all that are queued for the peer.
ParkedInOrder ==
    \A p \in Peers :
        /\ Increasing(pending_outbound_requests[p])
        /\ \A e \in Notified(pending_events) :
              e.peer = p =>
                 \A r \in ToSet(pending_outbound_requests[p]) : e.request < r

OrderInv == InOrder(pending_events) /\ ParkedInOrder

LEMMA OrderConcat ==
    ASSUME NEW S, NEW s \in Seq(S), NEW t \in Seq(S), InOrder(s), InOrder(t),
           \A a \in Notified(s), b \in Notified(t) :
              a.peer = b.peer => a.request < b.request
    PROVE  InOrder(s \o t)
<1> DEFINE u == s \o t
<1>1. /\ u \in Seq(S)
      /\ Len(u) = Len(s) + Len(t)
      /\ \A i \in 1..(Len(s) + Len(t)) :
            u[i] = IF i <= Len(s) THEN s[i] ELSE t[i - Len(s)]
  BY ConcatProperties
<1> HIDE DEF u
<1>2. /\ DOMAIN u = 1..(Len(s) + Len(t))
      /\ DOMAIN s = 1..Len(s)
      /\ DOMAIN t = 1..Len(t)
      /\ Len(s) \in Nat
      /\ Len(t) \in Nat
  BY <1>1
<1> SUFFICES ASSUME NEW i \in DOMAIN u, NEW j \in DOMAIN u, i < j,
                    u[i].type = "NotifyHandler", u[j].type = "NotifyHandler",
                    u[i].peer = u[j].peer
             PROVE  u[i].request < u[j].request
  BY DEF InOrder, u
<1>3. CASE j <= Len(s)
  <2>1. i \in DOMAIN s /\ j \in DOMAIN s /\ u[i] = s[i] /\ u[j] = s[j]
    BY <1>1, <1>2, <1>3
  <2> QED
    BY <2>1 DEF InOrder
<1>4. CASE i > Len(s)
  <2>1. /\ i - Len(s) \in DOMAIN t
        /\ j - Len(s) \in DOMAIN t
        /\ i - Len(s) < j - Len(s)
        /\ u[i] = t[i - Len(s)]
        /\ u[j] = t[j - Len(s)]
    BY <1>1, <1>2, <1>4
  <2> QED
    BY <2>1 DEF InOrder
<1>5. CASE i <= Len(s) /\ j > Len(s)
  <2>1. i \in DOMAIN s /\ u[i] = s[i] /\ j - Len(s) \in DOMAIN t /\ u[j] = t[j - Len(s)]
    BY <1>1, <1>2, <1>5
  <2>2. u[i] \in Notified(s) /\ u[j] \in Notified(t)
    BY <2>1 DEF Notified, ToSet
  <2> QED
    BY <2>2
<1> QED
  BY <1>2, <1>3, <1>4, <1>5

LEMMA OrderTail ==
    ASSUME NEW S, NEW s \in Seq(S), s # <<>>, InOrder(s)
    PROVE  InOrder(Tail(s))
<1>1. /\ Tail(s) \in Seq(S)
      /\ Len(Tail(s)) = Len(s) - 1
      /\ \A i \in 1..Len(Tail(s)) : Tail(s)[i] = s[i + 1]
  BY HeadTailProperties
<1>2. /\ Len(s) \in Nat \ {0}
      /\ DOMAIN s = 1..Len(s)
      /\ DOMAIN Tail(s) = 1..(Len(s) - 1)
  BY <1>1
<1> SUFFICES ASSUME NEW i \in DOMAIN Tail(s), NEW j \in DOMAIN Tail(s), i < j,
                    Tail(s)[i].type = "NotifyHandler",
                    Tail(s)[j].type = "NotifyHandler",
                    Tail(s)[i].peer = Tail(s)[j].peer
             PROVE  Tail(s)[i].request < Tail(s)[j].request
  BY DEF InOrder
<1>3. /\ i + 1 \in DOMAIN s
      /\ j + 1 \in DOMAIN s
      /\ i + 1 < j + 1
      /\ Tail(s)[i] = s[i + 1]
      /\ Tail(s)[j] = s[j + 1]
  BY <1>1, <1>2
<1> QED
  BY <1>3 DEF InOrder

\* A queue without notifications is in order.
LEMMA OrderNone ==
    ASSUME NEW t, Notified(t) = {}
    PROVE  InOrder(t)
<1>1. \A i \in DOMAIN t : t[i].type # "NotifyHandler"
  BY DEF Notified, ToSet
<1> QED
  BY <1>1 DEF InOrder

\* Requests in order are queued in order.
LEMMA OrderNotifications ==
    ASSUME NEW p, NEW conns, NEW rs \in Seq(RequestIds), Increasing(rs)
    PROVE  InOrder(Notifications(p, conns, rs))
<1> DEFINE t == Notifications(p, conns, rs)
<1>1. /\ DOMAIN t = DOMAIN rs
      /\ \A i \in DOMAIN rs : t[i].request = rs[i]
  BY DEF Notifications, NotifyHandler
<1> HIDE DEF t
<1>2. InOrder(t)
  BY <1>1 DEF InOrder, Increasing
<1> QED
  BY <1>2 DEF t

\* A step that queues no notification and parks no request keeps the order.
LEMMA OrderFrame ==
    ASSUME TypeOK, OrderInv, InOrder(pending_events'),
           Notified(pending_events') \subseteq Notified(pending_events),
           \A p \in Peers : pending_outbound_requests'[p] \in
                              {<<>>, pending_outbound_requests[p]}
    PROVE  OrderInv'
<1>1. ASSUME NEW p \in Peers
      PROVE  /\ Increasing(pending_outbound_requests'[p])
             /\ ToSet(pending_outbound_requests'[p])
                   \subseteq ToSet(pending_outbound_requests[p])
  <2>1. CASE pending_outbound_requests'[p] = <<>>
    BY <2>1 DEF Increasing, ToSet
  <2>2. CASE pending_outbound_requests'[p] = pending_outbound_requests[p]
    BY <2>2 DEF OrderInv, ParkedInOrder
  <2> QED
    BY <2>1, <2>2
<1> QED
  BY <1>1 DEF OrderInv, ParkedInOrder

\* Events do not disturb the order.
LEMMA OrderQueuesEvents ==
    ASSUME TypeOK, OrderInv, QueuesEvents
    PROVE  /\ InOrder(pending_events')
           /\ Notified(pending_events') = Notified(pending_events)
<1>1. PICK t \in Seq(EventActions) : pending_events' = pending_events \o t
  BY DEF QueuesEvents
<1>2. t \in Seq(BehaviourActions) /\ Notified(t) = {} /\ InOrder(t)
  BY EventsAreActions, EventsNotNotified, OrderNone
<1>3. pending_events \in Seq(BehaviourActions) /\ InOrder(pending_events)
  BY DEF TypeOK, OrderInv
<1>4. Notified(pending_events \o t) = Notified(pending_events) \cup Notified(t)
  BY <1>2, <1>3, NotifiedConcat
<1>5. InOrder(pending_events \o t)
  BY <1>2, <1>3, OrderConcat
<1> QED
  BY <1>1, <1>2, <1>4, <1>5

\* send_request: a new request is the last of its peer.
LEMMA OrderSend ==
    ASSUME TypeOK, ConnInv, ParkedRequestsAwaitDial, PanicInv, OrderInv,
           NEW p \in Peers, SendRequest(p)
    PROVE  OrderInv'
<1> DEFINE r == next_request_id
<1> USE BoundsAssumption
<1>1. /\ r \in RequestIds
      /\ r \in Nat
      /\ RequestIds \subseteq Nat
      /\ <<r>> \in Seq(RequestIds)
  BY DEF SendRequest, RequestIds
<1>2. /\ \A e \in Notified(pending_events) : e.request < r
      /\ \A q \in Peers : \A x \in ToSet(pending_outbound_requests[q]) : x < r
  BY DEF PanicInv, QueueTracked, ParkedTracked
<1>3. pending_events \in Seq(BehaviourActions) /\ InOrder(pending_events)
  BY DEF TypeOK, OrderInv
<1>4. CASE connected[p] # <<>>
  <2> DEFINE conns == connected[p]
             t == Notifications(p, conns, <<r>>)
  <2>1. pending_events' = pending_events \o t /\ UNCHANGED pending_outbound_requests
    BY <1>4 DEF SendRequest
  <2>2. conns \in Seq(ConnectionIds) /\ conns # <<>> /\ ToSet(conns) = pool[p]
    BY <1>4 DEF TypeOK, ConnInv, ConnectedMirrorsPool
  <2>3. pending_outbound_requests[p] = <<>>
    <3>1. Len(conns) \in Nat \ {0}
      BY <2>2
    <3>2. conns[1] \in ToSet(conns)
      BY <2>2, <3>1 DEF ToSet
    <3> QED
      BY <2>2, <3>2 DEF ParkedRequestsAwaitDial
  <2>4. ToSet(<<r>>) = {r} /\ IsInjective(<<r>>) /\ Increasing(<<r>>)
    BY DEF ToSet, IsInjective, Increasing
  <2> HIDE DEF conns
  <2>6. t \in Seq(BehaviourActions) /\ InOrder(t)
    BY <1>1, <2>2, <2>4, NotificationsType, OrderNotifications
  <2>7. \A e \in Notified(t) : e.request = r /\ e.peer = p
    BY <1>1, <2>4, NotifiedFields
  <2> HIDE DEF t, r
  <2>8. InOrder(pending_events \o t)
    BY <1>2, <1>3, <2>6, <2>7, OrderConcat
  <2>9. Notified(pending_events \o t) = Notified(pending_events) \cup Notified(t)
    BY <1>3, <2>6, NotifiedConcat
  <2>10. ToSet(<<>>) = {}
    BY DEF ToSet
  <2>11. ParkedInOrder'
    BY <2>1, <2>3, <2>7, <2>9, <2>10 DEF OrderInv, ParkedInOrder
  <2> QED
    BY <2>1, <2>8, <2>11 DEF OrderInv
<1>5. CASE connected[p] = <<>>
  <2>1. /\ pending_events' = Append(pending_events, Dial(p))
        /\ pending_outbound_requests' =
              [pending_outbound_requests EXCEPT ![p] = Append(pending_outbound_requests[p], r)]
    BY <1>5 DEF SendRequest
  <2>2. /\ Dial(p) \in BehaviourActions
        /\ <<Dial(p)>> \in Seq(BehaviourActions)
        /\ Notified(<<Dial(p)>>) = {}
    BY DEF Dial, BehaviourActions, DialActions, Notified, ToSet
  <2>3. pending_events' = pending_events \o <<Dial(p)>>
    BY <1>3, <2>1, <2>2, AppendIsConcat
  <2>4. InOrder(pending_events')
    <3>1. InOrder(<<Dial(p)>>)
      BY <2>2, OrderNone
    <3> QED
      BY <1>3, <2>2, <2>3, <3>1, OrderConcat
  <2>5. Notified(pending_events') = Notified(pending_events)
    <3>1. Notified(pending_events \o <<Dial(p)>>) =
            Notified(pending_events) \cup Notified(<<Dial(p)>>)
      BY <1>3, <2>2, NotifiedConcat
    <3> QED
      BY <2>2, <2>3, <3>1
  <2> DEFINE rs == pending_outbound_requests[p]
             ss == pending_outbound_requests'[p]
  <2>6. /\ rs \in Seq(RequestIds)
        /\ ss = Append(rs, r)
        /\ \A q \in Peers \ {p} :
              pending_outbound_requests'[q] = pending_outbound_requests[q]
    BY <2>1 DEF TypeOK
  <2>7. /\ Len(ss) = Len(rs) + 1
        /\ \A i \in 1..Len(rs) : ss[i] = rs[i]
        /\ ss[Len(rs) + 1] = r
        /\ DOMAIN ss = 1..(Len(rs) + 1)
        /\ DOMAIN rs = 1..Len(rs)
        /\ Len(rs) \in Nat
    BY <1>1, <2>6, AppendProperties
  <2>8. ToSet(ss) = ToSet(rs) \cup {r}
    BY <1>1, <2>6, ToSetAppend
  <2>9. Increasing(rs) /\ \A i \in DOMAIN rs : rs[i] < r
    BY <1>2 DEF OrderInv, ParkedInOrder, ToSet
  <2> HIDE DEF rs, ss, r
  <2>10. Increasing(ss)
    BY <2>7, <2>9 DEF Increasing
  <2>11. \A e \in Notified(pending_events) :
            e.peer = p => \A x \in ToSet(ss) : e.request < x
    BY <1>2, <2>8 DEF OrderInv, ParkedInOrder, rs
  <2>12. ParkedInOrder'
    BY <2>5, <2>6, <2>10, <2>11 DEF OrderInv, ParkedInOrder, ss
  <2> QED
    BY <2>4, <2>12 DEF OrderInv
<1> QED
  BY <1>4, <1>5

\* on_connection_established: the parked requests follow those queued before.
LEMMA OrderEstablish ==
    ASSUME TypeOK, ConnInv, PanicInv, OrderInv, NEW p \in Peers,
           NEW c \in ConnectionIds, EstablishConnection(p, c)
    PROVE  OrderInv'
<1> DEFINE conns == WithConnection(connected[p], c)
           rs == IF pool[p] = {} THEN pending_outbound_requests[p] ELSE <<>>
           t == Notifications(p, conns, rs)
<1>1. /\ pending_events' = pending_events \o t
      /\ pending_outbound_requests' =
            IF pool[p] = {} THEN [pending_outbound_requests EXCEPT ![p] = <<>>]
                            ELSE pending_outbound_requests
  BY DEF EstablishConnection, OnConnectionEstablished
<1>2. conns \in Seq(ConnectionIds) /\ conns # <<>>
  <2>1. connected[p] \in Seq(ConnectionIds)
    BY DEF TypeOK
  <2> QED
    BY <2>1, AppendProperties DEF WithConnection
<1>3. /\ rs \in Seq(RequestIds)
      /\ IsInjective(rs)
      /\ Increasing(rs)
      /\ ToSet(rs) \subseteq ToSet(pending_outbound_requests[p])
      /\ pool[p] # {} => ToSet(rs) = {}
  <2>1. CASE pool[p] = {}
    BY <2>1 DEF TypeOK, PanicInv, ParkedTracked, OrderInv, ParkedInOrder
  <2>2. CASE pool[p] # {}
    BY <2>2 DEF IsInjective, Increasing, ToSet
  <2> QED
    BY <2>1, <2>2
<1> HIDE DEF conns, rs
<1>4. InOrder(t) /\ t \in Seq(BehaviourActions)
  BY <1>2, <1>3, NotificationsType, OrderNotifications
<1>5. \A e \in Notified(t) : e.peer = p /\ e.request \in ToSet(rs)
  BY <1>3, NotifiedFields
<1>6. pending_events \in Seq(BehaviourActions) /\ InOrder(pending_events)
  BY DEF TypeOK, OrderInv
<1>7. \A a \in Notified(pending_events) : \A r \in ToSet(rs) :
         a.peer = p => a.request < r
  BY <1>3 DEF OrderInv, ParkedInOrder
<1> HIDE DEF t
<1>8. InOrder(pending_events')
  BY <1>1, <1>4, <1>5, <1>6, <1>7, OrderConcat
<1>9. Notified(pending_events') = Notified(pending_events) \cup Notified(t)
  BY <1>1, <1>4, <1>6, NotifiedConcat
<1>10. ParkedInOrder'
  <2>1. ASSUME NEW q \in Peers
        PROVE  \/ pending_outbound_requests'[q] = <<>>
               \/ /\ pending_outbound_requests'[q] = pending_outbound_requests[q]
                  /\ q # p \/ ToSet(rs) = {}
    BY <1>1, <1>3 DEF TypeOK
  <2>2. Increasing(<<>>) /\ ToSet(<<>>) = {}
    BY DEF Increasing, ToSet
  <2> SUFFICES ASSUME NEW q \in Peers
               PROVE  /\ Increasing(pending_outbound_requests'[q])
                      /\ \A e \in Notified(pending_events') :
                            e.peer = q =>
                               \A r \in ToSet(pending_outbound_requests'[q]) :
                                  e.request < r
    BY DEF ParkedInOrder
  <2>3. CASE pending_outbound_requests'[q] = <<>>
    BY <2>2, <2>3
  <2>4. CASE /\ pending_outbound_requests'[q] = pending_outbound_requests[q]
             /\ q # p \/ ToSet(rs) = {}
    BY <1>5, <1>9, <2>4 DEF OrderInv, ParkedInOrder
  <2> QED
    BY <2>1, <2>3, <2>4
<1> QED
  BY <1>8, <1>10 DEF OrderInv

\* poll takes from the front.
LEMMA OrderPoll ==
    ASSUME TypeOK, PanicInv, OrderInv, Poll
    PROVE  OrderInv'
<1> DEFINE e == Head(pending_events)
<1>1. /\ pending_events # <<>>
      /\ pending_events \in Seq(BehaviourActions)
      /\ DistinctNotified(pending_events)
      /\ InOrder(pending_events)
  BY DEF Poll, PollDial, PollNotify, PollEvent, TypeOK, PanicInv, QueueTracked, OrderInv
<1>2. /\ Tail(pending_events) \in Seq(BehaviourActions)
      /\ Notified(Tail(pending_events)) \subseteq Notified(pending_events)
      /\ InOrder(Tail(pending_events))
      /\ e \in BehaviourActions
  BY <1>1, TailNotified, OrderTail, HeadTailProperties
<1>3. CASE /\ pending_events' = Tail(pending_events)
           /\ UNCHANGED pending_outbound_requests
  BY <1>2, <1>3, OrderFrame
<1>4. CASE PollDial /\ OneDialFailure(e.peer, Tail(pending_events))
  <2> DEFINE t == DialFailureEvents(e.peer)
  <2>1. e.peer \in Peers
    BY <1>2, <1>4 DEF PollDial, BehaviourActions, DialActions, NotifyActions, EventActions
  <2>2. /\ pending_events' = Tail(pending_events) \o t
        /\ \A p \in Peers : pending_outbound_requests'[p] \in
                               {<<>>, pending_outbound_requests[p]}
    BY <1>4, <2>1 DEF OneDialFailure, TypeOK
  <2>3. t \in Seq(BehaviourActions) /\ Notified(t) = {} /\ InOrder(t)
    BY <2>1, DialFailureEventsType, EventsNotNotified, OrderNone DEF TypeOK
  <2> HIDE DEF t, e
  <2>4. InOrder(pending_events')
    BY <1>2, <2>2, <2>3, OrderConcat
  <2>5. Notified(pending_events') = Notified(Tail(pending_events)) \cup Notified(t)
    BY <1>2, <2>2, <2>3, NotifiedConcat
  <2> QED
    BY <1>2, <2>2, <2>3, <2>4, <2>5, OrderFrame
<1> QED
  BY <1>3, <1>4 DEF Poll, PollDial, PollNotify, PollEvent

\* Requests to a peer are handed to its connections in the order in which
\* they were made, also those that waited for a connection.
THEOREM RequestsKeepTheirOrder == Spec => []RequestsLeaveInOrder
<1>1. Init => OrderInv
  BY DEF Init, OrderInv, InOrder, ParkedInOrder, Increasing, Notified, ToSet
<1>2. TypeOK /\ ConnInv /\ ParkedRequestsAwaitDial /\ PanicInv /\ OrderInv
        /\ [Next]_vars => OrderInv'
  <2> SUFFICES ASSUME TypeOK, ConnInv, ParkedRequestsAwaitDial, PanicInv, OrderInv,
                      [Next]_vars
               PROVE  OrderInv'
    OBVIOUS
  <2>1. ASSUME QueuesEvents,
               \A p \in Peers : pending_outbound_requests'[p] \in
                                  {<<>>, pending_outbound_requests[p]}
        PROVE  OrderInv'
    BY <2>1, OrderQueuesEvents, OrderFrame
  <2>2. ASSUME NEW p \in Peers, DialFails(p) \/ OtherDialFails(p) PROVE OrderInv'
    <3>1. OneDialFailure(p, pending_events)
      BY <2>2 DEF DialFails, OtherDialFails
    <3>2. \A q \in Peers : pending_outbound_requests'[q] \in
                              {<<>>, pending_outbound_requests[q]}
      BY <3>1 DEF OneDialFailure, TypeOK
    <3> QED
      BY <2>1, <3>1, <3>2, DialFailureQueues
  <2>3. ASSUME NEW p \in Peers, NEW c \in ConnectionIds,
               DialSucceeds(p, c) \/ ConnectionArrives(p, c)
        PROVE  OrderInv'
    BY <2>3, OrderEstablish DEF DialSucceeds, ConnectionArrives
  <2>4. ASSUME NEW p \in Peers, NEW c \in ConnectionIds, CloseConnection(p, c)
        PROVE  OrderInv'
    BY <2>1, <2>4, CloseQueues
  <2>5. CASE Handlers
    BY <2>1, <2>5, HandlersQueue
  <2>6. ASSUME UNCHANGED <<pending_events, pending_outbound_requests>> PROVE OrderInv'
    BY <2>6 DEF OrderInv, ParkedInOrder
  <2>7. ASSUME NEW p \in Peers, NEW c \in ConnectionIds, ChangeAddress(p, c)
        PROVE  OrderInv'
    BY <2>6, <2>7 DEF ChangeAddress, OnAddressChange
  <2>8. CASE UNCHANGED vars
    BY <2>6, <2>8 DEF vars
  <2> QED
    BY <2>2, <2>3, <2>4, <2>5, <2>7, <2>8, OrderSend, OrderPoll DEF Next, Connections
<1>3. OrderInv => RequestsLeaveInOrder
  BY DEF OrderInv, InOrder, RequestsLeaveInOrder
<1> QED
  BY <1>1, <1>2, <1>3, TypeCorrect, ConnInvariant, ParkedRequestsAreDialed,
     PanicInvariant, PTL DEF Spec

-----------------------------------------------------------------------------
(***************************************************************************)
(* The fate of a request.  A request that was made and not yet told of is  *)
(* parked, or awaited from its peer, or its fate is queued: it moves along *)
(* these stages, never backwards, and for one peer only.                   *)
(***************************************************************************)

\* The queued events that tell the application the fate of a request.
Fates(queue) ==
    {e \in ToSet(queue) : e.type = "GenerateEvent" /\ e.origin = "out"}

\* No queue tells the fate of a request twice.
DistinctFates(queue) ==
    \A i, j \in DOMAIN queue :
        (/\ queue[i].type = "GenerateEvent"
         /\ queue[j].type = "GenerateEvent"
         /\ queue[i].origin = "out"
         /\ queue[j].origin = "out"
         /\ queue[i].request = queue[j].request) => i = j

ParkedFor(p, r)   == r \in ToSet(pending_outbound_requests[p])
AwaitedFrom(p, r) == \E c \in pool[p] : r \in pending_inbound_responses[c]
FatedOf(p, r)     == \E e \in Fates(pending_events) : e.peer = p /\ e.request = r

\* Request r was made to p and its fate not told.
InProgress(p, r) == ParkedFor(p, r) \/ AwaitedFrom(p, r) \/ FatedOf(p, r)

Told(r) == reported[r] # "None"

OneStage(r) ==
    /\ \A p \in Peers : ParkedFor(p, r) => ~ AwaitedFrom(p, r) /\ ~ FatedOf(p, r)
    /\ \A p \in Peers : AwaitedFrom(p, r) => ~ FatedOf(p, r)
    /\ \A p, q \in Peers : InProgress(p, r) /\ InProgress(q, r) => p = q
    /\ Told(r) => \A p \in Peers : ~ InProgress(p, r)
    /\ r < next_request_id <=> Told(r) \/ \E p \in Peers : InProgress(p, r)

StageInv == \A r \in RequestIds : OneStage(r)

\* A request is awaited on one connection, which is established.
AwaitedOnce ==
    /\ \A c, d \in ConnectionIds : \A r \in pending_inbound_responses[c] :
          r \in pending_inbound_responses[d] => c = d
    /\ \A c \in ConnectionIds :
          pending_inbound_responses[c] # {} => \E p \in Peers : c \in pool[p]

HomeInv ==
    /\ DistinctFates(pending_events)
    /\ \A e \in Fates(pending_events) : e.request \in RequestIds
    /\ AwaitedOnce
    /\ StageInv

\* The fates in a concatenation.
LEMMA FatesConcat ==
    ASSUME NEW s \in Seq(BehaviourActions), NEW t \in Seq(BehaviourActions)
    PROVE  Fates(s \o t) = Fates(s) \cup Fates(t)
<1>1. ToSet(s \o t) = ToSet(s) \cup ToSet(t)
  BY ToSetConcat
<1> QED
  BY <1>1 DEF Fates

\* Two queues that tell each fate once, and different ones.
LEMMA DistinctFatesConcat ==
    ASSUME NEW S, NEW s \in Seq(S), NEW t \in Seq(S),
           DistinctFates(s), DistinctFates(t),
           \A a \in Fates(s), b \in Fates(t) : a.request # b.request
    PROVE  DistinctFates(s \o t)
<1> DEFINE u == s \o t
           Fate(e) == e.type = "GenerateEvent" /\ e.origin = "out"
<1>1. /\ u \in Seq(S)
      /\ Len(u) = Len(s) + Len(t)
      /\ \A i \in 1..(Len(s) + Len(t)) :
            u[i] = IF i <= Len(s) THEN s[i] ELSE t[i - Len(s)]
  BY ConcatProperties
<1> HIDE DEF u
<1>2. /\ DOMAIN u = 1..(Len(s) + Len(t))
      /\ DOMAIN s = 1..Len(s)
      /\ DOMAIN t = 1..Len(t)
      /\ Len(s) \in Nat
      /\ Len(t) \in Nat
  BY <1>1
<1> SUFFICES ASSUME NEW i \in DOMAIN u, NEW j \in DOMAIN u, i <= j,
                    Fate(u[i]), Fate(u[j]), u[i].request = u[j].request
             PROVE  i = j
  BY <1>2, SMTT(30) DEF DistinctFates, u
<1>3. CASE j <= Len(s)
  <2>1. i \in DOMAIN s /\ j \in DOMAIN s /\ u[i] = s[i] /\ u[j] = s[j]
    BY <1>1, <1>2, <1>3
  <2> QED
    BY <2>1 DEF DistinctFates
<1>4. CASE i > Len(s)
  <2>1. /\ i - Len(s) \in DOMAIN t
        /\ j - Len(s) \in DOMAIN t
        /\ u[i] = t[i - Len(s)]
        /\ u[j] = t[j - Len(s)]
    BY <1>1, <1>2, <1>4
  <2>2. i - Len(s) = j - Len(s)
    BY <2>1 DEF DistinctFates
  <2> QED
    BY <1>2, <2>2
<1>5. CASE i <= Len(s) /\ j > Len(s)
  <2>1. i \in DOMAIN s /\ u[i] = s[i] /\ j - Len(s) \in DOMAIN t /\ u[j] = t[j - Len(s)]
    BY <1>1, <1>2, <1>5
  <2>2. u[i] \in Fates(s) /\ u[j] \in Fates(t)
    BY <2>1 DEF Fates, ToSet
  <2> QED
    BY <2>2
<1> QED
  BY <1>2, <1>3, <1>4, <1>5

\* Taking the first action off the queue takes at most its fate.
LEMMA FatesTail ==
    ASSUME NEW S, NEW s \in Seq(S), s # <<>>, DistinctFates(s)
    PROVE  /\ DistinctFates(Tail(s))
           /\ Head(s).type # "GenerateEvent" \/ Head(s).origin # "out" =>
                 Fates(Tail(s)) = Fates(s)
           /\ Head(s).type = "GenerateEvent" /\ Head(s).origin = "out" =>
                 /\ Head(s) \in Fates(s)
                 /\ Fates(Tail(s)) = {e \in Fates(s) : e.request # Head(s).request}
<1> DEFINE Fate(e) == e.type = "GenerateEvent" /\ e.origin = "out"
<1>1. /\ Tail(s) \in Seq(S)
      /\ Len(Tail(s)) = Len(s) - 1
      /\ \A i \in 1..Len(Tail(s)) : Tail(s)[i] = s[i + 1]
  BY HeadTailProperties
<1>2. /\ Len(s) \in Nat \ {0}
      /\ DOMAIN s = 1..Len(s)
      /\ DOMAIN Tail(s) = 1..(Len(s) - 1)
      /\ Head(s) = s[1]
      /\ 1 \in DOMAIN s
  BY <1>1
<1>3. DistinctFates(Tail(s))
  <2> SUFFICES ASSUME NEW i \in DOMAIN Tail(s), NEW j \in DOMAIN Tail(s),
                      Fate(Tail(s)[i]), Fate(Tail(s)[j]),
                      Tail(s)[i].request = Tail(s)[j].request
               PROVE  i = j
    BY DEF DistinctFates
  <2>1. /\ i + 1 \in DOMAIN s
        /\ j + 1 \in DOMAIN s
        /\ Tail(s)[i] = s[i + 1]
        /\ Tail(s)[j] = s[j + 1]
    BY <1>1, <1>2
  <2>2. i + 1 = j + 1
    BY <2>1 DEF DistinctFates
  <2> QED
    BY <1>2, <2>2
<1>4. ASSUME NEW e \in Fates(Tail(s))
      PROVE  e \in Fates(s) /\ (Fate(Head(s)) => e.request # Head(s).request)
  <2>1. PICK i \in DOMAIN Tail(s) : e = Tail(s)[i] /\ Fate(e)
    BY DEF Fates, ToSet
  <2>2. i + 1 \in DOMAIN s /\ e = s[i + 1] /\ i + 1 # 1
    BY <1>1, <1>2, <2>1
  <2>3. e \in Fates(s)
    BY <2>1, <2>2 DEF Fates, ToSet
  <2> QED
    BY <1>2, <2>1, <2>2, <2>3 DEF DistinctFates
<1>5. ASSUME NEW e \in Fates(s), e # Head(s)
      PROVE  e \in Fates(Tail(s))
  <2>1. PICK i \in DOMAIN s : e = s[i] /\ Fate(e)
    BY DEF Fates, ToSet
  <2>2. i # 1
    BY <1>2, <1>5, <2>1
  <2>3. i - 1 \in DOMAIN Tail(s) /\ e = Tail(s)[i - 1]
    BY <1>1, <1>2, <2>1, <2>2
  <2> QED
    BY <2>1, <2>3 DEF Fates, ToSet
<1>6. Fate(Head(s)) => Head(s) \in Fates(s)
  BY <1>2 DEF Fates, ToSet
<1>7. \A e \in Fates(s) : Fate(e)
  BY DEF Fates
<1>8. Fates(Tail(s)) \subseteq Fates(s)
  BY <1>4
<1>9. ~ Fate(Head(s)) => Fates(Tail(s)) = Fates(s)
  BY <1>5, <1>7, <1>8
<1>10. Fate(Head(s)) =>
          Fates(Tail(s)) = {e \in Fates(s) : e.request # Head(s).request}
  BY <1>4, <1>5, <1>8
<1> QED
  BY <1>3, <1>6, <1>9, <1>10

\* Actions that tell no fate.
LEMMA NoFates ==
    ASSUME NEW t, \A i \in DOMAIN t : t[i].type # "GenerateEvent" \/ t[i].origin # "out"
    PROVE  Fates(t) = {} /\ DistinctFates(t)
BY DEF Fates, DistinctFates, ToSet

\* Events t tell p's requests rs failed or answered, one each.
TellsEach(t, p, rs) ==
    /\ DOMAIN t = DOMAIN rs
    /\ \A i \in DOMAIN rs : /\ t[i].type = "GenerateEvent"
                            /\ t[i].origin = "out"
                            /\ t[i].peer = p
                            /\ t[i].request = rs[i]

\* Events for different requests of ours tell the fate of each.
LEMMA FatesOfEvents ==
    ASSUME NEW t, NEW p, NEW rs, TellsEach(t, p, rs), IsInjective(rs)
    PROVE  /\ DistinctFates(t)
           /\ \A e \in Fates(t) : e.peer = p /\ e.request \in ToSet(rs)
           /\ \A r \in ToSet(rs) : \E e \in Fates(t) : e.peer = p /\ e.request = r
<1>1. /\ DOMAIN t = DOMAIN rs
      /\ \A i \in DOMAIN rs : /\ t[i].type = "GenerateEvent"
                              /\ t[i].origin = "out"
                              /\ t[i].peer = p
                              /\ t[i].request = rs[i]
  BY DEF TellsEach
<1>2. DistinctFates(t)
  BY <1>1 DEF DistinctFates, IsInjective
<1>3. \A e \in Fates(t) : e.peer = p /\ e.request \in ToSet(rs)
  BY <1>1 DEF Fates, ToSet
<1>4. \A r \in ToSet(rs) : \E e \in Fates(t) : e.peer = p /\ e.request = r
  BY <1>1 DEF Fates, ToSet
<1> QED
  BY <1>2, <1>3, <1>4

-----------------------------------------------------------------------------
\* The stages of requests when requests M to p move on by one stage or two.
Parked2Awaited(p, M) ==
    /\ \A r \in M : ParkedFor(p, r)
    /\ \A q \in Peers, r \in RequestIds :
          /\ ParkedFor(q, r)' <=> ParkedFor(q, r) /\ ~ (q = p /\ r \in M)
          /\ AwaitedFrom(q, r)' <=> AwaitedFrom(q, r) \/ (q = p /\ r \in M)
          /\ FatedOf(q, r)' <=> FatedOf(q, r)

Parked2Fated(p, M) ==
    /\ \A r \in M : ParkedFor(p, r)
    /\ \A q \in Peers, r \in RequestIds :
          /\ ParkedFor(q, r)' <=> ParkedFor(q, r) /\ ~ (q = p /\ r \in M)
          /\ AwaitedFrom(q, r)' <=> AwaitedFrom(q, r)
          /\ FatedOf(q, r)' <=> FatedOf(q, r) \/ (q = p /\ r \in M)

Awaited2Fated(p, M) ==
    /\ \A r \in M : AwaitedFrom(p, r)
    /\ \A q \in Peers, r \in RequestIds :
          /\ ParkedFor(q, r)' <=> ParkedFor(q, r)
          /\ AwaitedFrom(q, r)' <=> AwaitedFrom(q, r) /\ ~ (q = p /\ r \in M)
          /\ FatedOf(q, r)' <=> FatedOf(q, r) \/ (q = p /\ r \in M)

\* The same requests are in progress after the step.
KeepsProgress ==
    \A q \in Peers, r \in RequestIds : InProgress(q, r)' <=> InProgress(q, r)

LEMMA StageMove ==
    ASSUME StageInv, NEW p \in Peers, NEW M,
           Parked2Awaited(p, M) \/ Parked2Fated(p, M) \/ Awaited2Fated(p, M),
           UNCHANGED <<next_request_id, reported>>
    PROVE  StageInv' /\ KeepsProgress
<1>1. KeepsProgress
  BY DEF Parked2Awaited, Parked2Fated, Awaited2Fated, KeepsProgress, InProgress
<1>2. \A r \in RequestIds : Told(r)' <=> Told(r)
  BY DEF Told
<1>3. ASSUME NEW r \in RequestIds PROVE OneStage(r)'
  <2>1. OneStage(r)
    BY DEF StageInv
  <2>2. \A q \in Peers : InProgress(q, r)' <=> InProgress(q, r)
    BY <1>1 DEF KeepsProgress
  <2>3. /\ \A q \in Peers : ParkedFor(q, r)' =>
              ~ AwaitedFrom(q, r)' /\ ~ FatedOf(q, r)'
        /\ \A q \in Peers : AwaitedFrom(q, r)' => ~ FatedOf(q, r)'
    BY <2>1 DEF OneStage, Parked2Awaited, Parked2Fated, Awaited2Fated
  <2> QED
    BY <1>2, <2>1, <2>2, <2>3 DEF OneStage
<1> QED
  BY <1>1, <1>3 DEF StageInv

\* Nothing moves.
LEMMA StageStays ==
    ASSUME StageInv, UNCHANGED <<next_request_id, reported>>,
           \A q \in Peers, r \in RequestIds :
              /\ ParkedFor(q, r)' <=> ParkedFor(q, r)
              /\ AwaitedFrom(q, r)' <=> AwaitedFrom(q, r)
              /\ FatedOf(q, r)' <=> FatedOf(q, r)
    PROVE  StageInv' /\ KeepsProgress
<1>1. KeepsProgress
  BY DEF KeepsProgress, InProgress
<1>2. \A r \in RequestIds : Told(r)' <=> Told(r)
  BY DEF Told
<1> QED
  BY <1>1, <1>2 DEF StageInv, OneStage, KeepsProgress

\* A new request is in progress, in its first stage.
LEMMA StageEnter ==
    ASSUME StageInv, NEW p \in Peers,
           next_request_id \in RequestIds, next_request_id' = next_request_id + 1,
           UNCHANGED reported,
           \A q \in Peers, r \in RequestIds : FatedOf(q, r)' <=> FatedOf(q, r),
           \/ \A q \in Peers, r \in RequestIds :
                 /\ ParkedFor(q, r)' <=>
                       ParkedFor(q, r) \/ (q = p /\ r = next_request_id)
                 /\ AwaitedFrom(q, r)' <=> AwaitedFrom(q, r)
           \/ \A q \in Peers, r \in RequestIds :
                 /\ ParkedFor(q, r)' <=> ParkedFor(q, r)
                 /\ AwaitedFrom(q, r)' <=>
                       AwaitedFrom(q, r) \/ (q = p /\ r = next_request_id)
    PROVE  /\ StageInv'
           /\ \A q \in Peers, r \in RequestIds :
                 InProgress(q, r)' <=>
                    InProgress(q, r) \/ (q = p /\ r = next_request_id)
<1> DEFINE n == next_request_id
<1>1. n \in Nat /\ RequestIds \subseteq Nat
  BY BoundsAssumption DEF RequestIds
<1>2. \A q \in Peers : ~ InProgress(q, n)
  BY <1>1 DEF StageInv, OneStage
<1>3. ~ Told(n)
  BY <1>1 DEF StageInv, OneStage
<1>4. \A q \in Peers, r \in RequestIds :
         InProgress(q, r)' <=> InProgress(q, r) \/ (q = p /\ r = n)
  BY DEF InProgress
<1>5. \A r \in RequestIds : Told(r)' <=> Told(r)
  BY DEF Told
<1>6. ASSUME NEW r \in RequestIds PROVE OneStage(r)'
  <2>1. OneStage(r) /\ r \in Nat
    BY <1>1 DEF StageInv
  <2>2. /\ \A q \in Peers : ParkedFor(q, r)' =>
              ~ AwaitedFrom(q, r)' /\ ~ FatedOf(q, r)'
        /\ \A q \in Peers : AwaitedFrom(q, r)' => ~ FatedOf(q, r)'
    BY <1>2, <2>1 DEF OneStage, InProgress
  <2>3. r < n + 1 <=> r < n \/ r = n
    BY <1>1, <2>1
  <2>4. \A q, s \in Peers : InProgress(q, r)' /\ InProgress(s, r)' => q = s
    BY <1>2, <1>4, <2>1 DEF OneStage
  <2>5. Told(r)' => \A q \in Peers : ~ InProgress(q, r)'
    BY <1>3, <1>4, <1>5, <2>1 DEF OneStage
  <2>6. r < next_request_id' <=> Told(r)' \/ \E q \in Peers : InProgress(q, r)'
    BY <1>4, <1>5, <2>1, <2>3 DEF OneStage
  <2> QED
    BY <2>2, <2>4, <2>5, <2>6 DEF OneStage
<1> QED
  BY <1>4, <1>6 DEF StageInv

-----------------------------------------------------------------------------
\* The fields of a queued fate.
LEMMA FateType ==
    ASSUME TypeOK, HomeInv, NEW e \in Fates(pending_events)
    PROVE  e.peer \in Peers /\ e.request \in RequestIds /\ e.event \in EventNames
<1>1. PICK i \in DOMAIN pending_events :
        e = pending_events[i] /\ e.type = "GenerateEvent"
  BY DEF Fates, ToSet
<1>2. e \in BehaviourActions
  BY <1>1 DEF TypeOK
<1>3. e.request \in RequestIds
  BY DEF HomeInv
<1> QED
  BY <1>1, <1>2, <1>3 DEF BehaviourActions, DialActions, NotifyActions, EventActions

\* Actions t join the queue, after one that tells no fate may have left it:
\* they tell the fates of the requests M to p, which were still under way.
FatesJoin(base, t, p, M) ==
    /\ base \in Seq(BehaviourActions)
    /\ t \in Seq(BehaviourActions)
    /\ DistinctFates(base)
    /\ DistinctFates(t)
    /\ Fates(base) = Fates(pending_events)
    /\ pending_events' = base \o t
    /\ M \in SUBSET RequestIds
    /\ \A e \in Fates(t) : e.peer = p /\ e.request \in M
    /\ \A r \in M : \E e \in Fates(t) : e.peer = p /\ e.request = r
    /\ \A r \in M : ParkedFor(p, r) \/ AwaitedFrom(p, r)

LEMMA QueueFates ==
    ASSUME TypeOK, HomeInv, NEW base, NEW t, NEW p \in Peers, NEW M,
           FatesJoin(base, t, p, M)
    PROVE  /\ DistinctFates(pending_events')
           /\ \A e \in Fates(pending_events') : e.request \in RequestIds
           /\ \A q \in Peers, r \in RequestIds :
                 FatedOf(q, r)' <=> FatedOf(q, r) \/ (q = p /\ r \in M)
<1> USE DEF FatesJoin
<1>1. Fates(pending_events') = Fates(pending_events) \cup Fates(t)
  BY FatesConcat
<1>2. ASSUME NEW a \in Fates(pending_events), NEW b \in Fates(t)
      PROVE  a.request # b.request
  <2>1. /\ a.peer \in Peers
        /\ a.request \in RequestIds
        /\ b.request \in M
    BY FateType
  <2>2. FatedOf(a.peer, a.request)
    BY DEF FatedOf
  <2>3. SUFFICES ASSUME a.request = b.request PROVE FALSE
    OBVIOUS
  <2>4. InProgress(p, a.request) /\ InProgress(a.peer, a.request)
    BY <2>1, <2>2, <2>3 DEF InProgress
  <2>5. OneStage(a.request)
    BY <2>1 DEF HomeInv, StageInv
  <2>6. a.peer = p
    BY <2>1, <2>4, <2>5 DEF OneStage
  <2> QED
    BY <2>1, <2>2, <2>3, <2>5, <2>6 DEF OneStage
<1>3. DistinctFates(pending_events')
  BY <1>2, DistinctFatesConcat
<1>4. \A e \in Fates(pending_events') : e.request \in RequestIds
  BY <1>1 DEF HomeInv
<1>5. ASSUME NEW q \in Peers, NEW r \in RequestIds
      PROVE  FatedOf(q, r)' <=> FatedOf(q, r) \/ (q = p /\ r \in M)
  <2>1. FatedOf(q, r)' <=> \E e \in Fates(pending_events') : e.peer = q /\ e.request = r
    BY DEF FatedOf
  <2> QED
    BY <1>1, <2>1 DEF FatedOf
<1> QED
  BY <1>3, <1>4, <1>5

\* Nothing but the queue and the parked requests has a part in one_dial_failure:
\* every request parked for the peer goes to the queue as a fate.
LEMMA HomeDialFailure ==
    ASSUME TypeOK, PanicInv, HomeInv, NEW p \in Peers,
           NEW base \in Seq(BehaviourActions), DistinctFates(base),
           Fates(base) = Fates(pending_events),
           OneDialFailure(p, base), UNCHANGED <<pool, reported>>
    PROVE  HomeInv' /\ KeepsProgress
<1> DEFINE rs == pending_outbound_requests[p]
           t == DialFailureEvents(p)
           M == ToSet(rs)
<1>1. /\ pending_events' = base \o t
      /\ pending_outbound_requests' = [pending_outbound_requests EXCEPT ![p] = <<>>]
      /\ UNCHANGED <<next_request_id, pending_inbound_responses>>
  BY DEF OneDialFailure
<1>2. /\ IsInjective(rs)
      /\ M \in SUBSET RequestIds
      /\ \A r \in M : ParkedFor(p, r)
  BY DEF PanicInv, ParkedTracked, TypeOK, ToSet, ParkedFor
<1>3. t \in Seq(BehaviourActions)
  BY DialFailureEventsType DEF TypeOK
<1>4. TellsEach(t, p, rs)
  BY DEF DialFailureEvents, GenerateEvent, TellsEach
<1>5. ToSet(<<>>) = {}
  BY DEF ToSet
<1>6. ASSUME NEW q \in Peers, NEW r \in RequestIds
      PROVE  /\ ParkedFor(q, r)' <=> ParkedFor(q, r) /\ ~ (q = p /\ r \in M)
             /\ AwaitedFrom(q, r)' <=> AwaitedFrom(q, r)
  <2>1. pending_outbound_requests'[q] =
          IF q = p THEN <<>> ELSE pending_outbound_requests[q]
    BY <1>1 DEF TypeOK
  <2> QED
    BY <1>1, <1>5, <2>1 DEF ParkedFor, AwaitedFrom
<1> HIDE DEF rs, t, M
<1>7. /\ DistinctFates(t)
      /\ \A e \in Fates(t) : e.peer = p /\ e.request \in M
      /\ \A r \in M : \E e \in Fates(t) : e.peer = p /\ e.request = r
  BY <1>2, <1>4, FatesOfEvents DEF M
<1>8. /\ DistinctFates(pending_events')
      /\ \A e \in Fates(pending_events') : e.request \in RequestIds
      /\ \A q \in Peers, r \in RequestIds :
            FatedOf(q, r)' <=> FatedOf(q, r) \/ (q = p /\ r \in M)
  <2>1. FatesJoin(base, t, p, M)
    BY <1>1, <1>2, <1>3, <1>7 DEF FatesJoin
  <2> QED
    BY <2>1, QueueFates
<1>9. Parked2Fated(p, M)
  BY <1>2, <1>6, <1>8 DEF Parked2Fated
<1>10. StageInv' /\ KeepsProgress
  BY <1>1, <1>9, StageMove DEF HomeInv
<1>11. AwaitedOnce'
  BY <1>1 DEF HomeInv, AwaitedOnce
<1> QED
  BY <1>8, <1>10, <1>11 DEF HomeInv

\* Actions that tell no fate join the queue.
LEMMA QueueNoFates ==
    ASSUME TypeOK, HomeInv, NEW t \in Seq(BehaviourActions),
           pending_events' = pending_events \o t,
           \A i \in DOMAIN t : t[i].type # "GenerateEvent" \/ t[i].origin # "out"
    PROVE  /\ DistinctFates(pending_events')
           /\ Fates(pending_events') = Fates(pending_events)
           /\ \A e \in Fates(pending_events') : e.request \in RequestIds
           /\ \A q \in Peers, r \in RequestIds : FatedOf(q, r)' <=> FatedOf(q, r)
<1>1. Fates(t) = {} /\ DistinctFates(t)
  BY NoFates
<1>2. Fates(pending_events') = Fates(pending_events)
  <2>1. Fates(pending_events \o t) = Fates(pending_events) \cup Fates(t)
    BY FatesConcat DEF TypeOK
  <2> QED
    BY <1>1, <2>1
<1>3. DistinctFates(pending_events')
  BY <1>1, DistinctFatesConcat DEF TypeOK, HomeInv
<1> QED
  BY <1>2, <1>3 DEF HomeInv, FatedOf

\* A request that is awaited somewhere is in progress and neither parked nor
\* queued.
LEMMA AwaitedStage ==
    ASSUME HomeInv, NEW c \in ConnectionIds, NEW r \in RequestIds,
           r \in pending_inbound_responses[c]
    PROVE  /\ r < next_request_id
           /\ \A p \in Peers : ~ ParkedFor(p, r)
<1>1. PICK q \in Peers : c \in pool[q]
  BY DEF HomeInv, AwaitedOnce
<1>2. AwaitedFrom(q, r) /\ InProgress(q, r) /\ OneStage(r)
  BY <1>1 DEF AwaitedFrom, InProgress, HomeInv, StageInv
<1>3. r < next_request_id
  BY <1>2 DEF OneStage
<1>4. ASSUME NEW p \in Peers, ParkedFor(p, r) PROVE FALSE
  <2>1. InProgress(p, r)
    BY <1>4 DEF InProgress
  <2>2. p = q
    BY <1>2, <2>1 DEF OneStage
  <2> QED
    BY <1>2, <1>4, <2>2 DEF OneStage
<1> QED
  BY <1>3, <1>4

\* send_request: the request enters the stages.
LEMMA HomeSend ==
    ASSUME TypeOK, ConnInv, HomeInv, NEW p \in Peers, SendRequest(p)
    PROVE  /\ HomeInv'
           /\ \A q \in Peers, r \in RequestIds :
                 InProgress(q, r)' <=>
                    InProgress(q, r) \/ (q = p /\ r = next_request_id)
<1> DEFINE n == next_request_id
<1>1. /\ n \in RequestIds
      /\ next_request_id' = n + 1
      /\ UNCHANGED <<pool, reported>>
  BY DEF SendRequest, NextId, swarmVars
<1>2. n \in Nat /\ RequestIds \subseteq Nat
  BY <1>1, BoundsAssumption DEF RequestIds
<1>3. CASE connected[p] = <<>>
  <2>1. /\ pending_events' = Append(pending_events, Dial(p))
        /\ pending_outbound_requests' =
              [pending_outbound_requests EXCEPT ![p] = Append(@, n)]
        /\ UNCHANGED pending_inbound_responses
    BY <1>3 DEF SendRequest
  <2>2. Dial(p) \in BehaviourActions /\ Dial(p).type = "Dial"
    BY DEF Dial, BehaviourActions, DialActions
  <2>3. /\ Append(pending_events, Dial(p)) = pending_events \o <<Dial(p)>>
        /\ <<Dial(p)>> \in Seq(BehaviourActions)
        /\ \A i \in DOMAIN <<Dial(p)>> : <<Dial(p)>>[i].type # "GenerateEvent"
    <3> DEFINE d == Dial(p)
    <3> HIDE DEF d
    <3>1. d \in BehaviourActions /\ d.type = "Dial"
      BY <2>2 DEF d
    <3>2. /\ Append(pending_events, d) = pending_events \o <<d>>
          /\ <<d>> \in Seq(BehaviourActions)
          /\ \A i \in DOMAIN <<d>> : <<d>>[i].type # "GenerateEvent"
      BY <3>1, AppendIsConcat DEF TypeOK
    <3> QED
      BY <3>2 DEF d
  <2>4. /\ DistinctFates(pending_events')
        /\ \A e \in Fates(pending_events') : e.request \in RequestIds
        /\ \A q \in Peers, r \in RequestIds : FatedOf(q, r)' <=> FatedOf(q, r)
    BY <2>1, <2>3, QueueNoFates
  <2>5. ASSUME NEW q \in Peers, NEW r \in RequestIds
        PROVE  /\ ParkedFor(q, r)' <=> ParkedFor(q, r) \/ (q = p /\ r = n)
               /\ AwaitedFrom(q, r)' <=> AwaitedFrom(q, r)
    <3>1. pending_outbound_requests'[q] =
            IF q = p THEN Append(pending_outbound_requests[p], n)
                     ELSE pending_outbound_requests[q]
      BY <2>1 DEF TypeOK
    <3>2. ToSet(Append(pending_outbound_requests[p], n)) =
            ToSet(pending_outbound_requests[p]) \cup {n}
      BY <1>1, ToSetAppend DEF TypeOK
    <3> QED
      BY <1>1, <2>1, <3>1, <3>2 DEF ParkedFor, AwaitedFrom
  <2>6. /\ StageInv'
        /\ \A q \in Peers, r \in RequestIds :
              InProgress(q, r)' <=> InProgress(q, r) \/ (q = p /\ r = n)
    BY <1>1, <2>4, <2>5, StageEnter DEF HomeInv
  <2>7. AwaitedOnce'
    BY <1>1, <2>1 DEF HomeInv, AwaitedOnce
  <2> QED
    BY <2>4, <2>6, <2>7 DEF HomeInv
<1>4. CASE connected[p] # <<>>
  <2> DEFINE c == Target(connected[p], n)
             t == Notifications(p, connected[p], <<n>>)
  <2>1. /\ pending_inbound_responses' =
              Dispatched(pending_inbound_responses, connected[p], <<n>>)
        /\ pending_events' = pending_events \o t
        /\ UNCHANGED pending_outbound_requests
    BY <1>4 DEF SendRequest
  <2>2. /\ connected[p] \in Seq(ConnectionIds)
        /\ ToSet(connected[p]) = pool[p]
        /\ c \in ConnectionIds
        /\ c \in pool[p]
    <3>1. connected[p] \in Seq(ConnectionIds) /\ ToSet(connected[p]) = pool[p]
      BY DEF TypeOK, ConnInv, ConnectedMirrorsPool
    <3> QED
      BY <1>2, <1>4, <3>1, TargetType
  <2>3. <<n>> \in Seq(RequestIds) /\ ToSet(<<n>>) = {n}
    BY <1>1 DEF ToSet
  <2>4. /\ t \in Seq(BehaviourActions)
        /\ \A i \in DOMAIN t : t[i].type # "GenerateEvent"
    <3>1. t \in Seq(BehaviourActions)
      BY <1>4, <2>2, <2>3, NotificationsType
    <3>2. \A i \in DOMAIN t : t[i].type = "NotifyHandler"
      BY DEF Notifications, NotifyHandler
    <3> QED
      BY <3>1, <3>2
  <2>5. \A d \in ConnectionIds : pending_inbound_responses'[d] =
           pending_inbound_responses[d] \cup (IF d = c THEN {n} ELSE {})
    BY <2>1, <2>3 DEF Dispatched
  <2> HIDE DEF c, t, n
  <2>6. /\ DistinctFates(pending_events')
        /\ \A e \in Fates(pending_events') : e.request \in RequestIds
        /\ \A q \in Peers, r \in RequestIds : FatedOf(q, r)' <=> FatedOf(q, r)
    BY <2>1, <2>4, QueueNoFates
  <2>7. \A q \in Peers : pool[q] \subseteq ConnectionIds /\ (c \in pool[q] => q = p)
    BY <2>2 DEF TypeOK, ConnInv, PoolOwnership
  <2>8. ASSUME NEW q \in Peers, NEW r \in RequestIds
        PROVE  /\ ParkedFor(q, r)' <=> ParkedFor(q, r)
               /\ AwaitedFrom(q, r)' <=> AwaitedFrom(q, r) \/ (q = p /\ r = n)
    <3>1. AwaitedFrom(q, r)' <=> \E d \in pool[q] : r \in pending_inbound_responses'[d]
      BY <1>1 DEF AwaitedFrom
    <3>2. AwaitedFrom(q, r)' <=> AwaitedFrom(q, r) \/ (q = p /\ r = n)
      BY <2>2, <2>5, <2>7, <3>1 DEF AwaitedFrom
    <3> QED
      BY <2>1, <3>2 DEF ParkedFor
  <2>9. /\ StageInv'
        /\ \A q \in Peers, r \in RequestIds :
              InProgress(q, r)' <=> InProgress(q, r) \/ (q = p /\ r = n)
    BY <1>1, <2>6, <2>8, StageEnter DEF HomeInv, n
  <2>10. \A d \in ConnectionIds : n \notin pending_inbound_responses[d]
    BY <1>1, <1>2, AwaitedStage DEF n
  <2>11. AwaitedOnce'
    <3>1. \A d \in ConnectionIds : \A r \in pending_inbound_responses[d] :
             r # n
      BY <2>10
    <3> QED
      BY <1>1, <2>2, <2>5, <3>1 DEF HomeInv, AwaitedOnce
  <2> QED
    BY <2>6, <2>9, <2>11 DEF HomeInv, n
<1> QED
  BY <1>3, <1>4

\* on_connection_established: the requests parked for the peer are awaited.
LEMMA HomeEstablish ==
    ASSUME TypeOK, ConnInv, PanicInv, HomeInv, NEW p \in Peers,
           NEW c \in ConnectionIds, EstablishConnection(p, c)
    PROVE  HomeInv' /\ KeepsProgress
<1> DEFINE conns == WithConnection(connected[p], c)
           rs == IF pool[p] = {} THEN pending_outbound_requests[p] ELSE <<>>
           fresh == [pending_inbound_responses EXCEPT ![c] = {}]
           t == Notifications(p, conns, rs)
           M == ToSet(rs)
<1> USE BoundsAssumption
<1>1. /\ c \notin used
      /\ pool' = [pool EXCEPT ![p] = @ \cup {c}]
      /\ OnConnectionEstablished(p, c, pool[p])
      /\ UNCHANGED reported
  BY DEF EstablishConnection
<1>2. /\ pending_inbound_responses' = Dispatched(fresh, conns, rs)
      /\ pending_events' = pending_events \o t
      /\ pending_outbound_requests' =
            IF pool[p] = {} THEN [pending_outbound_requests EXCEPT ![p] = <<>>]
                            ELSE pending_outbound_requests
      /\ UNCHANGED next_request_id
  BY <1>1 DEF OnConnectionEstablished
<1>3. /\ conns \in Seq(ConnectionIds)
      /\ conns # <<>>
      /\ ToSet(conns) = pool[p] \cup {c}
  <2>1. connected[p] \in Seq(ConnectionIds) /\ ToSet(connected[p]) = pool[p]
    BY DEF TypeOK, ConnInv, ConnectedMirrorsPool
  <2>2. conns = Append(connected[p], c)
    BY DEF WithConnection
  <2> QED
    BY <2>1, <2>2, AppendProperties, ToSetAppend
<1>4. /\ rs \in Seq(RequestIds)
      /\ M \subseteq RequestIds
      /\ \A r \in M : ParkedFor(p, r)
  BY DEF TypeOK, ToSet, ParkedFor
<1>5. \A q \in Peers : /\ pool[q] \subseteq ConnectionIds
                       /\ c \notin pool[q]
                       /\ pool'[q] = pool[q] \cup (IF q = p THEN {c} ELSE {})
  BY <1>1 DEF TypeOK, ConnInv, PoolOwnership
<1>6. pending_inbound_responses[c] = {}
  BY <1>5 DEF HomeInv, AwaitedOnce
<1>7. \A d \in ConnectionIds : fresh[d] = pending_inbound_responses[d]
  BY <1>6 DEF TypeOK
<1>8. ASSUME NEW q \in Peers, NEW r \in RequestIds
      PROVE  ParkedFor(q, r)' <=> ParkedFor(q, r) /\ ~ (q = p /\ r \in M)
  <2>1. ToSet(<<>>) = {}
    BY DEF ToSet
  <2>2. CASE pool[p] = {}
    <3>1. pending_outbound_requests'[q] =
            IF q = p THEN <<>> ELSE pending_outbound_requests[q]
      BY <1>2, <2>2 DEF TypeOK
    <3> QED
      BY <2>1, <2>2, <3>1 DEF ParkedFor
  <2>3. CASE pool[p] # {}
    BY <1>2, <2>1, <2>3 DEF ParkedFor
  <2> QED
    BY <2>2, <2>3
<1> HIDE DEF conns, rs, fresh, t
<1>9. /\ t \in Seq(BehaviourActions)
      /\ \A i \in DOMAIN t : t[i].type # "GenerateEvent"
  <2>1. t \in Seq(BehaviourActions)
    BY <1>3, <1>4, NotificationsType DEF t
  <2>2. \A i \in DOMAIN t : t[i].type = "NotifyHandler"
    BY DEF t, Notifications, NotifyHandler
  <2> QED
    BY <2>1, <2>2
<1>10. /\ DistinctFates(pending_events')
       /\ \A e \in Fates(pending_events') : e.request \in RequestIds
       /\ \A q \in Peers, r \in RequestIds : FatedOf(q, r)' <=> FatedOf(q, r)
  BY <1>2, <1>9, QueueNoFates
<1>11. ASSUME NEW r \in M
       PROVE  Target(conns, r) \in ConnectionIds /\ Target(conns, r) \in pool'[p]
  BY <1>3, <1>4, <1>5, TargetType DEF RequestIds
<1>12. \A d \in ConnectionIds : pending_inbound_responses'[d] =
          pending_inbound_responses[d] \cup {r \in M : Target(conns, r) = d}
  BY <1>2, <1>7 DEF Dispatched
<1> HIDE DEF M
<1>13. \A q \in Peers, d \in ConnectionIds : d \in pool'[p] /\ d \in pool'[q] => q = p
  BY <1>5 DEF ConnInv, PoolOwnership
<1>14. ASSUME NEW q \in Peers, NEW r \in RequestIds
       PROVE  AwaitedFrom(q, r)' <=> AwaitedFrom(q, r) \/ (q = p /\ r \in M)
  <2>1. AwaitedFrom(q, r)' <=> \E d \in pool'[q] : r \in pending_inbound_responses'[d]
    BY DEF AwaitedFrom
  <2>2. ASSUME NEW d \in pool'[q], r \in pending_inbound_responses'[d]
        PROVE  AwaitedFrom(q, r) \/ (q = p /\ r \in M)
    <3>1. d \in ConnectionIds
      BY <1>5
    <3>2. CASE r \in pending_inbound_responses[d]
      <4>1. d # c /\ d \in pool[q]
        BY <1>5, <1>6, <3>2
      <4> QED
        BY <3>2, <4>1 DEF AwaitedFrom
    <3>3. CASE r \in M /\ Target(conns, r) = d
      BY <1>11, <1>13, <3>1, <3>3
    <3> QED
      BY <1>12, <2>2, <3>1, <3>2, <3>3
  <2>3. ASSUME AwaitedFrom(q, r)
        PROVE  \E d \in pool'[q] : r \in pending_inbound_responses'[d]
    BY <1>5, <1>12, <2>3 DEF AwaitedFrom
  <2>4. ASSUME q = p, r \in M
        PROVE  \E d \in pool'[q] : r \in pending_inbound_responses'[d]
    BY <1>11, <1>12, <2>4
  <2> QED
    BY <2>1, <2>2, <2>3, <2>4
<1>15. Parked2Awaited(p, M)
  BY <1>4, <1>8, <1>10, <1>14 DEF Parked2Awaited
<1>16. StageInv' /\ KeepsProgress
  BY <1>1, <1>2, <1>15, StageMove DEF HomeInv
<1>17. AwaitedOnce'
  <2>1. ASSUME NEW d \in ConnectionIds, NEW r \in pending_inbound_responses[d]
        PROVE  r \notin M
    <3>1. r \in RequestIds
      BY DEF TypeOK
    <3> QED
      BY <1>4, <3>1, AwaitedStage
  <2>2. ASSUME NEW d \in ConnectionIds, NEW e \in ConnectionIds,
               NEW r, r \in pending_inbound_responses'[d],
               r \in pending_inbound_responses'[e]
        PROVE  d = e
    BY <1>12, <2>1, <2>2 DEF HomeInv, AwaitedOnce
  <2>3. ASSUME NEW d \in ConnectionIds, pending_inbound_responses'[d] # {}
        PROVE  \E q \in Peers : d \in pool'[q]
    <3>1. CASE pending_inbound_responses[d] # {}
      BY <1>5, <3>1 DEF HomeInv, AwaitedOnce
    <3>2. CASE pending_inbound_responses[d] = {}
      BY <1>11, <1>12, <2>3, <3>2
    <3> QED
      BY <3>1, <3>2
  <2> QED
    BY <2>2, <2>3 DEF AwaitedOnce
<1> QED
  BY <1>10, <1>16, <1>17 DEF HomeInv

\* An order of a set of ids lists each of them once.
LEMMA OrdersListEach ==
    ASSUME NEW S, NEW order \in Orders(S)
    PROVE  IsInjective(order) /\ ToSet(order) = S
BY DEF Orders, Bijection, Injection, Surjection, IsInjective, ToSet

\* Requests M awaited on connection c are answered or given up.
LEMMA HomeUnawait ==
    ASSUME TypeOK, ConnInv, HomeInv, NEW p \in Peers, NEW c \in pool[p],
           NEW M \in SUBSET pending_inbound_responses[c],
           pending_inbound_responses' = [pending_inbound_responses EXCEPT ![c] = @ \ M],
           \A q \in Peers : \/ pool'[q] = pool[q]
                            \/ /\ M = pending_inbound_responses[c]
                               /\ pool'[q] = pool[q] \ {c},
           UNCHANGED <<next_request_id, pending_outbound_requests, reported>>,
           NEW t, FatesJoin(pending_events, t, p, M)
    PROVE  HomeInv' /\ KeepsProgress
<1>1. /\ DistinctFates(pending_events')
      /\ \A e \in Fates(pending_events') : e.request \in RequestIds
      /\ \A q \in Peers, r \in RequestIds :
            FatedOf(q, r)' <=> FatedOf(q, r) \/ (q = p /\ r \in M)
  BY QueueFates
<1>2. /\ \A q \in Peers : pool[q] \subseteq ConnectionIds /\ (c \in pool[q] => q = p)
      /\ c \in ConnectionIds
  BY DEF TypeOK, ConnInv, PoolOwnership
<1>3. \A d \in ConnectionIds : pending_inbound_responses'[d] =
         pending_inbound_responses[d] \ (IF d = c THEN M ELSE {})
  BY <1>2 DEF TypeOK
<1>4. \A r \in M : \A d \in ConnectionIds : r \in pending_inbound_responses[d] => d = c
  BY <1>2 DEF HomeInv, AwaitedOnce
<1>5. ASSUME NEW q \in Peers, NEW r \in RequestIds
      PROVE  /\ ParkedFor(q, r)' <=> ParkedFor(q, r)
             /\ AwaitedFrom(q, r)' <=> AwaitedFrom(q, r) /\ ~ (q = p /\ r \in M)
  <2>1. AwaitedFrom(q, r)' <=> \E d \in pool'[q] : r \in pending_inbound_responses'[d]
    BY DEF AwaitedFrom
  <2>2. ASSUME NEW d \in pool'[q], r \in pending_inbound_responses'[d]
        PROVE  AwaitedFrom(q, r) /\ ~ (q = p /\ r \in M)
    <3>1. d \in pool[q] /\ d \in ConnectionIds
      BY <1>2
    <3>2. r \in pending_inbound_responses[d] /\ (d = c => r \notin M)
      BY <1>3, <2>2, <3>1
    <3> QED
      BY <1>4, <3>1, <3>2 DEF AwaitedFrom
  <2>3. ASSUME NEW d \in pool[q], r \in pending_inbound_responses[d],
               ~ (q = p /\ r \in M)
        PROVE  \E e \in pool'[q] : r \in pending_inbound_responses'[e]
    <3>1. d \in ConnectionIds /\ (d = c => r \notin M)
      BY <1>2, <2>3
    <3>2. r \in pending_inbound_responses'[d]
      BY <1>3, <2>3, <3>1
    <3>3. d \in pool'[q]
      BY <2>3, <3>1
    <3> QED
      BY <3>2, <3>3
  <2>4. AwaitedFrom(q, r) <=> \E d \in pool[q] : r \in pending_inbound_responses[d]
    BY DEF AwaitedFrom
  <2> QED
    BY <2>1, <2>2, <2>3, <2>4 DEF ParkedFor
<1>6. \A r \in M : AwaitedFrom(p, r)
  BY DEF AwaitedFrom
<1>7. Awaited2Fated(p, M)
  BY <1>1, <1>5, <1>6 DEF Awaited2Fated
<1>8. StageInv' /\ KeepsProgress
  BY <1>7, StageMove DEF HomeInv
<1>9. AwaitedOnce'
  <2>1. \A d \in ConnectionIds :
           pending_inbound_responses'[d] \subseteq pending_inbound_responses[d]
    BY <1>3
  <2>2. ASSUME NEW d \in ConnectionIds, pending_inbound_responses'[d] # {}
        PROVE  \E q \in Peers : d \in pool'[q]
    <3>1. PICK q \in Peers : d \in pool[q]
      BY <2>1, <2>2 DEF HomeInv, AwaitedOnce
    <3>2. d \in pool'[q]
      BY <1>3, <2>2, <3>1
    <3> QED
      BY <3>2
  <2> QED
    BY <2>1, <2>2 DEF HomeInv, AwaitedOnce
<1> QED
  BY <1>1, <1>8, <1>9 DEF HomeInv

\* on_connection_closed: the fates of the requests awaited there are queued.
LEMMA HomeClose ==
    ASSUME TypeOK, ConnInv, HomeInv, NEW p \in Peers, NEW c \in ConnectionIds,
           CloseConnection(p, c)
    PROVE  HomeInv' /\ KeepsProgress
<1> DEFINE M == pending_inbound_responses[c]
<1>1. /\ c \in pool[p]
      /\ pool' = [pool EXCEPT ![p] = @ \ {c}]
      /\ OnConnectionClosed(p, c)
      /\ UNCHANGED reported
  BY DEF CloseConnection, Contract!Close
<1>2. /\ pending_inbound_responses' = [pending_inbound_responses EXCEPT ![c] = {}]
      /\ UNCHANGED <<next_request_id, pending_outbound_requests>>
  BY CloseQueues
<1>3. c \in ToSet(connected[p])
  BY <1>1 DEF ConnInv, ConnectedMirrorsPool
<1>4. PICK outbound \in Orders(pending_outbound_responses[c]), inbound \in Orders(M) :
        pending_events' = pending_events \o ClosedEvents(p, outbound, inbound)
  BY <1>1, <1>3 DEF OnConnectionClosed
<1>5. M \in SUBSET RequestIds /\ pending_outbound_responses[c] \in SUBSET InboundIds
  BY DEF TypeOK
<1> DEFINE A == [i \in DOMAIN outbound |->
                   GenerateEvent("OutboundFailure", "ConnectionClosed",
                                 p, outbound[i], "in")]
           B == [i \in DOMAIN inbound |->
                   GenerateEvent("InboundFailure", "ConnectionClosed",
                                 p, inbound[i], "out")]
<1>6. /\ outbound \in Seq(InboundIds)
      /\ inbound \in Seq(RequestIds)
      /\ IsInjective(inbound)
      /\ ToSet(inbound) = M
  <2>1. outbound \in Seq(pending_outbound_responses[c]) /\ inbound \in Seq(M)
    BY <1>5, OrdersType, BoundsAssumption DEF InboundIds, RequestIds
  <2> QED
    BY <1>5, <2>1, SeqMonotonic, OrdersListEach
<1>7. A \in Seq(BehaviourActions) /\ B \in Seq(BehaviourActions)
  <2>1. \A i \in DOMAIN outbound : A[i] \in BehaviourActions
    BY <1>6, EventType, BoundsAssumption DEF EventsFrom, Errors, InboundIds
  <2>2. \A i \in DOMAIN inbound : B[i] \in BehaviourActions
    BY <1>6, EventType, BoundsAssumption DEF EventsFrom, Errors, RequestIds
  <2> QED
    BY <1>6, <2>1, <2>2
<1>8. \A i \in DOMAIN A : A[i].type # "GenerateEvent" \/ A[i].origin # "out"
  BY DEF GenerateEvent
<1>9. TellsEach(B, p, inbound)
  BY DEF GenerateEvent, TellsEach
<1>10. ClosedEvents(p, outbound, inbound) = A \o B
  BY DEF ClosedEvents
<1> HIDE DEF A, B, M
<1>11. /\ Fates(A) = {}
       /\ DistinctFates(A)
       /\ DistinctFates(B)
       /\ \A e \in Fates(B) : e.peer = p /\ e.request \in M
       /\ \A r \in M : \E e \in Fates(B) : e.peer = p /\ e.request = r
  BY <1>6, <1>8, <1>9, NoFates, FatesOfEvents
<1>12. Fates(A \o B) = Fates(A) \cup Fates(B)
  BY <1>7, FatesConcat
<1>13. DistinctFates(A \o B) /\ A \o B \in Seq(BehaviourActions)
  <2>1. DistinctFates(A \o B)
    BY <1>7, <1>11, DistinctFatesConcat
  <2> QED
    BY <1>7, <2>1, ConcatProperties
<1>14. \A r \in M : AwaitedFrom(p, r)
  BY <1>1 DEF AwaitedFrom, M
<1>15. FatesJoin(pending_events, A \o B, p, M)
  <2>1. pending_events \in Seq(BehaviourActions) /\ DistinctFates(pending_events)
    BY DEF TypeOK, HomeInv
  <2>2. \A e \in Fates(A \o B) : e.peer = p /\ e.request \in M
    BY <1>11, <1>12
  <2>3. \A r \in M : \E e \in Fates(A \o B) : e.peer = p /\ e.request = r
    BY <1>11, <1>12
  <2>4. pending_events' = pending_events \o (A \o B)
    BY <1>4, <1>10
  <2>5. M \in SUBSET RequestIds
    BY <1>5 DEF M
  <2> QED
    BY <1>13, <1>14, <2>1, <2>2, <2>3, <2>4, <2>5 DEF FatesJoin
<1>16. pending_inbound_responses' = [pending_inbound_responses EXCEPT ![c] = @ \ M]
  BY <1>2 DEF TypeOK, M
<1>17. \A q \in Peers : \/ pool'[q] = pool[q]
                        \/ /\ M = pending_inbound_responses[c]
                           /\ pool'[q] = pool[q] \ {c}
  BY <1>1 DEF TypeOK, M
<1>18. M \in SUBSET pending_inbound_responses[c]
  BY DEF M
<1> QED
  BY <1>1, <1>2, <1>15, <1>16, <1>17, <1>18, HomeUnawait

\* A step that touches no request of ours and queues no fate.
LEMMA HomeStill ==
    ASSUME TypeOK, HomeInv, NEW t \in Seq(BehaviourActions),
           pending_events' = pending_events \o t,
           \A i \in DOMAIN t : t[i].type # "GenerateEvent" \/ t[i].origin # "out",
           UNCHANGED <<next_request_id, pending_outbound_requests, reported, pool,
                       pending_inbound_responses>>
    PROVE  HomeInv' /\ KeepsProgress
<1>1. /\ DistinctFates(pending_events')
      /\ \A e \in Fates(pending_events') : e.request \in RequestIds
      /\ \A q \in Peers, r \in RequestIds : FatedOf(q, r)' <=> FatedOf(q, r)
  BY QueueNoFates
<1>2. \A q \in Peers, r \in RequestIds : /\ ParkedFor(q, r)' <=> ParkedFor(q, r)
                                         /\ AwaitedFrom(q, r)' <=> AwaitedFrom(q, r)
  BY DEF ParkedFor, AwaitedFrom
<1>3. StageInv' /\ KeepsProgress
  BY <1>1, <1>2, StageStays DEF HomeInv
<1>4. AwaitedOnce'
  BY DEF HomeInv, AwaitedOnce
<1> QED
  BY <1>1, <1>3, <1>4 DEF HomeInv

\* A handler is done with request r: its fate is queued.
LEMMA HomeEnds ==
    ASSUME TypeOK, ConnInv, PanicInv, HomeInv, NEW p \in Peers,
           NEW c \in pool[p], NEW r \in held[c],
           NEW event \in EventsFrom("out"), NEW error \in Errors,
           pending_inbound_responses' =
              RemovePending(pending_inbound_responses, p, c, r),
           PushEvent(event, error, p, r, "out"),
           UNCHANGED <<next_request_id, pending_outbound_requests, reported, pool>>
    PROVE  HomeInv' /\ KeepsProgress
<1> DEFINE e == GenerateEvent(event, error, p, r, "out")
<1>1. /\ c \in ConnectionIds
      /\ c \in ToSet(connected[p])
      /\ r \in pending_inbound_responses[c]
      /\ r \in RequestIds
  BY DEF TypeOK, ConnInv, ConnectedMirrorsPool, PanicInv, HandlersTracked
<1>2. pending_inbound_responses' = [pending_inbound_responses EXCEPT ![c] = @ \ {r}]
  BY <1>1 DEF RemovePending
<1>3. e \in BehaviourActions
  BY <1>1, EventType, BoundsAssumption DEF RequestIds
<1>4. pending_events' = Append(pending_events, e)
  BY DEF PushEvent
<1>5. /\ e.type = "GenerateEvent"
      /\ e.origin = "out"
      /\ e.peer = p
      /\ e.request = r
  BY DEF GenerateEvent
<1> HIDE DEF e
<1>6. <<e>> \in Seq(BehaviourActions) /\ pending_events' = pending_events \o <<e>>
  BY <1>3, <1>4, AppendIsConcat DEF TypeOK
<1>7. Fates(<<e>>) = {e} /\ DistinctFates(<<e>>)
  BY <1>5 DEF Fates, DistinctFates, ToSet
<1>8. AwaitedFrom(p, r)
  BY <1>1 DEF AwaitedFrom
<1>9. FatesJoin(pending_events, <<e>>, p, {r})
  <2>1. pending_events \in Seq(BehaviourActions) /\ DistinctFates(pending_events)
    BY DEF TypeOK, HomeInv
  <2> QED
    BY <1>1, <1>5, <1>6, <1>7, <1>8, <2>1 DEF FatesJoin
<1>10. {r} \in SUBSET pending_inbound_responses[c]
  BY <1>1
<1> QED
  BY <1>2, <1>9, <1>10, HomeUnawait

\* on_connection_handler_event, and the handler's own steps.
LEMMA HomeHandlers ==
    ASSUME TypeOK, ConnInv, PanicInv, HomeInv, Handlers
    PROVE  HomeInv' /\ KeepsProgress
<1> USE BoundsAssumption
<1>1. UNCHANGED <<next_request_id, pending_outbound_requests, pool>>
  BY HandlersQueue
<1>2. UNCHANGED reported
  BY DEF Handlers, HandlerListens, HandlerResponse, HandlerOutboundError,
         HandlerRequest, HandlerAnswered, HandlerInboundError
<1>3. PICK p \in Peers, c \in ConnectionIds :
        \/ HandlerListens(p, c)
        \/ \E r \in RequestIds : \/ HandlerResponse(p, c, r)
                                \/ HandlerOutboundError(p, c, r)
        \/ \E r \in InboundIds : \/ HandlerRequest(p, c, r)
                                \/ HandlerAnswered(p, c, r)
                                \/ HandlerInboundError(p, c, r)
  BY DEF Handlers
<1>4. CASE HandlerListens(p, c)
  <2>1. UNCHANGED <<pending_events, pending_inbound_responses>>
    BY <1>4 DEF HandlerListens, Contract!Listen, behaviourVars
  <2>2. pending_events \o <<>> = pending_events /\ <<>> \in Seq(BehaviourActions)
    BY ConcatEmptySeq DEF TypeOK
  <2>3. \A i \in DOMAIN <<>> : <<>>[i].type # "GenerateEvent"
    OBVIOUS
  <2> QED
    BY <1>1, <1>2, <2>1, <2>2, <2>3, HomeStill
<1>5. ASSUME NEW r \in RequestIds, HandlerResponse(p, c, r)
      PROVE  HomeInv' /\ KeepsProgress
  <2>1. /\ c \in pool[p]
        /\ r \in held[c]
        /\ pending_inbound_responses' =
              RemovePending(pending_inbound_responses, p, c, r)
        /\ PushEvent("ResponseReceived", "None", p, r, "out")
    BY <1>5 DEF HandlerResponse, Contract!EndOutbound, OnResponse
  <2>2. "ResponseReceived" \in EventsFrom("out") /\ "None" \in Errors
    BY DEF EventsFrom, Errors
  <2> QED
    BY <1>1, <1>2, <2>1, <2>2, HomeEnds
<1>6. ASSUME NEW r \in RequestIds, HandlerOutboundError(p, c, r)
      PROVE  HomeInv' /\ KeepsProgress
  <2>1. PICK error \in {"Timeout", "UnsupportedProtocols"} :
          OnOutboundFailure(error, p, c, r)
    BY <1>6 DEF HandlerOutboundError, Contract!EndOutbound
  <2>2. /\ c \in pool[p]
        /\ r \in held[c]
        /\ pending_inbound_responses' =
              RemovePending(pending_inbound_responses, p, c, r)
        /\ PushEvent("OutboundFailure", error, p, r, "out")
    BY <1>6, <2>1 DEF HandlerOutboundError, Contract!EndOutbound, OnOutboundFailure
  <2>3. "OutboundFailure" \in EventsFrom("out") /\ error \in Errors
    BY <2>1 DEF EventsFrom, Errors
  <2> QED
    BY <1>1, <1>2, <2>2, <2>3, HomeEnds
<1>7. ASSUME NEW event \in EventsFrom("in"), NEW error \in Errors, NEW r \in InboundIds,
             PushEvent(event, error, p, r, "in"), UNCHANGED pending_inbound_responses
      PROVE  HomeInv' /\ KeepsProgress
  <2> DEFINE e == GenerateEvent(event, error, p, r, "in")
  <2>1. e \in BehaviourActions
    BY EventType DEF InboundIds
  <2>a. e.origin = "in"
    BY DEF GenerateEvent
  <2>2. pending_events' = Append(pending_events, e)
    BY <1>7 DEF PushEvent
  <2> HIDE DEF e
  <2>3. <<e>> \in Seq(BehaviourActions) /\ pending_events' = pending_events \o <<e>>
    BY <2>1, <2>2, AppendIsConcat DEF TypeOK
  <2>4. \A i \in DOMAIN <<e>> : <<e>>[i].origin # "out"
    BY <2>a
  <2> QED
    BY <1>1, <1>2, <1>7, <2>3, <2>4, HomeStill
<1>8. ASSUME NEW r \in InboundIds, HandlerRequest(p, c, r)
      PROVE  HomeInv' /\ KeepsProgress
  <2>1. c \in ToSet(connected[p])
    BY <1>8 DEF HandlerRequest, Contract!Request, ConnInv, ConnectedMirrorsPool
  <2>2. /\ PushEvent("RequestReceived", "None", p, r, "in")
        /\ UNCHANGED pending_inbound_responses
    BY <1>8, <2>1 DEF HandlerRequest, Contract!Request, OnRequest
  <2> QED
    BY <1>7, <2>2 DEF EventsFrom, Errors
<1>9. ASSUME NEW r \in InboundIds, HandlerAnswered(p, c, r)
      PROVE  HomeInv' /\ KeepsProgress
  <2>1. PICK event \in {"ResponseSent", "InboundFailure"},
             error \in {"None", "ResponseOmission"} :
          OnAnswered(event, error, p, c, r)
    BY <1>9 DEF HandlerAnswered, Contract!Answered
  <2> QED
    BY <1>7, <2>1 DEF OnAnswered, EventsFrom, Errors
<1>10. ASSUME NEW r \in InboundIds, HandlerInboundError(p, c, r)
       PROVE  HomeInv' /\ KeepsProgress
  <2>1. PICK error \in {"Timeout", "UnsupportedProtocols"} :
          OnInboundFailure(error, p, c, r)
    BY <1>10
    DEF HandlerInboundError, Contract!TimeOutInbound, Contract!RejectInbound,
        Contract!EndInbound
  <2> QED
    BY <1>7, <2>1 DEF OnInboundFailure, EventsFrom, Errors
<1> QED
  BY <1>3, <1>4, <1>5, <1>6, <1>8, <1>9, <1>10

\* A step that leaves the requests and their fates where they are.
LEMMA HomeFrame ==
    ASSUME HomeInv, DistinctFates(pending_events'),
           Fates(pending_events') = Fates(pending_events),
           UNCHANGED <<next_request_id, pending_outbound_requests, reported, pool,
                       pending_inbound_responses>>
    PROVE  HomeInv' /\ KeepsProgress
<1>1. \A q \in Peers, r \in RequestIds : /\ ParkedFor(q, r)' <=> ParkedFor(q, r)
                                         /\ AwaitedFrom(q, r)' <=> AwaitedFrom(q, r)
                                         /\ FatedOf(q, r)' <=> FatedOf(q, r)
  BY DEF ParkedFor, AwaitedFrom, FatedOf
<1>2. StageInv' /\ KeepsProgress
  BY <1>1, StageStays DEF HomeInv
<1>3. AwaitedOnce'
  BY DEF HomeInv, AwaitedOnce
<1> QED
  BY <1>2, <1>3 DEF HomeInv

\* The application is told the fate of a request, which is then over.
LEMMA HomeTold ==
    ASSUME TypeOK, HomeInv, NEW e \in Fates(pending_events),
           DistinctFates(pending_events'),
           Fates(pending_events') = {a \in Fates(pending_events) : a.request # e.request},
           reported' = [reported EXCEPT ![e.request] = e.event],
           UNCHANGED <<next_request_id, pending_outbound_requests, pool,
                       pending_inbound_responses>>
    PROVE  /\ HomeInv'
           /\ \A q \in Peers, r \in RequestIds :
                 InProgress(q, r)' <=> InProgress(q, r) /\ r # e.request
<1>1. e.peer \in Peers /\ e.request \in RequestIds /\ e.event \in EventNames
  BY FateType
<1>2. FatedOf(e.peer, e.request) /\ InProgress(e.peer, e.request)
  BY DEF FatedOf, InProgress
<1>3. OneStage(e.request)
  BY <1>1 DEF HomeInv, StageInv
<1>4. \A q \in Peers : ~ ParkedFor(q, e.request) /\ ~ AwaitedFrom(q, e.request)
  BY <1>1, <1>2, <1>3 DEF OneStage, InProgress
<1>5. \A q \in Peers, r \in RequestIds :
         /\ ParkedFor(q, r)' <=> ParkedFor(q, r)
         /\ AwaitedFrom(q, r)' <=> AwaitedFrom(q, r)
         /\ FatedOf(q, r)' <=> FatedOf(q, r) /\ r # e.request
  BY DEF ParkedFor, AwaitedFrom, FatedOf
<1>6. \A q \in Peers, r \in RequestIds :
         InProgress(q, r)' <=> InProgress(q, r) /\ r # e.request
  BY <1>4, <1>5 DEF InProgress
<1>7. \A r \in RequestIds : Told(r)' <=> Told(r) \/ r = e.request
  <2>1. e.event # "None"
    BY <1>1 DEF EventNames
  <2>2. \A r \in RequestIds :
           reported'[r] = IF r = e.request THEN e.event ELSE reported[r]
    BY <1>1 DEF TypeOK
  <2> QED
    BY <2>1, <2>2 DEF Told
<1>8. ASSUME NEW r \in RequestIds PROVE OneStage(r)'
  <2>1. OneStage(r)
    BY DEF HomeInv, StageInv
  <2>2. CASE r = e.request
    <3>1. r < next_request_id'
      BY <1>1, <1>2, <1>3, <2>2 DEF OneStage
    <3>2. /\ \A q \in Peers : /\ ~ ParkedFor(q, r)'
                              /\ ~ AwaitedFrom(q, r)'
                              /\ ~ FatedOf(q, r)'
                              /\ ~ InProgress(q, r)'
          /\ Told(r)'
      BY <1>4, <1>5, <1>6, <1>7, <2>2
    <3> QED
      BY <3>1, <3>2 DEF OneStage
  <2>3. CASE r # e.request
    <3>1. \A q \in Peers : /\ ParkedFor(q, r)' <=> ParkedFor(q, r)
                           /\ AwaitedFrom(q, r)' <=> AwaitedFrom(q, r)
                           /\ FatedOf(q, r)' <=> FatedOf(q, r)
                           /\ InProgress(q, r)' <=> InProgress(q, r)
      BY <1>5, <1>6, <2>3
    <3>2. Told(r)' <=> Told(r)
      BY <1>7, <2>3
    <3> QED
      BY <2>1, <3>1, <3>2 DEF OneStage
  <2> QED
    BY <2>2, <2>3
<1>9. AwaitedOnce'
  BY DEF HomeInv, AwaitedOnce
<1>10. StageInv'
  BY <1>8 DEF StageInv
<1> QED
  BY <1>6, <1>9, <1>10 DEF HomeInv

\* poll, when it hands an event to the application: the request whose fate
\* that is, if any, is no longer in progress, every other one still is.
LEMMA HomePollEvent ==
    ASSUME TypeOK, HomeInv, PollEvent
    PROVE  /\ HomeInv'
           /\ Head(pending_events).origin = "out" =>
                 /\ Head(pending_events) \in Fates(pending_events)
                 /\ \A q \in Peers, r \in RequestIds :
                       InProgress(q, r)' <=>
                          InProgress(q, r) /\ r # Head(pending_events).request
           /\ Head(pending_events).origin # "out" => KeepsProgress
<1> DEFINE e == Head(pending_events)
<1>1. /\ pending_events # <<>>
      /\ pending_events \in Seq(BehaviourActions)
      /\ DistinctFates(pending_events)
      /\ e.type = "GenerateEvent"
      /\ pending_events' = Tail(pending_events)
      /\ reported' = IF e.origin = "out" THEN [reported EXCEPT ![e.request] = e.event]
                                         ELSE reported
      /\ UNCHANGED <<next_request_id, pending_outbound_requests, pool,
                     pending_inbound_responses>>
  BY DEF PollEvent, TypeOK, HomeInv, swarmVars
<1>2. /\ DistinctFates(Tail(pending_events))
      /\ e.origin # "out" => Fates(Tail(pending_events)) = Fates(pending_events)
      /\ e.origin = "out" =>
            /\ e \in Fates(pending_events)
            /\ Fates(Tail(pending_events)) =
                  {a \in Fates(pending_events) : a.request # e.request}
  BY <1>1, FatesTail
<1> HIDE DEF e
<1>3. CASE e.origin = "out"
  <2>1. /\ HomeInv'
        /\ \A q \in Peers, r \in RequestIds :
              InProgress(q, r)' <=> InProgress(q, r) /\ r # e.request
    BY <1>1, <1>2, <1>3, HomeTold
  <2> QED
    BY <1>2, <1>3, <2>1 DEF e
<1>4. CASE e.origin # "out"
  <2>1. HomeInv' /\ KeepsProgress
    BY <1>1, <1>2, <1>4, HomeFrame
  <2> QED
    BY <1>4, <2>1 DEF e
<1> QED
  BY <1>3, <1>4

\* poll, when it hands a dial or a request to the swarm.
LEMMA HomePollOther ==
    ASSUME TypeOK, PanicInv, HomeInv, PollDial \/ PollNotify
    PROVE  HomeInv' /\ KeepsProgress
<1> DEFINE e == Head(pending_events)
           rest == Tail(pending_events)
<1>1. /\ pending_events # <<>>
      /\ pending_events \in Seq(BehaviourActions)
      /\ DistinctFates(pending_events)
      /\ e.type # "GenerateEvent"
      /\ UNCHANGED <<pool, reported>>
  BY DEF PollDial, PollNotify, TypeOK, HomeInv, swarmVars
<1>2. /\ DistinctFates(rest)
      /\ Fates(rest) = Fates(pending_events)
      /\ rest \in Seq(BehaviourActions)
      /\ e \in BehaviourActions
  BY <1>1, FatesTail, HeadTailProperties
<1>3. CASE /\ pending_events' = rest
           /\ UNCHANGED <<next_request_id, pending_outbound_requests,
                          pending_inbound_responses>>
  <2> HIDE DEF rest
  <2> QED
    BY <1>1, <1>2, <1>3, HomeFrame
<1>4. CASE PollDial /\ OneDialFailure(e.peer, rest)
  <2>1. e.peer \in Peers
    BY <1>2, <1>4
    DEF PollDial, BehaviourActions, DialActions, NotifyActions, EventActions
  <2> HIDE DEF rest, e
  <2> QED
    BY <1>1, <1>2, <1>4, <2>1, HomeDialFailure
<1> QED
  BY <1>3, <1>4 DEF PollDial, PollNotify

\* The steps the application takes no part in.
Unobserved ==
    \/ \E p \in Peers :
         \/ DialFails(p)
         \/ OtherDialFails(p)
         \/ \E c \in ConnectionIds :
              \/ DialSucceeds(p, c)
              \/ ConnectionArrives(p, c)
              \/ CloseConnection(p, c)
              \/ ChangeAddress(p, c)
    \/ Handlers
    \/ PollDial
    \/ PollNotify

\* They end no request and begin none: only send_request and the events that
\* poll hands out change which requests are in progress.
LEMMA HomeUnobserved ==
    ASSUME TypeOK, ConnInv, PanicInv, HomeInv, Unobserved
    PROVE  HomeInv' /\ KeepsProgress /\ UNCHANGED next_request_id
<1> DEFINE Kept == HomeInv' /\ KeepsProgress /\ UNCHANGED next_request_id
<1>1. pending_events \in Seq(BehaviourActions) /\ DistinctFates(pending_events)
  BY DEF TypeOK, HomeInv
<1>2. ASSUME NEW p \in Peers, DialFails(p) \/ OtherDialFails(p) PROVE Kept
  <2>1. OneDialFailure(p, pending_events) /\ UNCHANGED <<pool, reported>>
    BY <1>2 DEF DialFails, OtherDialFails, swarmVars
  <2>2. UNCHANGED next_request_id
    BY <2>1 DEF OneDialFailure
  <2> QED
    BY <1>1, <2>1, <2>2, HomeDialFailure
<1>3. ASSUME NEW p \in Peers, NEW c \in ConnectionIds, ChangeAddress(p, c)
      PROVE  Kept
  BY <1>1, <1>3, HomeFrame DEF ChangeAddress, OnAddressChange, swarmVars
<1>4. ASSUME NEW p \in Peers, NEW c \in ConnectionIds,
             DialSucceeds(p, c) \/ ConnectionArrives(p, c)
      PROVE  Kept
  <2>1. EstablishConnection(p, c)
    BY <1>4 DEF DialSucceeds, ConnectionArrives
  <2>2. UNCHANGED next_request_id
    BY <2>1 DEF EstablishConnection, OnConnectionEstablished
  <2> QED
    BY <2>1, <2>2, HomeEstablish
<1>5. ASSUME NEW p \in Peers, NEW c \in ConnectionIds, CloseConnection(p, c)
      PROVE  Kept
  BY <1>5, CloseQueues, HomeClose
<1>6. CASE Handlers
  BY <1>6, HandlersQueue, HomeHandlers
<1>7. CASE PollDial \/ PollNotify
  <2>1. UNCHANGED next_request_id
    BY <1>7 DEF PollDial, PollNotify, OneDialFailure
  <2> QED
    BY <1>7, <2>1, HomePollOther
<1> QED
  BY <1>2, <1>3, <1>4, <1>5, <1>6, <1>7 DEF Unobserved

\* The invariant is kept by every step.
LEMMA HomeStep ==
    ASSUME TypeOK, ConnInv, PanicInv, HomeInv, [Next]_vars
    PROVE  HomeInv'
<1>1. CASE UNCHANGED vars
  BY <1>1, HomeFrame DEF vars, HomeInv
<1>2. CASE Unobserved
  BY <1>2, HomeUnobserved
<1>3. ASSUME NEW p \in Peers, SendRequest(p) PROVE HomeInv'
  BY <1>3, HomeSend
<1>4. CASE PollEvent
  BY <1>4, HomePollEvent
<1> QED
  BY <1>1, <1>2, <1>3, <1>4 DEF Next, Connections, Poll, Unobserved

\* The invariant holds at the start.
LEMMA HomeInit == Init => HomeInv
<1> SUFFICES ASSUME Init PROVE HomeInv
  OBVIOUS
<1>1. Fates(pending_events) = {} /\ DistinctFates(pending_events)
  BY NoFates DEF Init
<1>2. \A q \in Peers, r \in RequestIds :
         ~ ParkedFor(q, r) /\ ~ AwaitedFrom(q, r) /\ ~ FatedOf(q, r) /\ ~ InProgress(q, r)
  BY <1>1 DEF Init, ParkedFor, AwaitedFrom, FatedOf, InProgress, ToSet
<1>3. \A r \in RequestIds : ~ Told(r) /\ ~ (r < next_request_id)
  BY BoundsAssumption DEF Init, Told, RequestIds
<1>4. StageInv
  BY <1>2, <1>3 DEF StageInv, OneStage
<1>5. AwaitedOnce
  BY DEF Init, AwaitedOnce
<1> QED
  BY <1>1, <1>4, <1>5 DEF HomeInv

\* The invariant holds in every reachable state.
LEMMA HomeInvariant == Spec => []HomeInv
<1>1. TypeOK /\ ConnInv /\ PanicInv /\ HomeInv /\ [Next]_vars => HomeInv'
  BY HomeStep
<1> QED
  BY <1>1, HomeInit, TypeCorrect, ConnInvariant, PanicInvariant, PTL DEF Spec

\* The places Homes collects, one by one.
HomeAt(h, r) ==
    \/ \E p \in Peers : \E i \in DOMAIN pending_outbound_requests[p] :
          pending_outbound_requests[p][i] = r /\ h = <<"parked", p, i>>
    \/ \E c \in ConnectionIds :
          r \in pending_inbound_responses[c] /\ h = <<"awaiting", c>>
    \/ \E i \in DOMAIN pending_events :
          TellsFateOf(pending_events[i], r) /\ h = <<"queued", i>>
    \/ Told(r) /\ h = <<"told">>

LEMMA HomesAre == \A r, h : h \in Homes(r) <=> HomeAt(h, r)
<1> SUFFICES ASSUME NEW r, NEW h PROVE h \in Homes(r) <=> HomeAt(h, r)
  OBVIOUS
<1> DEFINE At(p) == {<<"parked", p, i>> :
                       i \in {j \in DOMAIN pending_outbound_requests[p] :
                                pending_outbound_requests[p][j] = r}}
           P == UNION {At(p) : p \in Peers}
           A == {<<"awaiting", c>> :
                   c \in {d \in ConnectionIds : r \in pending_inbound_responses[d]}}
           Q == {<<"queued", i>> :
                   i \in {j \in DOMAIN pending_events :
                            TellsFateOf(pending_events[j], r)}}
           T == IF reported[r] # "None" THEN {<<"told">>} ELSE {}
<1>1. h \in P <=> \E p \in Peers : \E i \in DOMAIN pending_outbound_requests[p] :
                     pending_outbound_requests[p][i] = r /\ h = <<"parked", p, i>>
  <2>1. \A p : h \in At(p) <=> \E i \in DOMAIN pending_outbound_requests[p] :
                     pending_outbound_requests[p][i] = r /\ h = <<"parked", p, i>>
    BY Zenon
  <2> HIDE DEF At
  <2>2. h \in P <=> \E p \in Peers : h \in At(p)
    OBVIOUS
  <2> HIDE DEF P
  <2> QED
    BY <2>1, <2>2
<1>2. h \in A <=> \E c \in ConnectionIds :
                     r \in pending_inbound_responses[c] /\ h = <<"awaiting", c>>
  OBVIOUS
<1>3. h \in Q <=> \E i \in DOMAIN pending_events :
                     TellsFateOf(pending_events[i], r) /\ h = <<"queued", i>>
  BY Zenon
<1>4. h \in T <=> Told(r) /\ h = <<"told">>
  BY DEF Told
<1>5. h \in Homes(r) <=> h \in P \/ h \in A \/ h \in Q \/ h \in T
  BY Zenon DEF Homes
<1> HIDE DEF P, A, Q, T
<1> QED
  BY <1>1, <1>2, <1>3, <1>4, <1>5 DEF HomeAt

\* A request has at most one home, and has one exactly when it was made.
LEMMA OneHome ==
    ASSUME TypeOK, PanicInv, HomeInv, NEW r \in RequestIds
    PROVE  /\ \A g, h : HomeAt(g, r) /\ HomeAt(h, r) => g = h
           /\ r < next_request_id <=> \E h : HomeAt(h, r)
<1> DEFINE AtParked(h, p, i)  == /\ pending_outbound_requests[p][i] = r
                                 /\ h = <<"parked", p, i>>
           AtAwaiting(h, c)   == r \in pending_inbound_responses[c] /\ h = <<"awaiting", c>>
           AtQueued(h, i)     == /\ TellsFateOf(pending_events[i], r)
                                 /\ h = <<"queued", i>>
<1>1. OneStage(r)
  BY DEF HomeInv, StageInv
<1>2. ASSUME NEW h, NEW p \in Peers, NEW i \in DOMAIN pending_outbound_requests[p],
             AtParked(h, p, i)
      PROVE  ParkedFor(p, r) /\ InProgress(p, r)
  BY <1>2 DEF ParkedFor, InProgress, ToSet
<1>3. ASSUME NEW h, NEW c \in ConnectionIds, AtAwaiting(h, c)
      PROVE  \E p \in Peers : AwaitedFrom(p, r) /\ InProgress(p, r)
  BY <1>3 DEF HomeInv, AwaitedOnce, AwaitedFrom, InProgress
<1>4. ASSUME NEW h, NEW i \in DOMAIN pending_events, AtQueued(h, i)
      PROVE  \E p \in Peers : FatedOf(p, r) /\ InProgress(p, r)
  <2> DEFINE e == pending_events[i]
  <2>1. e \in Fates(pending_events) /\ e.request = r
    BY <1>4 DEF Fates, ToSet, TellsFateOf
  <2> HIDE DEF e
  <2>2. e.peer \in Peers
    BY <2>1, FateType
  <2> QED
    BY <2>1, <2>2 DEF FatedOf, InProgress
<1>5. ASSUME NEW g, NEW h,
             NEW p \in Peers, NEW i \in DOMAIN pending_outbound_requests[p],
             AtParked(g, p, i), HomeAt(h, r)
      PROVE  g = h
  <2>1. ASSUME NEW q \in Peers, NEW j \in DOMAIN pending_outbound_requests[q],
               AtParked(h, q, j)
        PROVE  g = h
    <3>1. p = q
      BY <1>1, <1>2, <1>5, <2>1 DEF OneStage
    <3>2. i = j
      BY <1>5, <2>1, <3>1 DEF PanicInv, ParkedTracked, IsInjective
    <3> QED
      BY <1>5, <2>1, <3>1, <3>2
  <2> QED
    BY <1>1, <1>2, <1>3, <1>4, <1>5, <2>1 DEF HomeAt, OneStage
<1>6. ASSUME NEW g, NEW h, NEW c \in ConnectionIds, AtAwaiting(g, c), HomeAt(h, r)
      PROVE  g = h
  <2>1. ASSUME NEW d \in ConnectionIds, AtAwaiting(h, d) PROVE g = h
    BY <1>6, <2>1 DEF HomeInv, AwaitedOnce
  <2> QED
    BY <1>1, <1>2, <1>3, <1>4, <1>6, <2>1 DEF HomeAt, OneStage
<1>7. ASSUME NEW g, NEW h, NEW i \in DOMAIN pending_events, AtQueued(g, i), HomeAt(h, r)
      PROVE  g = h
  <2>1. ASSUME NEW j \in DOMAIN pending_events, AtQueued(h, j) PROVE g = h
    BY <1>7, <2>1 DEF HomeInv, DistinctFates, TellsFateOf
  <2> QED
    BY <1>1, <1>2, <1>3, <1>4, <1>7, <2>1 DEF HomeAt, OneStage
<1>8. ASSUME NEW g, NEW h, Told(r), g = <<"told">>, HomeAt(h, r) PROVE g = h
  BY <1>1, <1>2, <1>3, <1>4, <1>8 DEF HomeAt, OneStage
<1>9. \A g, h : HomeAt(g, r) /\ HomeAt(h, r) => g = h
  <2> SUFFICES ASSUME NEW g, NEW h, HomeAt(g, r), HomeAt(h, r) PROVE g = h
    OBVIOUS
  <2> QED
    BY <1>5, <1>6, <1>7, <1>8 DEF HomeAt
<1>10. ASSUME NEW h, HomeAt(h, r) PROVE r < next_request_id
  BY <1>1, <1>2, <1>3, <1>4, <1>10 DEF HomeAt, OneStage
<1>11. ASSUME r < next_request_id PROVE \E h : HomeAt(h, r)
  <2>1. CASE Told(r)
    BY <2>1 DEF HomeAt
  <2>2. ASSUME NEW p \in Peers, ParkedFor(p, r) PROVE \E h : HomeAt(h, r)
    <3>1. PICK i \in DOMAIN pending_outbound_requests[p] :
            pending_outbound_requests[p][i] = r
      BY <2>2 DEF ParkedFor, ToSet
    <3>2. HomeAt(<<"parked", p, i>>, r)
      BY <3>1, Zenon DEF HomeAt
    <3> QED
      BY <3>2
  <2>3. ASSUME NEW p \in Peers, AwaitedFrom(p, r) PROVE \E h : HomeAt(h, r)
    <3>1. PICK c \in ConnectionIds : r \in pending_inbound_responses[c]
      BY <2>3 DEF AwaitedFrom, TypeOK
    <3>2. HomeAt(<<"awaiting", c>>, r)
      BY <3>1, Zenon DEF HomeAt
    <3> QED
      BY <3>2
  <2>4. ASSUME NEW p \in Peers, FatedOf(p, r) PROVE \E h : HomeAt(h, r)
    <3>1. PICK i \in DOMAIN pending_events : TellsFateOf(pending_events[i], r)
      BY <2>4 DEF FatedOf, Fates, ToSet, TellsFateOf
    <3>2. HomeAt(<<"queued", i>>, r)
      BY <3>1, Zenon DEF HomeAt
    <3> QED
      BY <3>2
  <2> QED
    BY <1>1, <1>11, <2>1, <2>2, <2>3, <2>4 DEF OneStage, InProgress
<1> QED
  BY <1>9, <1>10, <1>11

\* From send_request until the application is told its fate, and after, a
\* request is in exactly one place: none is lost, duplicated or reported twice,
\* for any number of peers, connections and requests.
THEOREM RequestsHaveOneHome == Spec => []EveryRequestHasOneHome
<1>1. TypeOK /\ PanicInv /\ HomeInv => EveryRequestHasOneHome
  <2> SUFFICES ASSUME TypeOK, PanicInv, HomeInv, NEW r \in RequestIds
               PROVE  IF r < next_request_id
                      THEN \E h \in Homes(r) : Homes(r) = {h}
                      ELSE Homes(r) = {}
    BY DEF EveryRequestHasOneHome
  <2>1. \A g, h \in Homes(r) : g = h
    BY HomesAre, OneHome
  <2>2. CASE r < next_request_id
    <3>1. PICK h : h \in Homes(r)
      BY <2>2, HomesAre, OneHome
    <3> QED
      BY <2>1, <2>2, <3>1
  <2>3. CASE ~ (r < next_request_id)
    <3>1. \A h : h \notin Homes(r)
      BY <2>3, HomesAre, OneHome
    <3> QED
      BY <2>3, <3>1
  <2> QED
    BY <2>2, <2>3
<1> QED
  BY <1>1, TypeCorrect, PanicInvariant, HomeInvariant, PTL

-----------------------------------------------------------------------------
(***************************************************************************)
(* The invariants together, for whoever drives FileGet.                    *)
(***************************************************************************)
SafeInv == TypeOK /\ ConnInv /\ PanicInv /\ HomeInv

\* They hold at the start.
LEMMA SafeInit == Init => SafeInv
BY TypeInit, ConnInit, PanicInit, HomeInit DEF SafeInv

\* Every step keeps them.
LEMMA SafeStep == SafeInv /\ [Next]_vars => SafeInv'
BY TypeStep, ConnStep, PanicStep, HomeStep DEF SafeInv

=============================================================================
