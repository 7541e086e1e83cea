------------------------------ MODULE FileGet ------------------------------
(***************************************************************************)
(* The FileGet network behaviour of the crate libp2p-file-get              *)
(* (file-get/src/lib.rs): the component of a node's swarm that sends file  *)
(* requests to peers, dials a peer when there is no connection to it, and  *)
(* turns what the per-connection handlers report into FileGetEvents for    *)
(* the application.                                                        *)
(*                                                                         *)
(* The variables of the first group are the fields of struct FileGet.  A   *)
(* struct Connection is not a record here: the two sets it holds are       *)
(* functions of its connection id.  A HashMap from peers to lists is a     *)
(* total function in which the empty list stands for a missing key; the    *)
(* code keeps no empty list in either map.  A request is its id: the file  *)
(* name and the writer travel with it untouched.  Connection::address and  *)
(* FileGet::addresses are only ever written, so they are left out.         *)
(*                                                                         *)
(* The second group is the environment: the swarm with its connection pool *)
(* and the connection handlers, as far as the behaviour can observe them.  *)
(* A connection reports its handler's events in order and its closing      *)
(* last, so the delivery of a handler event to the behaviour is one step.  *)
(***************************************************************************)
EXTENDS Naturals, Sequences, FiniteSets, SequencesExt

CONSTANTS
    Peers,          \* PeerIds of the other nodes
    ConnectionIds,  \* ids the swarm gives to connections, each used once
    MaxRequests,    \* bound on the outbound requests the application makes
    MaxInbound      \* bound on the inbound substreams peers open

ASSUME BoundsAssumption ==
    /\ MaxRequests \in Nat
    /\ MaxInbound \in Nat

VARIABLES
    next_request_id,             \* requset_id_generator, counts from 1
    next_inbound_id,             \* inbound_id_generator, shared by handlers
    connected,                   \* peer -> ids of its connections, in order
    pending_inbound_responses,   \* connection -> our requests awaiting data
    pending_outbound_responses,  \* connection -> peer's requests unanswered
    pending_outbound_requests,   \* peer -> requests parked until connected
    pending_events,              \* queue of actions that poll hands out
    panicked                     \* an expect or a debug_assert has failed; never
                                 \* reset, and NoPanic says it stays FALSE

VARIABLES
    pool,       \* peer -> connections the swarm has established to it
    used,       \* connection ids already given out
    dialing,    \* peer -> dials in progress on behalf of FileGet
    held,       \* connection -> our requests its handler works on
    open,       \* connection -> inbound substreams, no request emitted yet
    requested,  \* connection -> inbound substreams whose request was emitted
    late        \* connection -> timed out, but their request is still queued

VARIABLE
    reported    \* history: request -> the event that told the app its fate

behaviourVars == <<next_request_id, connected, pending_inbound_responses,
                   pending_outbound_responses, pending_outbound_requests,
                   pending_events, panicked>>

handlerVars == <<next_inbound_id, held, open, requested, late>>

swarmVars == <<pool, used, dialing>>

vars == <<next_request_id, next_inbound_id, connected,
          pending_inbound_responses, pending_outbound_responses,
          pending_outbound_requests, pending_events, panicked,
          pool, used, dialing, held, open, requested, late, reported>>

RequestIds == 1..MaxRequests
InboundIds == 1..MaxInbound

\* What the handlers may report: held, open, requested, late and
\* next_inbound_id are the variables of the contract.
Contract == INSTANCE HandlerContract

-----------------------------------------------------------------------------
(***************************************************************************)
(* The values of pending_events: NetworkBehaviourAction with FileGetEvent. *)
(* An event carries, beyond the fields of the code, the generator its id   *)
(* came from: both generators count from 1, so RequestId alone does not    *)
(* say whether an id names a request of ours or of a peer.                 *)
(***************************************************************************)
Dial(p) == [type |-> "Dial", peer |-> p]

NotifyHandler(p, c, r) ==
    [type |-> "NotifyHandler", peer |-> p, conn |-> c, request |-> r]

GenerateEvent(event, error, p, r, origin) ==
    [type |-> "GenerateEvent", event |-> event, error |-> error,
     peer |-> p, request |-> r, origin |-> origin]

EventNames == {"RequestReceived", "ResponseReceived", "ResponseSent",
               "OutboundFailure", "InboundFailure"}

Errors == {"None", "DialFailure", "Timeout", "ConnectionClosed",
           "UnsupportedProtocols", "ResponseOmission"}

DialActions == [type : {"Dial"}, peer : Peers]

NotifyActions == [type : {"NotifyHandler"}, peer : Peers,
                  conn : ConnectionIds, request : RequestIds]

\* The events about requests of ours, and about those of peers.
EventsFrom(origin) ==
    IF origin = "out"
    THEN {"ResponseReceived", "OutboundFailure", "InboundFailure"}
    ELSE {"RequestReceived", "ResponseSent", "OutboundFailure", "InboundFailure"}

EventActions ==
    {e \in [type : {"GenerateEvent"}, event : EventNames, error : Errors,
            peer : Peers, request : Nat, origin : {"out", "in"}] :
        e.event \in EventsFrom(e.origin)}

BehaviourActions == DialActions \cup NotifyActions \cup EventActions

-----------------------------------------------------------------------------
(***************************************************************************)
(* Sending.                                                                *)
(***************************************************************************)

\* Fault: the generator counts down.
NextIdDown(id) == id - 1

\* RequestIdGenerator::next_id hands out id and moves on.
NextId(id) == id + 1

\* The connection that carries request r when a peer has connections conns.
Target(conns, r) == conns[(r % Len(conns)) + 1]

\* Fault: the requests leave last in, first out.
NotificationsReversed(p, conns, rs) ==
    [i \in DOMAIN rs |->
        LET r == rs[Len(rs) + 1 - i] IN NotifyHandler(p, Target(conns, r), r)]

\* What try_send_request queues for each of the requests rs, in their order.
Notifications(p, conns, rs) ==
    [i \in DOMAIN rs |-> NotifyHandler(p, Target(conns, rs[i]), rs[i])]

\* Fault: the request is not recorded on its connection.
DispatchedUnrecorded(pending, conns, rs) == pending

\* The pending responses once each of rs is handed to its connection.
Dispatched(pending, conns, rs) ==
    [c \in ConnectionIds |->
        pending[c] \cup {r \in ToSet(rs) : Target(conns, r) = c}]

SendRequest(p) ==
    LET r == next_request_id IN
    /\ r \in RequestIds
    /\ next_request_id' = NextId(r)
    /\ IF connected[p] # <<>>
       THEN /\ pending_inbound_responses' =
                  Dispatched(pending_inbound_responses, connected[p], <<r>>)
            /\ pending_events' =
                  pending_events \o Notifications(p, connected[p], <<r>>)
            /\ UNCHANGED pending_outbound_requests
       ELSE /\ pending_events' = Append(pending_events, Dial(p))
            /\ pending_outbound_requests' =
                  [pending_outbound_requests EXCEPT ![p] = Append(@, r)]
            /\ UNCHANGED pending_inbound_responses
    /\ UNCHANGED <<connected, pending_outbound_responses, panicked,
                   handlerVars, swarmVars, reported>>

-----------------------------------------------------------------------------
(***************************************************************************)
(* Events of the swarm.                                                    *)
(***************************************************************************)

\* Fault: a new connection replaces those the peer already has.
WithConnectionReplaced(conns, c) == <<c>>

\* A peer's list of connections once c is pushed onto it.
WithConnection(conns, c) == Append(conns, c)

\* on_connection_established: requests parked for the peer leave on its
\* first connection.
OnConnectionEstablished(p, c, other_established) ==
    LET conns   == WithConnection(connected[p], c)
        pending == IF other_established = {}
                   THEN pending_outbound_requests[p] ELSE <<>>
        fresh   == [pending_inbound_responses EXCEPT ![c] = {}]
    IN  /\ connected' = [connected EXCEPT ![p] = conns]
        /\ pending_inbound_responses' = Dispatched(fresh, conns, pending)
        /\ pending_outbound_responses' =
              [pending_outbound_responses EXCEPT ![c] = {}]
        /\ pending_events' =
              pending_events \o Notifications(p, conns, pending)
        /\ pending_outbound_requests' =
              IF other_established = {}
              THEN [pending_outbound_requests EXCEPT ![p] = <<>>]
              ELSE pending_outbound_requests
        /\ UNCHANGED <<next_request_id, panicked>>

\* A set of ids is visited in the unspecified order of a HashSet.
Orders(S) == Bijection(1..Cardinality(S), S)

\* Fault: the requests that await data on the connection are forgotten.
ClosedEventsForgotten(p, outbound, inbound) ==
    [i \in DOMAIN outbound |->
        GenerateEvent("OutboundFailure", "ConnectionClosed",
                      p, outbound[i], "in")]

\* The events on_connection_closed queues: the ids of
\* pending_outbound_responses as OutboundFailure, then the ids of
\* pending_inbound_responses as InboundFailure.
ClosedEvents(p, outbound, inbound) ==
    [i \in DOMAIN outbound |->
        GenerateEvent("OutboundFailure", "ConnectionClosed",
                      p, outbound[i], "in")]
    \o
    [i \in DOMAIN inbound |->
        GenerateEvent("InboundFailure", "ConnectionClosed",
                      p, inbound[i], "out")]

OnConnectionClosed(p, c) ==
    IF c \in ToSet(connected[p])
    THEN \E i \in DOMAIN connected[p] :
           /\ connected[p][i] = c
           /\ connected' = [connected EXCEPT ![p] = RemoveAt(@, i)]
           /\ pending_inbound_responses' =
                 [pending_inbound_responses EXCEPT ![c] = {}]
           /\ pending_outbound_responses' =
                 [pending_outbound_responses EXCEPT ![c] = {}]
           /\ \E outbound \in Orders(pending_outbound_responses[c]),
                 inbound \in Orders(pending_inbound_responses[c]) :
                pending_events' =
                   pending_events \o ClosedEvents(p, outbound, inbound)
           /\ UNCHANGED <<next_request_id, pending_outbound_requests, panicked>>
    ELSE /\ panicked' = TRUE
         /\ UNCHANGED <<next_request_id, connected, pending_inbound_responses,
                        pending_outbound_responses, pending_outbound_requests,
                        pending_events>>

\* on_address_change only looks the connection up: nothing reads its address.
OnAddressChange(p, c) ==
    /\ panicked' = (panicked \/ c \notin ToSet(connected[p]))
    /\ UNCHANGED <<next_request_id, connected, pending_inbound_responses,
                   pending_outbound_responses, pending_outbound_requests,
                   pending_events>>

\* one_dial_failure: every request parked for the peer fails.  `queue' is
\* pending_events at that moment.
DialFailureEvents(p) ==
    [i \in DOMAIN pending_outbound_requests[p] |->
        GenerateEvent("OutboundFailure", "DialFailure",
                      p, pending_outbound_requests[p][i], "out")]

\* Fault: the parked requests are read but not removed.
OneDialFailureKeepsParked(p, queue) ==
    /\ pending_events' = queue \o DialFailureEvents(p)
    /\ UNCHANGED <<next_request_id, connected, pending_inbound_responses,
                   pending_outbound_responses, pending_outbound_requests,
                   panicked>>

OneDialFailure(p, queue) ==
    /\ pending_events' = queue \o DialFailureEvents(p)
    /\ pending_outbound_requests' =
          [pending_outbound_requests EXCEPT ![p] = <<>>]
    /\ UNCHANGED <<next_request_id, connected, pending_inbound_responses,
                   pending_outbound_responses, panicked>>

-----------------------------------------------------------------------------
(***************************************************************************)
(* Events of a connection handler: on_connection_handler_event.  Each      *)
(* operator is one arm of its match.                                       *)
(***************************************************************************)
PushEvent(event, error, p, r, origin) ==
    pending_events' =
        Append(pending_events, GenerateEvent(event, error, p, r, origin))

\* Fault: the pending entry stays.
RemovePendingKeeps(pending, p, c, r) == pending

\* remove_pending_inbound_response and remove_pending_outbound_response: the
\* entry goes if the connection is found under the peer.
RemovePending(pending, p, c, r) ==
    IF c \in ToSet(connected[p]) THEN [pending EXCEPT ![c] = @ \ {r}]
                                 ELSE pending

\* The value the two removals return.
IsPending(pending, p, c, r) == c \in ToSet(connected[p]) /\ r \in pending[c]

OnRequest(p, c, r) ==
    /\ IF c \in ToSet(connected[p])
       THEN /\ PushEvent("RequestReceived", "None", p, r, "in")
            /\ pending_outbound_responses' =
                  [pending_outbound_responses EXCEPT ![c] = @ \cup {r}]
       ELSE /\ pending_events' = pending_events \o
                 <<GenerateEvent("RequestReceived", "None", p, r, "in"),
                   GenerateEvent("InboundFailure", "ConnectionClosed",
                                 p, r, "in")>>
            /\ UNCHANGED pending_outbound_responses
    /\ UNCHANGED <<next_request_id, connected, pending_inbound_responses,
                   pending_outbound_requests, panicked>>

OnResponse(p, c, r) ==
    /\ panicked' = (panicked \/ ~ IsPending(pending_inbound_responses, p, c, r))
    /\ pending_inbound_responses' =
          RemovePending(pending_inbound_responses, p, c, r)
    /\ PushEvent("ResponseReceived", "None", p, r, "out")
    /\ UNCHANGED <<next_request_id, connected, pending_outbound_responses,
                   pending_outbound_requests>>

OnOutboundFailure(error, p, c, r) ==
    /\ pending_inbound_responses' =
          RemovePending(pending_inbound_responses, p, c, r)
    /\ PushEvent("OutboundFailure", error, p, r, "out")
    /\ UNCHANGED <<next_request_id, connected, pending_outbound_responses,
                   pending_outbound_requests, panicked>>

\* ResponseSent and ResponseOmission assert that the id was pending.
OnAnswered(event, error, p, c, r) ==
    /\ panicked' = (panicked \/ ~ IsPending(pending_outbound_responses, p, c, r))
    /\ pending_outbound_responses' =
          RemovePending(pending_outbound_responses, p, c, r)
    /\ PushEvent(event, error, p, r, "in")
    /\ UNCHANGED <<next_request_id, connected, pending_inbound_responses,
                   pending_outbound_requests>>

OnInboundFailure(error, p, c, r) ==
    /\ pending_outbound_responses' =
          RemovePending(pending_outbound_responses, p, c, r)
    /\ PushEvent("InboundFailure", error, p, r, "in")
    /\ UNCHANGED <<next_request_id, connected, pending_inbound_responses,
                   pending_outbound_requests, panicked>>

-----------------------------------------------------------------------------
(***************************************************************************)
(* The steps.  First the swarm's: connections come up, because FileGet     *)
(* dialed or for another reason (the peer dialed, another behaviour did),  *)
(* they go down, and dials fail.                                           *)
(***************************************************************************)
EstablishConnection(p, c) ==
    /\ c \notin used
    /\ used' = used \cup {c}
    /\ pool' = [pool EXCEPT ![p] = @ \cup {c}]
    /\ OnConnectionEstablished(p, c, pool[p])
    /\ UNCHANGED <<handlerVars, reported>>

DialSucceeds(p, c) ==
    /\ dialing[p] > 0
    /\ dialing' = [dialing EXCEPT ![p] = @ - 1]
    /\ EstablishConnection(p, c)

ConnectionArrives(p, c) ==
    /\ UNCHANGED dialing
    /\ EstablishConnection(p, c)

DialFails(p) ==
    /\ dialing[p] > 0
    /\ dialing' = [dialing EXCEPT ![p] = @ - 1]
    /\ OneDialFailure(p, pending_events)
    /\ UNCHANGED <<pool, used, handlerVars, reported>>

\* The swarm tells every behaviour of every failed dial, whoever asked for it.
OtherDialFails(p) ==
    /\ pending_outbound_requests[p] # <<>>
    /\ OneDialFailure(p, pending_events)
    /\ UNCHANGED <<swarmVars, handlerVars, reported>>

\* A closing connection takes its handler with it.
CloseConnection(p, c) ==
    /\ c \in pool[p]
    /\ pool' = [pool EXCEPT ![p] = @ \ {c}]
    /\ OnConnectionClosed(p, c)
    /\ Contract!Close(c)
    /\ UNCHANGED <<used, dialing, reported>>

ChangeAddress(p, c) ==
    /\ c \in pool[p]
    /\ OnAddressChange(p, c)
    /\ UNCHANGED <<swarmVars, handlerVars, reported>>

(***************************************************************************)
(* The handler's: a report that the contract allows reaches the behaviour. *)
(* The handler maps the upgrade's result true to ResponseSent and false to *)
(* ResponseOmission; the behaviour must be ready for both.                 *)
(***************************************************************************)
HandlerResponse(p, c, r) ==
    /\ c \in pool[p]
    /\ Contract!EndOutbound(c, r)
    /\ OnResponse(p, c, r)
    /\ UNCHANGED <<swarmVars, reported>>

HandlerOutboundError(p, c, r) ==
    /\ c \in pool[p]
    /\ Contract!EndOutbound(c, r)
    /\ \E error \in {"Timeout", "UnsupportedProtocols"} :
         OnOutboundFailure(error, p, c, r)
    /\ UNCHANGED <<swarmVars, reported>>

HandlerListens(p, c) ==
    /\ c \in pool[p]
    /\ Contract!Listen(c)
    /\ UNCHANGED <<behaviourVars, swarmVars, reported>>

HandlerRequest(p, c, r) ==
    /\ c \in pool[p]
    /\ Contract!Request(c, r)
    /\ OnRequest(p, c, r)
    /\ UNCHANGED <<swarmVars, reported>>

HandlerAnswered(p, c, r) ==
    /\ c \in pool[p]
    /\ Contract!Answered(c, r)
    /\ \/ OnAnswered("ResponseSent", "None", p, c, r)
       \/ OnAnswered("InboundFailure", "ResponseOmission", p, c, r)
    /\ UNCHANGED <<swarmVars, reported>>

HandlerInboundError(p, c, r) ==
    /\ c \in pool[p]
    /\ \/ /\ Contract!TimeOutInbound(c, r)
          /\ OnInboundFailure("Timeout", p, c, r)
       \/ /\ Contract!RejectInbound(c, r)
          /\ OnInboundFailure("UnsupportedProtocols", p, c, r)
    /\ UNCHANGED <<swarmVars, reported>>

(***************************************************************************)
(* poll: the swarm takes the first queued action and carries it out.  A    *)
(* dial is refused when a connection exists, and may be refused for other  *)
(* reasons (no known address); a refusal is reported as a failed dial.  A  *)
(* notification for a connection that is gone is dropped.                  *)
(***************************************************************************)
PollDial ==
    LET e == Head(pending_events) IN
    /\ pending_events # <<>>
    /\ e.type = "Dial"
    /\ \/ /\ pool[e.peer] = {}
          /\ dialing' = [dialing EXCEPT ![e.peer] = @ + 1]
          /\ pending_events' = Tail(pending_events)
          /\ UNCHANGED <<next_request_id, connected, panicked,
                         pending_inbound_responses, pending_outbound_responses,
                         pending_outbound_requests>>
       \/ /\ OneDialFailure(e.peer, Tail(pending_events))
          /\ UNCHANGED dialing
    /\ UNCHANGED <<pool, used, handlerVars, reported>>

PollNotify ==
    LET e == Head(pending_events) IN
    /\ pending_events # <<>>
    /\ e.type = "NotifyHandler"
    /\ pending_events' = Tail(pending_events)
    /\ IF e.conn \in pool[e.peer]
       THEN Contract!Take(e.conn, e.request)
       ELSE UNCHANGED handlerVars
    /\ UNCHANGED <<next_request_id, connected, pending_inbound_responses,
                   pending_outbound_responses, pending_outbound_requests,
                   panicked, swarmVars, reported>>

PollEvent ==
    LET e == Head(pending_events) IN
    /\ pending_events # <<>>
    /\ e.type = "GenerateEvent"
    /\ pending_events' = Tail(pending_events)
    /\ reported' = IF e.origin = "out"
                   THEN [reported EXCEPT ![e.request] = e.event]
                   ELSE reported
    /\ UNCHANGED <<next_request_id, connected, pending_inbound_responses,
                   pending_outbound_responses, pending_outbound_requests,
                   panicked, handlerVars, swarmVars>>

Poll == PollDial \/ PollNotify \/ PollEvent

-----------------------------------------------------------------------------
\* FileGet::from_config, in a swarm without connections.
Init ==
    /\ next_request_id = 1
    /\ next_inbound_id = 1
    /\ connected = [p \in Peers |-> <<>>]
    /\ pending_inbound_responses = [c \in ConnectionIds |-> {}]
    /\ pending_outbound_responses = [c \in ConnectionIds |-> {}]
    /\ pending_outbound_requests = [p \in Peers |-> <<>>]
    /\ pending_events = <<>>
    /\ panicked = FALSE
    /\ pool = [p \in Peers |-> {}]
    /\ used = {}
    /\ dialing = [p \in Peers |-> 0]
    /\ held = [c \in ConnectionIds |-> {}]
    /\ open = [c \in ConnectionIds |-> {}]
    /\ requested = [c \in ConnectionIds |-> {}]
    /\ late = [c \in ConnectionIds |-> {}]
    /\ reported = [r \in RequestIds |-> "None"]

Connections ==
    \E p \in Peers :
        \/ SendRequest(p)
        \/ DialFails(p)
        \/ OtherDialFails(p)
        \/ \E c \in ConnectionIds :
             \/ DialSucceeds(p, c)
             \/ ConnectionArrives(p, c)
             \/ CloseConnection(p, c)
             \/ ChangeAddress(p, c)

Handlers ==
    \E p \in Peers, c \in ConnectionIds :
        \/ HandlerListens(p, c)
        \/ \E r \in RequestIds :
             \/ HandlerResponse(p, c, r)
             \/ HandlerOutboundError(p, c, r)
        \/ \E r \in InboundIds :
             \/ HandlerRequest(p, c, r)
             \/ HandlerAnswered(p, c, r)
             \/ HandlerInboundError(p, c, r)

Next == Connections \/ Handlers \/ Poll

Spec == Init /\ [][Next]_vars

(***************************************************************************)
(* What happens sooner or later.  A dial ends: the transport times it out. *)
(* A request a handler works on ends: its substream carries the configured *)
(* timeout (Handler::poll).  Module Node assumes fairness of both.         *)
(***************************************************************************)
DialEnds(p) == DialFails(p) \/ \E c \in ConnectionIds : DialSucceeds(p, c)

RequestEnds(r) ==
    \E p \in Peers, c \in ConnectionIds :
        HandlerResponse(p, c, r) \/ HandlerOutboundError(p, c, r)

-----------------------------------------------------------------------------
(***************************************************************************)
(* Properties.                                                             *)
(***************************************************************************)

\* The values each field of FileGet and of its environment may take.
TypeOK ==
    /\ next_request_id \in 1..(MaxRequests + 1)
    /\ next_inbound_id \in 1..(MaxInbound + 1)
    /\ connected \in [Peers -> Seq(ConnectionIds)]
    /\ pending_inbound_responses \in [ConnectionIds -> SUBSET RequestIds]
    /\ pending_outbound_responses \in [ConnectionIds -> SUBSET InboundIds]
    /\ pending_outbound_requests \in [Peers -> Seq(RequestIds)]
    /\ pending_events \in Seq(BehaviourActions)
    /\ panicked \in BOOLEAN
    /\ pool \in [Peers -> SUBSET ConnectionIds]
    /\ used \in SUBSET ConnectionIds
    /\ dialing \in [Peers -> Nat]
    /\ held \in [ConnectionIds -> SUBSET RequestIds]
    /\ open \in [ConnectionIds -> SUBSET InboundIds]
    /\ requested \in [ConnectionIds -> SUBSET InboundIds]
    /\ late \in [ConnectionIds -> SUBSET InboundIds]
    /\ reported \in [RequestIds -> EventNames \cup {"None"}]

\* `connected' lists exactly the connections the swarm has established to
\* each peer, none of them twice: on_connection_established and
\* on_connection_closed keep up with every order of connects and closes.
ConnectedMirrorsPool ==
    \A p \in Peers :
        /\ ToSet(connected[p]) = pool[p]
        /\ IsInjective(connected[p])

\* None of the expects of on_connection_closed and on_address_change and
\* none of the debug_asserts of on_connection_handler_event can fail: a
\* handler never answers a request that is not pending on its connection.
NoPanic == ~panicked

\* A request parked in pending_outbound_requests is never stranded: its peer
\* has no connection, and a dial to that peer is queued or in progress, whose
\* end will either send it or fail it.
ParkedRequestsAwaitDial ==
    \A p \in Peers :
        pending_outbound_requests[p] # <<>> =>
            /\ pool[p] = {}
            /\ dialing[p] > 0 \/ Contains(pending_events, Dial(p))

\* An event in the queue that tells the application the fate of request r.
TellsFateOf(e, r) ==
    e.type = "GenerateEvent" /\ e.origin = "out" /\ e.request = r

\* The places where a request of ours is: parked for a peer, awaiting data on
\* a connection, in a queued event that tells its fate, or told.
Homes(r) ==
    (UNION {{<<"parked", p, i>> :
               i \in {j \in DOMAIN pending_outbound_requests[p] :
                        pending_outbound_requests[p][j] = r}} : p \in Peers})
    \cup {<<"awaiting", c>> :
            c \in {d \in ConnectionIds : r \in pending_inbound_responses[d]}}
    \cup {<<"queued", i>> :
            i \in {j \in DOMAIN pending_events :
                     TellsFateOf(pending_events[j], r)}}
    \cup (IF reported[r] # "None" THEN {<<"told">>} ELSE {})

\* No request is lost, none is duplicated, and none is reported twice: from
\* send_request on, a request is in exactly one place, whatever connections
\* and dials do.
EveryRequestHasOneHome ==
    \A r \in RequestIds :
        IF r < next_request_id
        THEN \E h \in Homes(r) : Homes(r) = {h}
        ELSE Homes(r) = {}

\* Requests to a peer are handed to its connections in the order in which
\* the application made them, also those that waited for the connection.
RequestsLeaveInOrder ==
    \A i, j \in DOMAIN pending_events :
        LET a == pending_events[i]
            b == pending_events[j]
        IN  (/\ i < j
             /\ a.type = "NotifyHandler"
             /\ b.type = "NotifyHandler"
             /\ a.peer = b.peer) => a.request < b.request

\* A request that fails because its connection closes is reported as the
\* OutboundFailure whose ConnectionClosed variant is documented as
\* "Connection was closed before a response was received".
FailedRequestsAreOutboundFailures ==
    \A r \in RequestIds :
        reported[r] \in {"None", "ResponseReceived", "OutboundFailure"}

=============================================================================
