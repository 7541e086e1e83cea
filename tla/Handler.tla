------------------------------ MODULE Handler ------------------------------
(***************************************************************************)
(* The connection handler of the crate libp2p-file-get                     *)
(* (file-get/src/handler.rs), one instance per connection, with the        *)
(* upgrades it starts (file-get/src/protocol.rs).                          *)
(*                                                                         *)
(* The first group of variables is struct Handler.  `inbound' is a         *)
(* FuturesUnordered: the set of its entries and the queue in which those   *)
(* to be looked at wait.  An entry is the receiver of a oneshot on which   *)
(* the substream's upgrade sends the request, together with the sender on  *)
(* which the application will answer.                                      *)
(*                                                                         *)
(* The second group is the connection's task.  It calls Handler::poll      *)
(* ("poll") until that returns Pending, then drives the substreams and the *)
(* muxer ("drive"), goes back to the handler whenever one of them yields   *)
(* an event for it, and sleeps when nothing moves.  The upgrades run in    *)
(* this task.  An inbound substream is offered to all behaviours of the    *)
(* node, so it may turn out to be one of another protocol ("foreign").     *)
(***************************************************************************)
EXTENDS Naturals, Sequences, FiniteSets, SequencesExt

CONSTANTS
    MaxRequests,    \* bound on the requests the behaviour hands over
    MaxInbound,     \* bound on the inbound substreams the peer opens
    AppMayDrop      \* whether the application may drop a response sender

ASSUME HandlerAssumption ==
    /\ MaxRequests \in Nat
    /\ MaxInbound \in Nat
    /\ AppMayDrop \in BOOLEAN

VARIABLES
    keep_alive,       \* "Yes" or "Until"
    pending_events,   \* queue of events for the behaviour
    inbound,          \* ids of the entries of `inbound'
    ready,            \* those of them that poll_next will look at, in order
    outbound,         \* queue of requests without a substream
    pending_error,    \* whether an error waits to close the connection
    next_inbound_id   \* inbound_id_generator

VARIABLES
    task,         \* "poll", "drive" or "asleep"
    woken,        \* the task's waker was called since it last began to run
    connection,   \* "open", "closed", or "panicked" (an upgrade panicked)
    given,        \* number of requests handed over by the behaviour
    active,       \* requests whose substream is being opened or used
    stage,        \* inbound id -> what its upgrade is doing
    response      \* inbound id -> state of the oneshot for the answer

VARIABLE
    emitted       \* history: the events handed to the behaviour

handlerVars == <<keep_alive, pending_events, inbound, ready, outbound,
                 pending_error, next_inbound_id>>
entryVars   == <<inbound, ready, next_inbound_id>>
taskVars    == <<task, woken, connection>>
streamVars  == <<given, active, stage, response>>

vars == <<keep_alive, pending_events, inbound, ready, outbound, pending_error,
          next_inbound_id, task, woken, connection, given, active, stage,
          response, emitted>>

RequestIds == 1..MaxRequests
InboundIds == 1..MaxInbound

\* FileGetHandlerEvent: its name and the id it is about.
Event(name, r) == [event |-> name, id |-> r]

OutboundVerdicts == {"Response", "OutboundTimeout",
                     "OutboundUnsupportedProtocols"}
InboundVerdicts  == {"ResponseSent", "ResponseOmission", "InboundTimeout",
                     "InboundUnsupportedProtocols"}

\* Inbound substreams that exist, and those whose upgrade is FileGet's.
Live == {r \in InboundIds : stage[r] \in {"receiving", "waiting", "foreign"}}

-----------------------------------------------------------------------------
(***************************************************************************)
(* The oneshots of an entry.                                               *)
(***************************************************************************)

\* The receiver of entry r will yield the request, or Canceled.
Arrived(r)  == stage[r] \in {"waiting", "finished"}
Canceled(r) == stage[r] \in {"foreign", "failed"}
Resolved(r) == Arrived(r) \/ Canceled(r)

\* A oneshot resolves: an entry that was looked at is queued again and the
\* task is woken; one that was not yet looked at is still in the queue.
Resolve(r) ==
    IF r \in inbound \ ToSet(ready)
    THEN ready' = Append(ready, r) /\ woken' = TRUE
    ELSE UNCHANGED <<ready, woken>>

\* The application, or the entry, still has the sender of the answer.
ResponderAlive(r) == response[r] = "held" \/ r \in inbound

-----------------------------------------------------------------------------
(***************************************************************************)
(* Handler::poll, one operator per return.                                 *)
(***************************************************************************)
Emit(event) == emitted' = Append(emitted, event)

PollClose ==
    /\ pending_error
    /\ pending_error' = FALSE
    /\ connection' = "closed"
    /\ UNCHANGED <<keep_alive, pending_events, entryVars, outbound, task, woken,
                   streamVars, emitted>>

PollEvent ==
    /\ ~pending_error
    /\ pending_events # <<>>
    /\ Emit(Head(pending_events))
    /\ pending_events' = Tail(pending_events)
    /\ UNCHANGED <<keep_alive, entryVars, outbound, pending_error, taskVars,
                   streamVars>>

PollOutbound ==
    /\ ~pending_error
    /\ pending_events = <<>>
    /\ outbound # <<>>
    /\ active' = active \cup {Head(outbound)}
    /\ outbound' = Tail(outbound)
    /\ UNCHANGED <<keep_alive, pending_events, entryVars, pending_error,
                   taskVars, given, stage, response, emitted>>

\* The place in the queue of the entry that poll_next_unpin yields, or 0.
Taken == SelectInSeq(ready, Resolved)

\* Fault: the entry that is taken stays in the queue.
PassedKeeps(i) == IF i = 0 THEN <<>> ELSE SubSeq(ready, i, Len(ready))

\* Fault: the entries behind the one that is taken are forgotten.
PassedNone(i) == <<>>

\* The entries poll_next_unpin leaves in the queue.
Passed(i) == IF i = 0 THEN <<>> ELSE SubSeq(ready, i + 1, Len(ready))

\* Fault: the Request event is made without the sender, which is dropped.
HandedOutWithout(r) == response

\* The Request event carries the sender of entry r to the application.
HandedOut(r) == [response EXCEPT ![r] = "held"]

PollRequest ==
    LET r == ready[Taken] IN
    /\ ~pending_error
    /\ pending_events = <<>>
    /\ outbound = <<>>
    /\ Taken # 0
    /\ Arrived(r)
    /\ keep_alive' = "Yes"
    /\ Emit(Event("Request", r))
    /\ response' = HandedOut(r)
    /\ inbound' = inbound \ {r}
    /\ ready' = Passed(Taken)
    /\ UNCHANGED <<pending_events, outbound, pending_error, next_inbound_id,
                   taskVars, given, active, stage>>

\* Fault: a Canceled entry is put back.
AfterCanceledKept == inbound

\* The entries left when poll_next_unpin yields nothing, or a Canceled one.
AfterCanceled == IF Taken = 0 THEN inbound ELSE inbound \ {ready[Taken]}

\* poll returns Pending.  A Canceled entry was taken and the ones behind it
\* were not looked at.
PollPending ==
    /\ ~pending_error
    /\ pending_events = <<>>
    /\ outbound = <<>>
    /\ Taken # 0 => ~Arrived(ready[Taken])
    /\ inbound' = AfterCanceled
    /\ ready' = Passed(Taken)
    /\ keep_alive' = IF inbound' = {} THEN "Until" ELSE keep_alive
    /\ task' = "drive"
    /\ UNCHANGED <<pending_events, outbound, pending_error, next_inbound_id,
                   woken, connection, streamVars, emitted>>

Poll ==
    /\ connection = "open"
    /\ task = "poll"
    /\ PollClose \/ PollEvent \/ PollOutbound \/ PollRequest \/ PollPending

-----------------------------------------------------------------------------
(***************************************************************************)
(* Requests of the behaviour, which reach the handler between two polls of *)
(* the connection.                                                         *)
(***************************************************************************)
OnBehaviourEvent ==
    /\ connection = "open"
    /\ task # "drive"
    /\ given < MaxRequests
    /\ given' = given + 1
    /\ keep_alive' = "Yes"
    /\ outbound' = Append(outbound, given + 1)
    /\ task' = "poll"
    /\ UNCHANGED <<pending_events, entryVars, pending_error, woken,
                   connection, active, stage, response, emitted>>

-----------------------------------------------------------------------------
(***************************************************************************)
(* The connection drives the muxer and the substreams.                     *)
(***************************************************************************)
Driving == connection = "open" /\ task = "drive"

\* listen_protocol, for a new inbound substream.
ListenProtocol ==
    LET r == next_inbound_id IN
    /\ Driving
    /\ r \in InboundIds
    /\ next_inbound_id' = r + 1
    /\ inbound' = inbound \cup {r}
    /\ ready' = Append(ready, r)
    /\ stage' = [stage EXCEPT ![r] = "receiving"]
    /\ task' = "poll"
    /\ UNCHANGED <<keep_alive, pending_events, outbound, pending_error, woken,
                   connection, given, active, response, emitted>>

\* Another protocol is negotiated: FileGetInboundProtocol is dropped.
NegotiateOther(r) ==
    /\ Driving
    /\ stage[r] = "receiving"
    /\ stage' = [stage EXCEPT ![r] = "foreign"]
    /\ Resolve(r)
    /\ UNCHANGED <<keep_alive, pending_events, inbound, outbound,
                   pending_error, next_inbound_id, task, connection, given,
                   active, response, emitted>>

\* upgrade_inbound: the message was received and is sent to the entry.
ReceiveMessage(r) ==
    /\ Driving
    /\ stage[r] = "receiving"
    /\ stage' = [stage EXCEPT ![r] = "waiting"]
    /\ Resolve(r)
    /\ UNCHANGED <<keep_alive, pending_events, inbound, outbound,
                   pending_error, next_inbound_id, task, connection, given,
                   active, response, emitted>>

\* upgrade_inbound: response_receiver.await.expect("Sender exists").
ExpectSender(r) ==
    /\ Driving
    /\ stage[r] = "waiting"
    /\ response[r] # "answered"
    /\ ~ResponderAlive(r)
    /\ connection' = "panicked"
    /\ UNCHANGED <<handlerVars, task, woken, streamVars, emitted>>

\* on_connection_event queues an event and the handler is polled again.
Queue(event) ==
    /\ pending_events' = Append(pending_events, event)
    /\ UNCHANGED pending_error
    /\ task' = "poll"

Fail ==
    /\ pending_error' = TRUE
    /\ UNCHANGED pending_events
    /\ task' = "poll"

\* Fault: the response of an outbound request is not passed on.
OutboundEndsUntold(r) ==
    \/ UNCHANGED <<pending_events, pending_error, task>>
    \/ Queue(Event("OutboundTimeout", r))
    \/ Queue(Event("OutboundUnsupportedProtocols", r))
    \/ Fail

\* FullyNegotiatedOutbound, or the three kinds of DialUpgradeError.
OutboundEnds(r) ==
    \/ Queue(Event("Response", r))
    \/ Queue(Event("OutboundTimeout", r))
    \/ Queue(Event("OutboundUnsupportedProtocols", r))
    \/ Fail

EndOutbound(r) ==
    /\ Driving
    /\ r \in active
    /\ active' = active \ {r}
    /\ OutboundEnds(r)
    /\ UNCHANGED <<keep_alive, entryVars, outbound, woken, connection, given,
                   stage, response, emitted>>

\* FullyNegotiatedInbound: the answer was copied and the upgrade is true.
FinishInbound(r) ==
    /\ Driving
    /\ stage[r] = "waiting"
    /\ response[r] = "answered"
    /\ stage' = [stage EXCEPT ![r] = "finished"]
    /\ Queue(Event("ResponseSent", r))
    /\ UNCHANGED <<keep_alive, entryVars, outbound, woken, connection, given,
                   active, response, emitted>>

\* FullyNegotiatedInbound of another behaviour's protocol.
FinishForeign(r) ==
    /\ Driving
    /\ stage[r] = "foreign"
    /\ stage' = [stage EXCEPT ![r] = "failed"]
    /\ task' = "poll"
    /\ UNCHANGED <<handlerVars, woken, connection, given, active, response,
                   emitted>>

\* Fault: the request is sent to its entry though receive_message failed.
DroppedAsSent(r) == "finished"

\* An upgrade that fails, or is dropped by its timer, drops the sender of the
\* request unless it has used it.
Dropped(r) == IF stage[r] = "waiting" THEN "finished" ELSE "failed"

\* ListenUpgradeError.  A timeout can strike at any moment; an error of the
\* upgrade while it receives the message, or while it copies the answer.
FailInbound(r) ==
    /\ Driving
    /\ r \in Live
    /\ stage' = [stage EXCEPT ![r] = Dropped(r)]
    /\ \/ Queue(Event("InboundTimeout", r))
       \/ /\ stage[r] = "waiting" => response[r] = "answered"
          /\ Queue(Event("InboundUnsupportedProtocols", r))
       \/ Fail
    /\ IF stage[r] = "receiving"
       THEN Resolve(r) ELSE UNCHANGED <<ready, woken>>
    /\ UNCHANGED <<keep_alive, inbound, outbound, next_inbound_id, connection,
                   given, active, response, emitted>>

\* The keep-alive deadline passes while no substream is in use and no other
\* behaviour of the node keeps the connection.
IdleTimeout ==
    /\ Driving
    /\ keep_alive = "Until"
    /\ Live = {} /\ active = {}
    /\ connection' = "closed"
    /\ UNCHANGED <<handlerVars, task, woken, streamVars, emitted>>

\* Nothing moves: the task sleeps unless its waker was called meanwhile.
Sleep ==
    /\ Driving
    /\ task' = IF woken THEN "poll" ELSE "asleep"
    /\ woken' = FALSE
    /\ UNCHANGED <<handlerVars, connection, streamVars, emitted>>

\* Data, a timer or a command wakes the task.
Wake ==
    /\ connection = "open"
    /\ task = "asleep"
    /\ task' = "poll"
    /\ UNCHANGED <<handlerVars, woken, connection, streamVars, emitted>>

\* The connection is lost, or closed by the node.
CloseConnection ==
    /\ connection = "open"
    /\ connection' = "closed"
    /\ UNCHANGED <<handlerVars, task, woken, streamVars, emitted>>

-----------------------------------------------------------------------------
(***************************************************************************)
(* The application answers the request, or drops the sender.  An answer    *)
(* wakes the task if the upgrade waits for it.                             *)
(***************************************************************************)
Settle(r, how) ==
    /\ response[r] = "held"
    /\ response' = [response EXCEPT ![r] = how]
    /\ task' = IF task = "asleep" /\ stage[r] = "waiting" THEN "poll" ELSE task
    /\ woken' = (woken \/ (task # "asleep" /\ stage[r] = "waiting"))
    /\ UNCHANGED <<handlerVars, connection, given, active, stage, emitted>>

AnswerRequest(r) == Settle(r, "answered")

DropResponse(r) == AppMayDrop /\ Settle(r, "dropped")

-----------------------------------------------------------------------------
\* Handler::new.
Init ==
    /\ keep_alive = "Yes"
    /\ pending_events = <<>>
    /\ inbound = {}
    /\ ready = <<>>
    /\ outbound = <<>>
    /\ pending_error = FALSE
    /\ next_inbound_id = 1
    /\ task = "poll"
    /\ woken = FALSE
    /\ connection = "open"
    /\ given = 0
    /\ active = {}
    /\ stage = [r \in InboundIds |-> "none"]
    /\ response = [r \in InboundIds |-> "none"]
    /\ emitted = <<>>

OnConnectionEvent ==
    \/ \E r \in RequestIds : EndOutbound(r)
    \/ \E r \in InboundIds : FinishInbound(r) \/ FinishForeign(r) \/ FailInbound(r)

Upgrades ==
    \E r \in InboundIds :
        NegotiateOther(r) \/ ReceiveMessage(r) \/ ExpectSender(r)

Application ==
    \E r \in InboundIds : AnswerRequest(r) \/ DropResponse(r)

Next ==
    \/ Poll
    \/ OnBehaviourEvent
    \/ ListenProtocol
    \/ OnConnectionEvent
    \/ Upgrades
    \/ IdleTimeout
    \/ Sleep
    \/ Wake
    \/ CloseConnection
    \/ Application

Spec == Init /\ [][Next]_vars

(***************************************************************************)
(* Fairness.  The executor runs a task that is not asleep, and it does not *)
(* sleep for good: the node pings every connection once a second           *)
(* (new_network).  A substream has a timer (with_timeout), which is looked *)
(* at whenever the substreams are driven.                                  *)
(***************************************************************************)
Fairness ==
    /\ WF_vars(Poll)
    /\ WF_vars(Sleep)
    /\ WF_vars(Wake)
    /\ \A r \in RequestIds : SF_vars(EndOutbound(r))
    /\ \A r \in InboundIds :
         SF_vars(FinishInbound(r) \/ FinishForeign(r) \/ FailInbound(r))

FairSpec == Spec /\ Fairness

-----------------------------------------------------------------------------
(***************************************************************************)
(* Properties.                                                             *)
(***************************************************************************)

\* The values each field of Handler and of its connection may take.
TypeOK ==
    /\ keep_alive \in {"Yes", "Until"}
    /\ pending_events \in Seq([event : OutboundVerdicts \cup InboundVerdicts,
                               id : Nat])
    /\ inbound \in SUBSET InboundIds
    /\ ready \in Seq(inbound)
    /\ outbound \in Seq(RequestIds)
    /\ pending_error \in BOOLEAN
    /\ next_inbound_id \in 1..(MaxInbound + 1)
    /\ task \in {"poll", "drive", "asleep"}
    /\ woken \in BOOLEAN
    /\ connection \in {"open", "closed", "panicked"}
    /\ given \in 0..MaxRequests
    /\ active \in SUBSET RequestIds
    /\ stage \in [InboundIds -> {"none", "receiving", "waiting", "foreign",
                                 "finished", "failed"}]
    /\ response \in [InboundIds -> {"none", "held", "answered", "dropped"}]

\* Whether one of the events `names' about r is among the events s.
Tells(s, names, r) ==
    \E i \in DOMAIN s : s[i].event \in names /\ s[i].id = r

\* The places where request r is: queued, on a substream, in a queued event,
\* or told.
Places(r) ==
    ({<<"outbound", i>> : i \in {j \in DOMAIN outbound : outbound[j] = r}}
     \cup {<<"active", a>> : a \in active \cap {r}})
    \cup
    ({<<"queued", i>> : i \in {j \in DOMAIN pending_events :
         pending_events[j].event \in OutboundVerdicts /\ pending_events[j].id = r}}
     \cup {<<"told", i>> : i \in {j \in DOMAIN emitted :
         emitted[j].event \in OutboundVerdicts /\ emitted[j].id = r}})

\* The error of a substream is about to close the connection, or it is closed.
Closing == pending_error \/ connection = "closed"

\* A request handed to the handler is in one place.  It leaves all of them
\* only when the error of its substream closes the connection.
GivenRequestsHaveOnePlace ==
    \A r \in 1..given :
        \/ \E h \in Places(r) : Places(r) = {h}
        \/ Places(r) = {} /\ Closing

\* As long as an upgrade waits for the answer, somebody can give it: the
\* sender is in its entry of `inbound' or with the application, until that
\* uses or drops it.  The handler itself never loses it, whatever other
\* entries poll_next_unpin takes in between.
WaitingUpgradesHaveASender ==
    \A r \in InboundIds :
        (stage[r] = "waiting" /\ response[r] \notin {"answered", "dropped"}) =>
            ResponderAlive(r)

(***************************************************************************)
(* The handler as HandlerReports describes it: an id is where the events   *)
(* handed out so far put it.                                               *)
(***************************************************************************)
Told(names, r) == Tells(emitted, names, r)

Held == {r \in 1..given : ~Told(OutboundVerdicts, r)}

Open == {r \in 1..(next_inbound_id - 1) :
            ~Told(InboundVerdicts \cup {"Request"}, r)}

Requested == {r \in InboundIds :
                 Told({"Request"}, r) /\ ~Told(InboundVerdicts, r)}

Late == {r \in inbound : Told({"InboundTimeout"}, r) /\ Arrived(r)}

OnConnection(S) ==
    [c \in {"connection"} |-> IF connection = "closed" THEN {} ELSE S]

Reports == INSTANCE HandlerReports WITH
    Connection <- "connection",
    held       <- OnConnection(Held),
    open       <- OnConnection(Open),
    requested  <- OnConnection(Requested),
    late       <- OnConnection(Late)

\* The handler reports what FileGet relies on, in an order it relies on:
\* one verdict per request, no answer before its request, and a request
\* after its verdict only when that was a timeout.
ImplementsReports == Reports!Spec

\* "The response channel was dropped without sending a response to the remote":
\* a request whose sender the application drops while the upgrade waits for it
\* ends as a ResponseOmission, if not as a timeout or with its connection.
DroppedResponsesAreOmissions ==
    \A r \in InboundIds :
        (stage[r] = "waiting" /\ response[r] = "dropped") ~>
            (Told({"ResponseOmission", "InboundTimeout"}, r) \/ connection = "closed")

\* A request that arrived is reported, however many dead entries are queued
\* before it, unless the connection goes first.
ArrivedRequestsAreReported ==
    \A r \in InboundIds :
        (stage[r] = "waiting") ~> (Told({"Request"}, r) \/ connection # "open")

\* A request handed to the handler is told, or the connection goes.
GivenRequestsAreTold ==
    \A r \in RequestIds :
        (r <= given) ~> (Told(OutboundVerdicts, r) \/ connection # "open")

\* Entries of substreams that failed, or were another behaviour's, do not
\* keep the connection alive for good.
IdleHandlerLetsGo ==
    (keep_alive = "Yes") ~> (keep_alive = "Until" \/ connection # "open")

=============================================================================
