----------------------------- MODULE NodeProofs -----------------------------
(***************************************************************************)
(* Proofs about a node, from those about its two parts: the loop takes a   *)
(* file request to be in progress exactly as long as FileGet does.         *)
(*                                                                         *)
(* FGP and ELP are the instances FG and EL of module Node together with    *)
(* what was proved about FileGet and EventLoop.                            *)
(***************************************************************************)
EXTENDS Node, TLAPS

FGP == INSTANCE FileGetProofs WITH MaxRequests <- MaxCommands
ELP == INSTANCE EventLoopProofs

-----------------------------------------------------------------------------
(***************************************************************************)
(* The steps of FG and EL are those of FGP and ELP.                        *)
(***************************************************************************)

\* FileGet at the start, and the two steps the loop has a part in.
LEMMA SameFileGet ==
    /\ FG!Init => FGP!Init
    /\ UNCHANGED fileGetVars => UNCHANGED FGP!vars
    /\ FG!NoPanic <=> FGP!NoPanic
<1>1. FG!Init => FGP!Init
  BY DEF FG!Init, FGP!Init, FG!RequestIds, FGP!RequestIds
<1>2. UNCHANGED fileGetVars => UNCHANGED FGP!vars
  BY DEF fileGetVars, FGP!vars
<1> QED
  BY <1>1, <1>2 DEF FG!NoPanic, FGP!NoPanic

\* send_request.
LEMMA SameSend ==
    ASSUME NEW p, FG!SendRequest(p) PROVE FGP!SendRequest(p)
BY DEF FG!SendRequest, FGP!SendRequest, FG!RequestIds, FGP!RequestIds,
    FG!NextId, FGP!NextId, FG!Dispatched, FGP!Dispatched, FG!Target,
    FGP!Target, FG!Notifications, FGP!Notifications, FG!NotifyHandler,
    FGP!NotifyHandler, FG!Dial, FGP!Dial, FG!ToSet, FGP!ToSet,
    FG!handlerVars, FGP!handlerVars, FG!swarmVars, FGP!swarmVars

\* poll, by what it hands out.
LEMMA SamePoll ==
    /\ FG!PollEvent => FGP!PollEvent
    /\ FG!PollDial => FGP!PollDial
    /\ FG!PollNotify => FGP!PollNotify
BY DEF FG!PollEvent, FGP!PollEvent, FG!PollDial, FGP!PollDial, FG!PollNotify,
    FGP!PollNotify, FG!OneDialFailure, FGP!OneDialFailure,
    FG!DialFailureEvents, FGP!DialFailureEvents, FG!GenerateEvent,
    FGP!GenerateEvent, FG!Contract!Take, FGP!Contract!Take, FG!handlerVars,
    FGP!handlerVars, FG!swarmVars, FGP!swarmVars

\* What the swarm tells FileGet of connections and dials.
LEMMA SameConnections == Connections => FGP!Unobserved
<1> USE DEF FG!OneDialFailure, FGP!OneDialFailure, FG!DialFailureEvents,
    FGP!DialFailureEvents, FG!GenerateEvent, FGP!GenerateEvent,
    FG!handlerVars, FGP!handlerVars, FG!swarmVars, FGP!swarmVars, FG!ToSet,
    FGP!ToSet
<1>1. ASSUME NEW p, FG!DialFails(p) PROVE FGP!DialFails(p)
  BY <1>1 DEF FG!DialFails, FGP!DialFails
<1>2. ASSUME NEW p, FG!OtherDialFails(p) PROVE FGP!OtherDialFails(p)
  BY <1>2 DEF FG!OtherDialFails, FGP!OtherDialFails
<1>3. ASSUME NEW p, NEW c, FG!EstablishConnection(p, c)
      PROVE  FGP!EstablishConnection(p, c)
  BY <1>3 DEF FG!EstablishConnection, FGP!EstablishConnection,
    FG!OnConnectionEstablished, FGP!OnConnectionEstablished,
    FG!WithConnection, FGP!WithConnection, FG!Dispatched, FGP!Dispatched,
    FG!Notifications, FGP!Notifications, FG!NotifyHandler,
    FGP!NotifyHandler, FG!Target, FGP!Target
<1>4. ASSUME NEW p, NEW c, FG!DialSucceeds(p, c) PROVE FGP!DialSucceeds(p, c)
  BY <1>3, <1>4 DEF FG!DialSucceeds, FGP!DialSucceeds
<1>5. ASSUME NEW p, NEW c, FG!ConnectionArrives(p, c) PROVE FGP!ConnectionArrives(p, c)
  BY <1>3, <1>5 DEF FG!ConnectionArrives, FGP!ConnectionArrives
<1>6. ASSUME NEW p, NEW c, FG!CloseConnection(p, c) PROVE FGP!CloseConnection(p, c)
  <2>1. \A S : FG!Cardinality(S) = FGP!Cardinality(S)
    BY Zenon DEF FG!Cardinality, FGP!Cardinality
  <2>2. \A S : FG!Orders(S) = FGP!Orders(S)
    <3>1. \A S, T : FG!Bijection(S, T) = FGP!Bijection(S, T)
      BY DEF FG!Bijection, FGP!Bijection, FG!Injection, FGP!Injection,
             FG!Surjection, FGP!Surjection, FG!IsInjective, FGP!IsInjective
    <3> QED
      BY <2>1, <3>1, Zenon DEF FG!Orders, FGP!Orders
  <2>3. \A q, s, t : FG!ClosedEvents(q, s, t) = FGP!ClosedEvents(q, s, t)
    BY DEF FG!ClosedEvents, FGP!ClosedEvents
  <2>4. \A s, i : FG!RemoveAt(s, i) = FGP!RemoveAt(s, i)
    BY DEF FG!RemoveAt, FGP!RemoveAt
  <2> QED
    BY <1>6, <2>2, <2>3, <2>4
    DEF FG!CloseConnection, FGP!CloseConnection, FG!OnConnectionClosed,
        FGP!OnConnectionClosed, FG!Contract!Close, FGP!Contract!Close
<1>7. ASSUME NEW p, NEW c, FG!ChangeAddress(p, c) PROVE FGP!ChangeAddress(p, c)
  BY <1>7 DEF FG!ChangeAddress, FGP!ChangeAddress, FG!OnAddressChange,
    FGP!OnAddressChange
<1> QED
  BY <1>1, <1>2, <1>4, <1>5, <1>6, <1>7 DEF Connections, FGP!Unobserved

\* What the handlers report to FileGet.
LEMMA SameHandlers == FG!Handlers => FGP!Handlers
<1> USE DEF FG!InboundIds, FGP!InboundIds, FG!RequestIds, FGP!RequestIds,
    FG!PushEvent, FGP!PushEvent, FG!GenerateEvent, FGP!GenerateEvent,
    FG!RemovePending, FGP!RemovePending, FG!IsPending, FGP!IsPending,
    FG!ToSet, FGP!ToSet, FG!swarmVars, FGP!swarmVars
<1>1. ASSUME NEW p, NEW c, FG!HandlerListens(p, c) PROVE FGP!HandlerListens(p, c)
  BY <1>1 DEF FG!HandlerListens, FGP!HandlerListens, FG!Contract!Listen,
    FGP!Contract!Listen, FG!behaviourVars, FGP!behaviourVars
<1>2. ASSUME NEW p, NEW c, NEW r, FG!HandlerResponse(p, c, r)
      PROVE  FGP!HandlerResponse(p, c, r)
  BY <1>2 DEF FG!HandlerResponse, FGP!HandlerResponse, FG!Contract!EndOutbound,
    FGP!Contract!EndOutbound, FG!OnResponse, FGP!OnResponse
<1>3. ASSUME NEW p, NEW c, NEW r, FG!HandlerOutboundError(p, c, r)
      PROVE  FGP!HandlerOutboundError(p, c, r)
  BY <1>3 DEF FG!HandlerOutboundError, FGP!HandlerOutboundError,
    FG!Contract!EndOutbound, FGP!Contract!EndOutbound, FG!OnOutboundFailure,
    FGP!OnOutboundFailure
<1>4. ASSUME NEW p, NEW c, NEW r, FG!HandlerRequest(p, c, r)
      PROVE  FGP!HandlerRequest(p, c, r)
  BY <1>4 DEF FG!HandlerRequest, FGP!HandlerRequest, FG!Contract!Request,
    FGP!Contract!Request, FG!OnRequest, FGP!OnRequest
<1>5. ASSUME NEW p, NEW c, NEW r, FG!HandlerAnswered(p, c, r)
      PROVE  FGP!HandlerAnswered(p, c, r)
  BY <1>5 DEF FG!HandlerAnswered, FGP!HandlerAnswered, FG!Contract!Answered,
    FGP!Contract!Answered, FG!OnAnswered, FGP!OnAnswered
<1>6. ASSUME NEW p, NEW c, NEW r, FG!HandlerInboundError(p, c, r)
      PROVE  FGP!HandlerInboundError(p, c, r)
  BY <1>6
  DEF FG!HandlerInboundError, FGP!HandlerInboundError,
      FG!Contract!TimeOutInbound, FGP!Contract!TimeOutInbound,
      FG!Contract!RejectInbound, FGP!Contract!RejectInbound,
      FG!Contract!EndInbound, FGP!Contract!EndInbound, FG!OnInboundFailure,
      FGP!OnInboundFailure
<1> QED
  BY <1>1, <1>2, <1>3, <1>4, <1>5, <1>6 DEF FG!Handlers, FGP!Handlers

\* A step of FileGet that the loop does not see.
LEMMA SameSwarm == Swarm => FGP!Unobserved /\ UNCHANGED loopVars
BY SamePoll, SameConnections, SameHandlers DEF Swarm, Unseen, FGP!Unobserved

\* The loop at the start.
LEMMA SameLoop ==
    /\ EL!Init => ELP!Init
    /\ UNCHANGED loopVars => UNCHANGED ELP!vars
    /\ EL!NoExpectFails <=> ELP!NoExpectFails
<1>1. EL!Init => ELP!Init
  BY DEF EL!Init, ELP!Init, EL!EmptyMap, ELP!EmptyMap
<1>2. UNCHANGED loopVars => UNCHANGED ELP!vars
  BY DEF loopVars, ELP!vars
<1> QED
  BY <1>1, <1>2 DEF EL!NoExpectFails, ELP!NoExpectFails

\* handle_command.
LEMMA SameHandle == EL!HandleCommand => ELP!HandleCommand
<1> USE DEF EL!Insert, ELP!Insert, EL!Extended, ELP!Extended, EL!Answer, ELP!Answer,
    EL!clientVars, ELP!clientVars, EL!pendingVars, ELP!pendingVars,
    EL!networkVars, ELP!networkVars, EL!EndLoop, ELP!EndLoop, EL!EmptyMap,
    ELP!EmptyMap, EL!Known, ELP!Known, EL!Refuse, ELP!Refuse,
    EL!UserNotRegistered, ELP!UserNotRegistered
<1>1. ASSUME NEW id, NEW u, EL!HandleRegister(id, u) PROVE ELP!HandleRegister(id, u)
  BY <1>1 DEF EL!HandleRegister, ELP!HandleRegister, EL!Registered, ELP!Registered
<1>2. ASSUME NEW id, EL!HandleListPeers(id) PROVE ELP!HandleListPeers(id)
  BY <1>2 DEF EL!HandleListPeers, ELP!HandleListPeers, EL!ListPeers, ELP!ListPeers
<1>3. ASSUME NEW id, NEW u, EL!HandleListFiles(id, u) PROVE ELP!HandleListFiles(id, u)
  BY <1>3 DEF EL!HandleListFiles, ELP!HandleListFiles, EL!ListFiles, ELP!ListFiles,
    EL!AwaitListFiles, ELP!AwaitListFiles
<1>4. ASSUME NEW id, NEW u, NEW f, EL!HandleGetFile(id, u, f)
      PROVE  ELP!HandleGetFile(id, u, f)
  BY <1>4 DEF EL!HandleGetFile, ELP!HandleGetFile, EL!GetFile, ELP!GetFile, EL!Opens,
    ELP!Opens, EL!AwaitFileGet, ELP!AwaitFileGet
<1> HIDE DEF EL!Insert, ELP!Insert, EL!Extended, ELP!Extended, EL!Answer, ELP!Answer,
    EL!clientVars, ELP!clientVars, EL!pendingVars, ELP!pendingVars,
    EL!networkVars, ELP!networkVars, EL!EndLoop, ELP!EndLoop, EL!EmptyMap,
    ELP!EmptyMap, EL!Known, ELP!Known, EL!Refuse, ELP!Refuse,
    EL!UserNotRegistered, ELP!UserNotRegistered
<1> QED
  BY <1>1, <1>2, <1>3, <1>4 DEF EL!HandleCommand, ELP!HandleCommand

\* The client.
LEMMA SameClient == EL!ClientStep => ELP!ClientStep
<1>1. EL!Commands = ELP!Commands
  BY DEF EL!Commands, ELP!Commands, EL!Register, ELP!Register, EL!ListPeers,
    ELP!ListPeers, EL!ListFiles, ELP!ListFiles, EL!GetFile, ELP!GetFile
<1>2. ASSUME NEW c, EL!SendCommand(c) PROVE ELP!SendCommand(c)
  BY <1>2 DEF EL!SendCommand, ELP!SendCommand, EL!CommandIds, ELP!CommandIds,
    EL!Insert, ELP!Insert, EL!Extended, ELP!Extended, EL!Answer, ELP!Answer,
    EL!clientVars, ELP!clientVars, EL!pendingVars, ELP!pendingVars,
    EL!networkVars, ELP!networkVars
<1>3. (EL!ReceiveAnswer \/ EL!ReceiveCanceled \/ EL!GiveUp)
      => (ELP!ReceiveAnswer \/ ELP!ReceiveCanceled \/ ELP!GiveUp)
  BY DEF EL!ReceiveAnswer, ELP!ReceiveAnswer, EL!ReceiveCanceled,
    ELP!ReceiveCanceled, EL!GiveUp, ELP!GiveUp, EL!Current, ELP!Current,
    EL!SenderAlive, ELP!SenderAlive, EL!InChannel, ELP!InChannel,
    EL!pendingVars, ELP!pendingVars, EL!networkVars, ELP!networkVars
<1> QED
  BY <1>1, <1>2, <1>3 DEF EL!ClientStep, ELP!ClientStep

\* handle_event.
LEMMA SameEvents ==
    /\ \A found : EL!Discovered(found) => ELP!Discovered(found)
    /\ EL!Found = ELP!Found
    /\ EL!DiscoverFailed => ELP!DiscoverFailed
    /\ \A r : EL!ListFilesResponse(r) => ELP!ListFilesResponse(r)
    /\ \A r : EL!ListFilesOutboundFailure(r) => ELP!ListFilesOutboundFailure(r)
    /\ \A r : EL!FileGetResponseReceived(r) => ELP!FileGetResponseReceived(r)
    /\ \A r : EL!FileGetFailure(r) => ELP!FileGetFailure(r)
    /\ \A f : EL!FileGetRequestReceived(f) => ELP!FileGetRequestReceived(f)
<1> USE DEF EL!Insert, ELP!Insert, EL!Extended, ELP!Extended, EL!Answer, ELP!Answer,
    EL!clientVars, ELP!clientVars, EL!pendingVars, ELP!pendingVars,
    EL!networkVars, ELP!networkVars, EL!Completed, ELP!Completed,
    EL!Removed, ELP!Removed, EL!Restrict, ELP!Restrict
<1>1. ASSUME NEW found, EL!Discovered(found) PROVE ELP!Discovered(found)
  BY <1>1 DEF EL!Discovered, ELP!Discovered, EL!Learned, ELP!Learned,
    EL!AskingForPeers, ELP!AskingForPeers, EL!PeersListed, ELP!PeersListed
<1>2. EL!Found = ELP!Found
  BY DEF EL!Found, ELP!Found
<1>3. EL!DiscoverFailed => ELP!DiscoverFailed
  BY DEF EL!DiscoverFailed, ELP!DiscoverFailed
<1>4. ASSUME NEW r, EL!ListFilesResponse(r) PROVE ELP!ListFilesResponse(r)
  BY <1>4 DEF EL!ListFilesResponse, ELP!ListFilesResponse, EL!FilesListed,
    ELP!FilesListed
<1>5. ASSUME NEW r, EL!ListFilesOutboundFailure(r)
      PROVE  ELP!ListFilesOutboundFailure(r)
  BY <1>5 DEF EL!ListFilesOutboundFailure, ELP!ListFilesOutboundFailure
<1>6. ASSUME NEW r, EL!FileGetResponseReceived(r) PROVE ELP!FileGetResponseReceived(r)
  BY <1>6 DEF EL!FileGetResponseReceived, ELP!FileGetResponseReceived, EL!FileGot,
    ELP!FileGot, EL!EndLoop, ELP!EndLoop, EL!EmptyMap, ELP!EmptyMap
<1>7. ASSUME NEW r, EL!FileGetFailure(r) PROVE ELP!FileGetFailure(r)
  BY <1>7 DEF EL!FileGetFailure, ELP!FileGetFailure
<1>8. ASSUME NEW f, EL!FileGetRequestReceived(f) PROVE ELP!FileGetRequestReceived(f)
  BY <1>8 DEF EL!FileGetRequestReceived, ELP!FileGetRequestReceived, EL!EndLoop,
    ELP!EndLoop, EL!EmptyMap, ELP!EmptyMap
<1> HIDE DEF EL!Insert, ELP!Insert, EL!Extended, ELP!Extended, EL!Answer, ELP!Answer,
    EL!clientVars, ELP!clientVars, EL!pendingVars, ELP!pendingVars,
    EL!networkVars, ELP!networkVars, EL!Completed, ELP!Completed,
    EL!Removed, ELP!Removed, EL!Restrict, ELP!Restrict
<1> QED
  BY <1>1, <1>2, <1>3, <1>4, <1>5, <1>6, <1>7, <1>8

-----------------------------------------------------------------------------
(***************************************************************************)
(* A step of the node is a step of FileGet and a step of the loop, or      *)
(* leaves one of them alone.                                               *)
(***************************************************************************)

\* What FileGet and EventLoop assume of their constants holds in a node.
LEMMA PartsAssumptions ==
    /\ MaxCommands \in Nat
    /\ MaxInbound \in Nat
    /\ ELP!RequestIds = FGP!RequestIds
    /\ EL!RequestIds = FGP!RequestIds
    /\ FG!RequestIds = FGP!RequestIds
    /\ FGP!RequestIds = 1..MaxCommands
BY NodeAssumption DEF ELP!RequestIds, EL!RequestIds, FG!RequestIds, FGP!RequestIds

\* What the first queued event is when the swarm takes it.
LEMMA HeadEvent ==
    ASSUME FGP!SafeInv, FGP!PollEvent
    PROVE  LET e == Head(pending_events) IN
           /\ e.origin \in {"out", "in"}
           /\ e.event = "ResponseReceived" => e.origin = "out"
           /\ e.event = "RequestReceived" => e.origin = "in"
           /\ e.origin = "out" => /\ e \in FGP!Fates(pending_events)
                                  /\ e.request \in FGP!RequestIds
<1> DEFINE e == Head(pending_events)
<1>1. /\ pending_events # <<>>
      /\ pending_events \in Seq(FGP!BehaviourActions)
      /\ e.type = "GenerateEvent"
  BY DEF FGP!SafeInv, FGP!TypeOK, FGP!PollEvent
<1>2. e \in FGP!BehaviourActions
  BY <1>1
<1> HIDE DEF e
<1>3. e \in FGP!EventActions
  BY <1>1, <1>2 DEF FGP!BehaviourActions, FGP!DialActions, FGP!NotifyActions
<1>4. e.origin \in {"out", "in"} /\ e.event \in FGP!EventsFrom(e.origin)
  BY <1>3 DEF FGP!EventActions
<1>5. /\ e.event = "ResponseReceived" => e.origin = "out"
      /\ e.event = "RequestReceived" => e.origin = "in"
  BY <1>4 DEF FGP!EventsFrom
<1>6. e.origin = "out" => e \in FGP!Fates(pending_events)
  <2>1. FGP!TypeOK /\ FGP!HomeInv
    BY DEF FGP!SafeInv
  <2>2. Head(pending_events).origin = "out" =>
            Head(pending_events) \in FGP!Fates(pending_events)
    BY <2>1, NodeAssumption, FGP!HomePollEvent
  <2> QED
    BY <2>2 DEF e
<1>7. e.origin = "out" => e.request \in FGP!RequestIds
  BY <1>6 DEF FGP!SafeInv, FGP!HomeInv
<1> QED
  BY <1>4, <1>5, <1>6, <1>7 DEF e

\* The peer a get@ goes to is one the loop has learned of.
LEMMA AskedPeer ==
    ASSUME ELP!TypeOK, HandleCommand, AsksForFile(channel[1].command)
    PROVE  /\ namespace_peers[channel[1].command.user] \in Peers
           /\ FGP!SendRequest(namespace_peers[channel[1].command.user])
<1>1. namespace_peers[channel[1].command.user] \in Peers
  BY DEF AsksForFile, EL!Known, ELP!TypeOK, ELP!IsMap
<1> QED
  BY <1>1, SameSend DEF HandleCommand

\* FileGet takes its own steps.
LEMMA FileGetSteps ==
    ASSUME ELP!TypeOK, [Next]_vars
    PROVE  [FGP!Next]_(FGP!vars)
<1>1. CASE HandleCommand
  <2>1. CASE AsksForFile(channel[1].command)
    BY <1>1, <2>1, AskedPeer DEF FGP!Next, FGP!Connections
  <2>2. CASE ~ AsksForFile(channel[1].command)
    BY <1>1, <2>2, SameFileGet DEF HandleCommand
  <2> QED
    BY <2>1, <2>2
<1>2. CASE PollEvent
  BY <1>2, SamePoll DEF PollEvent, FGP!Next, FGP!Poll
<1>3. CASE Swarm
  <2>1. FGP!Unobserved
    BY <1>3, SameSwarm
  <2> QED
    BY <2>1 DEF FGP!Unobserved, FGP!Next, FGP!Connections, FGP!Poll
<1>4. CASE Loop
  BY <1>4, SameFileGet DEF Loop
<1>5. CASE UNCHANGED vars
  BY <1>5, SameFileGet DEF vars
<1> QED
  BY <1>1, <1>2, <1>3, <1>4, <1>5 DEF Next

\* The loop takes its own steps.
LEMMA LoopSteps ==
    ASSUME FGP!SafeInv, [Next]_vars
    PROVE  [ELP!Next]_(ELP!vars)
<1>1. CASE HandleCommand
  BY <1>1, SameHandle DEF HandleCommand, ELP!Next
<1>2. CASE PollEvent
  <2> DEFINE e == Head(pending_events)
  <2>1. /\ e.event = "ResponseReceived" => e.origin = "out"
        /\ e.origin = "out" => e.request \in ELP!RequestIds
    BY <1>2, SamePoll, HeadEvent, PartsAssumptions DEF PollEvent
  <2>2. Deliver(e)
    BY <1>2 DEF PollEvent
  <2> HIDE DEF e
  <2>3. \/ \E r \in ELP!RequestIds :
              ELP!FileGetResponseReceived(r) \/ ELP!FileGetFailure(r)
        \/ \E f \in Files : ELP!FileGetRequestReceived(f)
        \/ UNCHANGED loopVars
    BY <2>1, <2>2, SameEvents DEF Deliver
  <2> QED
    BY <2>3, SameLoop DEF ELP!Next, ELP!NetworkEvent
<1>3. CASE Swarm
  BY <1>3, SameSwarm, SameLoop
<1>4. CASE Loop
  <2>1. \/ ELP!ClientStep
        \/ \E found \in ELP!Found : ELP!Discovered(found)
        \/ ELP!DiscoverFailed
        \/ \E r \in ELP!RequestIds :
             ELP!ListFilesResponse(r) \/ ELP!ListFilesOutboundFailure(r)
    BY <1>4, SameClient, SameEvents, PartsAssumptions DEF Loop
  <2> QED
    BY <2>1 DEF ELP!Next, ELP!NetworkEvent
<1>5. CASE UNCHANGED vars
  BY <1>5, SameLoop DEF vars
<1> QED
  BY <1>1, <1>2, <1>3, <1>4, <1>5 DEF Next

-----------------------------------------------------------------------------
(***************************************************************************)
(* The requests in progress.  While the loop runs, it takes a request to   *)
(* be in progress with a peer exactly when FileGet has it parked, awaited  *)
(* from that peer, or its fate queued.                                     *)
(***************************************************************************)
SameInProgress ==
    \A p \in Peers, r \in FGP!RequestIds :
        FGP!InProgress(p, r) <=>
            r \in DOMAIN file_get_requests /\ file_get_requests[r] = p

LoopInStep ==
    loop = "running" =>
        /\ next_get_id = next_request_id
        /\ DOMAIN file_get_requests \subseteq FGP!RequestIds
        /\ SameInProgress

NodeInv == FGP!SafeInv /\ ELP!TypeOK /\ ELP!MapsInv /\ LoopInStep

\* Neither the loop nor FileGet has a request begin or end.
LEMMA InStepStays ==
    ASSUME LoopInStep, FGP!KeepsProgress,
           UNCHANGED <<loop, next_request_id, next_get_id, file_get_requests>>
    PROVE  LoopInStep'
<1> SUFFICES ASSUME loop = "running"
             PROVE  /\ next_get_id' = next_request_id'
                    /\ DOMAIN file_get_requests' \subseteq FGP!RequestIds
                    /\ SameInProgress'
  BY DEF LoopInStep
<1>1. /\ next_get_id = next_request_id
      /\ DOMAIN file_get_requests \subseteq FGP!RequestIds
      /\ SameInProgress
  BY DEF LoopInStep
<1>2. SameInProgress'
  BY <1>1 DEF SameInProgress, FGP!KeepsProgress
<1> QED
  BY <1>1, <1>2

\* FileGet does nothing.
LEMMA ProgressFrame == UNCHANGED fileGetVars => FGP!KeepsProgress
BY DEF fileGetVars, FGP!KeepsProgress, FGP!InProgress, FGP!ParkedFor,
    FGP!AwaitedFrom, FGP!FatedOf, FGP!Fates, FGP!ToSet

\* Both see the same request end.
LEMMA InStepEnds ==
    ASSUME LoopInStep, loop = "running", NEW k \in FGP!RequestIds,
           file_get_requests' = ELP!Removed(file_get_requests, {k}),
           \A q \in Peers, r \in FGP!RequestIds :
              FGP!InProgress(q, r)' <=> FGP!InProgress(q, r) /\ r # k,
           UNCHANGED <<next_request_id, next_get_id>>
    PROVE  LoopInStep'
<1>1. /\ next_get_id = next_request_id
      /\ DOMAIN file_get_requests \subseteq FGP!RequestIds
      /\ SameInProgress
  BY DEF LoopInStep
<1>2. /\ DOMAIN file_get_requests' = DOMAIN file_get_requests \ {k}
      /\ \A r \in DOMAIN file_get_requests \ {k} :
            file_get_requests'[r] = file_get_requests[r]
  BY DEF ELP!Removed, ELP!Restrict
<1>3. SameInProgress'
  BY <1>1, <1>2 DEF SameInProgress
<1> QED
  BY <1>1, <1>2, <1>3 DEF LoopInStep

\* handle_command on a get@: send_request gives out the id under which the
\* loop files the command.
LEMMA InStepAsks ==
    ASSUME NodeInv, HandleCommand, AsksForFile(channel[1].command)
    PROVE  LoopInStep'
<1> DEFINE p == namespace_peers[channel[1].command.user]
           n == next_request_id
<1>1. p \in Peers /\ FGP!SendRequest(p)
  BY AskedPeer DEF NodeInv
<1>2. \A q \in Peers, r \in FGP!RequestIds :
         FGP!InProgress(q, r)' <=> FGP!InProgress(q, r) \/ (q = p /\ r = n)
  BY <1>1, NodeAssumption, FGP!HomeSend DEF NodeInv, FGP!SafeInv
<1>3. n \in FGP!RequestIds /\ next_request_id' = n + 1
  BY <1>1 DEF FGP!SendRequest, FGP!NextId
<1>4. ELP!HandleCommand
  BY SameHandle DEF HandleCommand
<1>5. /\ loop = "running"
      /\ loop' = "running"
      /\ file_get_requests' = ELP!Insert(file_get_requests, next_get_id, p)
      /\ next_get_id' = next_get_id + 1
  BY <1>4 DEF ELP!HandleCommand, AsksForFile, EL!Opens, EL!Known, ELP!Opens,
    ELP!Known, ELP!HandleGetFile
<1>6. /\ next_get_id = n
      /\ DOMAIN file_get_requests \subseteq FGP!RequestIds
      /\ SameInProgress
  BY <1>5 DEF NodeInv, LoopInStep
<1>7. /\ DOMAIN file_get_requests' = DOMAIN file_get_requests \cup {n}
      /\ \A r \in DOMAIN file_get_requests \cup {n} :
            file_get_requests'[r] = IF r = n THEN p ELSE file_get_requests[r]
  BY <1>5, <1>6 DEF ELP!Insert, ELP!Extended
<1>8. \A q \in Peers : ~ FGP!InProgress(q, n)
  <2>1. FGP!OneStage(n) /\ n \in Nat
    BY <1>3, PartsAssumptions DEF NodeInv, FGP!SafeInv, FGP!HomeInv, FGP!StageInv
  <2> QED
    BY <2>1 DEF FGP!OneStage
<1> HIDE DEF p, n
<1>9. SameInProgress'
  BY <1>1, <1>2, <1>3, <1>6, <1>7, <1>8 DEF SameInProgress
<1> QED
  BY <1>3, <1>5, <1>6, <1>7, <1>9 DEF LoopInStep, n

\* The rest of handle_command makes no file request.
LEMMA InStepHandles ==
    ASSUME NodeInv, HandleCommand
    PROVE  LoopInStep'
<1>1. CASE AsksForFile(channel[1].command)
  BY <1>1, InStepAsks
<1>2. CASE ~ AsksForFile(channel[1].command)
  <2>1. FGP!KeepsProgress /\ UNCHANGED next_request_id
    BY <1>2, ProgressFrame DEF HandleCommand, fileGetVars
  <2>2. ELP!HandleCommand
    BY SameHandle DEF HandleCommand
  <2>3. \/ loop' = "stopped"
        \/ UNCHANGED <<loop, next_get_id, file_get_requests>>
    BY <1>2, <2>2
    DEF ELP!HandleCommand, ELP!HandleRegister, ELP!HandleListPeers,
        ELP!HandleListFiles, ELP!HandleGetFile, ELP!EndLoop, ELP!networkVars,
        AsksForFile, EL!Opens, ELP!Opens, EL!Known, ELP!Known
  <2>4. CASE loop' = "stopped"
    BY <2>4 DEF LoopInStep
  <2> QED
    BY <2>1, <2>3, <2>4, InStepStays DEF NodeInv
<1> QED
  BY <1>1, <1>2

\* An event of FileGet: the loop takes the request it names off its list, and
\* that is the request whose fate was told.
LEMMA InStepPolls ==
    ASSUME NodeInv, PollEvent
    PROVE  LoopInStep'
<1> DEFINE e == Head(pending_events)
<1>1. loop = "running" /\ FGP!PollEvent /\ Deliver(e)
  BY SamePoll DEF PollEvent
<1>2. UNCHANGED next_request_id
  BY <1>1 DEF FGP!PollEvent
<1>3. /\ e.origin \in {"out", "in"}
      /\ e.event = "ResponseReceived" => e.origin = "out"
      /\ e.event = "RequestReceived" => e.origin = "in"
      /\ e.origin = "out" => e.request \in FGP!RequestIds
  BY <1>1, HeadEvent DEF NodeInv
<1>4. FGP!TypeOK /\ FGP!HomeInv
  BY DEF NodeInv, FGP!SafeInv
<1>5. /\ e.origin = "out" =>
            \A q \in Peers, r \in FGP!RequestIds :
               FGP!InProgress(q, r)' <=> FGP!InProgress(q, r) /\ r # e.request
      /\ e.origin # "out" => FGP!KeepsProgress
  BY <1>1, <1>4, NodeAssumption, FGP!HomePollEvent
<1> HIDE DEF e
<1>6. CASE e.origin = "out"
  <2>1. ELP!FileGetResponseReceived(e.request) \/ ELP!FileGetFailure(e.request)
    BY <1>1, <1>3, <1>6, SameEvents DEF Deliver
  <2>2. \/ loop' = "panicked"
        \/ /\ file_get_requests' = ELP!Removed(file_get_requests, {e.request})
           /\ UNCHANGED next_get_id
    BY <2>1 DEF ELP!FileGetResponseReceived, ELP!FileGetFailure, ELP!EndLoop
  <2>3. CASE loop' = "panicked"
    BY <2>3 DEF LoopInStep
  <2> QED
    BY <1>1, <1>2, <1>3, <1>5, <1>6, <2>2, <2>3, InStepEnds DEF NodeInv
<1>7. CASE e.origin = "in"
  <2>1. (\E f \in Files : ELP!FileGetRequestReceived(f)) \/ UNCHANGED loopVars
    BY <1>1, <1>3, <1>7, SameEvents DEF Deliver
  <2>2. \/ loop' = "stopped"
        \/ UNCHANGED <<loop, next_get_id, file_get_requests>>
    BY <2>1 DEF ELP!FileGetRequestReceived, ELP!EndLoop, ELP!networkVars, loopVars
  <2>3. CASE loop' = "stopped"
    BY <2>3 DEF LoopInStep
  <2> QED
    BY <1>2, <1>5, <1>7, <2>2, <2>3, InStepStays DEF NodeInv
<1> QED
  BY <1>3, <1>6, <1>7

\* Every step keeps the loop in step with FileGet.
LEMMA InStepStep ==
    ASSUME NodeInv, [Next]_vars
    PROVE  LoopInStep'
<1>1. CASE Swarm
  <2>1. FGP!Unobserved /\ UNCHANGED loopVars
    BY <1>1, SameSwarm
  <2>2. FGP!TypeOK /\ FGP!ConnInv /\ FGP!PanicInv /\ FGP!HomeInv
    BY DEF NodeInv, FGP!SafeInv
  <2>3. FGP!KeepsProgress /\ UNCHANGED next_request_id
    BY <2>1, <2>2, NodeAssumption, FGP!HomeUnobserved
  <2> QED
    BY <2>1, <2>3, InStepStays DEF NodeInv, loopVars
<1>2. CASE Loop
  <2>1. \/ ELP!ClientStep
        \/ \E found \in ELP!Found : ELP!Discovered(found)
        \/ ELP!DiscoverFailed
        \/ \E r \in ELP!RequestIds :
             ELP!ListFilesResponse(r) \/ ELP!ListFilesOutboundFailure(r)
    BY <1>2, SameClient, SameEvents, PartsAssumptions DEF Loop
  <2>2. UNCHANGED <<loop, next_get_id, file_get_requests>>
    BY <2>1
    DEF ELP!ClientStep, ELP!SendCommand, ELP!ReceiveAnswer, ELP!ReceiveCanceled,
        ELP!GiveUp, ELP!Discovered, ELP!DiscoverFailed, ELP!ListFilesResponse,
        ELP!ListFilesOutboundFailure, ELP!networkVars
  <2>3. FGP!KeepsProgress /\ UNCHANGED next_request_id
    BY <1>2, ProgressFrame DEF Loop, fileGetVars
  <2> QED
    BY <2>2, <2>3, InStepStays DEF NodeInv
<1>3. CASE UNCHANGED vars
  <2>1. UNCHANGED fileGetVars /\ UNCHANGED loopVars
    BY <1>3 DEF vars
  <2>2. UNCHANGED <<next_request_id, loop, next_get_id, file_get_requests>>
    BY <2>1 DEF fileGetVars, loopVars
  <2> QED
    BY <2>1, <2>2, ProgressFrame, InStepStays DEF NodeInv
<1> QED
  BY <1>1, <1>2, <1>3, InStepHandles, InStepPolls DEF Next

\* The invariant holds at the start.
LEMMA NodeInit == Init => NodeInv
<1> SUFFICES ASSUME Init PROVE NodeInv
  OBVIOUS
<1>1. FGP!Init /\ ELP!Init
  BY SameFileGet, SameLoop DEF Init
<1>2. FGP!SafeInv
  BY <1>1, NodeAssumption, FGP!SafeInit
<1>3. ELP!TypeOK
  BY <1>1, NodeAssumption, ELP!TypeInit
<1>4. ELP!MapsInv
  BY <1>1, NodeAssumption, ELP!MapsInit
<1>5. LoopInStep
  <2>1. /\ next_get_id = 1
        /\ next_request_id = 1
        /\ DOMAIN file_get_requests = {}
    BY <1>1 DEF FGP!Init, ELP!Init, ELP!EmptyMap
  <2>2. \A p \in Peers, r \in FGP!RequestIds : ~ FGP!InProgress(p, r)
    <3>1. \A r \in FGP!RequestIds : FGP!OneStage(r) /\ ~ (r < next_request_id)
      BY <1>2, <2>1, PartsAssumptions
      DEF FGP!SafeInv, FGP!HomeInv, FGP!StageInv
    <3> QED
      BY <3>1 DEF FGP!OneStage
  <2> QED
    BY <2>1, <2>2 DEF LoopInStep, SameInProgress
<1> QED
  BY <1>2, <1>3, <1>4, <1>5 DEF NodeInv

\* Every step keeps it.
LEMMA NodeStep == NodeInv /\ [Next]_vars => NodeInv'
<1> SUFFICES ASSUME NodeInv, [Next]_vars PROVE NodeInv'
  OBVIOUS
<1>1. FGP!SafeInv /\ ELP!TypeOK /\ ELP!MapsInv
  BY DEF NodeInv
<1>2. FGP!SafeInv'
  <2>1. [FGP!Next]_(FGP!vars)
    BY <1>1, FileGetSteps
  <2> QED
    BY <1>1, <2>1, NodeAssumption, FGP!SafeStep
<1>3. [ELP!Next]_(ELP!vars)
  BY <1>1, LoopSteps
<1>4. ELP!TypeOK'
  BY <1>1, <1>3, NodeAssumption, ELP!TypeStep
<1>5. ELP!MapsInv'
  BY <1>1, <1>3, NodeAssumption, ELP!MapsStep
<1> QED
  BY <1>2, <1>4, <1>5, InStepStep DEF NodeInv

\* It holds in every reachable state.
LEMMA NodeInvariant == Spec => []NodeInv
BY NodeInit, NodeStep, PTL DEF Spec

\* What EventLoop assumes of FileGet is what FileGet does: the loop's list of
\* file requests and FileGet's view of them agree as long as the loop runs.
THEOREM LoopAndFileGetAgree == Spec => []LoopKnowsRequestsInProgress
<1>1. NodeInv => LoopKnowsRequestsInProgress
  <2> SUFFICES ASSUME NodeInv, loop = "running"
               PROVE  /\ next_get_id = next_request_id
                      /\ DOMAIN file_get_requests =
                            {r \in 1..(next_request_id - 1) : reported[r] = "None"}
                      /\ \A i \in DOMAIN pending_events :
                            LET e == pending_events[i] IN
                            (e.type = "GenerateEvent" /\ e.origin = "out") =>
                                /\ e.request \in DOMAIN file_get_requests
                                /\ e.peer = file_get_requests[e.request]
    BY DEF LoopKnowsRequestsInProgress
  <2>1. /\ next_get_id = next_request_id
        /\ DOMAIN file_get_requests \subseteq FGP!RequestIds
        /\ SameInProgress
    BY DEF NodeInv, LoopInStep
  <2>2. FGP!TypeOK /\ FGP!HomeInv
    BY DEF NodeInv, FGP!SafeInv
  <2>3. next_request_id \in 1..(MaxCommands + 1)
    BY <2>2, PartsAssumptions DEF FGP!TypeOK
  <2>4. \A r \in 1..(next_request_id - 1) : r \in FGP!RequestIds
    BY <2>3, PartsAssumptions
  <2>5. \A r \in DOMAIN file_get_requests : file_get_requests[r] \in Peers
    BY DEF NodeInv, ELP!TypeOK, ELP!IsMap
  <2>6. ASSUME NEW r \in FGP!RequestIds
        PROVE  r \in DOMAIN file_get_requests <=>
                  r < next_request_id /\ reported[r] = "None"
    <3>1. FGP!OneStage(r)
      BY <2>2 DEF FGP!HomeInv, FGP!StageInv
    <3>2. r \in DOMAIN file_get_requests <=> \E p \in Peers : FGP!InProgress(p, r)
      BY <2>1, <2>5 DEF SameInProgress
    <3> QED
      BY <3>1, <3>2 DEF FGP!OneStage, FGP!Told
  <2>7. DOMAIN file_get_requests =
           {r \in 1..(next_request_id - 1) : reported[r] = "None"}
    <3>1. \A r \in FGP!RequestIds :
             r < next_request_id <=> r \in 1..(next_request_id - 1)
      BY <2>3, PartsAssumptions
    <3>2. \A r : r \in DOMAIN file_get_requests <=>
                   r \in 1..(next_request_id - 1) /\ reported[r] = "None"
      BY <2>1, <2>4, <2>6, <3>1
    <3> QED
      BY <3>2
  <2>8. ASSUME NEW i \in DOMAIN pending_events,
               pending_events[i].type = "GenerateEvent",
               pending_events[i].origin = "out"
        PROVE  /\ pending_events[i].request \in DOMAIN file_get_requests
               /\ pending_events[i].peer = file_get_requests[pending_events[i].request]
    <3> DEFINE e == pending_events[i]
    <3>1. e \in FGP!Fates(pending_events)
      BY <2>8 DEF FGP!Fates, FGP!ToSet
    <3> HIDE DEF e
    <3>2. e.peer \in Peers /\ e.request \in FGP!RequestIds
      BY <2>2, <3>1, NodeAssumption, FGP!FateType
    <3>3. FGP!InProgress(e.peer, e.request)
      BY <3>1 DEF FGP!InProgress, FGP!FatedOf
    <3> QED
      BY <2>1, <3>2, <3>3 DEF SameInProgress, e
  <2> QED
    BY <2>1, <2>7, <2>8
<1> QED
  BY <1>1, NodeInvariant, PTL

\* No expect of handle_event and no assertion of FileGet fails in a node.
THEOREM NodeIsSafe == Spec => []NodeNeverPanics
<1>1. NodeInv => NodeNeverPanics
  BY SameFileGet, SameLoop
  DEF NodeInv, NodeNeverPanics, ELP!MapsInv, FGP!SafeInv, FGP!PanicInv
<1> QED
  BY <1>1, NodeInvariant, PTL

=============================================================================
