-------------------------------- MODULE Node --------------------------------
(***************************************************************************)
(* A node: the event loop on top of its FileGet behaviour.                 *)
(*                                                                         *)
(* Module EventLoop describes FileGet by the set of requests in progress,  *)
(* which it assumes to end once each, and module FileGet describes its     *)
(* user by send_request at any moment and poll.  Here the loop's get@ is   *)
(* FileGet's send_request, and an event that the swarm takes from FileGet  *)
(* is handled by the loop in the same step: run handles an event before it *)
(* polls the swarm again.  The other behaviours stay as EventLoop has      *)
(* them; other nodes' requests for the list of files, which do not touch   *)
(* FileGet, are left out.  When the loop ends the swarm goes with it.      *)
(***************************************************************************)
EXTENDS Naturals, Sequences

CONSTANTS
    Users, LongUsers, Peers, Files, BadFiles, InitialFiles, MaxCommands,
    MaxInbound, NetworkMayFail, CallerMayGiveUp, ConnectionIds

ASSUME NodeAssumption ==
    /\ LongUsers \subseteq Users
    /\ BadFiles \subseteq Files
    /\ InitialFiles \subseteq Files \ BadFiles
    /\ MaxCommands \in Nat
    /\ MaxInbound \in Nat
    /\ NetworkMayFail \in BOOLEAN
    /\ CallerMayGiveUp \in BOOLEAN

VARIABLES
    client, next_command_id, channel, loop, namespace_peers,
    pending_command_requests, pending_list_files, pending_file_gets, files,
    discovering, list_files_requests, file_get_requests, next_list_id,
    next_get_id, served, issued, asked, answers

VARIABLES
    next_request_id, next_inbound_id, connected, pending_inbound_responses,
    pending_outbound_responses, pending_outbound_requests, pending_events,
    panicked, pool, used, dialing, held, open, requested, late, reported

EL == INSTANCE EventLoop
FG == INSTANCE FileGet WITH MaxRequests <- MaxCommands

loopVars == <<client, next_command_id, channel, loop, namespace_peers,
    pending_command_requests, pending_list_files, pending_file_gets, files,
    discovering, list_files_requests, file_get_requests, next_list_id,
    next_get_id, served, issued, asked, answers>>

fileGetVars == <<next_request_id, next_inbound_id, connected,
    pending_inbound_responses, pending_outbound_responses,
    pending_outbound_requests, pending_events, panicked, pool, used, dialing,
    held, open, requested, late, reported>>

vars == <<loopVars, fileGetVars>>

-----------------------------------------------------------------------------
\* The command makes a file request.
AsksForFile(c) == c.name = "GetFile" /\ EL!Opens(c.file) /\ EL!Known(c.user)

HandleCommand ==
    /\ EL!HandleCommand
    /\ LET c == channel[1].command IN
       IF AsksForFile(c)
       THEN FG!SendRequest(namespace_peers[c.user])
       ELSE UNCHANGED fileGetVars

\* The swarm hands the first event of FileGet to handle_event, which knows
\* it by its kind and by its id alone.
Deliver(e) ==
    \/ /\ e.event = "ResponseReceived"
       /\ EL!FileGetResponseReceived(e.request)
    \/ /\ e.event = "RequestReceived"
       /\ \E f \in Files : EL!FileGetRequestReceived(f)
    \/ /\ e.event \notin {"ResponseReceived", "RequestReceived"}
       /\ e.origin = "out"
       /\ EL!FileGetFailure(e.request)
    \/ /\ e.event \notin {"ResponseReceived", "RequestReceived"}
       /\ e.origin = "in"
       /\ UNCHANGED loopVars

PollEvent ==
    /\ loop = "running"
    /\ FG!PollEvent
    /\ Deliver(Head(pending_events))

\* The rest of what the swarm and the network do to FileGet.
Connections ==
    \E p \in Peers :
        \/ FG!DialFails(p)
        \/ FG!OtherDialFails(p)
        \/ \E c \in ConnectionIds :
             \/ FG!DialSucceeds(p, c)
             \/ FG!ConnectionArrives(p, c)
             \/ FG!CloseConnection(p, c)
             \/ FG!ChangeAddress(p, c)

\* A step of FileGet that the loop does not see.
Unseen(step) == loop = "running" /\ step /\ UNCHANGED loopVars

Swarm == Unseen(FG!PollDial \/ FG!PollNotify \/ Connections \/ FG!Handlers)

\* What the loop does without FileGet.
Loop ==
    /\ \/ EL!ClientStep
       \/ \E found \in EL!Found : EL!Discovered(found)
       \/ EL!DiscoverFailed
       \/ \E r \in EL!RequestIds :
            EL!ListFilesResponse(r) \/ EL!ListFilesOutboundFailure(r)
    /\ UNCHANGED fileGetVars

Init == EL!Init /\ FG!Init

Next == HandleCommand \/ PollEvent \/ Swarm \/ Loop

Spec == Init /\ [][Next]_vars

\* Fairness: what EventLoop and FileGet assume each.
Fairness ==
    /\ WF_vars(HandleCommand)
    /\ WF_vars(PollEvent \/ Unseen(FG!PollDial \/ FG!PollNotify))
    /\ \A p \in Peers : WF_vars(Unseen(FG!DialEnds(p)))
    /\ \A r \in FG!RequestIds : WF_vars(Unseen(FG!RequestEnds(r)))

FairSpec == Spec /\ Fairness

-----------------------------------------------------------------------------
(***************************************************************************)
(* Properties.                                                             *)
(***************************************************************************)
\* What EventLoop assumes of FileGet: the requests it takes to be in progress
\* are those FileGet has not told it about, under the ids FileGet gave them,
\* and every report that FileGet has queued is about one of them.
LoopKnowsRequestsInProgress ==
    loop = "running" =>
        /\ next_get_id = next_request_id
        /\ DOMAIN file_get_requests =
              {r \in 1..(next_request_id - 1) : reported[r] = "None"}
        /\ \A i \in DOMAIN pending_events :
              LET e == pending_events[i] IN
              (e.type = "GenerateEvent" /\ e.origin = "out") =>
                  /\ e.request \in DOMAIN file_get_requests
                  /\ e.peer = file_get_requests[e.request]

\* No expect of the loop and none of FileGet fails when one drives the other.
NodeNeverPanics == EL!NoExpectFails /\ FG!NoPanic

\* A get@ that was sent is answered, or FileGet has reported a failure of its
\* request, which the loop ignores: nothing else leaves it waiting.
GetsWaitOnlyAfterFailure ==
    \A r \in FG!RequestIds :
        (r \in DOMAIN pending_file_gets) ~>
            \/ r \notin DOMAIN pending_file_gets
            \/ reported[r] \in {"OutboundFailure", "InboundFailure"}

=============================================================================
