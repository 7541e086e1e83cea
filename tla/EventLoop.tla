----------------------------- MODULE EventLoop -----------------------------
(***************************************************************************)
(* The application of a node (src/network/mod.rs): the Client through      *)
(* which main sends one command at a time and waits for its answer, and    *)
(* the EventLoop task that carries commands out and handles the events of  *)
(* the swarm.                                                              *)
(*                                                                         *)
(* The first group of variables is the state of Client and EventLoop, the  *)
(* second the files of sharing_dir, the third the libp2p behaviours the    *)
(* loop drives: requests of theirs that are in progress.  FileGet reports  *)
(* the end of a request once (module FileGet), and so does libp2p's        *)
(* request-response behaviour.  The last group is history.                 *)
(*                                                                         *)
(* One handler runs to its end before the loop looks at the next command   *)
(* or event, so each is one step.  Events that handle_event only logs      *)
(* (Registered, RegisterFailed, Expired, NewListenAddr, the InboundFailure *)
(* of list_files) or ignores (ResponseSent and failures of inbound file    *)
(* requests) change nothing and have no step.  The loop starts running     *)
(* with the rendezvous point's peer id known: init has set it.             *)
(***************************************************************************)
EXTENDS Naturals, Sequences, Functions

CONSTANTS
    Users,            \* user names, each the name of a rendezvous namespace
    LongUsers,        \* the names that Namespace::new rejects as too long
    Peers,            \* peer ids that may register
    Files,            \* file names
    BadFiles,         \* names that cannot be opened in sharing_dir
    InitialFiles,     \* files in sharing_dir at the start
    MaxCommands,      \* bound on the commands the user enters
    MaxInbound,       \* bound on the requests other nodes make
    NetworkMayFail,   \* whether outbound requests and discovery may fail
    CallerMayGiveUp   \* whether send_command's caller may drop its future:
                      \* a user of the crate may, the shipped main never does

ASSUME ConstantsAssumption ==
    /\ LongUsers \subseteq Users
    /\ BadFiles \subseteq Files
    /\ InitialFiles \subseteq Files \ BadFiles
    /\ MaxCommands \in Nat
    /\ MaxInbound \in Nat
    /\ NetworkMayFail \in BOOLEAN
    /\ CallerMayGiveUp \in BOOLEAN

VARIABLES
    client,                    \* "ready", "waiting" or "dead" (unwrap failed)
    next_command_id,           \* command_request_id_generator, from 0
    channel,                   \* commands sent and not yet received
    loop,                      \* "running", "stopped" (run returned an error)
                               \* or "panicked"
    namespace_peers,           \* namespace -> peer, partial
    pending_command_requests,  \* command id -> command, partial
    pending_list_files,        \* list_files request -> command id, partial
    pending_file_gets          \* file_get request -> command id, partial

VARIABLE
    files                      \* names of the files in sharing_dir

VARIABLES
    discovering,               \* discover requests not answered yet
    list_files_requests,       \* list_files request in progress -> peer
    file_get_requests,         \* file_get request in progress -> peer
    next_list_id,              \* ids of request-response, from 1
    next_get_id,               \* ids of FileGet, from 1
    served                     \* requests of other nodes answered so far

VARIABLES
    issued,                    \* command id -> the command, partial
    asked,                     \* command id -> peer it was sent to, partial
    answers                    \* command id -> what its oneshot got, partial

clientVars  == <<client, next_command_id, issued>>
pendingVars == <<namespace_peers, pending_command_requests,
                 pending_list_files, pending_file_gets>>
networkVars == <<discovering, list_files_requests, file_get_requests,
                 next_list_id, next_get_id>>

vars == <<client, next_command_id, channel, loop, namespace_peers,
          pending_command_requests, pending_list_files, pending_file_gets,
          files, discovering, list_files_requests, file_get_requests,
          next_list_id, next_get_id, served, issued, asked, answers>>

-----------------------------------------------------------------------------
CommandIds == 0..(MaxCommands - 1)
RequestIds == 1..MaxCommands

\* Command and its constructors.
Register(u)   == [name |-> "Register", user |-> u]
ListPeers     == [name |-> "ListPeers"]
ListFiles(u)  == [name |-> "ListFiles", user |-> u]
GetFile(u, f) == [name |-> "GetFile", user |-> u, file |-> f]

Commands ==
    {ListPeers}
    \cup {Register(u) : u \in Users}
    \cup {ListFiles(u) : u \in Users}
    \cup {GetFile(u, f) : u \in Users, f \in Files}

\* What a command is answered with: a CommandResult, or UserNotRegistered.
\* A list of peers also carries the namespaces the rendezvous point returned.
Registered              == [result |-> "Register"]
PeersListed(names, now) == [result |-> "ListPeers", names |-> names,
                            registered |-> now]
FilesListed(p)          == [result |-> "ListFiles", from |-> p]
FileGot(u, f, p)        == [result |-> "GetFile", user |-> u, file |-> f,
                            from |-> p]
UserNotRegistered(u)    == [result |-> "UserNotRegistered", user |-> u]

\* A HashMap after inserting all of g, one entry, or removing the keys K.
Extended(f, g) ==
    [x \in DOMAIN f \cup DOMAIN g |-> IF x \in DOMAIN g THEN g[x] ELSE f[x]]

Insert(f, k, v) == Extended(f, [x \in {k} |-> v])

Removed(f, K) == Restrict(f, DOMAIN f \ K)

EmptyMap == [x \in {} |-> x]

-----------------------------------------------------------------------------
(***************************************************************************)
(* The client.                                                             *)
(***************************************************************************)

\* send_command.  The channel holds one command and send waits for room.
\* When the loop is gone the send fails and drops the response sender.
SendCommand(command) ==
    /\ client = "ready"
    /\ next_command_id \in CommandIds
    /\ channel = <<>>
    /\ next_command_id' = next_command_id + 1
    /\ issued' = Insert(issued, next_command_id, command)
    /\ channel' = IF loop = "running"
                  THEN <<[id |-> next_command_id, command |-> command]>>
                  ELSE <<>>
    /\ client' = "waiting"
    /\ UNCHANGED <<loop, pendingVars, files, networkVars, served, asked,
                   answers>>

\* The command the client waits for is the last one it made.
Current == next_command_id - 1

InChannel(id) == \E i \in DOMAIN channel : channel[i].id = id

\* Whether the sender of a command's oneshot still exists.
SenderAlive(id) == InChannel(id) \/ id \in DOMAIN pending_command_requests

\* The answer arrives and is printed.
ReceiveAnswer ==
    /\ client = "waiting"
    /\ Current \in DOMAIN answers
    /\ client' = "ready"
    /\ UNCHANGED <<next_command_id, issued, channel, loop, pendingVars, files,
                   networkVars, served, asked, answers>>

\* The sender was dropped without an answer: response_receiver.await.unwrap()
\* panics.
ReceiveCanceled ==
    /\ client = "waiting"
    /\ Current \notin DOMAIN answers
    /\ ~ SenderAlive(Current)
    /\ client' = "dead"
    /\ UNCHANGED <<next_command_id, issued, channel, loop, pendingVars, files,
                   networkVars, served, asked, answers>>

\* The caller drops the future of send_command while it waits.
GiveUp ==
    /\ CallerMayGiveUp
    /\ client = "waiting"
    /\ client' = "ready"
    /\ UNCHANGED <<next_command_id, issued, channel, loop, pendingVars, files,
                   networkVars, served, asked, answers>>

-----------------------------------------------------------------------------
(***************************************************************************)
(* The end of the loop: run returns the error, or an expect fails, and the *)
(* EventLoop is dropped with its swarm, its channel and its pending maps.  *)
(***************************************************************************)
EndLoop(how) ==
    /\ loop' = how
    /\ channel' = <<>>
    /\ namespace_peers' = EmptyMap
    /\ pending_command_requests' = EmptyMap
    /\ pending_list_files' = EmptyMap
    /\ pending_file_gets' = EmptyMap
    /\ discovering' = 0
    /\ list_files_requests' = EmptyMap
    /\ file_get_requests' = EmptyMap
    /\ UNCHANGED <<clientVars, files, next_list_id, next_get_id, served,
                   asked, answers>>

-----------------------------------------------------------------------------
(***************************************************************************)
(* handle_command: one operator per arm of the match.                      *)
(***************************************************************************)
Answer(id, answer) == answers' = Insert(answers, id, answer)

\* Fault: the response sender is dropped.
RefuseSilently(id, u) == UNCHANGED answers

\* The answer to a command about a user whose peer is not known.
Refuse(id, u) == Answer(id, UserNotRegistered(u))

\* Fault: the request is filed under the command's id.
AwaitListFilesSwapped(r, id) ==
    pending_list_files' = Insert(pending_list_files, id, r)

\* The list_files request r is made for the command id.
AwaitListFiles(r, id) ==
    pending_list_files' = Insert(pending_list_files, r, id)

\* Fault: the request is filed under the command's id.
AwaitFileGetSwapped(r, id) ==
    pending_file_gets' = Insert(pending_file_gets, id, r)

\* The file_get request r is made for the command id.
AwaitFileGet(r, id) ==
    pending_file_gets' = Insert(pending_file_gets, r, id)

HandleRegister(id, u) ==
    IF u \in LongUsers
    THEN EndLoop("stopped")
    ELSE /\ Answer(id, Registered)
         /\ channel' = <<>>
         /\ UNCHANGED <<clientVars, loop, pendingVars, files, networkVars,
                        served, asked>>

HandleListPeers(id) ==
    /\ discovering' = discovering + 1
    /\ pending_command_requests' =
          Insert(pending_command_requests, id, ListPeers)
    /\ channel' = <<>>
    /\ UNCHANGED <<clientVars, loop, namespace_peers, pending_list_files,
                   pending_file_gets, files, list_files_requests,
                   file_get_requests, next_list_id, next_get_id, served,
                   asked, answers>>

\* get_peer_id(user_name) is Some.
Known(u) == u \in DOMAIN namespace_peers

HandleListFiles(id, u) ==
    /\ channel' = <<>>
    /\ IF Known(u)
       THEN /\ list_files_requests' =
                  Insert(list_files_requests, next_list_id, namespace_peers[u])
            /\ next_list_id' = next_list_id + 1
            /\ pending_command_requests' =
                  Insert(pending_command_requests, id, ListFiles(u))
            /\ AwaitListFiles(next_list_id, id)
            /\ asked' = Insert(asked, id, namespace_peers[u])
            /\ UNCHANGED answers
       ELSE /\ Refuse(id, u)
            /\ UNCHANGED <<list_files_requests, next_list_id,
                           pending_command_requests, pending_list_files, asked>>
    /\ UNCHANGED <<clientVars, loop, namespace_peers, pending_file_gets, files,
                   discovering, file_get_requests, next_get_id, served>>

\* Fault: an error of open is not noticed.
OpensAlways(f) == TRUE

\* open succeeds, and creates the file if it is not there.
Opens(f) == f \notin BadFiles

\* The file is opened, and created, before the peer is looked up.
HandleGetFile(id, u, f) ==
    IF ~ Opens(f)
    THEN EndLoop("stopped")
    ELSE /\ channel' = <<>>
         /\ files' = files \cup {f}
         /\ IF Known(u)
            THEN /\ file_get_requests' =
                       Insert(file_get_requests, next_get_id, namespace_peers[u])
                 /\ next_get_id' = next_get_id + 1
                 /\ pending_command_requests' =
                       Insert(pending_command_requests, id, GetFile(u, f))
                 /\ AwaitFileGet(next_get_id, id)
                 /\ asked' = Insert(asked, id, namespace_peers[u])
                 /\ UNCHANGED answers
            ELSE /\ Refuse(id, u)
                 /\ UNCHANGED <<file_get_requests, next_get_id, asked,
                                pending_command_requests, pending_file_gets>>
         /\ UNCHANGED <<clientVars, loop, namespace_peers, pending_list_files,
                        discovering, list_files_requests, next_list_id, served>>

HandleCommand ==
    /\ loop = "running"
    /\ channel # <<>>
    /\ LET id == channel[1].id
           command == channel[1].command
       IN  \/ /\ command.name = "Register"
              /\ HandleRegister(id, command.user)
           \/ /\ command.name = "ListPeers"
              /\ HandleListPeers(id)
           \/ /\ command.name = "ListFiles"
              /\ HandleListFiles(id, command.user)
           \/ /\ command.name = "GetFile"
              /\ HandleGetFile(id, command.user, command.file)

-----------------------------------------------------------------------------
(***************************************************************************)
(* handle_event.                                                           *)
(***************************************************************************)

\* Fault: the commands are read from the map but not removed.
CompletedKeeps(ids) == pending_command_requests

\* pending_command_requests once the commands ids are taken out.
Completed(ids) == Removed(pending_command_requests, ids)

\* Fault: the names of an earlier discovery are forgotten.
LearnedAnew(known, found) == found

\* namespace_peers after a Discovered event.  `found' gives, for each
\* namespace among the registrations that have an address, the peer of the
\* last of them.
Learned(known, found) == Extended(known, found)

\* Fault: every pending command counts.
AskingForPeersAll == DOMAIN pending_command_requests

\* The pending commands that a Discovered event answers.
AskingForPeers ==
    {id \in DOMAIN pending_command_requests :
        pending_command_requests[id].name = "ListPeers"}

\* Discovered answers every pending ListPeers with all known namespaces.
Discovered(found) ==
    LET known == Learned(namespace_peers, found)
    IN  /\ loop = "running"
        /\ discovering > 0
        /\ discovering' = discovering - 1
        /\ namespace_peers' = known
        /\ pending_command_requests' = Completed(AskingForPeers)
        /\ answers' = Extended(answers,
                              [id \in AskingForPeers |->
                                 PeersListed(DOMAIN known, DOMAIN found)])
        /\ UNCHANGED <<clientVars, channel, loop, pending_list_files,
                       pending_file_gets, files, list_files_requests,
                       file_get_requests, next_list_id, next_get_id, served,
                       asked>>

\* DiscoverFailed is logged.
DiscoverFailed ==
    /\ loop = "running"
    /\ NetworkMayFail
    /\ discovering > 0
    /\ discovering' = discovering - 1
    /\ UNCHANGED <<clientVars, channel, loop, pendingVars, files,
                   list_files_requests, file_get_requests, next_list_id,
                   next_get_id, served, asked, answers>>

ListFilesResponse(r) ==
    /\ loop = "running"
    /\ r \in DOMAIN list_files_requests
    /\ list_files_requests' = Removed(list_files_requests, {r})
    /\ pending_list_files' = Removed(pending_list_files, {r})
    /\ LET id == pending_list_files[r] IN
       IF r \in DOMAIN pending_list_files /\ id \in DOMAIN pending_command_requests
       THEN /\ pending_command_requests' = Completed({id})
            /\ Answer(id, FilesListed(list_files_requests[r]))
       ELSE UNCHANGED <<pending_command_requests, answers>>
    /\ UNCHANGED <<clientVars, channel, loop, namespace_peers,
                   pending_file_gets, files, discovering, file_get_requests,
                   next_list_id, next_get_id, served, asked>>

\* Fault: the request is forgotten but its command stays.
ListFilesOutboundFailureForgets(r) ==
    /\ loop = "running"
    /\ NetworkMayFail
    /\ r \in DOMAIN list_files_requests
    /\ list_files_requests' = Removed(list_files_requests, {r})
    /\ pending_list_files' = Removed(pending_list_files, {r})
    /\ UNCHANGED <<clientVars, channel, loop, namespace_peers,
                   pending_command_requests, pending_file_gets, files,
                   discovering, file_get_requests, next_list_id, next_get_id,
                   served, asked, answers>>

\* The OutboundFailure of list_files is logged.
ListFilesOutboundFailure(r) ==
    /\ loop = "running"
    /\ NetworkMayFail
    /\ r \in DOMAIN list_files_requests
    /\ list_files_requests' = Removed(list_files_requests, {r})
    /\ UNCHANGED <<clientVars, channel, loop, pendingVars, files, discovering,
                   file_get_requests, next_list_id, next_get_id, served,
                   asked, answers>>

\* ResponseReceived: two expects, then the answer.  A pending command that
\* is not a GetFile would be dropped unanswered; a debug build panics.
FileGetResponseReceived(r) ==
    /\ loop = "running"
    /\ r \in DOMAIN file_get_requests
    /\ IF /\ r \in DOMAIN pending_file_gets
          /\ pending_file_gets[r] \in DOMAIN pending_command_requests
          /\ pending_command_requests[pending_file_gets[r]].name = "GetFile"
       THEN LET id == pending_file_gets[r]
                command == pending_command_requests[id]
            IN  /\ pending_file_gets' = Removed(pending_file_gets, {r})
                /\ pending_command_requests' = Completed({id})
                /\ Answer(id, FileGot(command.user, command.file,
                                      file_get_requests[r]))
                /\ file_get_requests' = Removed(file_get_requests, {r})
                /\ UNCHANGED <<clientVars, channel, loop, namespace_peers,
                               pending_list_files, files, discovering,
                               list_files_requests, next_list_id, next_get_id,
                               served, asked>>
       ELSE EndLoop("panicked")

\* The events that end a file request otherwise match no arm but the last.
FileGetFailure(r) ==
    /\ loop = "running"
    /\ NetworkMayFail
    /\ r \in DOMAIN file_get_requests
    /\ file_get_requests' = Removed(file_get_requests, {r})
    /\ UNCHANGED <<clientVars, channel, loop, pendingVars, files, discovering,
                   list_files_requests, next_list_id, next_get_id, served,
                   asked, answers>>

\* Another node asks for the list of files: sharing_dir is read, which may
\* fail and then ends the loop.
ListFilesRequest ==
    /\ loop = "running"
    /\ served < MaxInbound
    /\ \/ /\ served' = served + 1
          /\ UNCHANGED <<clientVars, channel, loop, pendingVars, files,
                         networkVars, asked, answers>>
       \/ EndLoop("stopped")

\* Another node asks for a file.  File::open fails on a name that is not there
\* and may fail on one that is; a name that get@ cannot open for writing, such
\* as a directory's, may be opened for reading.  An error ends the loop.
FileGetRequestReceived(f) ==
    /\ loop = "running"
    /\ served < MaxInbound
    /\ \/ /\ f \in files \cup BadFiles
          /\ served' = served + 1
          /\ UNCHANGED <<clientVars, channel, loop, pendingVars, files,
                         networkVars, asked, answers>>
       \/ EndLoop("stopped")

-----------------------------------------------------------------------------
Init ==
    /\ client = "ready"
    /\ next_command_id = 0
    /\ channel = <<>>
    /\ loop = "running"
    /\ namespace_peers = EmptyMap
    /\ pending_command_requests = EmptyMap
    /\ pending_list_files = EmptyMap
    /\ pending_file_gets = EmptyMap
    /\ files = InitialFiles
    /\ discovering = 0
    /\ list_files_requests = EmptyMap
    /\ file_get_requests = EmptyMap
    /\ next_list_id = 1
    /\ next_get_id = 1
    /\ served = 0
    /\ issued = EmptyMap
    /\ asked = EmptyMap
    /\ answers = EmptyMap

ClientStep ==
    \/ \E command \in Commands : SendCommand(command)
    \/ ReceiveAnswer
    \/ ReceiveCanceled
    \/ GiveUp

\* What a discovery may find: the last peer registered in each namespace.
Found == UNION {[S -> Peers] : S \in SUBSET (Users \ LongUsers)}

NetworkEvent ==
    \/ \E found \in Found : Discovered(found)
    \/ DiscoverFailed
    \/ \E r \in RequestIds :
         \/ ListFilesResponse(r)
         \/ ListFilesOutboundFailure(r)
         \/ FileGetResponseReceived(r)
         \/ FileGetFailure(r)
    \/ ListFilesRequest
    \/ \E f \in Files : FileGetRequestReceived(f)

Next == ClientStep \/ HandleCommand \/ NetworkEvent

Spec == Init /\ [][Next]_vars

(***************************************************************************)
(* Fairness.  The select! of run takes up commands and events as they come *)
(* and the client's task is woken by its oneshot.  A request in progress   *)
(* ends, in a response or a failure: request-response and FileGet time     *)
(* out, and so does a discovery, which is one substream with a timeout.    *)
(***************************************************************************)
Fairness ==
    /\ WF_vars(HandleCommand)
    /\ WF_vars(ReceiveAnswer \/ ReceiveCanceled)
    /\ WF_vars(DiscoverFailed \/ \E found \in Found : Discovered(found))
    /\ \A r \in RequestIds :
         /\ WF_vars(ListFilesResponse(r) \/ ListFilesOutboundFailure(r))
         /\ WF_vars(FileGetResponseReceived(r) \/ FileGetFailure(r))

FairSpec == Spec /\ Fairness

-----------------------------------------------------------------------------
(***************************************************************************)
(* Properties.                                                             *)
(***************************************************************************)
\* A partial function from S to T.
IsMap(f, S, T) ==
    /\ f \in [DOMAIN f -> T]
    /\ DOMAIN f \subseteq S

Answers ==
    {Registered}
    \cup {PeersListed(names, now) : names, now \in SUBSET Users}
    \cup {FilesListed(p) : p \in Peers}
    \cup {FileGot(u, f, p) : u \in Users, f \in Files, p \in Peers}
    \cup {UserNotRegistered(u) : u \in Users}

\* The values each field of Client, EventLoop and their surroundings may take.
TypeOK ==
    /\ client \in {"ready", "waiting", "dead"}
    /\ next_command_id \in 0..MaxCommands
    /\ channel \in {<<>>} \cup {<<m>> : m \in [id : CommandIds,
                                              command : Commands]}
    /\ loop \in {"running", "stopped", "panicked"}
    /\ IsMap(namespace_peers, Users \ LongUsers, Peers)
    /\ IsMap(pending_command_requests, CommandIds, Commands)
    /\ IsMap(pending_list_files, Nat, CommandIds)
    /\ IsMap(pending_file_gets, Nat, CommandIds)
    /\ files \in SUBSET (Files \ BadFiles)
    /\ discovering \in Nat
    /\ IsMap(list_files_requests, Nat, Peers)
    /\ IsMap(file_get_requests, Nat, Peers)
    /\ next_list_id \in Nat
    /\ next_get_id \in Nat
    /\ served \in 0..MaxInbound
    /\ IsMap(issued, CommandIds, Commands)
    /\ IsMap(asked, CommandIds, Peers)
    /\ IsMap(answers, CommandIds, Answers)

\* The expects of the ResponseReceived arm of handle_event hold: when FileGet
\* reports a response, its request and its command are still pending.
NoExpectFails == loop # "panicked"

\* The response sender of every command is in one place as long as the loop
\* runs: on its way in the channel, kept in pending_command_requests, or used
\* for the one answer.  It is never dropped silently and never used twice.
EveryCommandHasOneOwner ==
    \A id \in CommandIds :
        /\ ~ (InChannel(id) /\ id \in DOMAIN pending_command_requests)
        /\ id \in DOMAIN answers => ~ SenderAlive(id)
        /\ (loop = "running" /\ id < next_command_id) =>
              id \in DOMAIN answers \/ SenderAlive(id)

\* The two request maps and pending_command_requests agree: each entry leads
\* to a pending command of its kind, no two to the same one, and every
\* pending ListFiles and GetFile has an entry through which to answer it.
PendingMapsAgree ==
    /\ IsInjective(pending_list_files)
    /\ IsInjective(pending_file_gets)
    /\ Range(pending_list_files) =
          {id \in DOMAIN pending_command_requests :
              pending_command_requests[id].name = "ListFiles"}
    /\ Range(pending_file_gets) =
          {id \in DOMAIN pending_command_requests :
              pending_command_requests[id].name = "GetFile"}

\* A request in progress has its entry, so that a late response still finds
\* the command it belongs to.
RequestsInProgressArePending ==
    /\ DOMAIN list_files_requests \subseteq DOMAIN pending_list_files
    /\ DOMAIN file_get_requests \subseteq DOMAIN pending_file_gets

\* A command gets the result of its own kind, and the result of ListFiles and
\* GetFile comes from the peer to which that command's request went.
AnswersFitCommands ==
    \A id \in DOMAIN answers :
        LET c == issued[id]
            a == answers[id]
        IN  \/ /\ c.name = "Register"
               /\ a = Registered
            \/ /\ c.name = "ListPeers"
               /\ a.result = "ListPeers"
            \/ /\ c.name \in {"ListFiles", "GetFile"}
               /\ a = UserNotRegistered(c.user)
            \/ /\ c.name = "ListFiles"
               /\ id \in DOMAIN asked
               /\ a = FilesListed(asked[id])
            \/ /\ c.name = "GetFile"
               /\ id \in DOMAIN asked
               /\ a = FileGot(c.user, c.file, asked[id])

\* The client's unwrap of response_receiver fails only when the loop is gone.
ClientDiesOnlyAfterLoop == client = "dead" => loop # "running"

\* ls_peers shows every namespace the rendezvous point returned for it, and a
\* name it has shown can be used in ls@ and get@ from then on.
ListedPeersStayKnown ==
    loop = "running" =>
        \A id \in DOMAIN answers :
            answers[id].result = "ListPeers" =>
                /\ answers[id].registered \subseteq answers[id].names
                /\ answers[id].names \subseteq DOMAIN namespace_peers

\* A command whose discovery or request has ended without a response, and
\* which therefore stays pending.
Lost(id) ==
    \/ /\ id \in AskingForPeers
       /\ discovering = 0
    \/ \E r \in DOMAIN pending_list_files \ DOMAIN list_files_requests :
          pending_list_files[r] = id
    \/ \E r \in DOMAIN pending_file_gets \ DOMAIN file_get_requests :
          pending_file_gets[r] = id

\* send_command returns or panics, whatever else is pending and however the
\* loop ends, unless the discovery or the request its command made has failed.
EveryCommandFinishes ==
    (client = "waiting") ~> (client # "waiting" \/ Lost(Current))

\* "List Files being processed", "File Get requests being processed": an entry
\* of pending_list_files or pending_file_gets belongs to a request that is in
\* progress.
PendingRequestsAreInProgress ==
    /\ DOMAIN pending_list_files \subseteq DOMAIN list_files_requests
    /\ DOMAIN pending_file_gets \subseteq DOMAIN file_get_requests

=============================================================================
