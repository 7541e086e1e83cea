-------------------------- MODULE EventLoopProofs --------------------------
(***************************************************************************)
(* Proofs about EventLoop, for any users, peers and files and any number   *)
(* of commands: the three maps of the loop stay in step, so that the       *)
(* expects of handle_event hold, and the response sender of a command is   *)
(* always in exactly one place, so that the client is never left alone     *)
(* while the loop runs.                                                    *)
(***************************************************************************)
EXTENDS EventLoop, TLAPS

-----------------------------------------------------------------------------
(***************************************************************************)
(* Maps.                                                                   *)
(***************************************************************************)

\* A map of requests leads, one to one, to the pending commands of a kind.
Leads(requests, pending, kind) ==
    /\ IsInjective(requests)
    /\ Range(requests) = {id \in DOMAIN pending : pending[id].name = kind}

\* A new request and its new command keep the maps in step.
LEMMA LeadsInsert ==
    ASSUME NEW m, NEW P, NEW kind, Leads(m, P, kind), NEW r, NEW id, NEW cmd,
           r \notin DOMAIN m, id \notin DOMAIN P, cmd.name = kind
    PROVE  Leads(Insert(m, r, id), Insert(P, id, cmd), kind)
<1> DEFINE m1 == Insert(m, r, id)
           P1 == Insert(P, id, cmd)
<1>1. DOMAIN m1 = DOMAIN m \cup {r} /\ m1[r] = id
  BY DEF Insert, Extended
<1>2. \A x \in DOMAIN m : m1[x] = m[x]
  BY DEF Insert, Extended
<1>3. DOMAIN P1 = DOMAIN P \cup {id} /\ P1[id] = cmd
  BY DEF Insert, Extended
<1>4. \A x \in DOMAIN P : P1[x] = P[x]
  BY DEF Insert, Extended
<1> HIDE DEF m1, P1
<1>5. \A x \in DOMAIN m : m[x] \in DOMAIN P
  BY DEF Leads, Range
<1>6. IsInjective(m1)
  BY <1>1, <1>2, <1>5 DEF Leads, IsInjective
<1>7. Range(m1) = Range(m) \cup {id}
  BY <1>1, <1>2 DEF Range
<1>8. {x \in DOMAIN P1 : P1[x].name = kind}
        = {x \in DOMAIN P : P[x].name = kind} \cup {id}
  BY <1>3, <1>4
<1> QED
  BY <1>6, <1>7, <1>8 DEF Leads, m1, P1

\* A new command of another kind does not concern the map.
LEMMA LeadsInsertOther ==
    ASSUME NEW m, NEW P, NEW kind, Leads(m, P, kind), NEW id, NEW cmd,
           id \notin DOMAIN P, cmd.name # kind
    PROVE  Leads(m, Insert(P, id, cmd), kind)
<1> DEFINE P1 == Insert(P, id, cmd)
<1>1. /\ DOMAIN P1 = DOMAIN P \cup {id}
      /\ P1[id] = cmd
      /\ \A x \in DOMAIN P : P1[x] = P[x]
  BY DEF Insert, Extended
<1> HIDE DEF P1
<1>2. {x \in DOMAIN P1 : P1[x].name = kind} = {x \in DOMAIN P : P[x].name = kind}
  BY <1>1
<1> QED
  BY <1>2 DEF Leads, P1

\* Taking out a request together with its command keeps the maps in step.
LEMMA LeadsRemove ==
    ASSUME NEW m, NEW P, NEW kind, Leads(m, P, kind), NEW r \in DOMAIN m
    PROVE  Leads(Removed(m, {r}), Removed(P, {m[r]}), kind)
<1> DEFINE m1 == Removed(m, {r})
           P1 == Removed(P, {m[r]})
<1>1. DOMAIN m1 = DOMAIN m \ {r} /\ \A x \in DOMAIN m \ {r} : m1[x] = m[x]
  BY DEF Removed, Restrict
<1>2. DOMAIN P1 = DOMAIN P \ {m[r]} /\ \A x \in DOMAIN P \ {m[r]} : P1[x] = P[x]
  BY DEF Removed, Restrict
<1> HIDE DEF m1, P1
<1>3. IsInjective(m1)
  BY <1>1 DEF Leads, IsInjective
<1>4. Range(m1) = Range(m) \ {m[r]}
  BY <1>1 DEF Leads, Range, IsInjective
<1>5. {x \in DOMAIN P1 : P1[x].name = kind}
        = {x \in DOMAIN P : P[x].name = kind} \ {m[r]}
  BY <1>2
<1> QED
  BY <1>3, <1>4, <1>5 DEF Leads, m1, P1

\* Taking out commands of other kinds does not concern the map.
LEMMA LeadsRemoveOther ==
    ASSUME NEW m, NEW P, NEW kind, Leads(m, P, kind), NEW K,
           \A id \in K \cap DOMAIN P : P[id].name # kind
    PROVE  Leads(m, Removed(P, K), kind)
<1> DEFINE P1 == Removed(P, K)
<1>1. DOMAIN P1 = DOMAIN P \ K /\ \A x \in DOMAIN P \ K : P1[x] = P[x]
  BY DEF Removed, Restrict
<1> HIDE DEF P1
<1>2. {x \in DOMAIN P1 : P1[x].name = kind} = {x \in DOMAIN P : P[x].name = kind}
  BY <1>1
<1> QED
  BY <1>2 DEF Leads, P1

\* Empty maps are in step.
LEMMA LeadsEmpty ==
    ASSUME NEW kind
    PROVE  Leads(EmptyMap, EmptyMap, kind) /\ DOMAIN EmptyMap = {}
BY DEF Leads, EmptyMap, IsInjective, Range

-----------------------------------------------------------------------------
(***************************************************************************)
(* The maps of the loop.                                                   *)
(***************************************************************************)

\* Ids in the maps were handed out before.
IdsHandedOut ==
    /\ next_command_id \in Nat
    /\ next_list_id \in Nat
    /\ next_get_id \in Nat
    /\ DOMAIN pending_command_requests \subseteq 0..(next_command_id - 1)
    /\ DOMAIN pending_list_files \subseteq 0..(next_list_id - 1)
    /\ DOMAIN pending_file_gets \subseteq 0..(next_get_id - 1)

\* The channel holds at most one command, which the loop has not seen.
ChannelIsNew ==
    channel # <<>> =>
        /\ DOMAIN channel = {1}
        /\ channel[1].id \in 0..(next_command_id - 1)
        /\ channel[1].id \notin DOMAIN pending_command_requests

ListLeads == Leads(pending_list_files, pending_command_requests, "ListFiles")

GetLeads == Leads(pending_file_gets, pending_command_requests, "GetFile")

MapsInv == /\ IdsHandedOut
           /\ ChannelIsNew
           /\ ListLeads
           /\ GetLeads
           /\ RequestsInProgressArePending
           /\ NoExpectFails

mapVars == <<next_command_id, channel, loop, pending_command_requests,
             pending_list_files, pending_file_gets, list_files_requests,
             file_get_requests, next_list_id, next_get_id>>

\* A step that touches none of the maps keeps them in step.
LEMMA MapsFrame == MapsInv /\ UNCHANGED mapVars => MapsInv'
BY DEF mapVars, MapsInv, IdsHandedOut, ChannelIsNew, ListLeads, GetLeads,
       RequestsInProgressArePending, NoExpectFails

\* A loop that ends by an error takes all entries with it.
LEMMA MapsEnd == MapsInv /\ EndLoop("stopped") => MapsInv'
<1> SUFFICES ASSUME MapsInv, EndLoop("stopped") PROVE MapsInv'
  OBVIOUS
<1>1. DOMAIN EmptyMap = {}
  BY DEF EmptyMap
<1>2. /\ UNCHANGED <<next_command_id, next_list_id, next_get_id>>
      /\ loop' = "stopped"
      /\ channel' = <<>>
      /\ pending_command_requests' = EmptyMap
      /\ pending_list_files' = EmptyMap
      /\ pending_file_gets' = EmptyMap
      /\ list_files_requests' = EmptyMap
      /\ file_get_requests' = EmptyMap
  BY DEF EndLoop, clientVars
<1>3. IdsHandedOut' /\ ChannelIsNew' /\ RequestsInProgressArePending' /\ NoExpectFails'
  BY <1>1, <1>2 DEF MapsInv, IdsHandedOut, ChannelIsNew,
                    RequestsInProgressArePending, NoExpectFails
<1>4. ListLeads' /\ GetLeads'
  BY <1>2, LeadsEmpty DEF ListLeads, GetLeads
<1> QED
  BY <1>3, <1>4 DEF MapsInv

\* send_command draws a fresh id, so the new command is in no map.
LEMMA MapsSend ==
    ASSUME MapsInv, NEW command, SendCommand(command)
    PROVE  MapsInv'
<1>1. /\ next_command_id' = next_command_id + 1
      /\ channel' \in {<<>>, <<[id |-> next_command_id, command |-> command]>>}
      /\ UNCHANGED <<loop, pending_command_requests, pending_list_files,
                     pending_file_gets, list_files_requests, file_get_requests,
                     next_list_id, next_get_id>>
  BY DEF SendCommand, pendingVars, networkVars
<1>2. IdsHandedOut'
  BY <1>1 DEF MapsInv, IdsHandedOut
<1>3. ChannelIsNew'
  <2>1. CASE channel' = <<>>
    BY <2>1 DEF ChannelIsNew
  <2>2. CASE channel' = <<[id |-> next_command_id, command |-> command]>>
    <3>1. DOMAIN channel' = {1} /\ channel'[1].id = next_command_id
      BY <2>2
    <3> QED
      BY <1>1, <3>1 DEF MapsInv, IdsHandedOut, ChannelIsNew
  <2> QED
    BY <1>1, <2>1, <2>2
<1> QED
  BY <1>1, <1>2, <1>3 DEF MapsInv, ListLeads, GetLeads,
                          RequestsInProgressArePending, NoExpectFails

\* handle_command files the command and its request under their ids.
LEMMA MapsHandle ==
    ASSUME MapsInv, HandleCommand
    PROVE  MapsInv'
<1> DEFINE id == channel[1].id
           cmd == channel[1].command
<1>1. /\ channel # <<>>
      /\ id \in 0..(next_command_id - 1)
      /\ id \notin DOMAIN pending_command_requests
      /\ loop = "running"
  BY DEF HandleCommand, MapsInv, ChannelIsNew
<1>2. CASE HandleRegister(id, cmd.user)
  <2>1. CASE EndLoop("stopped")
    BY <2>1, MapsEnd
  <2>2. CASE ~ EndLoop("stopped")
    <3>1. /\ channel' = <<>>
          /\ UNCHANGED <<next_command_id, loop, pending_command_requests,
                         pending_list_files, pending_file_gets,
                         list_files_requests, file_get_requests,
                         next_list_id, next_get_id>>
      BY <1>2, <2>2 DEF HandleRegister, clientVars, pendingVars, networkVars
    <3> QED
      BY <3>1 DEF MapsInv, IdsHandedOut, ChannelIsNew, ListLeads, GetLeads,
                  RequestsInProgressArePending, NoExpectFails
  <2> QED
    BY <2>1, <2>2
<1>3. CASE HandleListPeers(id)
  <2>1. /\ channel' = <<>>
        /\ pending_command_requests' = Insert(pending_command_requests, id, ListPeers)
        /\ UNCHANGED <<next_command_id, loop, pending_list_files,
                       pending_file_gets, list_files_requests,
                       file_get_requests, next_list_id, next_get_id>>
    BY <1>3 DEF HandleListPeers, clientVars
  <2>2. DOMAIN pending_command_requests' = DOMAIN pending_command_requests \cup {id}
    BY <2>1 DEF Insert, Extended
  <2>3. ListPeers.name = "ListPeers"
    BY DEF ListPeers
  <2> HIDE DEF id
  <2>4. IdsHandedOut' /\ ChannelIsNew' /\ RequestsInProgressArePending' /\ NoExpectFails'
    BY <1>1, <2>1, <2>2 DEF MapsInv, IdsHandedOut, ChannelIsNew,
                            RequestsInProgressArePending, NoExpectFails
  <2>5. ListLeads' /\ GetLeads'
    BY <1>1, <2>1, <2>3, LeadsInsertOther DEF MapsInv, ListLeads, GetLeads
  <2> QED
    BY <2>4, <2>5 DEF MapsInv
<1>4. CASE HandleListFiles(id, cmd.user)
  <2> DEFINE u == cmd.user
             r == next_list_id
  <2>1. /\ channel' = <<>>
        /\ UNCHANGED <<next_command_id, loop, pending_file_gets,
                       file_get_requests, next_get_id>>
    BY <1>4 DEF HandleListFiles, clientVars
  <2>2. CASE Known(u)
    <3>1. /\ list_files_requests' = Insert(list_files_requests, r, namespace_peers[u])
          /\ next_list_id' = r + 1
          /\ pending_command_requests' =
                Insert(pending_command_requests, id, ListFiles(u))
          /\ pending_list_files' = Insert(pending_list_files, r, id)
      BY <1>4, <2>2 DEF HandleListFiles, AwaitListFiles
    <3>2. /\ DOMAIN pending_command_requests' = DOMAIN pending_command_requests \cup {id}
          /\ DOMAIN pending_list_files' = DOMAIN pending_list_files \cup {r}
          /\ DOMAIN list_files_requests' = DOMAIN list_files_requests \cup {r}
      BY <3>1 DEF Insert, Extended
    <3>3. ListFiles(u).name = "ListFiles"
      BY DEF ListFiles
    <3>4. r \notin DOMAIN pending_list_files
      BY DEF MapsInv, IdsHandedOut
    <3> HIDE DEF id, u
    <3>5. IdsHandedOut' /\ ChannelIsNew' /\ RequestsInProgressArePending' /\ NoExpectFails'
      BY <1>1, <2>1, <3>1, <3>2 DEF MapsInv, IdsHandedOut, ChannelIsNew,
                                    RequestsInProgressArePending, NoExpectFails
    <3>6. ListLeads'
      BY <1>1, <3>1, <3>3, <3>4, LeadsInsert DEF MapsInv, ListLeads
    <3>7. GetLeads'
      BY <1>1, <2>1, <3>1, <3>3, LeadsInsertOther DEF MapsInv, GetLeads
    <3> QED
      BY <3>5, <3>6, <3>7 DEF MapsInv
  <2>3. CASE ~ Known(u)
    <3>1. UNCHANGED <<list_files_requests, next_list_id,
                      pending_command_requests, pending_list_files>>
      BY <1>4, <2>3 DEF HandleListFiles
    <3> QED
      BY <2>1, <3>1 DEF MapsInv, IdsHandedOut, ChannelIsNew, ListLeads, GetLeads,
                        RequestsInProgressArePending, NoExpectFails
  <2> QED
    BY <2>2, <2>3
<1>5. CASE HandleGetFile(id, cmd.user, cmd.file)
  <2> DEFINE u == cmd.user
             f == cmd.file
             r == next_get_id
  <2>1. CASE EndLoop("stopped")
    BY <2>1, MapsEnd
  <2>2. CASE ~ EndLoop("stopped")
    <3>1. /\ channel' = <<>>
          /\ UNCHANGED <<next_command_id, loop, pending_list_files,
                         list_files_requests, next_list_id>>
      BY <1>5, <2>2 DEF HandleGetFile, clientVars
    <3>2. CASE Known(u)
      <4>1. /\ file_get_requests' = Insert(file_get_requests, r, namespace_peers[u])
            /\ next_get_id' = r + 1
            /\ pending_command_requests' =
                  Insert(pending_command_requests, id, GetFile(u, f))
            /\ pending_file_gets' = Insert(pending_file_gets, r, id)
        BY <1>5, <2>2, <3>2 DEF HandleGetFile, AwaitFileGet
      <4>2. /\ DOMAIN pending_command_requests' =
                  DOMAIN pending_command_requests \cup {id}
            /\ DOMAIN pending_file_gets' = DOMAIN pending_file_gets \cup {r}
            /\ DOMAIN file_get_requests' = DOMAIN file_get_requests \cup {r}
        BY <4>1 DEF Insert, Extended
      <4>3. GetFile(u, f).name = "GetFile"
        BY DEF GetFile
      <4>4. r \notin DOMAIN pending_file_gets
        BY DEF MapsInv, IdsHandedOut
      <4> HIDE DEF id, u, f
      <4>5. IdsHandedOut' /\ ChannelIsNew' /\ RequestsInProgressArePending' /\ NoExpectFails'
        BY <1>1, <3>1, <4>1, <4>2 DEF MapsInv, IdsHandedOut, ChannelIsNew,
                                      RequestsInProgressArePending, NoExpectFails
      <4>6. GetLeads'
        BY <1>1, <4>1, <4>3, <4>4, LeadsInsert DEF MapsInv, GetLeads
      <4>7. ListLeads'
        BY <1>1, <3>1, <4>1, <4>3, LeadsInsertOther DEF MapsInv, ListLeads
      <4> QED
        BY <4>5, <4>6, <4>7 DEF MapsInv
    <3>3. CASE ~ Known(u)
      <4>1. UNCHANGED <<file_get_requests, next_get_id,
                        pending_command_requests, pending_file_gets>>
        BY <1>5, <2>2, <3>3 DEF HandleGetFile
      <4> QED
        BY <3>1, <4>1 DEF MapsInv, IdsHandedOut, ChannelIsNew, ListLeads,
                          GetLeads, RequestsInProgressArePending, NoExpectFails
    <3> QED
      BY <3>2, <3>3
  <2> QED
    BY <2>1, <2>2
<1> QED
  BY <1>2, <1>3, <1>4, <1>5 DEF HandleCommand

\* Discovered takes the pending ListPeers out, which lead from no request.
LEMMA MapsDiscovered ==
    ASSUME MapsInv, NEW found, Discovered(found)
    PROVE  MapsInv'
<1> DEFINE K == AskingForPeers
<1>1. /\ pending_command_requests' = Removed(pending_command_requests, K)
      /\ UNCHANGED <<next_command_id, channel, loop, pending_list_files,
                     pending_file_gets, list_files_requests, file_get_requests,
                     next_list_id, next_get_id>>
  BY DEF Discovered, Completed, clientVars
<1>2. DOMAIN pending_command_requests' = DOMAIN pending_command_requests \ K
  BY <1>1 DEF Removed, Restrict
<1>3. \A id \in K \cap DOMAIN pending_command_requests :
        /\ pending_command_requests[id].name # "ListFiles"
        /\ pending_command_requests[id].name # "GetFile"
  BY DEF AskingForPeers
<1> HIDE DEF K
<1>4. IdsHandedOut' /\ ChannelIsNew' /\ RequestsInProgressArePending' /\ NoExpectFails'
  BY <1>1, <1>2 DEF MapsInv, IdsHandedOut, ChannelIsNew,
                    RequestsInProgressArePending, NoExpectFails
<1>5. ListLeads'
  BY <1>1, <1>3, LeadsRemoveOther DEF MapsInv, ListLeads
<1>6. GetLeads'
  BY <1>1, <1>3, LeadsRemoveOther DEF MapsInv, GetLeads
<1> QED
  BY <1>4, <1>5, <1>6 DEF MapsInv

\* The response to a list_files request finds its entry and its command, and
\* takes out both.
LEMMA MapsListFilesResponse ==
    ASSUME MapsInv, NEW r, ListFilesResponse(r)
    PROVE  MapsInv'
<1> DEFINE id == pending_list_files[r]
<1>1. r \in DOMAIN pending_list_files
  BY DEF ListFilesResponse, MapsInv, RequestsInProgressArePending
<1>2. /\ id \in DOMAIN pending_command_requests
      /\ pending_command_requests[id].name = "ListFiles"
  BY <1>1 DEF MapsInv, ListLeads, Leads, Range
<1>3. /\ list_files_requests' = Removed(list_files_requests, {r})
      /\ pending_list_files' = Removed(pending_list_files, {r})
      /\ pending_command_requests' = Removed(pending_command_requests, {id})
      /\ UNCHANGED <<next_command_id, channel, loop, pending_file_gets,
                     file_get_requests, next_list_id, next_get_id>>
  BY <1>1, <1>2 DEF ListFilesResponse, Completed, clientVars
<1>4. /\ DOMAIN list_files_requests' = DOMAIN list_files_requests \ {r}
      /\ DOMAIN pending_list_files' = DOMAIN pending_list_files \ {r}
      /\ DOMAIN pending_command_requests' = DOMAIN pending_command_requests \ {id}
  BY <1>3 DEF Removed, Restrict
<1>5. IdsHandedOut' /\ ChannelIsNew' /\ RequestsInProgressArePending' /\ NoExpectFails'
  BY <1>3, <1>4 DEF MapsInv, IdsHandedOut, ChannelIsNew,
                    RequestsInProgressArePending, NoExpectFails
<1>6. ListLeads'
  BY <1>1, <1>3, LeadsRemove DEF MapsInv, ListLeads
<1>7. GetLeads'
  BY <1>2, <1>3, LeadsRemoveOther DEF MapsInv, GetLeads
<1> QED
  BY <1>5, <1>6, <1>7 DEF MapsInv

\* A response that FileGet reports finds its entry and its command: the
\* expects hold, and both are taken out.
LEMMA MapsFileGetResponse ==
    ASSUME MapsInv, NEW r, FileGetResponseReceived(r)
    PROVE  MapsInv'
<1> DEFINE id == pending_file_gets[r]
<1>1. r \in DOMAIN pending_file_gets
  BY DEF FileGetResponseReceived, MapsInv, RequestsInProgressArePending
<1>2. /\ id \in DOMAIN pending_command_requests
      /\ pending_command_requests[id].name = "GetFile"
  BY <1>1 DEF MapsInv, GetLeads, Leads, Range
<1>3. /\ file_get_requests' = Removed(file_get_requests, {r})
      /\ pending_file_gets' = Removed(pending_file_gets, {r})
      /\ pending_command_requests' = Removed(pending_command_requests, {id})
      /\ UNCHANGED <<next_command_id, channel, loop, pending_list_files,
                     list_files_requests, next_list_id, next_get_id>>
  BY <1>1, <1>2 DEF FileGetResponseReceived, Completed, clientVars
<1>4. /\ DOMAIN file_get_requests' = DOMAIN file_get_requests \ {r}
      /\ DOMAIN pending_file_gets' = DOMAIN pending_file_gets \ {r}
      /\ DOMAIN pending_command_requests' = DOMAIN pending_command_requests \ {id}
  BY <1>3 DEF Removed, Restrict
<1>5. IdsHandedOut' /\ ChannelIsNew' /\ RequestsInProgressArePending' /\ NoExpectFails'
  BY <1>3, <1>4 DEF MapsInv, IdsHandedOut, ChannelIsNew,
                    RequestsInProgressArePending, NoExpectFails
<1>6. GetLeads'
  BY <1>1, <1>3, LeadsRemove DEF MapsInv, GetLeads
<1>7. ListLeads'
  BY <1>2, <1>3, LeadsRemoveOther DEF MapsInv, ListLeads
<1> QED
  BY <1>5, <1>6, <1>7 DEF MapsInv

\* A request that fails is no longer in progress; its entry stays.
LEMMA MapsFailure ==
    ASSUME MapsInv, NEW r, ListFilesOutboundFailure(r) \/ FileGetFailure(r)
    PROVE  MapsInv'
<1>1. /\ UNCHANGED <<next_command_id, channel, loop, pending_command_requests,
                     pending_list_files, pending_file_gets, next_list_id,
                     next_get_id>>
      /\ \/ list_files_requests' = Removed(list_files_requests, {r})
         \/ UNCHANGED list_files_requests
      /\ \/ file_get_requests' = Removed(file_get_requests, {r})
         \/ UNCHANGED file_get_requests
  BY DEF ListFilesOutboundFailure, FileGetFailure, clientVars, pendingVars
<1>2. /\ DOMAIN list_files_requests' \subseteq DOMAIN list_files_requests
      /\ DOMAIN file_get_requests' \subseteq DOMAIN file_get_requests
  BY <1>1 DEF Removed, Restrict
<1> QED
  BY <1>1, <1>2 DEF MapsInv, IdsHandedOut, ChannelIsNew, ListLeads, GetLeads,
                    RequestsInProgressArePending, NoExpectFails

\* The requests of other nodes leave the maps alone or end the loop.
LEMMA MapsServe ==
    ASSUME MapsInv, NEW f, ListFilesRequest \/ FileGetRequestReceived(f)
    PROVE  MapsInv'
<1>1. EndLoop("stopped") \/ UNCHANGED mapVars
  BY DEF ListFilesRequest, FileGetRequestReceived, mapVars, clientVars,
         pendingVars, networkVars
<1> QED
  BY <1>1, MapsEnd, MapsFrame

\* Every step of client, loop and network keeps the maps in step.
LEMMA MapsStep == MapsInv /\ [Next]_vars => MapsInv'
<1> SUFFICES ASSUME MapsInv, [Next]_vars PROVE MapsInv'
  OBVIOUS
<1>1. CASE ClientStep
  <2>1. ASSUME NEW command \in Commands, SendCommand(command) PROVE MapsInv'
    BY <2>1, MapsSend
  <2>2. ASSUME ReceiveAnswer \/ ReceiveCanceled \/ GiveUp PROVE UNCHANGED mapVars
    BY <2>2 DEF ReceiveAnswer, ReceiveCanceled, GiveUp, mapVars, pendingVars, networkVars
  <2> QED
    BY <1>1, <2>1, <2>2, MapsFrame DEF ClientStep
<1>2. CASE HandleCommand
  BY <1>2, MapsHandle
<1>3. CASE NetworkEvent
  <2>1. ASSUME DiscoverFailed PROVE UNCHANGED mapVars
    BY <2>1 DEF DiscoverFailed, mapVars, clientVars, pendingVars
  <2> QED
    BY <1>3, <2>1, MapsFrame, MapsDiscovered, MapsListFilesResponse,
       MapsFileGetResponse, MapsFailure, MapsServe DEF NetworkEvent
<1>4. CASE UNCHANGED vars
  BY <1>4, MapsFrame DEF vars, mapVars
<1> QED
  BY <1>1, <1>2, <1>3, <1>4 DEF Next

\* The inductive invariant holds at the start.
LEMMA MapsInit == Init => MapsInv
<1> SUFFICES ASSUME Init PROVE MapsInv
  OBVIOUS
<1>1. DOMAIN EmptyMap = {}
  BY DEF EmptyMap
<1>2. IdsHandedOut /\ ChannelIsNew /\ RequestsInProgressArePending /\ NoExpectFails
  BY <1>1 DEF Init, IdsHandedOut, ChannelIsNew, RequestsInProgressArePending,
              NoExpectFails
<1>3. ListLeads /\ GetLeads
  BY LeadsEmpty DEF Init, ListLeads, GetLeads
<1> QED
  BY <1>2, <1>3 DEF MapsInv

\* It holds in every reachable state.
LEMMA MapsInvariant == Spec => []MapsInv
BY MapsInit, MapsStep, PTL DEF Spec

\* The two request maps and pending_command_requests always agree, whatever
\* order commands, responses and failures come in.
THEOREM MapsStayInStep == Spec => []PendingMapsAgree
<1>1. MapsInv => PendingMapsAgree
  BY DEF MapsInv, ListLeads, GetLeads, Leads, PendingMapsAgree
<1> QED
  BY <1>1, MapsInvariant, PTL

\* A request in progress has its entry for as long as it is in progress, so a
\* late response finds the command it belongs to.
THEOREM LateResponsesFindTheirEntry == Spec => []RequestsInProgressArePending
<1>1. MapsInv => RequestsInProgressArePending
  BY DEF MapsInv
<1> QED
  BY <1>1, MapsInvariant, PTL

\* The expects of handle_event never fail.
THEOREM ExpectsHold == Spec => []NoExpectFails
<1>1. MapsInv => NoExpectFails
  BY DEF MapsInv
<1> QED
  BY <1>1, MapsInvariant, PTL

-----------------------------------------------------------------------------
(***************************************************************************)
(* The response senders.                                                   *)
(***************************************************************************)

\* Answers are for commands that were made, and a waiting client made one.
AnswersAreForCommands ==
    /\ next_command_id \in 0..MaxCommands
    /\ DOMAIN answers \subseteq 0..(next_command_id - 1)
    /\ client = "waiting" => next_command_id > 0

OwnerInv == /\ AnswersAreForCommands
            /\ EveryCommandHasOneOwner
            /\ ClientDiesOnlyAfterLoop

\* Which command is in the channel.
LEMMA ChannelHolds ==
    ASSUME ChannelIsNew
    PROVE  \A id : InChannel(id) <=> channel # <<>> /\ id = channel[1].id
<1>1. CASE channel = <<>>
  BY <1>1 DEF InChannel
<1>2. CASE channel # <<>>
  BY <1>2 DEF InChannel, ChannelIsNew
<1> QED
  BY <1>1, <1>2

\* The loop takes the command from the channel and either answers it or
\* keeps it: its sender moves.
LEMMA OwnerTakes ==
    ASSUME MapsInv, OwnerInv, channel # <<>>, channel' = <<>>,
           UNCHANGED <<client, next_command_id, loop>>,
           \/ /\ DOMAIN answers' = DOMAIN answers \cup {channel[1].id}
              /\ DOMAIN pending_command_requests' = DOMAIN pending_command_requests
           \/ /\ DOMAIN answers' = DOMAIN answers
              /\ DOMAIN pending_command_requests' =
                    DOMAIN pending_command_requests \cup {channel[1].id}
    PROVE  OwnerInv'
<1>1. \A id : InChannel(id) <=> id = channel[1].id
  BY ChannelHolds DEF MapsInv
<1>2. \A id : ~ InChannel(id)'
  BY DEF InChannel
<1>3. /\ channel[1].id \in 0..(next_command_id - 1)
      /\ channel[1].id \notin DOMAIN pending_command_requests
      /\ next_command_id \in Nat
  BY DEF MapsInv, ChannelIsNew, IdsHandedOut
<1>4. AnswersAreForCommands' /\ ClientDiesOnlyAfterLoop'
  BY <1>3 DEF OwnerInv, AnswersAreForCommands, ClientDiesOnlyAfterLoop
<1>5. EveryCommandHasOneOwner'
  BY <1>1, <1>2, <1>3 DEF OwnerInv, EveryCommandHasOneOwner, SenderAlive
<1> QED
  BY <1>4, <1>5 DEF OwnerInv

\* Pending commands are answered and taken out: their senders are used.
LEMMA OwnerAnswers ==
    ASSUME MapsInv, OwnerInv, NEW K, K \subseteq DOMAIN pending_command_requests,
           UNCHANGED <<client, next_command_id, loop, channel>>,
           DOMAIN pending_command_requests' = DOMAIN pending_command_requests \ K,
           DOMAIN answers' = DOMAIN answers \cup K
    PROVE  OwnerInv'
<1>1. \A id : InChannel(id)' <=> InChannel(id)
  BY DEF InChannel
<1>2. DOMAIN pending_command_requests \subseteq 0..(next_command_id - 1)
  BY DEF MapsInv, IdsHandedOut
<1>3. AnswersAreForCommands' /\ ClientDiesOnlyAfterLoop'
  BY <1>2 DEF OwnerInv, AnswersAreForCommands, ClientDiesOnlyAfterLoop
<1>4. EveryCommandHasOneOwner'
  BY <1>1 DEF OwnerInv, EveryCommandHasOneOwner, SenderAlive
<1> QED
  BY <1>3, <1>4 DEF OwnerInv

\* A loop that ends drops all senders.
LEMMA OwnerEnd == OwnerInv /\ EndLoop("stopped") => OwnerInv'
<1> SUFFICES ASSUME OwnerInv, EndLoop("stopped") PROVE OwnerInv'
  OBVIOUS
<1>1. /\ loop' = "stopped"
      /\ channel' = <<>>
      /\ DOMAIN pending_command_requests' = {}
      /\ UNCHANGED <<client, next_command_id, answers>>
  BY DEF EndLoop, clientVars, EmptyMap
<1>2. \A id : ~ SenderAlive(id)'
  BY <1>1 DEF SenderAlive, InChannel
<1> QED
  BY <1>1, <1>2 DEF OwnerInv, AnswersAreForCommands, EveryCommandHasOneOwner,
                    ClientDiesOnlyAfterLoop, SenderAlive

\* The client makes a command, whose sender is in the channel, or is gone
\* with the loop; gets an answer; gives up; or finds the sender dropped, which
\* happens only when the loop is gone.
LEMMA OwnerClient ==
    ASSUME MapsInv, OwnerInv, ClientStep
    PROVE  OwnerInv'
<1> USE ConstantsAssumption DEF CommandIds
<1>1. ASSUME NEW command \in Commands, SendCommand(command) PROVE OwnerInv'
  <2>1. /\ client' = "waiting"
        /\ next_command_id \in 0..(MaxCommands - 1)
        /\ next_command_id' = next_command_id + 1
        /\ channel = <<>>
        /\ UNCHANGED <<loop, pending_command_requests, answers>>
    BY <1>1 DEF SendCommand, pendingVars
  <2>2. \/ loop # "running" /\ channel' = <<>>
        \/ channel' = <<[id |-> next_command_id, command |-> command]>>
    BY <1>1 DEF SendCommand
  <2>3. \A id : ~ InChannel(id)
    BY <2>1 DEF InChannel
  <2>4. /\ DOMAIN pending_command_requests \subseteq 0..(next_command_id - 1)
        /\ DOMAIN answers \subseteq 0..(next_command_id - 1)
    BY DEF MapsInv, IdsHandedOut, OwnerInv, AnswersAreForCommands
  <2>5. AnswersAreForCommands' /\ ClientDiesOnlyAfterLoop'
    BY <2>1, <2>4 DEF AnswersAreForCommands, ClientDiesOnlyAfterLoop
  <2>6. CASE loop # "running" /\ channel' = <<>>
    <3>1. \A id : ~ InChannel(id)'
      BY <2>6 DEF InChannel
    <3>2. EveryCommandHasOneOwner'
      BY <2>1, <2>3, <2>6, <3>1 DEF OwnerInv, EveryCommandHasOneOwner, SenderAlive
    <3> QED
      BY <2>5, <3>2 DEF OwnerInv
  <2>7. CASE channel' = <<[id |-> next_command_id, command |-> command]>>
    <3>1. DOMAIN channel' = {1} /\ channel'[1].id = next_command_id
      BY <2>7
    <3>2. \A id : InChannel(id)' <=> id = next_command_id
      BY <3>1 DEF InChannel
    <3>3. EveryCommandHasOneOwner'
      BY <2>1, <2>3, <2>4, <3>2 DEF OwnerInv, EveryCommandHasOneOwner, SenderAlive
    <3> QED
      BY <2>5, <3>3 DEF OwnerInv
  <2> QED
    BY <2>2, <2>6, <2>7
<1>2. ASSUME UNCHANGED <<next_command_id, channel, loop,
                         pending_command_requests, answers>>,
             client' = "ready"
      PROVE  OwnerInv'
  BY <1>2 DEF OwnerInv, AnswersAreForCommands, EveryCommandHasOneOwner,
              ClientDiesOnlyAfterLoop, SenderAlive, InChannel
<1>3. ASSUME ReceiveAnswer \/ GiveUp PROVE OwnerInv'
  BY <1>2, <1>3 DEF ReceiveAnswer, GiveUp, pendingVars
<1>4. ASSUME ReceiveCanceled PROVE OwnerInv'
  <2>1. /\ client = "waiting"
        /\ client' = "dead"
        /\ Current \notin DOMAIN answers
        /\ ~ SenderAlive(Current)
        /\ UNCHANGED <<next_command_id, channel, loop,
                       pending_command_requests, answers>>
    BY <1>4 DEF ReceiveCanceled, pendingVars
  <2>2. Current \in CommandIds /\ Current < next_command_id
    BY <2>1 DEF OwnerInv, AnswersAreForCommands, Current
  <2>3. loop # "running"
    BY <2>1, <2>2 DEF OwnerInv, EveryCommandHasOneOwner
  <2> QED
    BY <2>1, <2>3 DEF OwnerInv, AnswersAreForCommands, EveryCommandHasOneOwner,
                      ClientDiesOnlyAfterLoop, SenderAlive, InChannel
<1> QED
  BY <1>1, <1>3, <1>4 DEF ClientStep

\* handle_command answers the command, keeps it, or ends the loop.
LEMMA OwnerHandle ==
    ASSUME MapsInv, OwnerInv, HandleCommand
    PROVE  OwnerInv'
<1> DEFINE id == channel[1].id
           cmd == channel[1].command
<1>1. channel # <<>>
  BY DEF HandleCommand
<1>2. ASSUME NEW f, NEW v PROVE DOMAIN Insert(f, id, v) = DOMAIN f \cup {id}
  BY DEF Insert, Extended
<1>3. CASE EndLoop("stopped")
  BY <1>3, OwnerEnd
<1>4. CASE ~ EndLoop("stopped")
  <2>1. /\ channel' = <<>>
        /\ UNCHANGED <<client, next_command_id, loop>>
    BY <1>4 DEF HandleCommand, HandleRegister, HandleListPeers,
                HandleListFiles, HandleGetFile, clientVars
  <2>2. \/ /\ \E v : answers' = Insert(answers, id, v)
           /\ UNCHANGED pending_command_requests
        \/ /\ \E v : pending_command_requests' =
                        Insert(pending_command_requests, id, v)
           /\ UNCHANGED answers
    <3>1. CASE HandleRegister(id, cmd.user)
      BY <1>4, <3>1 DEF HandleRegister, Answer, pendingVars
    <3>2. CASE HandleListPeers(id)
      BY <3>2 DEF HandleListPeers
    <3>3. CASE HandleListFiles(id, cmd.user)
      BY <3>3 DEF HandleListFiles, Refuse, Answer
    <3>4. CASE HandleGetFile(id, cmd.user, cmd.file)
      BY <1>4, <3>4 DEF HandleGetFile, Refuse, Answer
    <3> QED
      BY <3>1, <3>2, <3>3, <3>4 DEF HandleCommand
  <2>3. \/ /\ DOMAIN answers' = DOMAIN answers \cup {id}
           /\ DOMAIN pending_command_requests' = DOMAIN pending_command_requests
        \/ /\ DOMAIN answers' = DOMAIN answers
           /\ DOMAIN pending_command_requests' =
                 DOMAIN pending_command_requests \cup {id}
    BY <1>2, <2>2
  <2> QED
    BY <1>1, <2>1, <2>3, OwnerTakes
<1> QED
  BY <1>3, <1>4

\* An event answers the commands it takes out, ends the loop, or leaves the
\* senders alone.
LEMMA OwnerEvent ==
    ASSUME MapsInv, OwnerInv, NetworkEvent
    PROVE  OwnerInv'
<1>1. ASSUME UNCHANGED <<client, next_command_id, channel, loop,
                         pending_command_requests, answers>>
      PROVE  OwnerInv'
  BY <1>1 DEF OwnerInv, AnswersAreForCommands, EveryCommandHasOneOwner,
              ClientDiesOnlyAfterLoop, SenderAlive, InChannel
<1>2. ASSUME NEW found, Discovered(found) PROVE OwnerInv'
  <2> DEFINE K == AskingForPeers
  <2>1. K \subseteq DOMAIN pending_command_requests
    BY DEF AskingForPeers
  <2>2. /\ UNCHANGED <<client, next_command_id, loop, channel>>
        /\ pending_command_requests' = Removed(pending_command_requests, K)
        /\ \E a : answers' = Extended(answers, [x \in K |-> a])
    BY <1>2 DEF Discovered, Completed, clientVars
  <2>3. /\ DOMAIN pending_command_requests' = DOMAIN pending_command_requests \ K
        /\ DOMAIN answers' = DOMAIN answers \cup K
    BY <2>2 DEF Removed, Restrict, Extended
  <2> HIDE DEF K
  <2> QED
    BY <2>1, <2>2, <2>3, OwnerAnswers
<1>3. ASSUME NEW id \in DOMAIN pending_command_requests, NEW a,
             UNCHANGED <<client, next_command_id, loop, channel>>,
             pending_command_requests' = Removed(pending_command_requests, {id}),
             answers' = Insert(answers, id, a)
      PROVE  OwnerInv'
  <2>1. /\ DOMAIN pending_command_requests' = DOMAIN pending_command_requests \ {id}
        /\ DOMAIN answers' = DOMAIN answers \cup {id}
    BY <1>3 DEF Removed, Restrict, Insert, Extended
  <2> QED
    BY <1>3, <2>1, OwnerAnswers
<1>4. ASSUME NEW r, ListFilesResponse(r) PROVE OwnerInv'
  <2>1. r \in DOMAIN pending_list_files
    BY <1>4 DEF ListFilesResponse, MapsInv, RequestsInProgressArePending
  <2>2. pending_list_files[r] \in DOMAIN pending_command_requests
    BY <2>1 DEF MapsInv, ListLeads, Leads, Range
  <2> QED
    BY <1>3, <1>4, <2>1, <2>2 DEF ListFilesResponse, Completed, Answer, clientVars
<1>5. ASSUME NEW r, FileGetResponseReceived(r) PROVE OwnerInv'
  <2>1. r \in DOMAIN pending_file_gets
    BY <1>5 DEF FileGetResponseReceived, MapsInv, RequestsInProgressArePending
  <2>2. /\ pending_file_gets[r] \in DOMAIN pending_command_requests
        /\ pending_command_requests[pending_file_gets[r]].name = "GetFile"
    BY <2>1 DEF MapsInv, GetLeads, Leads, Range
  <2> QED
    BY <1>3, <1>5, <2>1, <2>2
    DEF FileGetResponseReceived, Completed, Answer, clientVars
<1>6. ASSUME NEW r, ListFilesOutboundFailure(r) \/ FileGetFailure(r) PROVE OwnerInv'
  BY <1>1, <1>6 DEF ListFilesOutboundFailure, FileGetFailure, clientVars, pendingVars
<1>7. ASSUME DiscoverFailed PROVE OwnerInv'
  BY <1>1, <1>7 DEF DiscoverFailed, clientVars, pendingVars
<1>8. ASSUME NEW f, ListFilesRequest \/ FileGetRequestReceived(f) PROVE OwnerInv'
  <2>1. \/ EndLoop("stopped")
        \/ UNCHANGED <<client, next_command_id, channel, loop,
                       pending_command_requests, answers>>
    BY <1>8 DEF ListFilesRequest, FileGetRequestReceived, clientVars, pendingVars
  <2> QED
    BY <1>1, <2>1, OwnerEnd
<1> QED
  BY <1>2, <1>4, <1>5, <1>6, <1>7, <1>8 DEF NetworkEvent

\* The senders stay accounted for in every reachable state.
LEMMA OwnerInvariant == Spec => []OwnerInv
<1>1. Init => OwnerInv
  BY ConstantsAssumption
  DEF Init, OwnerInv, AnswersAreForCommands, EveryCommandHasOneOwner,
      ClientDiesOnlyAfterLoop, SenderAlive, InChannel, EmptyMap, CommandIds
<1>2. MapsInv /\ OwnerInv /\ [Next]_vars => OwnerInv'
  <2> SUFFICES ASSUME MapsInv, OwnerInv, [Next]_vars PROVE OwnerInv'
    OBVIOUS
  <2>1. CASE UNCHANGED vars
    BY <2>1 DEF vars, OwnerInv, AnswersAreForCommands, EveryCommandHasOneOwner,
                ClientDiesOnlyAfterLoop, SenderAlive, InChannel
  <2> QED
    BY <2>1, OwnerClient, OwnerHandle, OwnerEvent DEF Next
<1> QED
  BY <1>1, <1>2, MapsInvariant, PTL DEF Spec

\* The response sender of every command is in one place while the loop runs:
\* in the channel, in pending_command_requests, or used for the one answer.
THEOREM EveryCommandIsOwned == Spec => []EveryCommandHasOneOwner
<1>1. OwnerInv => EveryCommandHasOneOwner
  BY DEF OwnerInv
<1> QED
  BY <1>1, OwnerInvariant, PTL

\* The unwrap of send_command panics only when the loop is gone.
THEOREM ClientLivesWithLoop == Spec => []ClientDiesOnlyAfterLoop
<1>1. OwnerInv => ClientDiesOnlyAfterLoop
  BY DEF OwnerInv
<1> QED
  BY <1>1, OwnerInvariant, PTL

-----------------------------------------------------------------------------
(***************************************************************************)
(* Types.                                                                  *)
(***************************************************************************)

\* What the updates of a HashMap keep.
LEMMA MapUpdates ==
    ASSUME NEW f, NEW S, NEW T, IsMap(f, S, T)
    PROVE  /\ \A g : IsMap(g, S, T) => IsMap(Extended(f, g), S, T)
           /\ \A k \in S : \A v \in T : IsMap(Insert(f, k, v), S, T)
           /\ \A K : IsMap(Removed(f, K), S, T)
           /\ IsMap(EmptyMap, S, T)
<1>1. ASSUME NEW g, IsMap(g, S, T) PROVE IsMap(Extended(f, g), S, T)
  <2> DEFINE h == Extended(f, g)
  <2>1. /\ h = [x \in DOMAIN f \cup DOMAIN g |-> IF x \in DOMAIN g THEN g[x] ELSE f[x]]
        /\ DOMAIN h = DOMAIN f \cup DOMAIN g
    BY DEF Extended
  <2>2. \A x \in DOMAIN f \cup DOMAIN g :
           (IF x \in DOMAIN g THEN g[x] ELSE f[x]) \in T
    BY <1>1 DEF IsMap
  <2> HIDE DEF h
  <2>3. h \in [DOMAIN h -> T]
    BY <2>1, <2>2
  <2>4. DOMAIN h \subseteq S
    BY <1>1, <2>1 DEF IsMap
  <2> QED
    BY <2>3, <2>4 DEF IsMap, h
<1>2. ASSUME NEW k \in S, NEW v \in T PROVE IsMap(Insert(f, k, v), S, T)
  <2>1. IsMap([x \in {k} |-> v], S, T)
    BY DEF IsMap
  <2> QED
    BY <1>1, <2>1 DEF Insert
<1>3. ASSUME NEW K PROVE IsMap(Removed(f, K), S, T)
  BY DEF IsMap, Removed, Restrict
<1>4. IsMap(EmptyMap, S, T)
  BY DEF IsMap, EmptyMap
<1> QED
  BY <1>1, <1>2, <1>3, <1>4

\* What handle_command reads from a command.
LEMMA CommandFields ==
    ASSUME NEW c \in Commands
    PROVE  /\ c.name \in {"Register", "ListPeers", "ListFiles", "GetFile"}
           /\ c.name \in {"Register", "ListFiles", "GetFile"} => c.user \in Users
           /\ c.name = "GetFile" => c.file \in Files
           /\ c.name = "ListPeers" => c = ListPeers
           /\ c.name = "ListFiles" => c = ListFiles(c.user)
           /\ c.name = "GetFile" => c = GetFile(c.user, c.file)
BY DEF Commands, Register, ListPeers, ListFiles, GetFile

\* The command in the channel is one that was made.
LEMMA ChannelType ==
    ASSUME TypeOK, channel # <<>>
    PROVE  /\ channel[1].id \in CommandIds
           /\ channel[1].command \in Commands
<1>1. PICK m \in [id : CommandIds, command : Commands] : channel = <<m>>
  BY DEF TypeOK
<1> QED
  BY <1>1

\* A loop that ends leaves empty maps.
LEMMA TypeEnd == ASSUME TypeOK, NEW how \in {"stopped", "panicked"}, EndLoop(how)
                 PROVE  TypeOK'
BY MapUpdates DEF TypeOK, EndLoop, clientVars

\* The client's steps.
LEMMA TypeClient == TypeOK /\ ClientStep => TypeOK'
<1> SUFFICES ASSUME TypeOK, ClientStep PROVE TypeOK'
  OBVIOUS
<1>1. ASSUME NEW command \in Commands, SendCommand(command) PROVE TypeOK'
  <2>1. next_command_id' \in 0..MaxCommands
    BY <1>1, ConstantsAssumption DEF SendCommand, CommandIds
  <2>2. channel' \in {<<>>} \cup {<<m>> : m \in [id : CommandIds, command : Commands]}
    BY <1>1 DEF SendCommand
  <2>3. IsMap(issued', CommandIds, Commands)
    BY <1>1, MapUpdates DEF SendCommand, TypeOK
  <2> QED
    BY <1>1, <2>1, <2>2, <2>3 DEF TypeOK, SendCommand, pendingVars, networkVars
<1>2. CASE ReceiveAnswer \/ ReceiveCanceled \/ GiveUp
  BY <1>2 DEF TypeOK, ReceiveAnswer, ReceiveCanceled, GiveUp, pendingVars, networkVars
<1> QED
  BY <1>1, <1>2 DEF ClientStep

\* The arms of handle_command.
LEMMA TypeHandle == TypeOK /\ HandleCommand => TypeOK'
<1> SUFFICES ASSUME TypeOK, HandleCommand PROVE TypeOK'
  OBVIOUS
<1> DEFINE id == channel[1].id
           cmd == channel[1].command
<1>1. id \in CommandIds /\ cmd \in Commands
  BY ChannelType DEF HandleCommand
<1> HIDE DEF id, cmd
<1>2. CASE EndLoop("stopped")
  BY <1>2, TypeEnd
<1>3. CASE cmd.name = "Register" /\ HandleRegister(id, cmd.user) /\ ~ EndLoop("stopped")
  <2>1. Registered \in Answers
    BY DEF Answers
  <2>2. IsMap(answers', CommandIds, Answers)
    BY <1>1, <1>3, <2>1, MapUpdates DEF HandleRegister, Answer, TypeOK
  <2> QED
    BY <1>3, <2>2 DEF TypeOK, HandleRegister, clientVars, pendingVars, networkVars
<1>4. CASE cmd.name = "ListPeers" /\ HandleListPeers(id)
  <2>1. ListPeers \in Commands
    BY DEF Commands
  <2>2. IsMap(pending_command_requests', CommandIds, Commands)
    BY <1>1, <1>4, <2>1, MapUpdates DEF HandleListPeers, TypeOK
  <2>3. discovering' \in Nat
    BY <1>4 DEF HandleListPeers, TypeOK
  <2> QED
    BY <1>4, <2>2, <2>3 DEF TypeOK, HandleListPeers, clientVars
<1>5. CASE cmd.name = "ListFiles" /\ HandleListFiles(id, cmd.user)
  <2> DEFINE u == cmd.user
  <2>1. u \in Users
    BY <1>1, <1>5, CommandFields
  <2> HIDE DEF u
  <2>2. CASE Known(u)
    <3>1. namespace_peers[u] \in Peers
      BY <2>2 DEF Known, TypeOK, IsMap
    <3>2. ListFiles(u) \in Commands
      BY <2>1 DEF Commands
    <3>a. /\ list_files_requests' =
                Insert(list_files_requests, next_list_id, namespace_peers[u])
          /\ pending_command_requests' =
                Insert(pending_command_requests, id, ListFiles(u))
          /\ pending_list_files' = Insert(pending_list_files, next_list_id, id)
          /\ next_list_id \in Nat
      BY <1>5, <2>2 DEF HandleListFiles, AwaitListFiles, TypeOK, u
    <3>3. IsMap(list_files_requests', Nat, Peers)
      BY <3>1, <3>a, MapUpdates DEF TypeOK
    <3>4. IsMap(pending_command_requests', CommandIds, Commands)
      BY <1>1, <3>2, <3>a, MapUpdates DEF TypeOK
    <3>5. IsMap(pending_list_files', Nat, CommandIds)
      BY <1>1, <3>a, MapUpdates DEF TypeOK
    <3>6. IsMap(asked', CommandIds, Peers)
      BY <1>1, <1>5, <2>2, <3>1, MapUpdates DEF HandleListFiles, TypeOK, u
    <3>7. next_list_id' \in Nat
      BY <1>5, <2>2 DEF HandleListFiles, TypeOK, u
    <3> QED
      BY <1>5, <2>2, <3>3, <3>4, <3>5, <3>6, <3>7
      DEF TypeOK, HandleListFiles, clientVars, u
  <2>3. CASE ~ Known(u)
    <3>1. UserNotRegistered(u) \in Answers
      BY <2>1 DEF Answers
    <3>2. IsMap(answers', CommandIds, Answers)
      BY <1>1, <1>5, <2>3, <3>1, MapUpdates
      DEF HandleListFiles, Refuse, Answer, TypeOK, u
    <3> QED
      BY <1>5, <2>3, <3>2 DEF TypeOK, HandleListFiles, clientVars, u
  <2> QED
    BY <2>2, <2>3
<1>6. CASE cmd.name = "GetFile" /\ HandleGetFile(id, cmd.user, cmd.file) /\ ~ EndLoop("stopped")
  <2> DEFINE u == cmd.user
             f == cmd.file
  <2>1. u \in Users /\ f \in Files
    BY <1>1, <1>6, CommandFields
  <2>a. HandleGetFile(id, u, f) /\ ~ EndLoop("stopped")
    BY <1>6
  <2> HIDE DEF u, f
  <2>2. files' \in SUBSET (Files \ BadFiles)
    BY <2>1, <2>a DEF HandleGetFile, Opens, TypeOK
  <2>3. CASE Known(u)
    <3>1. namespace_peers[u] \in Peers
      BY <2>3 DEF Known, TypeOK, IsMap
    <3>2. GetFile(u, f) \in Commands
      BY <2>1 DEF Commands
    <3>a. /\ file_get_requests' =
                Insert(file_get_requests, next_get_id, namespace_peers[u])
          /\ pending_command_requests' =
                Insert(pending_command_requests, id, GetFile(u, f))
          /\ pending_file_gets' = Insert(pending_file_gets, next_get_id, id)
          /\ next_get_id \in Nat
      BY <2>a, <2>3 DEF HandleGetFile, AwaitFileGet, TypeOK
    <3>3. IsMap(file_get_requests', Nat, Peers)
      BY <3>1, <3>a, MapUpdates DEF TypeOK
    <3>4. IsMap(pending_command_requests', CommandIds, Commands)
      BY <1>1, <3>2, <3>a, MapUpdates DEF TypeOK
    <3>5. IsMap(pending_file_gets', Nat, CommandIds)
      BY <1>1, <3>a, MapUpdates DEF TypeOK
    <3>6. IsMap(asked', CommandIds, Peers)
      BY <1>1, <2>a, <2>3, <3>1, MapUpdates DEF HandleGetFile, TypeOK
    <3>7. next_get_id' \in Nat
      BY <2>a, <2>3 DEF HandleGetFile, TypeOK
    <3> QED
      BY <2>a, <2>2, <2>3, <3>3, <3>4, <3>5, <3>6, <3>7
      DEF TypeOK, HandleGetFile, clientVars
  <2>4. CASE ~ Known(u)
    <3>1. UserNotRegistered(u) \in Answers
      BY <2>1 DEF Answers
    <3>2. IsMap(answers', CommandIds, Answers)
      BY <1>1, <2>a, <2>4, <3>1, MapUpdates DEF HandleGetFile, Refuse, Answer, TypeOK
    <3> QED
      BY <2>a, <2>2, <2>4, <3>2 DEF TypeOK, HandleGetFile, clientVars
  <2> QED
    BY <2>3, <2>4
<1> QED
  BY <1>2, <1>3, <1>4, <1>5, <1>6
  DEF HandleCommand, HandleRegister, HandleGetFile, id, cmd

\* The events of the swarm.
LEMMA TypeEvent == TypeOK /\ NetworkEvent => TypeOK'
<1> SUFFICES ASSUME TypeOK, NetworkEvent PROVE TypeOK'
  OBVIOUS
<1>1. ASSUME NEW found \in Found, Discovered(found) PROVE TypeOK'
  <2> DEFINE known == Learned(namespace_peers, found)
             a == PeersListed(DOMAIN known, DOMAIN found)
  <2>1. IsMap(found, Users \ LongUsers, Peers)
    BY DEF Found, IsMap
  <2>2. IsMap(known, Users \ LongUsers, Peers)
    BY <2>1, MapUpdates DEF Learned, TypeOK
  <2>3. a \in Answers
    BY <2>1, <2>2 DEF IsMap, Answers
  <2> HIDE DEF a
  <2>4. AskingForPeers \subseteq CommandIds
    BY DEF AskingForPeers, TypeOK, IsMap
  <2>5. IsMap([id \in AskingForPeers |-> a], CommandIds, Answers)
    BY <2>3, <2>4 DEF IsMap
  <2>6. answers' = Extended(answers, [id \in AskingForPeers |-> a])
    BY <1>1 DEF Discovered, a
  <2>7. IsMap(answers', CommandIds, Answers)
    BY <2>5, <2>6, MapUpdates DEF TypeOK
  <2>8. namespace_peers' = known
    BY <1>1 DEF Discovered
  <2>9. IsMap(pending_command_requests', CommandIds, Commands)
    BY <1>1, MapUpdates DEF Discovered, Completed, TypeOK
  <2>10. discovering' \in Nat
    BY <1>1 DEF Discovered, TypeOK
  <2> QED
    BY <1>1, <2>2, <2>7, <2>8, <2>9, <2>10 DEF TypeOK, Discovered, clientVars
<1>2. ASSUME DiscoverFailed PROVE TypeOK'
  BY <1>2 DEF TypeOK, DiscoverFailed, clientVars, pendingVars
<1>3. ASSUME NEW r, ListFilesResponse(r) PROVE TypeOK'
  <2>1. FilesListed(list_files_requests[r]) \in Answers
    BY <1>3 DEF ListFilesResponse, TypeOK, IsMap, Answers
  <2>2. /\ IsMap(list_files_requests', Nat, Peers)
        /\ IsMap(pending_list_files', Nat, CommandIds)
    BY <1>3, MapUpdates DEF ListFilesResponse, TypeOK
  <2>3. r \in DOMAIN pending_list_files => pending_list_files[r] \in CommandIds
    BY DEF TypeOK, IsMap
  <2>4. /\ IsMap(pending_command_requests', CommandIds, Commands)
        /\ IsMap(answers', CommandIds, Answers)
    BY <1>3, <2>1, <2>3, MapUpdates DEF ListFilesResponse, Completed, Answer, TypeOK
  <2> QED
    BY <1>3, <2>2, <2>4 DEF TypeOK, ListFilesResponse, clientVars
<1>4. ASSUME NEW r, ListFilesOutboundFailure(r) \/ FileGetFailure(r) PROVE TypeOK'
  <2>1. /\ IsMap(list_files_requests', Nat, Peers)
        /\ IsMap(file_get_requests', Nat, Peers)
    BY <1>4, MapUpdates DEF ListFilesOutboundFailure, FileGetFailure, TypeOK
  <2> QED
    BY <1>4, <2>1
    DEF TypeOK, ListFilesOutboundFailure, FileGetFailure, clientVars, pendingVars
<1>5. ASSUME NEW r, FileGetResponseReceived(r) PROVE TypeOK'
  <2>1. CASE EndLoop("panicked")
    BY <2>1, TypeEnd
  <2>2. CASE ~ EndLoop("panicked")
    <3> DEFINE id == pending_file_gets[r]
               command == pending_command_requests[id]
               a == FileGot(command.user, command.file, file_get_requests[r])
    <3>1. /\ r \in DOMAIN pending_file_gets
          /\ r \in DOMAIN file_get_requests
          /\ id \in DOMAIN pending_command_requests
          /\ command.name = "GetFile"
          /\ pending_file_gets' = Removed(pending_file_gets, {r})
          /\ pending_command_requests' = Removed(pending_command_requests, {id})
          /\ answers' = Insert(answers, id, a)
          /\ file_get_requests' = Removed(file_get_requests, {r})
          /\ UNCHANGED <<clientVars, channel, loop, namespace_peers,
                         pending_list_files, files, discovering,
                         list_files_requests, next_list_id, next_get_id,
                         served, asked>>
      BY <1>5, <2>2 DEF FileGetResponseReceived, Completed, Answer
    <3>2. id \in CommandIds /\ command \in Commands
      BY <3>1 DEF TypeOK, IsMap
    <3>3. command.user \in Users /\ command.file \in Files
      BY <3>1, <3>2, CommandFields
    <3>4. a \in Answers
      BY <3>1, <3>3 DEF Answers, TypeOK, IsMap
    <3> HIDE DEF id, command, a
    <3>5. /\ IsMap(pending_file_gets', Nat, CommandIds)
          /\ IsMap(pending_command_requests', CommandIds, Commands)
          /\ IsMap(file_get_requests', Nat, Peers)
      BY <3>1, MapUpdates DEF TypeOK
    <3>6. IsMap(answers', CommandIds, Answers)
      BY <3>1, <3>2, <3>4, MapUpdates DEF TypeOK
    <3> QED
      BY <3>1, <3>5, <3>6 DEF TypeOK, clientVars
  <2> QED
    BY <2>1, <2>2
<1>6. ASSUME NEW f, ListFilesRequest \/ FileGetRequestReceived(f) PROVE TypeOK'
  <2>1. CASE EndLoop("stopped")
    BY <2>1, TypeEnd
  <2>2. CASE ~ EndLoop("stopped")
    <3>1. /\ served < MaxInbound
          /\ served' = served + 1
          /\ UNCHANGED <<clientVars, channel, loop, pendingVars, files,
                         networkVars, asked, answers>>
      BY <1>6, <2>2 DEF ListFilesRequest, FileGetRequestReceived
    <3>2. served' \in 0..MaxInbound
      BY <3>1, ConstantsAssumption DEF TypeOK
    <3> QED
      BY <3>1, <3>2 DEF TypeOK, clientVars, pendingVars, networkVars
  <2> QED
    BY <2>1, <2>2
<1> QED
  BY <1>1, <1>2, <1>3, <1>4, <1>5, <1>6 DEF NetworkEvent

\* The types hold at the start.
LEMMA TypeInit == Init => TypeOK
<1>1. ASSUME NEW S, NEW T PROVE IsMap(EmptyMap, S, T)
  BY DEF IsMap, EmptyMap
<1> QED
  BY <1>1, ConstantsAssumption DEF Init, TypeOK

\* Every step keeps them.
LEMMA TypeStep == TypeOK /\ [Next]_vars => TypeOK'
<1>1. ASSUME TypeOK, UNCHANGED vars PROVE TypeOK'
  BY <1>1 DEF TypeOK, vars
<1> QED
  BY <1>1, TypeClient, TypeHandle, TypeEvent DEF Next

\* The fields of Client and EventLoop keep their types.
THEOREM TypesHold == Spec => []TypeOK
BY TypeInit, TypeStep, PTL DEF Spec

-----------------------------------------------------------------------------
(***************************************************************************)
(* The answers.                                                            *)
(***************************************************************************)

\* The answer a fits the command c, whose request went to sent[id].
Fits(id, c, a, sent) ==
    \/ c.name = "Register" /\ a = Registered
    \/ c.name = "ListPeers" /\ a.result = "ListPeers"
    \/ c.name \in {"ListFiles", "GetFile"} /\ a = UserNotRegistered(c.user)
    \/ c.name = "ListFiles" /\ id \in DOMAIN sent /\ a = FilesListed(sent[id])
    \/ /\ c.name = "GetFile"
       /\ id \in DOMAIN sent
       /\ a = FileGot(c.user, c.file, sent[id])

\* The channel and pending_command_requests hold commands as they were made.
CommandsAreAsIssued ==
    /\ DOMAIN issued = 0..(next_command_id - 1)
    /\ channel # <<>> => issued[channel[1].id] = channel[1].command
    /\ \A id \in DOMAIN pending_command_requests :
          issued[id] = pending_command_requests[id]

\* The entry of a request in progress leads to the command that was sent to
\* the peer of the request.
EntriesLeadBack(requests, entries) ==
    \A r \in DOMAIN requests :
        /\ entries[r] \in DOMAIN asked
        /\ asked[entries[r]] = requests[r]

AnswersFit == \A id \in DOMAIN answers : Fits(id, issued[id], answers[id], asked)

FitInv == /\ CommandsAreAsIssued
          /\ EntriesLeadBack(list_files_requests, pending_list_files)
          /\ EntriesLeadBack(file_get_requests, pending_file_gets)
          /\ AnswersFit

\* A step that makes no request keeps the history if each answer it gives
\* fits.
LEMMA FitShrinks ==
    ASSUME FitInv,
           UNCHANGED <<next_command_id, issued, asked>>,
           channel' \in {channel, <<>>},
           \A id \in DOMAIN pending_command_requests' :
               /\ id \in DOMAIN pending_command_requests
               /\ pending_command_requests'[id] = pending_command_requests[id],
           \A r \in DOMAIN list_files_requests' :
               /\ r \in DOMAIN list_files_requests
               /\ list_files_requests'[r] = list_files_requests[r]
               /\ pending_list_files'[r] = pending_list_files[r],
           \A r \in DOMAIN file_get_requests' :
               /\ r \in DOMAIN file_get_requests
               /\ file_get_requests'[r] = file_get_requests[r]
               /\ pending_file_gets'[r] = pending_file_gets[r],
           \A id \in DOMAIN answers' :
               \/ id \in DOMAIN answers /\ answers'[id] = answers[id]
               \/ Fits(id, issued[id], answers'[id], asked)
    PROVE  FitInv'
<1>1. CommandsAreAsIssued'
  BY DEF FitInv, CommandsAreAsIssued
<1>2. /\ EntriesLeadBack(list_files_requests, pending_list_files)'
      /\ EntriesLeadBack(file_get_requests, pending_file_gets)'
  BY DEF FitInv, EntriesLeadBack
<1>3. AnswersFit'
  BY DEF FitInv, AnswersFit
<1> QED
  BY <1>1, <1>2, <1>3 DEF FitInv

\* The end of the loop drops entries and gives no answer.
LEMMA FitEnd ==
    ASSUME FitInv, NEW how, EndLoop(how)
    PROVE  FitInv'
<1>1. /\ DOMAIN pending_command_requests' = {}
      /\ DOMAIN list_files_requests' = {}
      /\ DOMAIN file_get_requests' = {}
  BY DEF EndLoop, EmptyMap
<1>2. channel' = <<>> /\ UNCHANGED <<next_command_id, issued, asked, answers>>
  BY DEF EndLoop, clientVars
<1> QED
  BY <1>1, <1>2, FitShrinks

\* A new command takes an id that no answer and no entry has.
LEMMA FitSend ==
    ASSUME MapsInv, OwnerInv, FitInv, NEW command \in Commands, SendCommand(command)
    PROVE  FitInv'
<1> DEFINE n == next_command_id
<1>1. n \in Nat
  BY DEF MapsInv, IdsHandedOut
<1>2. /\ n' = n + 1
      /\ issued' = Insert(issued, n, command)
      /\ UNCHANGED <<pending_command_requests, pending_list_files,
                     pending_file_gets, list_files_requests,
                     file_get_requests, asked, answers>>
  BY DEF SendCommand, pendingVars, networkVars
<1>3. /\ DOMAIN issued' = DOMAIN issued \cup {n}
      /\ issued'[n] = command
      /\ \A x \in DOMAIN issued : x # n => issued'[x] = issued[x]
  BY <1>2 DEF Insert, Extended
<1>4. channel' # <<>> => channel'[1].id = n /\ channel'[1].command = command
  BY DEF SendCommand
<1>5. /\ DOMAIN pending_command_requests \subseteq 0..(n - 1)
      /\ DOMAIN answers \subseteq 0..(n - 1)
      /\ DOMAIN issued = 0..(n - 1)
  BY DEF MapsInv, IdsHandedOut, OwnerInv, AnswersAreForCommands, FitInv,
         CommandsAreAsIssued
<1> HIDE DEF n
<1>6. CommandsAreAsIssued'
  <2>1. DOMAIN issued' = 0..(n' - 1)
    BY <1>1, <1>2, <1>3, <1>5
  <2>2. \A x \in 0..(n - 1) : issued'[x] = issued[x]
    BY <1>1, <1>3, <1>5
  <2> QED
    BY <1>2, <1>3, <1>4, <1>5, <2>1, <2>2 DEF FitInv, CommandsAreAsIssued, n
<1>7. AnswersFit'
  <2>1. \A x \in DOMAIN answers : issued'[x] = issued[x]
    BY <1>1, <1>3, <1>5
  <2> QED
    BY <1>2, <2>1 DEF FitInv, AnswersFit
<1> QED
  BY <1>2, <1>6, <1>7 DEF FitInv, EntriesLeadBack

\* A command that becomes a request is filed as it was made; where it goes
\* concerns no earlier command.
LEMMA FitAsks ==
    ASSUME MapsInv, FitInv,
           NEW id, NEW p,
           id \notin DOMAIN pending_command_requests, id \notin DOMAIN answers,
           channel' = <<>>,
           UNCHANGED <<next_command_id, issued, answers>>,
           pending_command_requests' = Insert(pending_command_requests, id, issued[id]),
           asked' = Insert(asked, id, p),
           \/ /\ list_files_requests' = Insert(list_files_requests, next_list_id, p)
              /\ pending_list_files' = Insert(pending_list_files, next_list_id, id)
              /\ UNCHANGED <<file_get_requests, pending_file_gets>>
           \/ /\ file_get_requests' = Insert(file_get_requests, next_get_id, p)
              /\ pending_file_gets' = Insert(pending_file_gets, next_get_id, id)
              /\ UNCHANGED <<list_files_requests, pending_list_files>>
    PROVE  FitInv'
<1>2. CommandsAreAsIssued'
  <2>1. /\ DOMAIN pending_command_requests' = DOMAIN pending_command_requests \cup {id}
        /\ pending_command_requests'[id] = issued[id]
        /\ \A x \in DOMAIN pending_command_requests :
              x # id => pending_command_requests'[x] = pending_command_requests[x]
    BY DEF Insert, Extended
  <2> QED
    BY <2>1 DEF FitInv, CommandsAreAsIssued
<1>a. /\ DOMAIN asked' = DOMAIN asked \cup {id}
      /\ asked'[id] = p
      /\ \A x \in DOMAIN asked : x # id => asked'[x] = asked[x]
  BY DEF Insert, Extended
<1>3. \A x \in DOMAIN asked : x # id => x \in DOMAIN asked' /\ asked'[x] = asked[x]
  BY <1>a
<1>4. AnswersFit'
  <2> SUFFICES ASSUME NEW x \in DOMAIN answers
               PROVE  Fits(x, issued[x], answers[x], asked')
    BY DEF AnswersFit
  <2>1. Fits(x, issued[x], answers[x], asked) /\ x # id
    BY DEF FitInv, AnswersFit
  <2> QED
    BY <1>3, <2>1 DEF Fits
<1>5. ASSUME NEW requests, NEW entries, NEW r,
             EntriesLeadBack(requests, entries),
             DOMAIN requests \subseteq DOMAIN entries,
             \A x \in DOMAIN requests : entries[x] # id
      PROVE  \A x \in DOMAIN Insert(requests, r, p) :
                /\ Insert(entries, r, id)[x] \in DOMAIN asked'
                /\ asked'[Insert(entries, r, id)[x]] = Insert(requests, r, p)[x]
  <2>1. \A x \in DOMAIN requests :
           entries[x] \in DOMAIN asked' /\ asked'[entries[x]] = requests[x]
    BY <1>3, <1>5 DEF EntriesLeadBack
  <2>2. id \in DOMAIN asked' /\ asked'[id] = p
    BY <1>a
  <2> DEFINE R == Insert(requests, r, p)
             E == Insert(entries, r, id)
  <2>3. /\ DOMAIN R = DOMAIN requests \cup {r}
        /\ R[r] = p
        /\ E[r] = id
        /\ \A x \in DOMAIN requests : x # r => R[x] = requests[x] /\ E[x] = entries[x]
    BY <1>5 DEF Insert, Extended
  <2> HIDE DEF R, E
  <2>4. \A x \in DOMAIN R : E[x] \in DOMAIN asked' /\ asked'[E[x]] = R[x]
    BY <2>1, <2>2, <2>3
  <2> QED
    BY <2>4 DEF R, E
<1>6. /\ DOMAIN list_files_requests \subseteq DOMAIN pending_list_files
      /\ DOMAIN file_get_requests \subseteq DOMAIN pending_file_gets
      /\ \A x \in DOMAIN pending_list_files : pending_list_files[x] # id
      /\ \A x \in DOMAIN pending_file_gets : pending_file_gets[x] # id
  BY DEF MapsInv, RequestsInProgressArePending, ListLeads, GetLeads, Leads, Range
<1>7. /\ \A x \in DOMAIN list_files_requests : pending_list_files[x] # id
      /\ \A x \in DOMAIN file_get_requests : pending_file_gets[x] # id
  BY <1>6
<1>b. /\ EntriesLeadBack(list_files_requests, pending_list_files)
      /\ EntriesLeadBack(file_get_requests, pending_file_gets)
  BY DEF FitInv
<1>8. /\ \A x \in DOMAIN list_files_requests :
            /\ pending_list_files[x] \in DOMAIN asked'
            /\ asked'[pending_list_files[x]] = list_files_requests[x]
      /\ \A x \in DOMAIN file_get_requests :
            /\ pending_file_gets[x] \in DOMAIN asked'
            /\ asked'[pending_file_gets[x]] = file_get_requests[x]
  BY <1>3, <1>7, <1>b DEF EntriesLeadBack
<1>9. CASE /\ list_files_requests' = Insert(list_files_requests, next_list_id, p)
           /\ pending_list_files' = Insert(pending_list_files, next_list_id, id)
           /\ UNCHANGED <<file_get_requests, pending_file_gets>>
  <2>1. \A x \in DOMAIN list_files_requests' :
           /\ pending_list_files'[x] \in DOMAIN asked'
           /\ asked'[pending_list_files'[x]] = list_files_requests'[x]
    BY <1>5, <1>6, <1>7, <1>9, <1>b
  <2> QED
    BY <1>2, <1>4, <1>8, <1>9, <2>1 DEF FitInv, EntriesLeadBack
<1>10. CASE /\ file_get_requests' = Insert(file_get_requests, next_get_id, p)
            /\ pending_file_gets' = Insert(pending_file_gets, next_get_id, id)
            /\ UNCHANGED <<list_files_requests, pending_list_files>>
  <2>1. \A x \in DOMAIN file_get_requests' :
           /\ pending_file_gets'[x] \in DOMAIN asked'
           /\ asked'[pending_file_gets'[x]] = file_get_requests'[x]
    BY <1>5, <1>6, <1>7, <1>10, <1>b
  <2> QED
    BY <1>2, <1>4, <1>8, <1>10, <2>1 DEF FitInv, EntriesLeadBack
<1> QED
  BY <1>9, <1>10

\* handle_command answers fittingly or files the command.
LEMMA FitHandle ==
    ASSUME TypeOK, MapsInv, OwnerInv, FitInv, HandleCommand
    PROVE  FitInv'
<1> DEFINE id == channel[1].id
           cmd == channel[1].command
<1>1. /\ channel # <<>>
      /\ id \in CommandIds
      /\ cmd \in Commands
      /\ issued[id] = cmd
      /\ id \notin DOMAIN pending_command_requests
  BY ChannelType DEF HandleCommand, FitInv, CommandsAreAsIssued, MapsInv, ChannelIsNew
<1>2. id \notin DOMAIN answers
  <2>1. InChannel(id)
    BY <1>1, ChannelHolds DEF MapsInv
  <2> QED
    BY <1>1, <2>1 DEF OwnerInv, EveryCommandHasOneOwner, SenderAlive
<1> HIDE DEF id, cmd
<1>3. CASE EndLoop("stopped")
  BY <1>3, FitEnd
<1>4. ASSUME NEW a, Fits(id, cmd, a, asked), Answer(id, a), channel' = <<>>,
             UNCHANGED <<next_command_id, issued, asked, pending_command_requests,
                         pending_list_files, pending_file_gets,
                         list_files_requests, file_get_requests>>
      PROVE  FitInv'
  <2>1. \A x \in DOMAIN answers' :
           \/ x \in DOMAIN answers /\ answers'[x] = answers[x]
           \/ Fits(x, issued[x], answers'[x], asked)
    BY <1>1, <1>4 DEF Answer, Insert, Extended
  <2> QED
    BY <1>4, <2>1, FitShrinks
<1>5. CASE cmd.name = "Register" /\ HandleRegister(id, cmd.user) /\ ~ EndLoop("stopped")
  <2>1. Fits(id, cmd, Registered, asked)
    BY <1>5 DEF Fits
  <2> QED
    BY <1>4, <1>5, <2>1 DEF HandleRegister, clientVars, pendingVars, networkVars
<1>6. CASE cmd.name = "ListPeers" /\ HandleListPeers(id)
  <2>1. ListPeers = cmd
    BY <1>1, <1>6, CommandFields
  <2>2. /\ channel' = <<>>
        /\ pending_command_requests' = Insert(pending_command_requests, id, cmd)
        /\ UNCHANGED <<next_command_id, issued, pending_list_files,
                       pending_file_gets, list_files_requests,
                       file_get_requests, asked, answers>>
    BY <1>6, <2>1 DEF HandleListPeers, clientVars
  <2>3. CommandsAreAsIssued'
    BY <1>1, <2>2 DEF FitInv, CommandsAreAsIssued, Insert, Extended
  <2> QED
    BY <2>2, <2>3 DEF FitInv, EntriesLeadBack, AnswersFit
<1>7. CASE cmd.name = "ListFiles" /\ HandleListFiles(id, cmd.user)
  <2>1. CASE Known(cmd.user)
    <3>1. ListFiles(cmd.user) = issued[id]
      BY <1>1, <1>7, CommandFields
    <3>2. /\ channel' = <<>>
          /\ UNCHANGED <<next_command_id, issued, answers>>
          /\ pending_command_requests' =
                Insert(pending_command_requests, id, issued[id])
          /\ asked' = Insert(asked, id, namespace_peers[cmd.user])
          /\ list_files_requests' =
                Insert(list_files_requests, next_list_id, namespace_peers[cmd.user])
          /\ pending_list_files' = Insert(pending_list_files, next_list_id, id)
          /\ UNCHANGED <<file_get_requests, pending_file_gets>>
      BY <1>7, <2>1, <3>1 DEF HandleListFiles, AwaitListFiles, clientVars
    <3> QED
      BY <1>1, <1>2, <3>2, FitAsks
  <2>2. CASE ~ Known(cmd.user)
    <3>1. Fits(id, cmd, UserNotRegistered(cmd.user), asked)
      BY <1>7 DEF Fits
    <3> QED
      BY <1>4, <1>7, <2>2, <3>1 DEF HandleListFiles, Refuse, clientVars
  <2> QED
    BY <2>1, <2>2
<1>8. CASE cmd.name = "GetFile" /\ HandleGetFile(id, cmd.user, cmd.file) /\ ~ EndLoop("stopped")
  <2>1. CASE Known(cmd.user)
    <3>1. GetFile(cmd.user, cmd.file) = issued[id]
      BY <1>1, <1>8, CommandFields
    <3>2. /\ channel' = <<>>
          /\ UNCHANGED <<next_command_id, issued, answers>>
          /\ pending_command_requests' =
                Insert(pending_command_requests, id, issued[id])
          /\ asked' = Insert(asked, id, namespace_peers[cmd.user])
          /\ file_get_requests' =
                Insert(file_get_requests, next_get_id, namespace_peers[cmd.user])
          /\ pending_file_gets' = Insert(pending_file_gets, next_get_id, id)
          /\ UNCHANGED <<list_files_requests, pending_list_files>>
      BY <1>8, <2>1, <3>1 DEF HandleGetFile, AwaitFileGet, clientVars
    <3> QED
      BY <1>1, <1>2, <3>2, FitAsks
  <2>2. CASE ~ Known(cmd.user)
    <3>1. Fits(id, cmd, UserNotRegistered(cmd.user), asked)
      BY <1>8 DEF Fits
    <3> QED
      BY <1>4, <1>8, <2>2, <3>1 DEF HandleGetFile, Refuse, clientVars
  <2> QED
    BY <2>1, <2>2
<1> QED
  BY <1>3, <1>5, <1>6, <1>7, <1>8
  DEF HandleCommand, HandleRegister, HandleGetFile, id, cmd

\* An event answers the command that its entry leads to.
LEMMA FitEvent ==
    ASSUME MapsInv, FitInv, NetworkEvent
    PROVE  FitInv'
<1>1. ASSUME NEW found, Discovered(found) PROVE FitInv'
  <2> DEFINE a == PeersListed(DOMAIN Learned(namespace_peers, found), DOMAIN found)
  <2>1. a.result = "ListPeers"
    BY DEF PeersListed
  <2>2. answers' = Extended(answers, [x \in AskingForPeers |-> a])
    BY <1>1 DEF Discovered
  <2> HIDE DEF a
  <2>3. \A x \in AskingForPeers : Fits(x, issued[x], a, asked)
    BY <2>1 DEF AskingForPeers, FitInv, CommandsAreAsIssued, Fits
  <2>4. \A x \in DOMAIN answers' :
           \/ x \in DOMAIN answers /\ answers'[x] = answers[x]
           \/ Fits(x, issued[x], answers'[x], asked)
    BY <2>2, <2>3 DEF Extended
  <2>5. \A x \in DOMAIN pending_command_requests' :
           /\ x \in DOMAIN pending_command_requests
           /\ pending_command_requests'[x] = pending_command_requests[x]
    BY <1>1 DEF Discovered, Completed, Removed, Restrict
  <2>6. UNCHANGED <<next_command_id, issued, asked, channel, pending_list_files,
                    pending_file_gets, list_files_requests, file_get_requests>>
    BY <1>1 DEF Discovered, clientVars
  <2> QED
    BY <2>4, <2>5, <2>6, FitShrinks
<1>2. ASSUME NEW r, ListFilesResponse(r) PROVE FitInv'
  <2> DEFINE id == pending_list_files[r]
             a == FilesListed(list_files_requests[r])
  <2>1. r \in DOMAIN list_files_requests /\ r \in DOMAIN pending_list_files
    BY <1>2 DEF ListFilesResponse, MapsInv, RequestsInProgressArePending
  <2>2. /\ id \in DOMAIN pending_command_requests
        /\ pending_command_requests[id].name = "ListFiles"
    BY <2>1 DEF MapsInv, ListLeads, Leads, Range
  <2>3. Fits(id, issued[id], a, asked)
    BY <2>1, <2>2 DEF FitInv, CommandsAreAsIssued, EntriesLeadBack, Fits
  <2>4. /\ pending_command_requests' = Removed(pending_command_requests, {id})
        /\ answers' = Insert(answers, id, a)
        /\ list_files_requests' = Removed(list_files_requests, {r})
        /\ pending_list_files' = Removed(pending_list_files, {r})
        /\ UNCHANGED <<next_command_id, issued, asked, channel,
                       pending_file_gets, file_get_requests>>
    BY <1>2, <2>1, <2>2 DEF ListFilesResponse, Completed, Answer, clientVars
  <2>5. \A x \in DOMAIN list_files_requests' :
           /\ x \in DOMAIN list_files_requests
           /\ list_files_requests'[x] = list_files_requests[x]
           /\ pending_list_files'[x] = pending_list_files[x]
    BY <2>4 DEF Removed, Restrict, MapsInv, RequestsInProgressArePending
  <2>6. \A x \in DOMAIN pending_command_requests' :
           /\ x \in DOMAIN pending_command_requests
           /\ pending_command_requests'[x] = pending_command_requests[x]
    BY <2>4 DEF Removed, Restrict
  <2> HIDE DEF id, a
  <2>7. \A x \in DOMAIN answers' :
           \/ x \in DOMAIN answers /\ answers'[x] = answers[x]
           \/ Fits(x, issued[x], answers'[x], asked)
    BY <2>3, <2>4 DEF Insert, Extended
  <2> QED
    BY <2>4, <2>5, <2>6, <2>7, FitShrinks
<1>3. ASSUME NEW r, FileGetResponseReceived(r) PROVE FitInv'
  <2> DEFINE id == pending_file_gets[r]
             cmd == pending_command_requests[id]
             a == FileGot(cmd.user, cmd.file, file_get_requests[r])
  <2>1. r \in DOMAIN file_get_requests /\ r \in DOMAIN pending_file_gets
    BY <1>3 DEF FileGetResponseReceived, MapsInv, RequestsInProgressArePending
  <2>2. id \in DOMAIN pending_command_requests /\ cmd.name = "GetFile"
    BY <2>1 DEF MapsInv, GetLeads, Leads, Range
  <2>3. Fits(id, issued[id], a, asked)
    BY <2>1, <2>2 DEF FitInv, CommandsAreAsIssued, EntriesLeadBack, Fits
  <2>4. /\ pending_command_requests' = Removed(pending_command_requests, {id})
        /\ answers' = Insert(answers, id, a)
        /\ file_get_requests' = Removed(file_get_requests, {r})
        /\ pending_file_gets' = Removed(pending_file_gets, {r})
        /\ UNCHANGED <<next_command_id, issued, asked, channel,
                       pending_list_files, list_files_requests>>
    BY <1>3, <2>1, <2>2 DEF FileGetResponseReceived, Completed, Answer, clientVars
  <2>5. \A x \in DOMAIN file_get_requests' :
           /\ x \in DOMAIN file_get_requests
           /\ file_get_requests'[x] = file_get_requests[x]
           /\ pending_file_gets'[x] = pending_file_gets[x]
    BY <2>4 DEF Removed, Restrict, MapsInv, RequestsInProgressArePending
  <2>6. \A x \in DOMAIN pending_command_requests' :
           /\ x \in DOMAIN pending_command_requests
           /\ pending_command_requests'[x] = pending_command_requests[x]
    BY <2>4 DEF Removed, Restrict
  <2> HIDE DEF id, cmd, a
  <2>7. \A x \in DOMAIN answers' :
           \/ x \in DOMAIN answers /\ answers'[x] = answers[x]
           \/ Fits(x, issued[x], answers'[x], asked)
    BY <2>3, <2>4 DEF Insert, Extended
  <2> QED
    BY <2>4, <2>5, <2>6, <2>7, FitShrinks
<1>4. ASSUME NEW r, ListFilesOutboundFailure(r) \/ FileGetFailure(r) PROVE FitInv'
  <2>1. /\ \A x \in DOMAIN list_files_requests' :
              /\ x \in DOMAIN list_files_requests
              /\ list_files_requests'[x] = list_files_requests[x]
        /\ \A x \in DOMAIN file_get_requests' :
              /\ x \in DOMAIN file_get_requests
              /\ file_get_requests'[x] = file_get_requests[x]
    BY <1>4 DEF ListFilesOutboundFailure, FileGetFailure, Removed, Restrict
  <2>2. UNCHANGED <<next_command_id, issued, asked, channel, pending_list_files,
                    pending_file_gets, pending_command_requests, answers>>
    BY <1>4 DEF ListFilesOutboundFailure, FileGetFailure, clientVars, pendingVars
  <2> QED
    BY <2>1, <2>2, FitShrinks
<1>5. ASSUME UNCHANGED <<next_command_id, issued, asked, channel, answers,
                         pending_command_requests, pending_list_files,
                         pending_file_gets, list_files_requests,
                         file_get_requests>>
      PROVE  FitInv'
  BY <1>5, FitShrinks
<1>6. ASSUME NEW f, DiscoverFailed \/ ListFilesRequest \/ FileGetRequestReceived(f)
      PROVE  FitInv'
  <2>1. CASE EndLoop("stopped")
    BY <2>1, FitEnd
  <2>2. CASE ~ EndLoop("stopped")
    BY <1>5, <1>6, <2>2 DEF DiscoverFailed, ListFilesRequest,
       FileGetRequestReceived, clientVars, pendingVars, networkVars
  <2> QED
    BY <2>1, <2>2
<1> QED
  BY <1>1, <1>2, <1>3, <1>4, <1>6 DEF NetworkEvent

\* A command is answered with the result of its own kind, from the peer to
\* which its own request went, whatever order the events come in.
THEOREM AnswersAreFitting == Spec => []AnswersFitCommands
<1>1. Init => FitInv
  <2>1. DOMAIN EmptyMap = {}
    BY DEF EmptyMap
  <2> QED
    BY <2>1 DEF Init, FitInv, CommandsAreAsIssued, EntriesLeadBack, AnswersFit
<1>2. TypeOK /\ MapsInv /\ OwnerInv /\ FitInv /\ [Next]_vars => FitInv'
  <2> SUFFICES ASSUME TypeOK, MapsInv, OwnerInv, FitInv, [Next]_vars PROVE FitInv'
    OBVIOUS
  <2>1. CASE ReceiveAnswer \/ ReceiveCanceled \/ GiveUp \/ UNCHANGED vars
    <3>1. UNCHANGED <<next_command_id, issued, asked, channel, answers,
                      pending_command_requests, pending_list_files,
                      pending_file_gets, list_files_requests,
                      file_get_requests>>
      BY <2>1 DEF ReceiveAnswer, ReceiveCanceled, GiveUp, pendingVars,
                  networkVars, vars
    <3> QED
      BY <3>1, FitShrinks
  <2> QED
    BY <2>1, FitSend, FitHandle, FitEvent DEF Next, ClientStep
<1>3. FitInv => AnswersFitCommands
  BY DEF FitInv, AnswersFit, Fits, AnswersFitCommands
<1> QED
  BY <1>1, <1>2, <1>3, TypesHold, MapsInvariant, OwnerInvariant, PTL DEF Spec

\* A name that ls_peers has shown can be used in ls@ and get@ for as long as
\* the loop runs, and every name that a discovery returned is shown.
THEOREM ShownNamesStayUsable == Spec => []ListedPeersStayKnown
<1>1. Init => ListedPeersStayKnown
  BY DEF Init, ListedPeersStayKnown, EmptyMap
<1>2. ASSUME ListedPeersStayKnown, loop' = "running" => loop = "running",
             loop' = "running" => DOMAIN namespace_peers \subseteq DOMAIN namespace_peers',
             \A id \in DOMAIN answers' :
                 \/ id \in DOMAIN answers /\ answers'[id] = answers[id]
                 \/ answers'[id].result # "ListPeers"
                 \/ /\ answers'[id].registered \subseteq answers'[id].names
                    /\ answers'[id].names \subseteq DOMAIN namespace_peers'
      PROVE  ListedPeersStayKnown'
  BY <1>2 DEF ListedPeersStayKnown
<1>3. ListedPeersStayKnown /\ [Next]_vars => ListedPeersStayKnown'
  <2> SUFFICES ASSUME ListedPeersStayKnown, [Next]_vars PROVE ListedPeersStayKnown'
    OBVIOUS
  <2>1. ASSUME NEW how \in {"stopped", "panicked"}, EndLoop(how)
        PROVE  ListedPeersStayKnown'
    BY <2>1 DEF EndLoop, ListedPeersStayKnown
  <2>2. ASSUME UNCHANGED <<loop, namespace_peers, answers>> PROVE ListedPeersStayKnown'
    BY <2>2 DEF ListedPeersStayKnown
  <2>3. ASSUME NEW id, NEW a, a.result # "ListPeers", Answer(id, a),
               UNCHANGED <<loop, namespace_peers>>
        PROVE  ListedPeersStayKnown'
    <3>1. \A x \in DOMAIN answers' :
             \/ x \in DOMAIN answers /\ answers'[x] = answers[x]
             \/ answers'[x].result # "ListPeers"
      BY <2>3 DEF Answer, Insert, Extended
    <3> QED
      BY <1>2, <2>3, <3>1
  <2>4. /\ Registered.result # "ListPeers"
        /\ \A u : UserNotRegistered(u).result # "ListPeers"
        /\ \A p : FilesListed(p).result # "ListPeers"
        /\ \A u, f, p : FileGot(u, f, p).result # "ListPeers"
    BY DEF Registered, UserNotRegistered, FilesListed, FileGot
  <2>5. CASE ClientStep \/ UNCHANGED vars
    BY <2>2, <2>5 DEF ClientStep, SendCommand, ReceiveAnswer, ReceiveCanceled,
                      GiveUp, pendingVars, vars
  <2>6. CASE HandleCommand
    <3> DEFINE id == channel[1].id
               cmd == channel[1].command
    <3>1. CASE HandleRegister(id, cmd.user)
      BY <2>1, <2>3, <2>4, <3>1 DEF HandleRegister, pendingVars
    <3>2. CASE HandleListPeers(id)
      BY <2>2, <3>2 DEF HandleListPeers
    <3>3. CASE HandleListFiles(id, cmd.user)
      BY <2>2, <2>3, <2>4, <3>3 DEF HandleListFiles, Refuse
    <3>4. CASE HandleGetFile(id, cmd.user, cmd.file)
      BY <2>1, <2>2, <2>3, <2>4, <3>4 DEF HandleGetFile, Refuse
    <3> QED
      BY <2>6, <3>1, <3>2, <3>3, <3>4 DEF HandleCommand
  <2>7. ASSUME NEW found, Discovered(found) PROVE ListedPeersStayKnown'
    <3> DEFINE known == Learned(namespace_peers, found)
               a == PeersListed(DOMAIN known, DOMAIN found)
    <3>1. /\ UNCHANGED loop
          /\ namespace_peers' = known
          /\ answers' = Extended(answers, [x \in AskingForPeers |-> a])
      BY <2>7 DEF Discovered
    <3>2. DOMAIN known = DOMAIN namespace_peers \cup DOMAIN found
      BY DEF Learned, Extended
    <3>3. a.names = DOMAIN known /\ a.registered = DOMAIN found
      BY DEF PeersListed
    <3> HIDE DEF known, a
    <3>4. \A x \in DOMAIN answers' :
             (x \in DOMAIN answers /\ answers'[x] = answers[x]) \/ answers'[x] = a
      BY <3>1 DEF Extended
    <3> QED
      BY <1>2, <3>1, <3>2, <3>3, <3>4
  <2>8. ASSUME NEW r, ListFilesResponse(r) PROVE ListedPeersStayKnown'
    BY <2>2, <2>3, <2>4, <2>8 DEF ListFilesResponse
  <2>9. ASSUME NEW r, FileGetResponseReceived(r) PROVE ListedPeersStayKnown'
    BY <2>1, <2>3, <2>4, <2>9 DEF FileGetResponseReceived
  <2>10. ASSUME NEW r, NEW f,
                \/ DiscoverFailed
                \/ ListFilesOutboundFailure(r)
                \/ FileGetFailure(r)
                \/ ListFilesRequest
                \/ FileGetRequestReceived(f)
         PROVE  ListedPeersStayKnown'
    BY <2>1, <2>2, <2>10 DEF DiscoverFailed, ListFilesOutboundFailure,
       FileGetFailure, ListFilesRequest, FileGetRequestReceived, pendingVars
  <2> QED
    BY <2>5, <2>6, <2>7, <2>8, <2>9, <2>10 DEF Next, NetworkEvent
<1> QED
  BY <1>1, <1>3, PTL DEF Spec

=============================================================================
