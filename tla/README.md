# A verification project for the libp2p file-sharing example

The program is a command-line node that shares the files of a directory with
other nodes. It registers at a rendezvous point, discovers other nodes there,
lists their files (libp2p's request-response protocol) and fetches them (the
crate `libp2p-file-get`, part of the repository). This directory holds TLA+
modules translated from its source, the TLC runs that check them on small
instances, and theorems about them checked by TLAPS.

Paths below are relative to the repository's root.

## 1. Inventory

| Component | Source | State | Operations |
|---|---|---|---|
| FileGet behaviour | `file-get/src/lib.rs` | id generators, `connected`, `pending_events`, `pending_outbound_requests`, two sets of pending ids per connection | `send_request`, `on_connection_established`, `on_connection_closed`, `on_address_change`, `one_dial_failure`, `on_connection_handler_event` (8 events), `poll` |
| FileGet handler | `file-get/src/handler.rs` | `pending_events`, `inbound` futures, `outbound` queue, `pending_error`, keep-alive | `listen_protocol`, `on_behaviour_event`, `on_connection_event`, `poll` |
| FileGet upgrades | `file-get/src/protocol.rs` | two oneshots per inbound substream | `upgrade_inbound`, `upgrade_outbound`, copy of the stream |
| Event loop | `src/network/mod.rs` | `namespace_peers`, `pending_command_requests`, `pending_list_files`, `pending_file_gets`, the files of `sharing_dir` | `handle_command` (4 commands), `handle_event`, `run` |
| Client | `src/network/mod.rs` | id generator, sender of the command channel | `send_command` |
| Startup | `src/network/mod.rs` | `rendezvous_point_peer_id`, two 3 s delays | `init`, `start_listen`, `conntect_rendezvous`, `new_network` |
| Command parsing | `src/command.rs` | none | `Command::from_str` |
| ListFiles protocol | `src/network/protocol.rs` | none | codec of one request and one response |
| Glue | `src/network/behaviour.rs`, `src/error.rs`, `src/bin/file-sharing.rs`, generated code | none | conversions, stdin |

How they interact. `main` parses a line, calls `Client::send_command` and waits.
The command travels through a channel of capacity 0 together with the sender of
a oneshot for its answer. The `EventLoop` task takes commands and swarm events
one at a time; a command that needs another node is parked in
`pending_command_requests` until an event answers it. The swarm owns the
behaviours: it calls FileGet when connections come and go, passes on what the
handler of each connection reports, and polls it for actions (dial, notify a
handler, raise an event). Handlers run in the tasks of their connections, so
what they report interleaves freely with everything else.

What is hard, and what makes each part correct:

* **FileGet.** Requests made while there is no connection are parked and sent by
  the first connection that comes up, for whatever reason; several dials to a
  peer can be under way; dials of other behaviours fail too; a connection can
  close between the decision to use it and the notification of its handler. No
  request may be lost, doubled, stranded, reordered or left untold, and none of
  the `expect`s and `debug_assert`s may fail.
* **Event loop and client.** Three maps are kept in step by hand while responses
  come in any order; the only thing that wakes the client is a oneshot sender
  that is moved between them. It must never be dropped silently or used for
  another command, and the client must not wait forever. The loop ends on the
  first `?` that fails, also one another node causes.
* **Handler and upgrades.** A substream's request, its answer and its timeout
  reach the behaviour through two queues that `poll` empties in a fixed order.
  `poll` looks at one dead entry of `inbound` per call and then returns Pending,
  so requests behind it depend on the next wake-up. An upgrade waits for a oneshot
  that the application may drop. The body of an answer has no length: its end is
  the end of the substream, also after an error. Whatever happens the handler must
  report what FileGet counts on and nothing else.
* **File contents.** Transfers overlap: a file can be read while another transfer
  writes it, and it is opened before anything is known about the other side.
* **Startup.** A timeout racing the event it waits for, while the node already
  listens and discards everything else.
* **Parsing, framing.** What is accepted, and what a name becomes on its way from
  a directory through `ls@`, the terminal and `get@` to another directory; a
  message must not be taken for whole when the substream broke.

`PROJECT.json` lists the hazards, each at its line.

## 2. Modules

| Module | What it is | Composes |
|---|---|---|
| `FileGet` | the behaviour, with the swarm and the handlers as its environment | `HandlerContract` |
| `HandlerContract` | what handlers promise FileGet: one action per kind of report | |
| `HandlerReports` | that promise as the specification of one handler | `HandlerContract` |
| `Handler` | the handler of a connection, its task, its substreams and their upgrades; implements `HandlerReports` | `HandlerReports` |
| `EventLoop` | client and event loop, with libp2p's behaviours as environment | |
| `Node` | the event loop driving FileGet | `EventLoop`, `FileGet` |
| `FileTransfer` | contents of files while nodes fetch them from each other | |
| `Framing` | a framed message over a substream that may break | |
| `Startup` | `new_network`, up to the first command | |
| `CommandParse` | lines, commands and the names of files | |
| `Main` | the main program: the start, then lines while the swarm goes on | `Startup`, `CommandParse` |
| `FileGetProofs`, `EventLoopProofs`, `HandlerProofs`, `FileTransferProofs`, `FramingProofs`, `StartupProofs`, `CommandParseProofs` | theorems about the module they are named after | that module |
| `NodeProofs` | theorems about Node, from those about its parts | `Node`, `FileGetProofs`, `EventLoopProofs` |
| `MC...` | instances for TLC, each with its `.cfg` files | |

Definitions preceded by a comment that begins "Fault:" are mutations: plausible
mistakes in the definition that follows them. Nothing uses them in the
specification; replacing the definition by the fault must make TLC refute the
property `PROJECT.json` pairs it with.

### FileGet

Variables keep the names of the fields. A `HashMap` from peers to lists is a
total function with the empty list for a missing key, as the code keeps no empty
list in `connected` or `pending_outbound_requests`. A `Connection` is two
functions of its id. A request is its id; file names and writers travel with it
untouched. The addresses are left out: nothing reads them.

`SendRequest`, `OnConnectionEstablished`, `OnConnectionClosed`,
`OnAddressChange` and `OneDialFailure` are the functions of the same name;
`OnRequest`, `OnResponse`, `OnAnswered`, `OnOutboundFailure` and
`OnInboundFailure` are the arms of `on_connection_handler_event`; `PollDial`,
`PollNotify` and `PollEvent` are `poll` together with what the swarm does with
the action. `panicked` records a failed `expect` or `debug_assert` and is never
reset; `NoPanic` shows that it is never set. The order in which the ids of a closing connection
are reported is that of a `HashSet`: any order (`Orders`).

Environment. `pool`, `used` and `dialing` are the swarm: connections are
established for a dial of FileGet or for another reason (`ConnectionArrives`),
dials fail, also those of others (`OtherDialFails`), a dial may be refused at
once and must not start when a connection exists (the default `PeerCondition`).
`held`, `open`, `requested` and `late` are the handlers, and `Contract`, an
instance of `HandlerContract`, says what they may report: a request handed to a
handler ends in one of `Response`, `OutboundTimeout` and
`OutboundUnsupportedProtocols`; an inbound substream reports `Request` before
`ResponseSent`, may fail before or after, and can report `Request` after its
timeout because `Handler::poll` drains `pending_events` first. Every
`Handler...` action conjoins an action of the contract with the arm of
`on_connection_handler_event`. Events of a connection reach the behaviour in
order and its closing comes last, so a report and its delivery are one step.
`reported` is history.

### Handler, HandlerReports

The fields of `Handler` keep their names. `inbound` is a `FuturesUnordered`: the
set of its entries, and the queue `ready` of those that `poll_next_unpin` will
look at. An entry is the receiver of the oneshot on which `upgrade_inbound` sends
the request; it resolves when that is sent (`Arrived`) or its sender is dropped
(`Canceled`), and is then queued again and the task woken (`Resolve`). The five
disjuncts of `Poll` are the returns of `Handler::poll` in their order;
`PollPending` includes the call that takes a Canceled entry and leaves those
behind it unseen. The connection's task alternates between the handler (`"poll"`)
and its substreams (`"drive"`) and sleeps when nothing moves, as libp2p's
`Connection` does. `stage` is the upgrade of a substream, `response` its second
oneshot; `ExpectSender` is the failing `expect`. Every inbound substream is
offered to all behaviours of the node, so it may turn out to be another one's
(`NegotiateOther`), which cancels its entry. `AppMayDrop` lets the application
drop a response sender. The Request event moves the sender of an answer from the
entry to the application (`HandedOut`).

`emitted` is the history of events handed to the behaviour. `ImplementsReports`
is `HandlerReports!Spec` under the mapping that puts an id where those events put
it: `Held` was given and not told, `Open` has an id and no verdict, `Requested`
has reported its request, `Late` timed out with its request still in an entry. So
what module FileGet assumes is what the handler does.

### EventLoop

One handler runs to its end before the loop looks at the next command or event,
so `HandleCommand` and each event are one step. `EndLoop` is both ways in which
the loop can end; it drops the swarm, the channel and the maps, and with them
every oneshot sender. `client` is `main`'s view of `send_command`: `ReceiveAnswer`
is the oneshot's answer, `ReceiveCanceled` the `unwrap` of a cancelled one.
`CallerMayGiveUp` lets the caller drop the future of `send_command`, which a user
of the crate may do and which puts several commands into the maps at once;
`main` itself never does. `NetworkMayFail` admits the failure events of
discovery, `list_files` and `file_get`. `File::open` of a file that another node asks
for fails when the file is missing and may fail otherwise (`FileGetRequestReceived`).

libp2p is external: a discovery ends with any set of registrations or in
failure; a request of request-response or FileGet ends once, with a response or
a failure. For FileGet, `NodeProofs` shows it. `issued`, `asked` and `answers` are
history.

### Node

`HandleCommand` conjoins the loop's step with `send_request` when the command is
a `get@` for a known user; `PollEvent` hands FileGet's first event to the loop in
the same step, as `run` does. An event that arrives for a request the loop does
not have in progress would block that step, so `LoopKnowsRequestsInProgress`
states that every queued report finds its request: this is the assumption under
which the theorems about EventLoop hold, and it is proved in `NodeProofs`. Other nodes'
requests for the list of files are left out, since they do not touch FileGet.

### FileTransfer

A file is a sequence of pieces. A transfer opens the local file (`create`,
`write`, no `truncate`), is served by a node that opens its own file, and then
both `copy_stream`s move pieces while other transfers run; reads and writes see
the files as they are at that moment. The server's end of the substream looks the
same after a complete copy and after an error of its reader (`ReadFails`): the
upgrade drops the substream, and yamux delivers what was sent and then the end. A
lost connection or a timeout drops the requester's upgrade with its task
(`LoseStream`). A node whose open fails ends its loop (`EndLoop`).

### Framing

One message: the request of FileGet or the response of list_files. A frame is a
length and that many pieces; it may be cut after any of them. The codec's limit is
`MaxFrame`. `kind` matters because only the writer of a list_files response closes
the substream behind it.

### Startup

`phase` is where `main` is, or the error it ends with. Only the events that
`start_listen` and `conntect_rendezvous` look at move it, and the delay may win
against any of them, because `select!` takes any branch that is ready. Events
that are discarded change only the network, but for a file request, whose
`res_sender` is discarded with it (`DiscardRequest`).

### CommandParse

A line is a sequence of tokens: the fixed pieces of the syntax, blanks and
letters. `FromStr` is `Command::from_str`. It is compared with what `README.md:8-11`
documents: `Documented` are the commands with names from the line, none of them
empty, and `Written` is a command's text, with blanks in front of it and between its
words. A line that consists of such a text, and blanks behind it, must be taken for
that command (`DocumentedLinesParse`). What `from_str` does with other lines (it
ignores further words, cuts a file name at a second arrow, takes `ls@` and `get@->`
for commands with empty names) is not documented and not asserted.

### Main

`main` awaits `new_network`, spawns the loop and reads lines: `ReadLines` needs
`phase = "running"`. The other steps are those of Startup. What becomes of a command
that parses is the subject of EventLoop.

## 3. Runs

| Run | Checks | Instance |
|---|---|---|
| `fileget_safety` | `TypeOK`, `ConnectedMirrorsPool`, `NoPanic`, `ParkedRequestsAwaitDial`, `EveryRequestHasOneHome`, `RequestsLeaveInOrder` | 2 peers, 2 connection ids, 2 outbound and 1 inbound request; 310,529 states up to symmetry |
| `fileget_closed_tag` | refutes `FailedRequestsAreOutboundFailures` | 1 peer, 1 connection, 1 request |
| `eventloop` | `TypeOK`, `NoExpectFails`, `EveryCommandHasOneOwner`, `PendingMapsAgree`, `RequestsInProgressArePending`, `AnswersFitCommands`, `ClientDiesOnlyAfterLoop`, `ListedPeersStayKnown`; liveness `EveryCommandFinishes` | 2 users (one name too long), 2 peers, 2 files (one cannot be opened), 4 commands, 1 inbound request; 230,422 states |
| `eventloop_stuck` | refutes `PendingRequestsAreInProgress` | 3 commands |
| `handler` | `TypeOK`, `GivenRequestsHaveOnePlace`, `WaitingUpgradesHaveASender`, refinement `ImplementsReports`; liveness `ArrivedRequestsAreReported`, `GivenRequestsAreTold`, `IdleHandlerLetsGo` | 1 outbound request, 2 inbound substreams, senders may be dropped; 171,373 states |
| `handler_omission` | refutes the liveness `DroppedResponsesAreOmissions` | 1 inbound substream |
| `node` | `LoopKnowsRequestsInProgress`, `NodeNeverPanics`; liveness `GetsWaitOnlyAfterFailure` | 1 user, 1 peer, 1 connection id, 3 commands, 1 inbound request; 194,732 states |
| `transfer` | `EveryPieceHasASource`, `AnsweredGetsOverlay`, `UnfinishedGetsOverlay` | 3 nodes, files of 2 and 3 pieces of one name, 2 transfers; 173,812 states |
| `transfer_stale_tail` | refutes `GotFilesAreTheirs` | 2 nodes, 1 transfer, readers do not fail |
| `main` | `CommandsFindAPoint`, `DocumentedLinesParse`, `RegisteredUsersCanBeAsked`, `ListedFilesCanBeFetched`, the action property `PointIsKept`; liveness `StartupEnds` | the point and another peer, 1 lost connection, lines of up to 4 of 7 tokens, 7 names of files; 78,650 states |
| `startup_point` | refutes `PointIsTheRendezvousPoint` | the point and another peer |
| `framing` | `MessagesArriveWholeOrNotAtAll`, `ReadersReturn` | messages of up to 4 pieces, limit 3; 934 states |

Bounds. With two peers an action meant for one can reach the other; with two
connection ids a peer has two connections at once, or one peer has one each, or
one is closed and another opened; with two requests one can be parked, awaiting
or queued while the other is anywhere, and the order of two is visible. The one
inbound request goes through every order of request, answer, timeout and close.
Four commands allow a discovery and three commands that depend on what it found,
all pending at once when callers give up. Request ids of the model are not
reused; the code's are `u64` counters. Two inbound substreams let a dead entry
stand before one whose request arrived; one outbound request crosses with both, and
`HandlerProofs` covers several in the queue, on substreams and in events at once. Three commands in Node are a discovery and two `get@`, the second while the
first is under way; one connection id keeps its liveness within reach, and the
runs of FileGet have two. Two transfers between three nodes give a chain, a race
for one target and a source that is being written. Four tokens hold `get@` with a user
and a file, `register` with a name of two tokens, or a command with blanks around
it; the lines made for listed files are longer.

Deadlock is not checked: a node whose user enters nothing more, or whose bounds
are used up, may stop.

Fairness. *FileGet*, as assumed in Node: the swarm polls a behaviour that has
queued actions; a dial ends, because the transport times it out; a request a handler works on ends,
because its substream carries the configured timeout (`with_timeout`,
`handler.rs:223`). Nothing is assumed of connections closing or arriving.
*EventLoop*: the `select!` of `run` takes up commands and events as they come,
and picks at random among those that are ready; the client's task is woken by
its oneshot; requests and discoveries in progress end, in a response or in a failure,
by the timeouts above and those of libp2p's behaviours. That they succeed is not the
code's to guarantee, so `EveryCommandFinishes` excepts a command whose own
discovery or request has failed (`Lost`), and no other. *Handler*: the executor runs the task; it does
not sleep for good, because the node pings every connection once a second
(`mod.rs:524`); a substream ends, by its timer, which is looked at whenever the
task drives its substreams, hence strong fairness. Without the ping a request
behind a dead entry would wait for the next data on the connection. *Node*: that
of its two parts. *Startup*: only the two delays and the code's own steps; nothing
is assumed of peers. *Framing*: both ends run, and what is sent arrives unless the
substream breaks.

What the refuted properties show:

* `on_connection_closed` (`lib.rs:362-382`) swaps the two failure types with
  respect to their documentation (`lib.rs:143-145`, `157-159`): a request of ours
  whose connection closes is reported as `InboundFailure`.
* A `list_files` request that fails (`mod.rs:442`) and a file request that fails
  (`mod.rs:487`) leave their entries in the map of requests "being processed"
  (`mod.rs:100`, `102`) and their command unanswered; `main` then waits forever.
* A response sender that the application drops is documented to end in
  `ResponseOmission` (`lib.rs:163-165`, `handler.rs:71-72`), for which
  `handler.rs:151` waits for an upgrade that returns false. The upgrade never does:
  it panics (`protocol.rs:100`), and with it the task of the connection. The node
  drops such senders itself: while it connects to the rendezvous point it discards
  the requests of peers (`mod.rs:146`, `DiscardRequest` of Startup).
* A shorter file fetched over a longer one keeps the old tail (`mod.rs:290`): in the
  run two pieces are fetched over three, and the third stays.
* The peer whose Identify comes first is taken for the rendezvous point
  (`mod.rs:147`), also one that connected while the rendezvous point was dialed.
  `mod.rs:92`, `138` and `158` say it is the rendezvous point.

What some of the passing properties say is less than one might expect:

* `AnsweredGetsOverlay`: without other transfers of the same files, the pieces
  that were sent lie over the beginning of the old file, and all were sent unless
  the reader failed. So a transfer cut by a read error on the other side is
  answered as complete (`protocol.rs:101`). `UnfinishedGetsOverlay` says the same of a
  transfer that has not ended well: a failed `get@` leaves a file that begins with
  the new pieces and goes on with the old ones, or an empty one.
* `WaitingUpgradesHaveASender` is about the handler: until the application decides,
  the sender an upgrade waits for is not lost.
* `CommandsFindAPoint` and `PointIsKept` say that commands go to one peer that has
  identified itself, not that it is the rendezvous point.
* `RegisteredUsersCanBeAsked`: `register` takes a name with `->` in it, whose files
  can be listed but not fetched (`command.rs:72`, `85`).
* `ListedFilesCanBeFetched`: a file with a blank or `->` in its name, or with bytes
  that are not UTF-8, is listed by `ls@` and cannot be fetched (`command.rs:85`,
  `mod.rs:415`).
* `ListedPeersStayKnown`: `ls_peers` prints every namespace ever discovered
  (`mod.rs:397`), not only what the rendezvous point returns now.
* `ClientDiesOnlyAfterLoop` and `EveryCommandFinishes` allow the loop to end: a file
  that is missing (`mod.rs:454`) or a name that cannot be opened (`mod.rs:290`) ends
  it, and the client is released by a panic.
* `EveryCommandHasOneOwner` says a command is never dropped, not that it is
  answered: after a failed discovery (`mod.rs:359`) `ls_peers` stays pending until
  a later one succeeds.

## 4. Proofs

Each theorem holds for every value of the constants that the named assumption of
its module admits. The assumptions say that the bounds are naturals, which constants
are subsets of which, that the files at the start are sequences of pieces, that a
peer is not mistaken for another or for none, and that a letter is not a piece of the
syntax of commands. An invariant is proved from an inductive one, which
TLC checked on a small instance first. A step of the proof that a step of the
system preserves it is a lemma per action or group of actions.

**FileGet** (`FileGetProofs`; any peers, connection ids and numbers of
requests, `BoundsAssumption`):

* `TypeCorrect`: `TypeOK`. Inductive by itself. The lemmas about `Notifications`,
  `ClosedEvents` and `Orders` give the types of what is queued; `OrdersType` needs
  that a set of pending ids is finite.
* `ConnectionsMirrored`: `ConnectedMirrorsPool`. The list and the pool agree only
  if a connection id belongs to one peer and was given out, so the inductive
  invariant is `ConnInv`, which adds `PoolOwnership`.
* `ParkedRequestsAreDialed`: `ParkedRequestsAwaitDial`. Inductive given the types
  and `ConnInv`: a request is parked only when the peer's list, hence its pool, is
  empty; the first connection takes all parked requests; a dial leaves the queue
  into `dialing` or into a failure that takes them all.
* `FileGetNeverPanics`: `NoPanic`. `PanicInv` adds where ids are: a request a
  handler works on, or one in a queued notification, is pending on that connection
  and in one of those places only (`HandlersTracked`, `QueueTracked`), a parked
  request is nowhere else (`ParkedTracked`), and an inbound request that was
  emitted is pending on its connection. Then a response always finds its entry.
* `RequestsKeepTheirOrder`: `RequestsLeaveInOrder`. `OrderInv` adds that parked
  requests are in order and behind all that are queued for their peer. That they
  are behind those queued rests on `ParkedRequestsAwaitDial` and `PanicInv`:
  a peer with parked requests has no connection to send newer ones to.
* `RequestsHaveOneHome`: `EveryRequestHasOneHome`. `HomeInv` says a request that
  was made is parked, awaited, fated (its event is queued) or told, one of them
  only and for one peer only (`OneStage`), awaited on one connection that is
  established (`AwaitedOnce`), and fated by one event (`DistinctFates`). `HomesAre`
  turns this into the single element of `Homes(r)`.

**EventLoop** (`EventLoopProofs`; any users, peers, files and commands,
`ConstantsAssumption`):

* `TypesHold`: `TypeOK`.
* `MapsStayInStep`, `LateResponsesFindTheirEntry`, `ExpectsHold`:
  `PendingMapsAgree`, `RequestsInProgressArePending`, `NoExpectFails`. None is
  inductive alone: the first needs that a command or a request that is filed is
  new, so `MapsInv` adds that all ids in the maps were handed out (`IdsHandedOut`)
  and that the command in the channel is in no map (`ChannelIsNew`). `Leads`
  states the agreement of one request map with the commands; four lemmas say how
  inserting and removing keeps it.
* `EveryCommandIsOwned`, `ClientLivesWithLoop`: from `MapsInv`, a sender only ever
  moves from the channel to the map or to an answer and from the map to an answer
  (`OwnerTakes`, `OwnerAnswers`). The client dies only on a dropped sender, hence
  only when the loop is gone.
* `AnswersAreFitting`: `AnswersFitCommands`. `FitInv` relates the maps to the
  history: the channel and `pending_command_requests` hold commands as they were
  issued, and the entry of a request leads to the command that was sent to the
  request's peer (`EntriesLeadBack`). So a response that comes late or out of
  order still ends the command it was asked for.
* `ShownNamesStayUsable`: `ListedPeersStayKnown`; names are only ever added.

**Node** (`NodeProofs`, `NodeAssumption`). What EventLoop assumes of FileGet, that a
request in progress ends once, is proved here from the invariants of the two parts.
`FGP` and `ELP` instantiate their proof modules, so that the lemmas about their
steps can be cited; `SameFileGet`, `SameSend`, `SamePoll` and the like identify the
steps of module Node with theirs. `NodeInv` is `FGP!SafeInv`, the types and
`MapsInv` of the loop, and `LoopInStep`: the requests in the loop's
`file_get_requests` are those that are `InProgress` in FileGet, under the same ids
and peers. Each kind of step of FileGet keeps, begins or ends what is in progress,
and the loop does the same in that step.

* `LoopAndFileGetAgree`: `LoopKnowsRequestsInProgress`.
* `NodeIsSafe`: `NodeNeverPanics`. A step of a node is a step or a stutter of
  each part, so their theorems carry over.

**Handler** (`HandlerProofs`; any numbers of requests and inbound substreams,
`HandlerAssumption`). `HandlerInv` has three parts. `TypeInv`: the types, and that no
entry is queued twice in `ready`. `GivenInv`: a request handed over is in one place,
no queue has two verdicts about it, and verdicts are about requests that were handed
over. `InboundInv`: what is known of a substream (`SubstreamInv`) - its entry stays
until its request is reported or its upgrade is gone, it is answered only after that
report, it has one verdict, and only a timeout can come before its request.

* `TypesHold`, `RequestsHaveOnePlace`, `HandlerKeepsSenders`: `TypeOK`,
  `GivenRequestsHaveOnePlace` and `WaitingUpgradesHaveASender`.
* `HandlerImplementsReports`: `Spec => ImplementsReports`, the refinement of
  `HandlerReports`. `Views` says when an id is in `Held`, `Open`, `Requested` and
  `Late`; a step that tells nothing leaves all four alone (`Invisible`); taking a
  request, listening, closing and the two ways of handing out an event are `Take`,
  `Listen`, `Close`, `Request` and the verdicts of `HandlerContract`. The guards of the
  latter hold because of `HandlerInv`: `x \in Requested` when it is answered, `~Told`
  when it is told.

**FileTransfer** (`FileTransferProofs`; any nodes, files, contents and transfers,
`TransferAssumption`). `TypeInv` says that the files of a transfer exist while it runs
and that what was read is what was written and what is under way.

* `PiecesHaveASource`: `EveryPieceHasASource`. `SourceInv` extends it to the pieces
  under way: they will be written at the place they were read from.
* `AnswersOverlay` and `UnfinishedOverlay`: `AnsweredGetsOverlay` and
  `UnfinishedGetsOverlay`. `OverlayInv` says how far an undisturbed transfer is
  (`Asked`, `Served`, `Copied`, `Ended`): its source stays as it was opened, the
  target is the part written so far over the old file, and the stream is the part of
  the source between the two. `OverlayMore` is the step that writes a piece.

**Startup** (`StartupProofs`, `StartupAssumption`): `CommandsHaveAPoint` and, for the
action property `PointIsKept`, `PointStays`, from `StartupInv`: what each phase has
behind it, and that a peer is chosen exactly in `"running"`.

**Framing** (`FramingProofs`; messages of any length, any limit, `FramingAssumption`):
`MessagesAreWhole`, from `FrameInv`: buffer and wire hold, one behind the other, the
beginning of the frame.

**CommandParse** (`CommandParseProofs`; lines of any length and any names of files,
`ParseAssumption`). No induction over the line is needed, because everything from_str
makes of it is a part of it: `Part(s, a, b)` is the line between two places, and
`EndsAt` and `StartsAt` say where a word or a name ends and where the blanks do. Such
places exist because a set of numbers has a least element. `Layout` gives the four
places of the first two words. `LineInv` says that a line is text, and that one made
for a file is `Asking` for it.

* `LinesParseAsDocumented`: `DocumentedLinesParse`. `FromStrIs` and `ParseGetFileIs` say
  what from_str makes of a line with a given layout; `RegisterAt`, `ListFilesAt` and
  the like say at which places the words and names are in a line that is a command
  written as documented, hence its layout (`WrittenIsParsed`).
* `ShownFilesCanBeFetched`: `ListedFilesCanBeFetched`. In the line `Asking` for a file
  the user is the token behind `get@`, and the name goes on to the first blank or
  arrow (`AskingParses`), so it is whole just when there is none; it is the file's own
  just when nothing of it was replaced (`AskingFinds`).
* `RegisteredUsersAreFound`: `RegisteredUsersCanBeAsked`. The name in a Register is a
  part of the line without blanks (`RegisteredAre`), so a line made of it is one word
  (`OneWord`), and `get@` cuts it at its first arrow (`UserAsked`).

Not proved, only model-checked: the liveness properties `EveryCommandFinishes`,
`ArrivedRequestsAreReported`, `GivenRequestsAreTold`, `IdleHandlerLetsGo`,
`GetsWaitOnlyAfterFailure`, `StartupEnds` and `ReadersReturn`: fairness is out of the
prover's reach.

The refuted properties are false, so there is nothing to prove.

## 5. Plan

Done: the modules above with their runs, and 29 theorems, one for every safety property
of the passing runs. What is left of the properties is the liveness that only TLC checks.

Not modelled:

* Several nodes at one rendezvous point, and registrations that expire there:
  libp2p's server is not part of the repository, and `Found` of EventLoop already
  lets every discovery return any peer for any name.
* `add_address` and `remove_address` of FileGet: nothing reads their map.
* The glue of the composed behaviour, error types, `Debug` output, the command
  line, the choice of the key pair, generated code and build scripts: no state and
  no decisions of the node's own.
* Errors of stdin, which end `main`.
* Whether a registration succeeds: it is only logged, after `register` was answered.
