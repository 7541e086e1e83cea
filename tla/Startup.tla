------------------------------ MODULE Startup ------------------------------
(***************************************************************************)
(* The start of a node: main, new_network and EventLoop::init              *)
(* (src/bin/file-sharing.rs, src/network/mod.rs) up to the first commands, *)
(* with the peers that connect meanwhile.                                  *)
(*                                                                         *)
(* start_listen and conntect_rendezvous each wait for one event of the     *)
(* swarm, for at most 3 seconds.  select! takes whichever branch is ready, *)
(* so the delay may win against an event that has already happened.  Every *)
(* other event is discarded, with what it carries.  The node listens while *)
(* it looks for the rendezvous point, so any peer may connect to it.       *)
(***************************************************************************)
EXTENDS Naturals

CONSTANTS
    Point,      \* the peer that rendezvous_point_address leads to
    Others,     \* other peers that may connect to this node
    None,       \* no peer
    MaxLosses   \* bound on the connections that are lost

ASSUME StartupAssumption ==
    /\ Point \notin Others
    /\ None \notin Others \cup {Point}
    /\ MaxLosses \in Nat

VARIABLES
    phase,      \* where main is: "listen", "listening", "dial", "connecting",
                \* "running", or the error that new_network returned
    rendezvous_point_peer_id,
    listener,   \* "none", "opening", "open", "gone"
    dialing,    \* the dial of rendezvous_point_address is under way
    link,       \* peer -> "none", "connected", "identified", or "dead" (the
                \* connection's task panicked)
    lost        \* number of connections lost so far

mainVars  == <<phase, rendezvous_point_peer_id>>
swarmVars == <<listener, dialing, link, lost>>

vars == <<phase, rendezvous_point_peer_id, listener, dialing, link, lost>>

Peers  == Others \cup {Point}
Errors == {"ListenError", "DialError", "RendezvousPointNotConnected"}

-----------------------------------------------------------------------------
(***************************************************************************)
(* start_listen.                                                           *)
(***************************************************************************)
\* An error of new_network ends main, and the swarm is dropped.
Fail(error) ==
    /\ phase' = error
    /\ listener' = "gone"
    /\ dialing' = FALSE
    /\ link' = [p \in Peers |-> "none"]
    /\ UNCHANGED <<rendezvous_point_peer_id, lost>>

\* listen_on, whose error is ignored.
ListenOn ==
    /\ phase = "listen"
    /\ phase' = "listening"
    /\ listener' \in {"opening", "gone"}
    /\ UNCHANGED <<rendezvous_point_peer_id, dialing, link, lost>>

NewListenAddr ==
    /\ phase = "listening"
    /\ listener = "opening"
    /\ listener' = "open"
    /\ phase' = "dial"
    /\ UNCHANGED <<rendezvous_point_peer_id, dialing, link, lost>>

ListenerError ==
    /\ phase = "listening"
    /\ listener = "opening"
    /\ Fail("ListenError")

\* Fault: the delay does not break the loop.
ListenDelayIgnored ==
    /\ phase = "listening"
    /\ UNCHANGED vars

\* listen_success is still false.
ListenDelay ==
    /\ phase = "listening"
    /\ Fail("ListenError")

-----------------------------------------------------------------------------
(***************************************************************************)
(* conntect_rendezvous.                                                    *)
(***************************************************************************)
DialPoint ==
    /\ phase = "dial"
    /\ \/ Fail("DialError")
       \/ /\ phase' = "connecting"
          /\ dialing' = TRUE
          /\ UNCHANGED <<rendezvous_point_peer_id, listener, link, lost>>

\* Identify::Received from peer p while the node connects.
Identified(p) ==
    /\ rendezvous_point_peer_id' = p
    /\ phase' = "running"

\* Fault: the result is not looked at.
AfterDelayAnyway ==
    /\ phase' = "running"
    /\ UNCHANGED <<rendezvous_point_peer_id, swarmVars>>

\* The delay breaks the loop, and rendezvous_point_peer_id is still None.
AfterDelay == Fail("RendezvousPointNotConnected")

ConnectDelay ==
    /\ phase = "connecting"
    /\ AfterDelay

-----------------------------------------------------------------------------
(***************************************************************************)
(* The swarm and the peers.                                                *)
(***************************************************************************)
SwarmPolled == phase \in {"connecting", "running"}

\* The dial succeeds or a peer connects: ConnectionEstablished is discarded.
Connect(p) ==
    /\ SwarmPolled
    /\ link[p] = "none"
    /\ IF p = Point THEN dialing ELSE listener = "open"
    /\ link' = [link EXCEPT ![p] = "connected"]
    /\ dialing' = (dialing /\ p # Point)
    /\ UNCHANGED <<mainVars, listener, lost>>

\* OutgoingConnectionError is discarded.
DialFails ==
    /\ SwarmPolled
    /\ dialing
    /\ dialing' = FALSE
    /\ UNCHANGED <<mainVars, listener, link, lost>>

\* Fault: a node that runs takes the id, too.
IdentifyAnyTime(p) ==
    /\ SwarmPolled
    /\ link[p] = "connected"
    /\ link' = [link EXCEPT ![p] = "identified"]
    /\ Identified(p)
    /\ UNCHANGED <<listener, dialing, lost>>

\* Identify::Received; handle_event ignores it.
Identify(p) ==
    /\ SwarmPolled
    /\ link[p] = "connected"
    /\ link' = [link EXCEPT ![p] = "identified"]
    /\ IF phase = "connecting"
       THEN Identified(p)
       ELSE UNCHANGED <<phase, rendezvous_point_peer_id>>
    /\ UNCHANGED <<listener, dialing, lost>>

\* A peer asks for a file while the node connects: RequestReceived is
\* discarded with its res_sender, and the upgrade that waits for it panics.
DiscardRequest(p) ==
    /\ phase = "connecting"
    /\ link[p] = "connected"
    /\ link' = [link EXCEPT ![p] = "dead"]
    /\ UNCHANGED <<mainVars, listener, dialing, lost>>

Disconnect(p) ==
    /\ SwarmPolled
    /\ lost < MaxLosses
    /\ link[p] # "none"
    /\ link' = [link EXCEPT ![p] = "none"]
    /\ lost' = lost + 1
    /\ UNCHANGED <<mainVars, listener, dialing>>

-----------------------------------------------------------------------------
Init ==
    /\ phase = "listen"
    /\ rendezvous_point_peer_id = None
    /\ listener = "none"
    /\ dialing = FALSE
    /\ link = [p \in Peers |-> "none"]
    /\ lost = 0

StartListen == ListenOn \/ NewListenAddr \/ ListenerError \/ ListenDelay

Swarm ==
    \/ DialFails
    \/ \E p \in Peers : Connect(p) \/ Identify(p) \/ Disconnect(p)
    \/ \E p \in Others : DiscardRequest(p)

Next ==
    \/ StartListen
    \/ DialPoint
    \/ ConnectDelay
    \/ Swarm

Spec == Init /\ [][Next]_vars

(***************************************************************************)
(* Fairness.  main runs until it has to wait, and a Delay of 3 seconds     *)
(* fires, however many events come first.  Nothing is assumed of peers.    *)
(***************************************************************************)
Fairness ==
    /\ WF_vars(ListenOn)
    /\ WF_vars(ListenDelay)
    /\ WF_vars(DialPoint)
    /\ WF_vars(ConnectDelay)

FairSpec == Spec /\ Fairness

-----------------------------------------------------------------------------
(***************************************************************************)
(* Properties.                                                             *)
(***************************************************************************)
\* A node that accepts commands knows a peer to send them to, one that has
\* identified itself while the node was listening: the expects of register
\* and ls_peers hold.  A node that does not is not left half started.
CommandsFindAPoint ==
    /\ phase = "running" => /\ rendezvous_point_peer_id \in Peers
                            /\ listener = "open"
    /\ phase \in Errors  => /\ rendezvous_point_peer_id = None
                            /\ listener = "gone"
                            /\ \A p \in Peers : link[p] = "none"

\* The peer that register and ls_peers are sent to, once known, stays the same
\* whichever peers identify themselves, come and go later.
PointIsKept ==
    [][rendezvous_point_peer_id # None =>
          rendezvous_point_peer_id' = rendezvous_point_peer_id]_vars

\* "Rendezvous peer_id": the peer id is that of the rendezvous point, which
\* the node has been told to dial.
PointIsTheRendezvousPoint == rendezvous_point_peer_id \in {None, Point}

\* main reaches its commands or reports an error, also when the listener, the
\* dial or the rendezvous point stays silent.
StartupEnds == <>(phase \in Errors \cup {"running"})

=============================================================================
