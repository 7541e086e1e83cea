--------------------------- MODULE StartupProofs ---------------------------
(***************************************************************************)
(* Proofs about Startup, for any other peers and any number of lost        *)
(* connections: a node that takes commands has a peer to send them to, and *)
(* keeps it.                                                               *)
(***************************************************************************)
EXTENDS Startup, TLAPS

Links == {"none", "connected", "identified", "dead"}

\* What each phase of main has behind it: the listener it waited for, and a
\* swarm that was not polled before the dial.
PhaseInv ==
    /\ link \in [Peers -> Links]
    /\ phase \in {"dial", "connecting", "running"} => listener = "open"
    /\ phase \notin {"connecting", "running"} =>
          \A p \in Peers : link[p] = "none"
    /\ phase \in Errors => listener = "gone"

\* The peer is known exactly in a node that runs.
PointInv ==
    /\ phase = "running" => rendezvous_point_peer_id \in Peers
    /\ phase # "running" => rendezvous_point_peer_id = None

StartupInv == PhaseInv /\ PointInv

-----------------------------------------------------------------------------
\* main begins without a listener, a peer or a link.
LEMMA StartupInitial == Init => StartupInv
BY DEF Init, StartupInv, PhaseInv, PointInv, Links, Errors

\* An error drops the swarm.
LEMMA StartupFail ==
    ASSUME StartupInv, NEW error \in Errors, Fail(error), phase # "running"
    PROVE  StartupInv'
BY DEF StartupInv, PhaseInv, PointInv, Links, Errors, Fail

\* start_listen moves main to the dial only with an open listener.
LEMMA StartupListen ==
    ASSUME StartupInv, StartListen
    PROVE  StartupInv'
<1>1. CASE ListenOn
  BY <1>1 DEF ListenOn, StartupInv, PhaseInv, PointInv, Errors
<1>2. CASE NewListenAddr
  BY <1>2 DEF NewListenAddr, StartupInv, PhaseInv, PointInv, Errors
<1>3. CASE ListenerError
  BY <1>3, StartupFail DEF ListenerError, Errors
<1>4. CASE ListenDelay
  BY <1>4, StartupFail DEF ListenDelay, Errors
<1> QED
  BY <1>1, <1>2, <1>3, <1>4 DEF StartListen

\* conntect_rendezvous reaches the commands only through an Identify.
LEMMA StartupConnect ==
    ASSUME StartupInv, DialPoint \/ ConnectDelay
    PROVE  StartupInv'
<1>1. CASE Fail("DialError") /\ phase = "dial"
  BY <1>1, StartupFail DEF Errors
<1>2. CASE DialPoint /\ ~Fail("DialError")
  BY <1>2 DEF DialPoint, StartupInv, PhaseInv, PointInv, Errors
<1>3. CASE ConnectDelay
  BY <1>3, StartupFail DEF ConnectDelay, AfterDelay, Errors
<1> QED
  BY <1>1, <1>2, <1>3 DEF DialPoint

\* The swarm changes links, and the first Identify starts the node.
LEMMA StartupSwarm ==
    ASSUME StartupInv, Swarm
    PROVE  StartupInv'
<1> USE DEF StartupInv, PhaseInv, PointInv, Links, SwarmPolled, mainVars
<1>1. CASE DialFails
  BY <1>1 DEF DialFails, Errors
<1>2. ASSUME NEW p \in Peers, Connect(p) PROVE StartupInv'
  BY <1>2 DEF Connect, Errors
<1>3. ASSUME NEW p \in Peers, Identify(p) PROVE StartupInv'
  BY <1>3 DEF Identify, Identified, Errors
<1>4. ASSUME NEW p \in Peers, Disconnect(p) PROVE StartupInv'
  BY <1>4 DEF Disconnect, Errors
<1>5. ASSUME NEW p \in Others, DiscardRequest(p) PROVE StartupInv'
  BY <1>5 DEF DiscardRequest, Errors, Peers
<1> QED
  BY <1>1, <1>2, <1>3, <1>4, <1>5 DEF Swarm

LEMMA StartupStep == StartupInv /\ [Next]_vars => StartupInv'
<1> SUFFICES ASSUME StartupInv, [Next]_vars PROVE StartupInv'
  OBVIOUS
<1>1. CASE UNCHANGED vars
  BY <1>1 DEF vars, StartupInv, PhaseInv, PointInv
<1> QED
  BY <1>1, StartupListen, StartupConnect, StartupSwarm DEF Next

LEMMA StartupInvariant == Spec => []StartupInv
BY StartupInitial, StartupStep, PTL DEF Spec

\* CommandsFindAPoint: a node that takes commands listens and knows a peer to
\* send them to, so the expects of register and ls_peers hold; one that
\* failed has dropped everything.
THEOREM CommandsHaveAPoint == Spec => []CommandsFindAPoint
<1>1. StartupInv => CommandsFindAPoint
  BY DEF StartupInv, PhaseInv, PointInv, CommandsFindAPoint, Errors
<1> QED
  BY <1>1, StartupInvariant, PTL

\* PointIsKept: rendezvous_point_peer_id is set once, by an Identify that
\* conntect_rendezvous sees, and by none that comes later.
THEOREM PointStays == Spec => PointIsKept
<1> DEFINE Kept ==
        rendezvous_point_peer_id # None =>
          rendezvous_point_peer_id' = rendezvous_point_peer_id
<1>1. StartupInv /\ [Next]_vars => [Kept]_vars
  <2> SUFFICES ASSUME StartupInv, Next,
                      rendezvous_point_peer_id' # rendezvous_point_peer_id
               PROVE  rendezvous_point_peer_id = None
    OBVIOUS
  <2>1. PICK p \in Peers : Identify(p)
    BY DEF Next, StartListen, ListenOn, NewListenAddr, ListenerError,
           ListenDelay, DialPoint, ConnectDelay, AfterDelay, Fail, Swarm,
           DialFails, Connect, Disconnect, DiscardRequest, mainVars
  <2>2. phase = "connecting"
    BY <2>1 DEF Identify
  <2> QED
    BY <2>2 DEF StartupInv, PointInv
<1>2. PointIsKept <=> [][Kept]_vars
  BY DEF PointIsKept
<1> QED
  BY <1>1, <1>2, StartupInvariant, PTL DEF Spec

=============================================================================
