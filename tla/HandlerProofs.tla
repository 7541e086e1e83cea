--------------------------- MODULE HandlerProofs ---------------------------
(***************************************************************************)
(* Proofs about Handler, for any number of requests and of inbound         *)
(* substreams.                                                             *)
(***************************************************************************)
EXTENDS Handler, SequenceTheorems, WellFoundedInduction, TLAPS

-----------------------------------------------------------------------------
(***************************************************************************)
(* The entry poll_next takes.                                              *)
(***************************************************************************)

\* A set of numbers that is not empty has a least element.
LEMMA LeastNumber ==
    ASSUME NEW T, T \subseteq Nat, T # {}
    PROVE  /\ Min(T) \in T
           /\ \A y \in T : Min(T) <= y
<1> DEFINE R == OpToRel(<, Nat)
<1>1. IsWellFoundedOn(R, Nat)
  BY NatLessThanWellFounded
<1>2. \A x, y \in Nat : <<y, x>> \in R <=> y < x
  BY DEF OpToRel
<1> HIDE DEF R
<1>3. PICK x \in T : \A y \in T : ~ (<<y, x>> \in R)
  BY <1>1, WFMin
<1>4. ASSUME NEW y \in T PROVE x <= y
  <2>1. x \in Nat /\ y \in Nat
    OBVIOUS
  <2>2. ~ (y < x)
    BY <1>2, <1>3, <2>1
  <2> QED
    BY <2>1, <2>2
<1> QED
  BY <1>3, <1>4 DEF Min

\* It is the first of those that are resolved.
LEMMA TakenIsResolved ==
    ASSUME NEW S, ready \in Seq(S)
    PROVE  /\ Taken \in 0..Len(ready)
           /\ Taken # 0 => Taken \in DOMAIN ready /\ Resolved(ready[Taken])
<1> DEFINE I == {i \in 1..Len(ready) : Resolved(ready[i])}
<1>1. Taken = IF I # {} THEN Min(I) ELSE 0
  BY DEF Taken, SelectInSeq
<1>2. I \subseteq Nat /\ Len(ready) \in Nat /\ DOMAIN ready = 1..Len(ready)
  OBVIOUS
<1>3. CASE I = {}
  BY <1>1, <1>2, <1>3
<1>4. CASE I # {}
  <2>1. Min(I) \in I
    BY <1>2, <1>4, LeastNumber
  <2> QED
    BY <1>1, <1>2, <1>4, <2>1
<1> QED
  BY <1>3, <1>4

-----------------------------------------------------------------------------
(***************************************************************************)
(* Queues without repetitions.                                             *)
(***************************************************************************)

\* Putting an entry behind the others.
LEMMA QueueAppend ==
    ASSUME NEW S, NEW s \in Seq(S), IsInjective(s), NEW x \in S, x \notin ToSet(s)
    PROVE  /\ Append(s, x) \in Seq(S)
           /\ IsInjective(Append(s, x))
           /\ ToSet(Append(s, x)) = ToSet(s) \cup {x}
<1> DEFINE a == Append(s, x)
<1>1. /\ a \in Seq(S)
      /\ DOMAIN a = 1..(Len(s) + 1)
      /\ \A i \in 1..Len(s) : a[i] = s[i]
      /\ a[Len(s) + 1] = x
      /\ DOMAIN s = 1..Len(s)
      /\ Len(s) \in Nat
  BY AppendProperties
<1> HIDE DEF a
<1>2. \A i \in DOMAIN a : i \in DOMAIN s \/ i = Len(s) + 1
  BY <1>1
<1>3. Len(s) + 1 \in DOMAIN a /\ \A i \in DOMAIN s : i \in DOMAIN a
  BY <1>1
<1>4. ToSet(a) = ToSet(s) \cup {x}
  BY <1>1, <1>2, <1>3 DEF ToSet
<1>5. \A i \in DOMAIN s : s[i] # x
  BY DEF ToSet
<1>6. IsInjective(a)
  BY <1>1, <1>2, <1>5 DEF IsInjective
<1> QED
  BY <1>1, <1>4, <1>6 DEF a

\* Taking the first one.
LEMMA QueueTail ==
    ASSUME NEW S, NEW s \in Seq(S), IsInjective(s), s # <<>>
    PROVE  /\ Head(s) \in S
           /\ Head(s) \in ToSet(s)
           /\ Tail(s) \in Seq(S)
           /\ IsInjective(Tail(s))
           /\ ToSet(Tail(s)) = ToSet(s) \ {Head(s)}
<1> DEFINE t == Tail(s)
<1>1. /\ Head(s) = s[1]
      /\ t \in Seq(S)
      /\ Len(s) \in Nat \ {0}
      /\ DOMAIN s = 1..Len(s)
      /\ DOMAIN t = 1..(Len(s) - 1)
      /\ \A i \in 1..(Len(s) - 1) : t[i] = s[i + 1]
  BY HeadTailProperties
<1>2. 1 \in DOMAIN s /\ s[1] \in S
  BY <1>1, ElementOfSeq
<1> HIDE DEF t
<1>3. \A i \in DOMAIN t : i + 1 \in DOMAIN s /\ i + 1 # 1 /\ t[i] = s[i + 1]
  BY <1>1
<1>4. \A i \in DOMAIN s : i = 1 \/ (i - 1 \in DOMAIN t /\ t[i - 1] = s[i])
  <2>1. ASSUME NEW i \in DOMAIN s, i # 1 PROVE i - 1 \in DOMAIN t /\ (i - 1) + 1 = i
    BY <1>1, <2>1
  <2> QED
    BY <1>3, <2>1
<1>5. IsInjective(t)
  <2>1. ASSUME NEW i \in DOMAIN t, NEW j \in DOMAIN t, t[i] = t[j] PROVE i = j
    <3>1. i + 1 = j + 1
      BY <1>3, <2>1 DEF IsInjective
    <3> QED
      BY <1>1, <3>1
  <2> QED
    BY <2>1 DEF IsInjective
<1>6. ToSet(t) \subseteq ToSet(s) \ {Head(s)}
  BY <1>1, <1>2, <1>3 DEF ToSet, IsInjective
<1>7. ToSet(s) \ {Head(s)} \subseteq ToSet(t)
  BY <1>1, <1>4 DEF ToSet
<1> QED
  BY <1>1, <1>2, <1>5, <1>6, <1>7 DEF t, ToSet

\* Dropping the entries up to the one that is taken.
LEMMA QueueRest ==
    ASSUME NEW S, NEW s \in Seq(S), IsInjective(s), NEW k \in DOMAIN s
    PROVE  /\ s[k] \in S
           /\ SubSeq(s, k + 1, Len(s)) \in Seq(S \ {s[k]})
           /\ IsInjective(SubSeq(s, k + 1, Len(s)))
<1> DEFINE t == SubSeq(s, k + 1, Len(s))
<1>1. Len(s) \in Nat /\ DOMAIN s = 1..Len(s) /\ k \in 1..Len(s)
  OBVIOUS
<1>2. DOMAIN t = 1..(Len(s) - k) /\ \A j \in 1..(Len(s) - k) : t[j] = s[k + j]
  <2>1. /\ DOMAIN t = 1..(Len(s) - k)
        /\ \A j \in 1..(Len(s) - k) : t[j] = s[j + (k + 1) - 1]
    BY <1>1
  <2>2. \A j \in 1..(Len(s) - k) : j + (k + 1) - 1 = k + j
    BY <1>1
  <2> QED
    BY <2>1, <2>2
<1>3. t = [j \in 1..(Len(s) - k) |-> t[j]]
  BY <1>1
<1> HIDE DEF t
<1>4. \A j \in DOMAIN t : k + j \in DOMAIN s /\ k + j # k /\ t[j] = s[k + j]
  BY <1>1, <1>2
<1>5. ASSUME NEW j \in DOMAIN t PROVE t[j] \in S \ {s[k]}
  <2>1. k + j \in DOMAIN s /\ k + j # k /\ t[j] = s[k + j]
    BY <1>4
  <2>2. s[k + j] \in S
    BY <1>1, <2>1, ElementOfSeq
  <2>3. s[k + j] # s[k]
    BY <2>1 DEF IsInjective
  <2> QED
    BY <2>1, <2>2, <2>3
<1>6. Len(s) - k \in Nat
  BY <1>1
<1>7. t \in Seq(S \ {s[k]})
  <2> DEFINE n == Len(s) - k
             U == S \ {s[k]}
  <2>1. n \in Nat /\ t = [j \in 1..n |-> t[j]] /\ \A j \in 1..n : t[j] \in U
    BY <1>2, <1>3, <1>5, <1>6
  <2> HIDE DEF n, U
  <2>2. t \in Seq(U)
    BY <2>1
  <2> QED
    BY <2>2 DEF U
<1>8. IsInjective(t)
  <2>1. ASSUME NEW i \in DOMAIN t, NEW j \in DOMAIN t, t[i] = t[j] PROVE i = j
    <3>1. k + i = k + j
      BY <1>4, <2>1 DEF IsInjective
    <3> QED
      BY <1>1, <1>2, <3>1
  <2> QED
    BY <2>1 DEF IsInjective
<1> QED
  BY <1>7, <1>8, ElementOfSeq DEF t

-----------------------------------------------------------------------------
(***************************************************************************)
(* Types.                                                                  *)
(***************************************************************************)
VerdictEvents  == [event : OutboundVerdicts \cup InboundVerdicts, id : Nat]
ReportedEvents == [event : (OutboundVerdicts \cup InboundVerdicts) \cup {"Request"},
                   id : Nat]

\* No entry is queued twice, and the ids to come are new.
EntriesInv ==
    /\ IsInjective(ready)
    /\ \A r \in inbound : r < next_inbound_id

TypeInv == TypeOK /\ emitted \in Seq(ReportedEvents) /\ EntriesInv

\* An event as the handler keeps it.
LEMMA EventTypes ==
    ASSUME NEW r \in Nat, NEW name
    PROVE  /\ Event(name, r).event = name
           /\ Event(name, r).id = r
           /\ name \in OutboundVerdicts \cup InboundVerdicts =>
                 Event(name, r) \in VerdictEvents
           /\ Event("Request", r) \in ReportedEvents
BY DEF Event, VerdictEvents, ReportedEvents

\* Ids are numbers.
LEMMA IdsAreNat == RequestIds \subseteq Nat /\ InboundIds \subseteq Nat
BY HandlerAssumption DEF RequestIds, InboundIds

\* A oneshot resolves.
LEMMA ResolveTypes ==
    ASSUME TypeInv, NEW r \in InboundIds,
           Resolve(r) \/ UNCHANGED <<ready, woken>>
    PROVE  /\ ready' \in Seq(inbound)
           /\ IsInjective(ready')
           /\ woken' \in BOOLEAN
<1>1. /\ ready \in Seq(inbound)
      /\ IsInjective(ready)
      /\ woken \in BOOLEAN
  BY DEF TypeInv, TypeOK, EntriesInv
<1>2. CASE UNCHANGED <<ready, woken>>
  BY <1>1, <1>2
<1>3. CASE r \in inbound /\ r \notin ToSet(ready) /\ ready' = Append(ready, r) /\ woken' = TRUE
  BY <1>1, <1>3, QueueAppend
<1> QED
  BY <1>2, <1>3 DEF Resolve

\* An upgrade ends with an event or an error.
LEMMA QueueTypes ==
    ASSUME TypeInv, NEW r \in Nat,
           \/ \E name \in OutboundVerdicts \cup InboundVerdicts : Queue(Event(name, r))
           \/ Fail
    PROVE  /\ pending_events' \in Seq(VerdictEvents)
           /\ pending_error' \in BOOLEAN
           /\ task' = "poll"
<1>1. pending_events \in Seq(VerdictEvents) /\ pending_error \in BOOLEAN
  BY DEF TypeInv, TypeOK, VerdictEvents
<1>2. CASE Fail
  BY <1>1, <1>2 DEF Fail
<1>3. ASSUME NEW name \in OutboundVerdicts \cup InboundVerdicts, Queue(Event(name, r))
      PROVE  /\ pending_events' \in Seq(VerdictEvents)
             /\ pending_error' \in BOOLEAN
             /\ task' = "poll"
  <2>1. Event(name, r) \in VerdictEvents
    BY <1>3, EventTypes
  <2> QED
    BY <1>1, <1>3, <2>1, AppendProperties DEF Queue
<1> QED
  BY <1>2, <1>3

\* The types hold at the start.
LEMMA TypeInit == Init => TypeInv
<1> SUFFICES ASSUME Init PROVE TypeInv
  OBVIOUS
<1>1. TypeOK
  <2>1. next_inbound_id \in 1..(MaxInbound + 1) /\ given \in 0..MaxRequests
    BY HandlerAssumption DEF Init
  <2>2. /\ stage \in [InboundIds -> {"none", "receiving", "waiting", "foreign",
                                     "finished", "failed"}]
        /\ response \in [InboundIds -> {"none", "held", "answered", "dropped"}]
    BY DEF Init
  <2>3. \A S : <<>> \in Seq(S)
    OBVIOUS
  <2>4. /\ pending_events \in Seq(VerdictEvents)
        /\ ready \in Seq(inbound)
        /\ outbound \in Seq(RequestIds)
    BY <2>3 DEF Init
  <2> QED
    BY <2>1, <2>2, <2>4 DEF Init, TypeOK, VerdictEvents
<1>2. EntriesInv
  BY DEF Init, EntriesInv, IsInjective
<1> QED
  BY <1>1, <1>2 DEF Init, TypeInv

\* Every poll keeps them.
LEMMA PollTypes ==
    ASSUME TypeInv, Poll
    PROVE  TypeInv'
<1> USE DEF handlerVars, entryVars, taskVars, streamVars
<1>1. TypeOK /\ emitted \in Seq(ReportedEvents) /\ EntriesInv
  BY DEF TypeInv
<1>2. CASE PollClose
  BY <1>1, <1>2 DEF PollClose, TypeInv, TypeOK, EntriesInv
<1>3. CASE PollEvent
  <2>1. pending_events \in Seq(VerdictEvents) /\ pending_events # <<>>
    BY <1>1, <1>3 DEF PollEvent, TypeOK, VerdictEvents
  <2>2. Head(pending_events) \in VerdictEvents /\ pending_events' \in Seq(VerdictEvents)
    BY <1>3, <2>1, HeadTailProperties DEF PollEvent
  <2>3. Head(pending_events) \in ReportedEvents
    BY <2>2 DEF VerdictEvents, ReportedEvents
  <2>4. emitted' \in Seq(ReportedEvents)
    BY <1>1, <1>3, <2>3, AppendProperties DEF PollEvent, Emit
  <2> QED
    BY <1>1, <1>3, <2>2, <2>4 DEF PollEvent, TypeInv, TypeOK, EntriesInv, VerdictEvents
<1>4. CASE PollOutbound
  <2>1. outbound \in Seq(RequestIds) /\ outbound # <<>>
    BY <1>1, <1>4 DEF PollOutbound, TypeOK
  <2>2. Head(outbound) \in RequestIds /\ outbound' \in Seq(RequestIds)
    BY <1>4, <2>1, HeadTailProperties DEF PollOutbound
  <2> QED
    BY <1>1, <1>4, <2>2 DEF PollOutbound, TypeInv, TypeOK, EntriesInv
<1>5. ready \in Seq(inbound) /\ IsInjective(ready)
  BY <1>1 DEF TypeOK, EntriesInv
<1>6. Taken # 0 => /\ Taken \in DOMAIN ready
                   /\ ready[Taken] \in inbound
                   /\ Passed(Taken) \in Seq(inbound \ {ready[Taken]})
                   /\ IsInjective(Passed(Taken))
  <2>1. ASSUME Taken # 0 PROVE Taken \in DOMAIN ready
    BY <1>5, <2>1, TakenIsResolved
  <2> QED
    BY <1>5, <2>1, QueueRest DEF Passed
<1>7. CASE PollRequest
  <2> DEFINE r == ready[Taken]
  <2>1. /\ r \in InboundIds
        /\ inbound' = inbound \ {r}
        /\ ready' \in Seq(inbound')
        /\ IsInjective(ready')
    BY <1>1, <1>6, <1>7 DEF PollRequest, TypeOK
  <2>2. emitted' \in Seq(ReportedEvents)
    <3>1. Event("Request", r) \in ReportedEvents
      BY <2>1, IdsAreNat, EventTypes
    <3> QED
      BY <1>1, <1>7, <3>1, AppendProperties DEF PollRequest, Emit
  <2>3. response' = [response EXCEPT ![r] = "held"]
    BY <1>7 DEF PollRequest, HandedOut
  <2> HIDE DEF r
  <2>4. response' \in [InboundIds -> {"none", "held", "answered", "dropped"}]
    BY <1>1, <2>1, <2>3 DEF TypeOK
  <2> QED
    BY <1>1, <1>7, <2>1, <2>2, <2>4 DEF PollRequest, TypeInv, TypeOK, EntriesInv
<1>8. CASE PollPending
  <2>1. inbound' \subseteq inbound /\ ready' \in Seq(inbound') /\ IsInjective(ready')
    <3>1. CASE Taken = 0
      BY <1>8, <3>1 DEF PollPending, AfterCanceled, Passed, IsInjective
    <3>2. CASE Taken # 0
      BY <1>6, <1>8, <3>2 DEF PollPending, AfterCanceled
    <3> QED
      BY <3>1, <3>2
  <2>2. keep_alive' \in {"Yes", "Until"}
    BY <1>1, <1>8 DEF PollPending, TypeOK
  <2> QED
    BY <1>1, <1>8, <2>1, <2>2 DEF PollPending, TypeInv, TypeOK, EntriesInv
<1> QED
  BY <1>2, <1>3, <1>4, <1>7, <1>8 DEF Poll

\* Every step keeps the types.
LEMMA TypeStep == TypeInv /\ [Next]_vars => TypeInv'
<1> SUFFICES ASSUME TypeInv, [Next]_vars PROVE TypeInv'
  OBVIOUS
<1> USE DEF handlerVars, entryVars, taskVars, streamVars
<1>1. TypeOK /\ emitted \in Seq(ReportedEvents) /\ EntriesInv
  BY DEF TypeInv
<1>2. CASE OnBehaviourEvent
  <2>1. given' \in 0..MaxRequests /\ given + 1 \in RequestIds
    BY <1>1, <1>2, HandlerAssumption DEF OnBehaviourEvent, TypeOK, RequestIds
  <2>2. outbound' \in Seq(RequestIds)
    BY <1>1, <1>2, <2>1, AppendProperties DEF OnBehaviourEvent, TypeOK
  <2> QED
    BY <1>1, <1>2, <2>1, <2>2 DEF OnBehaviourEvent, TypeInv, TypeOK, EntriesInv
<1>3. CASE ListenProtocol
  <2> DEFINE r == next_inbound_id
             S == inbound \cup {r}
  <2>1. /\ r \in InboundIds
        /\ inbound' = S
        /\ ready' = Append(ready, r)
        /\ next_inbound_id' = r + 1
        /\ stage' = [stage EXCEPT ![r] = "receiving"]
    BY <1>3 DEF ListenProtocol
  <2>2. next_inbound_id' \in 1..(MaxInbound + 1)
    BY <2>1, HandlerAssumption DEF InboundIds
  <2>3. \A i \in S : i < r + 1
    BY <1>1, <2>1, IdsAreNat DEF TypeOK, EntriesInv
  <2>4. stage' \in [InboundIds -> {"none", "receiving", "waiting", "foreign",
                                   "finished", "failed"}]
    BY <1>1, <2>1 DEF TypeOK
  <2>5. r \notin inbound
    BY <1>1, <2>1, IdsAreNat DEF EntriesInv
  <2>6. S \subseteq InboundIds /\ r \in S
    BY <1>1, <2>1 DEF TypeOK
  <2>7. ready \in Seq(S) /\ IsInjective(ready) /\ r \notin ToSet(ready)
    <3>1. ready \in Seq(inbound) /\ IsInjective(ready)
      BY <1>1 DEF TypeOK, EntriesInv
    <3>2. \A i \in DOMAIN ready : ready[i] \in inbound
      BY <3>1
    <3> QED
      BY <2>5, <3>1, <3>2 DEF ToSet
  <2> HIDE DEF r, S
  <2>8. ready' \in Seq(inbound') /\ IsInjective(ready')
    BY <2>1, <2>6, <2>7, QueueAppend
  <2> QED
    BY <1>1, <1>3, <2>1, <2>2, <2>3, <2>4, <2>6, <2>8
    DEF ListenProtocol, TypeInv, TypeOK, EntriesInv
<1>4. ASSUME NEW r \in RequestIds, EndOutbound(r) PROVE TypeInv'
  <2>1. r \in Nat
    BY <1>4, IdsAreNat
  <2>2. /\ pending_events' \in Seq(VerdictEvents)
        /\ pending_error' \in BOOLEAN
        /\ task' = "poll"
    BY <1>4, <2>1, QueueTypes DEF EndOutbound, OutboundEnds, OutboundVerdicts
  <2> QED
    BY <1>1, <1>4, <2>2 DEF EndOutbound, TypeInv, TypeOK, EntriesInv, VerdictEvents
<1>5. ASSUME NEW r \in InboundIds, FinishInbound(r) PROVE TypeInv'
  <2>1. r \in Nat
    BY <1>5, IdsAreNat
  <2>2. /\ pending_events' \in Seq(VerdictEvents)
        /\ pending_error' \in BOOLEAN
        /\ task' = "poll"
    BY <1>5, <2>1, QueueTypes DEF FinishInbound, InboundVerdicts
  <2> QED
    BY <1>1, <1>5, <2>2 DEF FinishInbound, TypeInv, TypeOK, EntriesInv, VerdictEvents
<1>6. ASSUME NEW r \in InboundIds, FinishForeign(r) PROVE TypeInv'
  BY <1>1, <1>6 DEF FinishForeign, TypeInv, TypeOK, EntriesInv
<1>7. ASSUME NEW r \in InboundIds, FailInbound(r) PROVE TypeInv'
  <2>1. r \in Nat
    BY <1>7, IdsAreNat
  <2>2. /\ pending_events' \in Seq(VerdictEvents)
        /\ pending_error' \in BOOLEAN
        /\ task' = "poll"
    BY <1>7, <2>1, QueueTypes DEF FailInbound, InboundVerdicts
  <2>3. ready' \in Seq(inbound) /\ IsInjective(ready') /\ woken' \in BOOLEAN
    BY <1>7, ResolveTypes DEF FailInbound
  <2>4. stage' \in [InboundIds -> {"none", "receiving", "waiting", "foreign",
                                   "finished", "failed"}]
    BY <1>1, <1>7 DEF FailInbound, Dropped, TypeOK
  <2> QED
    BY <1>1, <1>7, <2>2, <2>3, <2>4
    DEF FailInbound, TypeInv, TypeOK, EntriesInv, VerdictEvents
<1>8. ASSUME NEW r \in InboundIds, NegotiateOther(r) \/ ReceiveMessage(r) PROVE TypeInv'
  <2>1. ready' \in Seq(inbound) /\ IsInjective(ready') /\ woken' \in BOOLEAN
    BY <1>8, ResolveTypes DEF NegotiateOther, ReceiveMessage
  <2>2. stage' \in [InboundIds -> {"none", "receiving", "waiting", "foreign",
                                   "finished", "failed"}]
    BY <1>1, <1>8 DEF NegotiateOther, ReceiveMessage, TypeOK
  <2> QED
    BY <1>1, <1>8, <2>1, <2>2
    DEF NegotiateOther, ReceiveMessage, TypeInv, TypeOK, EntriesInv
<1>9. ASSUME NEW r \in InboundIds, ExpectSender(r) PROVE TypeInv'
  BY <1>1, <1>9 DEF ExpectSender, TypeInv, TypeOK, EntriesInv
<1>10. CASE IdleTimeout \/ CloseConnection
  BY <1>1, <1>10 DEF IdleTimeout, CloseConnection, TypeInv, TypeOK, EntriesInv
<1>11. CASE Sleep \/ Wake
  BY <1>1, <1>11 DEF Sleep, Wake, TypeInv, TypeOK, EntriesInv
<1>12. ASSUME NEW r \in InboundIds, AnswerRequest(r) \/ DropResponse(r) PROVE TypeInv'
  <2>1. PICK how \in {"answered", "dropped"} : Settle(r, how)
    BY <1>12 DEF AnswerRequest, DropResponse
  <2> QED
    BY <1>1, <1>12, <2>1 DEF Settle, TypeInv, TypeOK, EntriesInv
<1>13. CASE UNCHANGED vars
  BY <1>1, <1>13 DEF vars, TypeInv, TypeOK, EntriesInv
<1> QED
  BY <1>2, <1>3, <1>4, <1>5, <1>6, <1>7, <1>8, <1>9, <1>10, <1>11, <1>12, <1>13,
     PollTypes
  DEF Next, OnConnectionEvent, Upgrades, Application

\* The types hold in every reachable state.
LEMMA TypeInvariant == Spec => []TypeInv
BY TypeInit, TypeStep, PTL DEF Spec

\* Every field of the handler and of its connection has its type: the queue of
\* entries holds entries of `inbound' only, however entries resolve, are
\* canceled and are taken out.
THEOREM TypesHold == Spec => []TypeOK
<1>1. TypeInv => TypeOK
  BY DEF TypeInv
<1> QED
  BY <1>1, TypeInvariant, PTL

-----------------------------------------------------------------------------
(***************************************************************************)
(* What is known of the events that are queued and of those handed out.    *)
(***************************************************************************)

\* At most one of the events `names' in s is about any one id.
OneEach(s, names) ==
    \A i, j \in DOMAIN s :
        (/\ s[i].event \in names
         /\ s[j].event \in names
         /\ s[i].id = s[j].id) => i = j

\* The events `names' in s are about members of S.
About(s, names, S) ==
    \A i \in DOMAIN s : s[i].event \in names => s[i].id \in S

Queued(names, r) == Tells(pending_events, names, r)

\* A request handed over is in one of the four places, unless it failed with
\* an error.
PlaceInv(r) ==
    /\ r \in ToSet(outbound) => r \notin active
    /\ r \in ToSet(outbound) \cup active =>
          ~ Queued(OutboundVerdicts, r) /\ ~ Told(OutboundVerdicts, r)
    /\ Queued(OutboundVerdicts, r) => ~ Told(OutboundVerdicts, r)
    /\ \/ r \in ToSet(outbound) \cup active
       \/ Queued(OutboundVerdicts, r)
       \/ Told(OutboundVerdicts, r)
       \/ Closing

GivenInv ==
    /\ IsInjective(outbound)
    /\ ToSet(outbound) \cup active \subseteq 1..given
    /\ OneEach(pending_events, OutboundVerdicts)
    /\ OneEach(emitted, OutboundVerdicts)
    /\ About(pending_events, OutboundVerdicts, 1..given)
    /\ About(emitted, OutboundVerdicts, 1..given)
    /\ \A r \in 1..given : PlaceInv(r)

\* A substream ends once; its entry stays until its request is reported or
\* its upgrade is gone; it is answered only after that report, and only a
\* timeout can overtake it.
SubstreamInv(r) ==
    /\ stage[r] # "none" => r < next_inbound_id
    /\ Told({"Request"}, r) => stage[r] # "none" /\ r \notin inbound
    /\ stage[r] \in {"receiving", "waiting"} => r \in inbound \/ response[r] # "none"
    /\ response[r] # "none" => Told({"Request"}, r)
    /\ Queued(InboundVerdicts, r) \/ Told(InboundVerdicts, r) =>
          stage[r] \in {"finished", "failed"}
    /\ Queued(InboundVerdicts, r) => ~ Told(InboundVerdicts, r)
    /\ Queued({"ResponseSent", "ResponseOmission"}, r) => Told({"Request"}, r)
    /\ r \in inbound /\ Arrived(r) =>
          /\ ~ Queued(InboundVerdicts \ {"InboundTimeout"}, r)
          /\ ~ Told(InboundVerdicts \ {"InboundTimeout"}, r)

InboundInv ==
    /\ OneEach(pending_events, InboundVerdicts)
    /\ About(pending_events, InboundVerdicts, InboundIds)
    /\ About(emitted, InboundVerdicts \cup {"Request"}, InboundIds)
    /\ \A r \in InboundIds : SubstreamInv(r)

HandlerInv == TypeInv /\ GivenInv /\ InboundInv

\* An event is put behind the others.
LEMMA EventAppended ==
    ASSUME NEW E, NEW s \in Seq(E), NEW e \in E, NEW names
    PROVE  /\ \A r : Tells(Append(s, e), names, r) <=>
                 Tells(s, names, r) \/ (e.event \in names /\ e.id = r)
           /\ \A S : About(s, names, S) /\ (e.event \in names => e.id \in S)
                        => About(Append(s, e), names, S)
           /\ OneEach(s, names) /\ (e.event \in names => ~ Tells(s, names, e.id))
                 => OneEach(Append(s, e), names)
<1> DEFINE a == Append(s, e)
           n == Len(s) + 1
<1>1. /\ DOMAIN a = 1..n
      /\ \A i \in 1..Len(s) : a[i] = s[i]
      /\ a[n] = e
      /\ DOMAIN s = 1..Len(s)
      /\ Len(s) \in Nat
  BY AppendProperties
<1>2. /\ n \in DOMAIN a
      /\ n \notin DOMAIN s
      /\ a[n] = e
      /\ \A i \in DOMAIN s : i \in DOMAIN a /\ a[i] = s[i]
      /\ \A i \in DOMAIN a : i \in DOMAIN s \/ i = n
  BY <1>1
<1> HIDE DEF a, n
<1>3. ASSUME NEW r
      PROVE  Tells(a, names, r) <=> Tells(s, names, r) \/ (e.event \in names /\ e.id = r)
  BY <1>2 DEF Tells
<1>4. ASSUME NEW S, About(s, names, S), e.event \in names => e.id \in S
      PROVE  About(a, names, S)
  BY <1>2, <1>4 DEF About
<1>5. ASSUME OneEach(s, names), e.event \in names => ~ Tells(s, names, e.id)
      PROVE  OneEach(a, names)
  BY <1>2, <1>5 DEF OneEach, Tells
<1> QED
  BY <1>3, <1>4, <1>5 DEF a

\* The first event is taken.
LEMMA EventTaken ==
    ASSUME NEW E, NEW s \in Seq(E), s # <<>>, NEW names
    PROVE  /\ \A r : Tells(s, names, r) <=>
                 \/ Tells(Tail(s), names, r)
                 \/ Head(s).event \in names /\ Head(s).id = r
           /\ \A S : About(s, names, S) =>
                 /\ About(Tail(s), names, S)
                 /\ Head(s).event \in names => Head(s).id \in S
           /\ OneEach(s, names) =>
                 /\ OneEach(Tail(s), names)
                 /\ Head(s).event \in names => ~ Tells(Tail(s), names, Head(s).id)
<1> DEFINE t == Tail(s)
<1>1. /\ Head(s) = s[1]
      /\ Len(s) \in Nat \ {0}
      /\ DOMAIN s = 1..Len(s)
      /\ DOMAIN t = 1..(Len(s) - 1)
      /\ \A i \in 1..(Len(s) - 1) : t[i] = s[i + 1]
  BY HeadTailProperties
<1> HIDE DEF t
<1>2. 1 \in DOMAIN s
  BY <1>1
<1>3. \A i \in DOMAIN t : i + 1 \in DOMAIN s /\ i + 1 # 1 /\ t[i] = s[i + 1]
  BY <1>1
<1>4. \A i \in DOMAIN s : i = 1 \/ (i - 1 \in DOMAIN t /\ t[i - 1] = s[i])
  <2>1. ASSUME NEW i \in DOMAIN s, i # 1 PROVE i - 1 \in DOMAIN t /\ (i - 1) + 1 = i
    BY <1>1, <2>1
  <2> QED
    BY <1>3, <2>1
<1>5. ASSUME NEW r
      PROVE  Tells(s, names, r) <=>
                 Tells(t, names, r) \/ (Head(s).event \in names /\ Head(s).id = r)
  <2>1. ASSUME Tells(s, names, r)
        PROVE  Tells(t, names, r) \/ (Head(s).event \in names /\ Head(s).id = r)
    BY <1>1, <1>4, <2>1 DEF Tells
  <2>2. ASSUME Tells(t, names, r) PROVE Tells(s, names, r)
    BY <1>3, <2>2 DEF Tells
  <2>3. ASSUME Head(s).event \in names, Head(s).id = r PROVE Tells(s, names, r)
    BY <1>1, <1>2, <2>3 DEF Tells
  <2> QED
    BY <2>1, <2>2, <2>3
<1>6. ASSUME NEW S, About(s, names, S)
      PROVE  About(t, names, S) /\ (Head(s).event \in names => Head(s).id \in S)
  BY <1>1, <1>2, <1>3, <1>6 DEF About
<1>7. ASSUME OneEach(s, names)
      PROVE  /\ OneEach(t, names)
             /\ Head(s).event \in names => ~ Tells(t, names, Head(s).id)
  <2>1. ASSUME NEW i \in DOMAIN t, NEW j \in DOMAIN t,
               t[i].event \in names, t[j].event \in names, t[i].id = t[j].id
        PROVE  i = j
    <3>1. i + 1 = j + 1
      BY <1>3, <1>7, <2>1 DEF OneEach
    <3> QED
      BY <1>1, <3>1
  <2>2. ASSUME Head(s).event \in names, NEW i \in DOMAIN t,
               t[i].event \in names, t[i].id = Head(s).id
        PROVE  FALSE
    BY <1>1, <1>2, <1>3, <1>7, <2>2 DEF OneEach
  <2> QED
    BY <2>1, <2>2 DEF OneEach, Tells
<1> QED
  BY <1>5, <1>6, <1>7 DEF t

\* Events are about the ids they are said to be about.
LEMMA ToldIsAbout ==
    ASSUME NEW s, NEW names, NEW S, About(s, names, S), NEW r, Tells(s, names, r)
    PROVE  r \in S
BY DEF About, Tells

\* Among fewer names.
LEMMA ToldOfFewer ==
    ASSUME NEW s, NEW names, NEW fewer, fewer \subseteq names, NEW r,
           Tells(s, fewer, r)
    PROVE  Tells(s, names, r)
BY DEF Tells

-----------------------------------------------------------------------------
(***************************************************************************)
(* Steps that queue or hand out no event of the given names.               *)
(***************************************************************************)
NoneOf(names) ==
    /\ \/ pending_events' = pending_events
       \/ \E e \in VerdictEvents : /\ e.event \notin names
                                   /\ pending_events' = Append(pending_events, e)
    /\ \/ emitted' = emitted
       \/ \E e \in ReportedEvents : /\ e.event \notin names
                                    /\ emitted' = Append(emitted, e)

\* They change nothing about these events.
LEMMA NoneOfKeeps ==
    ASSUME TypeInv, NEW names, NoneOf(names)
    PROVE  /\ \A r : Queued(names, r)' <=> Queued(names, r)
           /\ \A r : Told(names, r)' <=> Told(names, r)
           /\ OneEach(pending_events, names) => OneEach(pending_events', names)
           /\ OneEach(emitted, names) => OneEach(emitted', names)
           /\ \A S : About(pending_events, names, S) => About(pending_events', names, S)
           /\ \A S : About(emitted, names, S) => About(emitted', names, S)
<1>1. pending_events \in Seq(VerdictEvents) /\ emitted \in Seq(ReportedEvents)
  BY DEF TypeInv, TypeOK, VerdictEvents
<1>2. /\ \A r : Tells(pending_events', names, r) <=> Tells(pending_events, names, r)
      /\ OneEach(pending_events, names) => OneEach(pending_events', names)
      /\ \A S : About(pending_events, names, S) => About(pending_events', names, S)
  <2>1. CASE pending_events' = pending_events
    BY <2>1
  <2>2. ASSUME NEW e \in VerdictEvents, e.event \notin names,
               pending_events' = Append(pending_events, e)
        PROVE  /\ \A r : Tells(pending_events', names, r) <=> Tells(pending_events, names, r)
               /\ OneEach(pending_events, names) => OneEach(pending_events', names)
               /\ \A S : About(pending_events, names, S) => About(pending_events', names, S)
    BY <1>1, <2>2, EventAppended
  <2> QED
    BY <2>1, <2>2 DEF NoneOf
<1>3. /\ \A r : Tells(emitted', names, r) <=> Tells(emitted, names, r)
      /\ OneEach(emitted, names) => OneEach(emitted', names)
      /\ \A S : About(emitted, names, S) => About(emitted', names, S)
  <2>1. CASE emitted' = emitted
    BY <2>1
  <2>2. ASSUME NEW e \in ReportedEvents, e.event \notin names,
               emitted' = Append(emitted, e)
        PROVE  /\ \A r : Tells(emitted', names, r) <=> Tells(emitted, names, r)
               /\ OneEach(emitted, names) => OneEach(emitted', names)
               /\ \A S : About(emitted, names, S) => About(emitted', names, S)
    BY <1>1, <2>2, EventAppended
  <2> QED
    BY <2>1, <2>2 DEF NoneOf
<1> QED
  BY <1>2, <1>3 DEF Queued, Told

\* The names of events that are about our requests, and about the peer's.
LEMMA NamesDiffer ==
    /\ OutboundVerdicts \cap InboundVerdicts = {}
    /\ "Request" \notin OutboundVerdicts \cup InboundVerdicts
BY DEF OutboundVerdicts, InboundVerdicts

\* An upgrade of one kind ends with an event of its kind, or an error.
LEMMA EndsWith ==
    ASSUME NEW r \in Nat, NEW kind \in {OutboundVerdicts, InboundVerdicts},
           NEW names, kind \cap names = {}, UNCHANGED emitted,
           \/ \E name \in kind : Queue(Event(name, r))
           \/ Fail
    PROVE  NoneOf(names) /\ (pending_error => pending_error')
<1>1. CASE Fail
  BY <1>1 DEF Fail, NoneOf
<1>2. ASSUME NEW name \in kind, Queue(Event(name, r))
      PROVE  NoneOf(names) /\ (pending_error => pending_error')
  <2>1. Event(name, r) \in VerdictEvents /\ Event(name, r).event \notin names
    BY EventTypes
  <2> QED
    BY <1>2, <2>1 DEF Queue, NoneOf
<1> QED
  BY <1>1, <1>2

-----------------------------------------------------------------------------
(***************************************************************************)
(* Requests handed over.                                                   *)
(***************************************************************************)

\* A step that concerns no request handed over.
LEMMA GivenStill ==
    ASSUME TypeInv, GivenInv, UNCHANGED <<outbound, active, given>>,
           NoneOf(OutboundVerdicts), Closing => Closing'
    PROVE  GivenInv'
<1>1. \A r \in 1..given : PlaceInv(r)'
  <2>1. \A r : /\ Queued(OutboundVerdicts, r)' <=> Queued(OutboundVerdicts, r)
               /\ Told(OutboundVerdicts, r)' <=> Told(OutboundVerdicts, r)
    BY NoneOfKeeps
  <2> QED
    BY <2>1 DEF GivenInv, PlaceInv
<1>2. /\ OneEach(pending_events', OutboundVerdicts)
      /\ OneEach(emitted', OutboundVerdicts)
      /\ About(pending_events', OutboundVerdicts, 1..given)
      /\ About(emitted', OutboundVerdicts, 1..given)
  BY NoneOfKeeps DEF GivenInv
<1> QED
  BY <1>1, <1>2 DEF GivenInv

\* An event is handed out.
LEMMA GivenPollEvent ==
    ASSUME TypeInv, GivenInv, PollEvent
    PROVE  GivenInv'
<1> DEFINE V == OutboundVerdicts
<1>0. PICK e : e = Head(pending_events)
  OBVIOUS
<1>1. /\ pending_events \in Seq(VerdictEvents)
      /\ emitted \in Seq(ReportedEvents)
      /\ pending_events # <<>>
      /\ pending_events' = Tail(pending_events)
      /\ emitted' = Append(emitted, e)
      /\ UNCHANGED <<outbound, active, given, Closing>>
  BY <1>0 DEF TypeInv, TypeOK, VerdictEvents, PollEvent, Emit, streamVars, taskVars,
              Closing
<1>2. e \in ReportedEvents
  <2>1. e \in VerdictEvents
    BY <1>0, <1>1, HeadTailProperties
  <2> QED
    BY <2>1 DEF VerdictEvents, ReportedEvents
<1>3. /\ \A r : Queued(V, r) <=> Queued(V, r)' \/ (e.event \in V /\ e.id = r)
      /\ e.event \in V => ~ Queued(V, e.id)' /\ e.id \in 1..given
      /\ OneEach(pending_events', V)
      /\ About(pending_events', V, 1..given)
  BY <1>0, <1>1, EventTaken DEF GivenInv, Queued
<1>4. e.event \in V => ~ Told(V, e.id)
  BY <1>3 DEF GivenInv, PlaceInv
<1>5. /\ \A r : Told(V, r)' <=> Told(V, r) \/ (e.event \in V /\ e.id = r)
      /\ OneEach(emitted', V)
      /\ About(emitted', V, 1..given)
  BY <1>1, <1>2, <1>3, <1>4, EventAppended DEF GivenInv, Told
<1>6. ASSUME NEW r \in 1..given PROVE PlaceInv(r)'
  BY <1>1, <1>3, <1>4, <1>5 DEF GivenInv, PlaceInv
<1> QED
  BY <1>1, <1>3, <1>5, <1>6 DEF GivenInv

\* A request leaves the queue for a substream.
LEMMA GivenPollOutbound ==
    ASSUME TypeInv, GivenInv, PollOutbound
    PROVE  GivenInv'
<1> DEFINE x == Head(outbound)
<1>1. /\ outbound \in Seq(RequestIds)
      /\ IsInjective(outbound)
      /\ outbound # <<>>
  BY DEF TypeInv, TypeOK, GivenInv, PollOutbound
<1>2. /\ outbound' = Tail(outbound)
      /\ active' = active \cup {x}
      /\ UNCHANGED <<given, pending_events, emitted, Closing>>
  BY DEF PollOutbound, taskVars, Closing
<1>3. /\ x \in ToSet(outbound)
      /\ IsInjective(outbound')
      /\ ToSet(outbound') = ToSet(outbound) \ {x}
  BY <1>1, <1>2, QueueTail
<1> HIDE DEF x
<1>4. \A r : /\ Queued(OutboundVerdicts, r)' <=> Queued(OutboundVerdicts, r)
             /\ Told(OutboundVerdicts, r)' <=> Told(OutboundVerdicts, r)
  BY <1>2 DEF Queued, Told
<1>5. ASSUME NEW r \in 1..given PROVE PlaceInv(r)'
  BY <1>2, <1>3, <1>4 DEF GivenInv, PlaceInv
<1> QED
  BY <1>2, <1>3, <1>5 DEF GivenInv

\* A request is handed over.
LEMMA GivenTaken ==
    ASSUME TypeInv, GivenInv, OnBehaviourEvent
    PROVE  GivenInv'
<1> DEFINE V == OutboundVerdicts
<1>0. PICK x : x = given + 1
  OBVIOUS
<1>1. /\ outbound \in Seq(RequestIds)
      /\ IsInjective(outbound)
      /\ given \in Nat
      /\ x \in RequestIds
  BY <1>0, HandlerAssumption DEF TypeInv, TypeOK, GivenInv, OnBehaviourEvent, RequestIds
<1>2. /\ outbound' = Append(outbound, x)
      /\ given' = x
      /\ UNCHANGED <<active, pending_events, emitted, Closing>>
  BY <1>0 DEF OnBehaviourEvent, Closing
<1>3. x \notin 1..given /\ 1..x = 1..given \cup {x}
  BY <1>0, <1>1
<1>4. /\ ToSet(outbound) \cup active \subseteq 1..given
      /\ About(pending_events, V, 1..given)
      /\ About(emitted, V, 1..given)
  BY DEF GivenInv
<1>5. /\ About(pending_events, V, 1..x)
      /\ About(emitted, V, 1..x)
  BY <1>3, <1>4 DEF About
<1>6. ~ Queued(V, x) /\ ~ Told(V, x)
  BY <1>3, <1>4, ToldIsAbout DEF Queued, Told
<1>7. IsInjective(outbound') /\ ToSet(outbound') = ToSet(outbound) \cup {x}
  BY <1>1, <1>2, <1>3, <1>4, QueueAppend
<1>8. \A r : (Queued(V, r)' <=> Queued(V, r)) /\ (Told(V, r)' <=> Told(V, r))
  BY <1>2 DEF Queued, Told
<1>9. ASSUME NEW r \in 1..given PROVE PlaceInv(r)'
  BY <1>2, <1>3, <1>7, <1>8 DEF GivenInv, PlaceInv
<1>10. PlaceInv(x)'
  BY <1>2, <1>3, <1>4, <1>6, <1>7, <1>8 DEF PlaceInv
<1>11. \A r \in (1..given)' : PlaceInv(r)'
  BY <1>2, <1>3, <1>9, <1>10
<1> QED
  BY <1>2, <1>3, <1>4, <1>5, <1>7, <1>11 DEF GivenInv

\* An outbound substream ends.
LEMMA GivenEnds ==
    ASSUME TypeInv, GivenInv, NEW x \in RequestIds, EndOutbound(x)
    PROVE  GivenInv'
<1> DEFINE V == OutboundVerdicts
<1>1. /\ pending_events \in Seq(VerdictEvents)
      /\ x \in Nat
      /\ x \in active
      /\ x \in 1..given
      /\ active' = active \ {x}
      /\ UNCHANGED <<outbound, given, emitted>>
  BY IdsAreNat DEF TypeInv, TypeOK, VerdictEvents, GivenInv, EndOutbound
<1>2. x \notin ToSet(outbound) /\ ~ Queued(V, x) /\ ~ Told(V, x)
  BY <1>1 DEF GivenInv, PlaceInv
<1>3. \A r : Told(V, r)' <=> Told(V, r)
  BY <1>1 DEF Told
<1>4. CASE Fail
  <2>1. pending_events' = pending_events /\ Closing'
    BY <1>4 DEF Fail, Closing
  <2>2. \A r : Queued(V, r)' <=> Queued(V, r)
    BY <2>1 DEF Queued
  <2>3. ASSUME NEW r \in 1..given PROVE PlaceInv(r)'
    BY <1>1, <1>2, <1>3, <2>1, <2>2 DEF GivenInv, PlaceInv
  <2> QED
    BY <1>1, <2>1, <2>3 DEF GivenInv
<1>5. ASSUME NEW name \in V, Queue(Event(name, x)) PROVE GivenInv'
  <2> DEFINE e == Event(name, x)
  <2>1. e \in VerdictEvents /\ e.event \in V /\ e.id = x
    BY <1>1, EventTypes
  <2>2. pending_events' = Append(pending_events, e) /\ UNCHANGED Closing
    BY <1>5 DEF Queue, EndOutbound, Closing
  <2> HIDE DEF e
  <2>3. /\ \A r : Queued(V, r)' <=> Queued(V, r) \/ x = r
        /\ OneEach(pending_events', V)
        /\ About(pending_events', V, 1..given)
    BY <1>1, <1>2, <2>1, <2>2, EventAppended DEF GivenInv, Queued
  <2>4. ASSUME NEW r \in 1..given PROVE PlaceInv(r)'
    BY <1>1, <1>2, <1>3, <2>2, <2>3 DEF GivenInv, PlaceInv
  <2> QED
    BY <1>1, <2>3, <2>4 DEF GivenInv
<1> QED
  BY <1>4, <1>5 DEF EndOutbound, OutboundEnds, OutboundVerdicts

\* A connection that is closed stays closed.
LEMMA StaysClosed ==
    ASSUME [Next]_vars, connection = "closed"
    PROVE  connection' = "closed"
<1> USE DEF handlerVars, entryVars, taskVars, streamVars
<1>1. CASE Poll \/ OnConnectionEvent \/ Upgrades
  BY <1>1 DEF Poll, OnConnectionEvent, EndOutbound, FinishInbound, FinishForeign,
              FailInbound, Upgrades, NegotiateOther, ReceiveMessage, ExpectSender,
              Driving
<1>2. CASE Application
  BY <1>2 DEF Application, AnswerRequest, DropResponse, Settle
<1>3. CASE OnBehaviourEvent \/ ListenProtocol \/ IdleTimeout \/ Sleep \/ Wake
           \/ CloseConnection
  BY <1>3 DEF OnBehaviourEvent, ListenProtocol, IdleTimeout, Sleep, Wake,
              CloseConnection, Driving
<1>4. CASE UNCHANGED vars
  BY <1>4 DEF vars
<1> QED
  BY <1>1, <1>2, <1>3, <1>4 DEF Next

\* Every step keeps the requests in their places.
LEMMA GivenStep == TypeInv /\ GivenInv /\ [Next]_vars => GivenInv'
<1> SUFFICES ASSUME TypeInv, GivenInv, [Next]_vars PROVE GivenInv'
  OBVIOUS
<1> USE DEF handlerVars, entryVars, taskVars, streamVars
<1>0. (pending_error => pending_error') => (Closing => Closing')
  BY StaysClosed DEF Closing
<1>1. CASE /\ UNCHANGED <<outbound, active, given, pending_events, emitted>>
           /\ pending_error' = pending_error \/ connection' = "closed"
  <2>1. Closing => Closing'
    BY <1>0, <1>1 DEF Closing
  <2> QED
    BY <1>1, <2>1, GivenStill DEF NoneOf
<1>2. CASE PollRequest
  <2>1. PICK r \in InboundIds : emitted' = Append(emitted, Event("Request", r))
    <3>1. ready[Taken] \in InboundIds
      BY <1>2, TakenIsResolved, ElementOfSeq DEF PollRequest, TypeInv, TypeOK
    <3> QED
      BY <1>2, <3>1 DEF PollRequest, Emit
  <2>2. /\ Event("Request", r) \in ReportedEvents
        /\ Event("Request", r).event \notin OutboundVerdicts
    BY IdsAreNat, EventTypes, NamesDiffer
  <2>3. NoneOf(OutboundVerdicts)
    BY <1>2, <2>1, <2>2 DEF NoneOf, PollRequest
  <2> QED
    BY <1>0, <1>2, <2>3, GivenStill DEF PollRequest
<1>3. ASSUME NEW r \in InboundIds, FinishInbound(r) \/ FailInbound(r) PROVE GivenInv'
  <2>1. \/ \E name \in InboundVerdicts : Queue(Event(name, r))
        \/ Fail
    BY <1>3 DEF FinishInbound, FailInbound, InboundVerdicts
  <2>2. UNCHANGED <<outbound, active, given, emitted>>
    BY <1>3 DEF FinishInbound, FailInbound
  <2>3. NoneOf(OutboundVerdicts) /\ (pending_error => pending_error')
    BY <2>1, <2>2, IdsAreNat, NamesDiffer, EndsWith
  <2> QED
    BY <1>0, <2>2, <2>3, GivenStill
<1>4. CASE Poll
  BY <1>1, <1>2, <1>4, GivenPollEvent, GivenPollOutbound
  DEF Poll, PollClose, PollPending
<1>5. CASE OnConnectionEvent
  BY <1>1, <1>3, <1>5, GivenEnds DEF OnConnectionEvent, FinishForeign
<1>6. CASE Upgrades
  BY <1>1, <1>6 DEF Upgrades, NegotiateOther, ReceiveMessage, ExpectSender
<1>7. CASE Application
  BY <1>1, <1>7 DEF Application, AnswerRequest, DropResponse, Settle
<1>8. CASE ListenProtocol \/ IdleTimeout \/ Sleep \/ Wake \/ CloseConnection
  BY <1>1, <1>8 DEF ListenProtocol, IdleTimeout, Sleep, Wake, CloseConnection
<1>9. CASE UNCHANGED vars
  BY <1>1, <1>9 DEF vars
<1> QED
  BY <1>4, <1>5, <1>6, <1>7, <1>8, <1>9, GivenTaken DEF Next

\* No request is handed over at the start.
LEMMA GivenInit == Init => GivenInv
BY DEF Init, GivenInv, IsInjective, OneEach, About, ToSet

\* The places, one by one.
PlaceAt(h, r) ==
    \/ \E i \in DOMAIN outbound : outbound[i] = r /\ h = <<"outbound", i>>
    \/ r \in active /\ h = <<"active", r>>
    \/ \E i \in DOMAIN pending_events :
          /\ pending_events[i].event \in OutboundVerdicts
          /\ pending_events[i].id = r
          /\ h = <<"queued", i>>
    \/ \E i \in DOMAIN emitted :
          /\ emitted[i].event \in OutboundVerdicts
          /\ emitted[i].id = r
          /\ h = <<"told", i>>

LEMMA PlacesAre == \A r, h : h \in Places(r) <=> PlaceAt(h, r)
<1> SUFFICES ASSUME NEW r, NEW h PROVE h \in Places(r) <=> PlaceAt(h, r)
  OBVIOUS
<1> DEFINE O == {<<"outbound", i>> : i \in {j \in DOMAIN outbound : outbound[j] = r}}
           A == {<<"active", a>> : a \in active \cap {r}}
           Q == {<<"queued", i>> : i \in {j \in DOMAIN pending_events :
                   /\ pending_events[j].event \in OutboundVerdicts
                   /\ pending_events[j].id = r}}
           T == {<<"told", i>> : i \in {j \in DOMAIN emitted :
                   emitted[j].event \in OutboundVerdicts /\ emitted[j].id = r}}
<1>1. h \in O <=> \E i \in DOMAIN outbound : outbound[i] = r /\ h = <<"outbound", i>>
  BY Zenon
<1>2. h \in A <=> r \in active /\ h = <<"active", r>>
  OBVIOUS
<1>3. h \in Q <=> \E i \in DOMAIN pending_events :
                     /\ pending_events[i].event \in OutboundVerdicts
                     /\ pending_events[i].id = r
                     /\ h = <<"queued", i>>
  BY Zenon
<1>4. h \in T <=> \E i \in DOMAIN emitted :
                     /\ emitted[i].event \in OutboundVerdicts
                     /\ emitted[i].id = r
                     /\ h = <<"told", i>>
  BY Zenon
<1>5. h \in Places(r) <=> h \in O \/ h \in A \/ h \in Q \/ h \in T
  BY Zenon DEF Places
<1> HIDE DEF O, A, Q, T
<1> QED
  BY <1>1, <1>2, <1>3, <1>4, <1>5 DEF PlaceAt

\* A request handed over is in at most one place, and in one unless an error
\* closes the connection.
LEMMA OnePlace ==
    ASSUME GivenInv, NEW r \in 1..given
    PROVE  /\ \A g, h : PlaceAt(g, r) /\ PlaceAt(h, r) => g = h
           /\ Closing \/ \E h : PlaceAt(h, r)
<1> DEFINE V == OutboundVerdicts
           AtOutbound(h, i) == outbound[i] = r /\ h = <<"outbound", i>>
           AtActive(h)      == r \in active /\ h = <<"active", r>>
           AtQueued(h, i)   == /\ pending_events[i].event \in V
                               /\ pending_events[i].id = r
                               /\ h = <<"queued", i>>
           AtTold(h, i)     == /\ emitted[i].event \in V
                               /\ emitted[i].id = r
                               /\ h = <<"told", i>>
<1>1. PlaceInv(r)
  BY DEF GivenInv
<1>2. \A h : \A i \in DOMAIN outbound : AtOutbound(h, i) => r \in ToSet(outbound)
  BY DEF ToSet
<1>3. \A h : \A i \in DOMAIN pending_events : AtQueued(h, i) => Queued(V, r)
  BY DEF Queued, Tells
<1>4. \A h : \A i \in DOMAIN emitted : AtTold(h, i) => Told(V, r)
  BY DEF Told, Tells
<1>5. ASSUME NEW g, NEW h,
             NEW i \in DOMAIN outbound, NEW j \in DOMAIN outbound,
             AtOutbound(g, i), AtOutbound(h, j)
      PROVE  g = h
  BY <1>5 DEF GivenInv, IsInjective
<1>6. ASSUME NEW g, NEW h,
             NEW i \in DOMAIN pending_events, NEW j \in DOMAIN pending_events,
             AtQueued(g, i), AtQueued(h, j)
      PROVE  g = h
  BY <1>6 DEF GivenInv, OneEach
<1>7. ASSUME NEW g, NEW h, NEW i \in DOMAIN emitted, NEW j \in DOMAIN emitted,
             AtTold(g, i), AtTold(h, j)
      PROVE  g = h
  BY <1>7 DEF GivenInv, OneEach
<1>8. \A h : PlaceAt(h, r) <=> \/ \E i \in DOMAIN outbound : AtOutbound(h, i)
                               \/ AtActive(h)
                               \/ \E i \in DOMAIN pending_events : AtQueued(h, i)
                               \/ \E i \in DOMAIN emitted : AtTold(h, i)
  BY Zenon DEF PlaceAt
<1>9. \A g, h : AtActive(g) /\ AtActive(h) => g = h
  OBVIOUS
<1>10. \A h : AtActive(h) => r \in active
  OBVIOUS
<1>11. Closing \/ \E h : PlaceAt(h, r)
  <2>1. ASSUME NEW i \in DOMAIN outbound, outbound[i] = r PROVE \E h : PlaceAt(h, r)
    <3>1. PlaceAt(<<"outbound", i>>, r)
      BY <2>1, Zenon DEF PlaceAt
    <3> QED
      BY <3>1
  <2>2. ASSUME r \in active PROVE \E h : PlaceAt(h, r)
    BY <2>2 DEF PlaceAt
  <2>3. ASSUME NEW i \in DOMAIN pending_events,
               pending_events[i].event \in V, pending_events[i].id = r
        PROVE  \E h : PlaceAt(h, r)
    <3>1. PlaceAt(<<"queued", i>>, r)
      BY <2>3, Zenon DEF PlaceAt
    <3> QED
      BY <3>1
  <2>4. ASSUME NEW i \in DOMAIN emitted, emitted[i].event \in V, emitted[i].id = r
        PROVE  \E h : PlaceAt(h, r)
    <3>1. PlaceAt(<<"told", i>>, r)
      BY <2>4, Zenon DEF PlaceAt
    <3> QED
      BY <3>1
  <2> QED
    BY <1>1, <2>1, <2>2, <2>3, <2>4 DEF PlaceInv, ToSet, Queued, Told, Tells
<1> HIDE DEF AtOutbound, AtActive, AtQueued, AtTold
<1>12. ASSUME NEW g, NEW h, PlaceAt(g, r), PlaceAt(h, r) PROVE g = h
  BY <1>1, <1>2, <1>3, <1>4, <1>5, <1>6, <1>7, <1>8, <1>9, <1>10, <1>12 DEF PlaceInv
<1> QED
  BY <1>11, <1>12

\* A request handed to the handler is in exactly one place, queued, on its
\* substream, in a queued event or told, until the error of its substream
\* closes the connection: none is lost or told twice, for any number of
\* requests.
THEOREM RequestsHaveOnePlace == Spec => []GivenRequestsHaveOnePlace
<1>1. GivenInv => GivenRequestsHaveOnePlace
  <2> SUFFICES ASSUME GivenInv, NEW r \in 1..given
               PROVE  \/ \E h \in Places(r) : Places(r) = {h}
                      \/ Places(r) = {} /\ Closing
    BY DEF GivenRequestsHaveOnePlace
  <2>1. \A g, h \in Places(r) : g = h
    BY PlacesAre, OnePlace
  <2>2. CASE Places(r) = {}
    BY <2>2, PlacesAre, OnePlace
  <2>3. CASE Places(r) # {}
    BY <2>1, <2>3
  <2> QED
    BY <2>2, <2>3
<1> QED
  BY <1>1, GivenInit, GivenStep, TypeInvariant, PTL DEF Spec

-----------------------------------------------------------------------------
(***************************************************************************)
(* Inbound substreams.                                                     *)
(***************************************************************************)
Answers  == {"ResponseSent", "ResponseOmission"}
NoTimeout == InboundVerdicts \ {"InboundTimeout"}

\* What SubstreamInv says of the events about r is as it was.
SameEvents(r) ==
    /\ Queued(InboundVerdicts, r)' <=> Queued(InboundVerdicts, r)
    /\ Queued(Answers, r)' <=> Queued(Answers, r)
    /\ Queued(NoTimeout, r)' <=> Queued(NoTimeout, r)
    /\ Told(InboundVerdicts, r)' <=> Told(InboundVerdicts, r)
    /\ Told(NoTimeout, r)' <=> Told(NoTimeout, r)
    /\ Told({"Request"}, r)' <=> Told({"Request"}, r)

\* Nothing is known of r but the events about it.
SameStream(r) ==
    /\ stage'[r] = stage[r]
    /\ response'[r] = response[r]
    /\ r \in inbound' <=> r \in inbound
    /\ next_inbound_id' >= next_inbound_id

\* A substream that no step and no event concerns.
LEMMA SubstreamStill ==
    ASSUME TypeInv, TypeInv', NEW r \in InboundIds, SubstreamInv(r),
           SameEvents(r), SameStream(r)
    PROVE  SubstreamInv(r)'
<1>1. r \in Nat /\ next_inbound_id \in Nat /\ next_inbound_id' \in Nat
  BY IdsAreNat, HandlerAssumption DEF TypeInv, TypeOK
<1>2. stage'[r] # "none" => r < next_inbound_id'
  BY <1>1 DEF SubstreamInv, SameStream
<1> QED
  BY <1>2 DEF SubstreamInv, SameStream, SameEvents, Arrived, Answers, NoTimeout

\* A step without events of the peer's requests.
LEMMA QuietEvents ==
    ASSUME TypeInv, NoneOf(InboundVerdicts \cup {"Request"})
    PROVE  /\ \A r : SameEvents(r)
           /\ OneEach(pending_events, InboundVerdicts) =>
                 OneEach(pending_events', InboundVerdicts)
           /\ About(pending_events, InboundVerdicts, InboundIds) =>
                 About(pending_events', InboundVerdicts, InboundIds)
           /\ About(emitted, InboundVerdicts \cup {"Request"}, InboundIds) =>
                 About(emitted', InboundVerdicts \cup {"Request"}, InboundIds)
<1>1. /\ NoneOf(InboundVerdicts)
      /\ NoneOf(Answers)
      /\ NoneOf(NoTimeout)
      /\ NoneOf({"Request"})
  BY DEF NoneOf, Answers, NoTimeout, InboundVerdicts
<1> QED
  BY <1>1, NoneOfKeeps DEF SameEvents

\* A step that concerns no inbound substream.
LEMMA InboundStill ==
    ASSUME TypeInv, TypeInv', InboundInv,
           UNCHANGED <<inbound, stage, response, next_inbound_id>>,
           NoneOf(InboundVerdicts \cup {"Request"})
    PROVE  InboundInv'
<1>1. next_inbound_id' >= next_inbound_id
  BY HandlerAssumption DEF TypeInv, TypeOK
<1>2. ASSUME NEW r \in InboundIds PROVE SubstreamInv(r)'
  <2>1. SubstreamInv(r) /\ SameEvents(r) /\ SameStream(r)
    BY <1>1, QuietEvents DEF InboundInv, SameStream
  <2> QED
    BY <2>1, SubstreamStill
<1> QED
  BY <1>2, QuietEvents DEF InboundInv

\* A step without events that concerns one substream.
LEMMA InboundQuiet ==
    ASSUME TypeInv, TypeInv', InboundInv, UNCHANGED <<pending_events, emitted>>,
           NEW x \in InboundIds,
           \A r \in InboundIds : r # x => SameStream(r),
           (\A r : SameEvents(r)) => SubstreamInv(x)'
    PROVE  InboundInv'
<1>1. NoneOf(InboundVerdicts \cup {"Request"})
  BY DEF NoneOf
<1>2. \A r : SameEvents(r)
  BY <1>1, QuietEvents
<1>3. ASSUME NEW r \in InboundIds PROVE SubstreamInv(r)'
  BY <1>2, SubstreamStill DEF InboundInv
<1> QED
  BY <1>1, <1>3, QuietEvents DEF InboundInv

\* An event is handed out.
LEMMA InboundPollEvent ==
    ASSUME TypeInv, TypeInv', InboundInv, PollEvent
    PROVE  InboundInv'
<1> DEFINE I == InboundVerdicts
           IR == InboundVerdicts \cup {"Request"}
<1>0. PICK e : e = Head(pending_events)
  OBVIOUS
<1>1. /\ pending_events \in Seq(VerdictEvents)
      /\ emitted \in Seq(ReportedEvents)
      /\ pending_events # <<>>
      /\ pending_events' = Tail(pending_events)
      /\ emitted' = Append(emitted, e)
      /\ UNCHANGED <<inbound, stage, response, next_inbound_id>>
  BY <1>0 DEF TypeInv, TypeOK, VerdictEvents, PollEvent, Emit, streamVars, entryVars
<1>2. /\ e \in ReportedEvents
      /\ e.event # "Request"
  <2>1. e \in VerdictEvents
    BY <1>0, <1>1, HeadTailProperties
  <2> QED
    BY <2>1, NamesDiffer DEF VerdictEvents, ReportedEvents
<1>3. ASSUME NEW names
      PROVE  /\ \A r : Queued(names, r) <=>
                    Queued(names, r)' \/ (e.event \in names /\ e.id = r)
             /\ \A r : Told(names, r)' <=>
                    Told(names, r) \/ (e.event \in names /\ e.id = r)
  BY <1>0, <1>1, <1>2, EventTaken, EventAppended, ZenonT(30) DEF Queued, Told
<1>4. /\ e.event \in I => ~ Queued(I, e.id)' /\ e.id \in InboundIds
      /\ OneEach(pending_events', I)
      /\ About(pending_events', I, InboundIds)
  BY <1>0, <1>1, EventTaken DEF InboundInv, Queued
<1>5. About(emitted', IR, InboundIds)
  <2>1. e.event \in IR => e.id \in InboundIds
    BY <1>2, <1>4
  <2>2. About(emitted, IR, InboundIds)
    BY DEF InboundInv
  <2> QED
    BY <1>1, <1>2, <2>1, <2>2, EventAppended
<1>6. ASSUME NEW r \in InboundIds PROVE SubstreamInv(r)'
  <2>1. SubstreamInv(r)
    BY DEF InboundInv
  <2>2. /\ Queued(I, r) <=> Queued(I, r)' \/ (e.event \in I /\ e.id = r)
        /\ Told(I, r)' <=> Told(I, r) \/ (e.event \in I /\ e.id = r)
        /\ e.event \in I /\ e.id = r => ~ Queued(I, r)'
    BY <1>3, <1>4
  <2>3. Queued(Answers, r)' => Queued(Answers, r)
    BY <1>3
  <2>4. /\ Queued(NoTimeout, r)' => Queued(NoTimeout, r)
        /\ Told(NoTimeout, r)' => Told(NoTimeout, r) \/ Queued(NoTimeout, r)
    BY <1>3
  <2>5. Told({"Request"}, r)' <=> Told({"Request"}, r)
    <3>1. e.event \notin {"Request"}
      BY <1>2
    <3>2. Told({"Request"}, r)' <=>
             Told({"Request"}, r) \/ (e.event \in {"Request"} /\ e.id = r)
      BY <1>3
    <3> QED
      BY <3>1, <3>2
  <2> QED
    BY <1>1, <2>1, <2>2, <2>3, <2>4, <2>5 DEF SubstreamInv, Arrived, Answers, NoTimeout
<1> QED
  BY <1>4, <1>5, <1>6 DEF InboundInv

\* A request is reported.
LEMMA InboundPollRequest ==
    ASSUME TypeInv, TypeInv', InboundInv, PollRequest
    PROVE  InboundInv'
<1> DEFINE I == InboundVerdicts
           IR == InboundVerdicts \cup {"Request"}
<1>0. PICK x : x = ready[Taken]
  OBVIOUS
<1>1. /\ Arrived(x)
      /\ inbound' = inbound \ {x}
      /\ response' = [response EXCEPT ![x] = "held"]
      /\ emitted' = Append(emitted, Event("Request", x))
      /\ UNCHANGED <<stage, next_inbound_id, pending_events>>
  BY <1>0 DEF PollRequest, Emit, HandedOut
<1>2. x \in inbound /\ x \in InboundIds
  <2>1. Taken \in DOMAIN ready /\ ready \in Seq(inbound) /\ inbound \subseteq InboundIds
    BY TakenIsResolved DEF PollRequest, TypeInv, TypeOK
  <2> QED
    BY <1>0, <2>1
<1>3. PICK e \in ReportedEvents :
        e.event = "Request" /\ e.id = x /\ emitted' = Append(emitted, e)
  BY <1>1, <1>2, IdsAreNat, EventTypes
<1>4. emitted \in Seq(ReportedEvents)
  BY DEF TypeInv
<1>5. ASSUME NEW names
      PROVE  /\ \A r : Queued(names, r)' <=> Queued(names, r)
             /\ \A r : Told(names, r)' <=>
                   Told(names, r) \/ ("Request" \in names /\ x = r)
  BY <1>1, <1>3, <1>4, EventAppended DEF Queued, Told
<1>6. About(emitted', IR, InboundIds)
  <2>1. About(emitted, IR, InboundIds)
    BY DEF InboundInv
  <2> QED
    BY <1>2, <1>3, <1>4, <2>1, EventAppended
<1>7. response \in [InboundIds -> {"none", "held", "answered", "dropped"}]
  BY DEF TypeInv, TypeOK
<1>8. "Request" \notin InboundVerdicts /\ "Request" \notin NoTimeout
  BY DEF InboundVerdicts, NoTimeout
<1>9. ASSUME NEW r \in InboundIds PROVE SubstreamInv(r)'
  <2>1. SubstreamInv(r)
    BY DEF InboundInv
  <2>2. /\ Queued(I, r)' <=> Queued(I, r)
        /\ Queued(Answers, r)' <=> Queued(Answers, r)
        /\ Queued(NoTimeout, r)' <=> Queued(NoTimeout, r)
        /\ Told(I, r)' <=> Told(I, r)
        /\ Told(NoTimeout, r)' <=> Told(NoTimeout, r)
        /\ Told({"Request"}, r)' <=> Told({"Request"}, r) \/ x = r
    BY <1>5, <1>8
  <2>3. CASE r = x
    BY <1>1, <1>2, <1>7, <2>1, <2>2, <2>3 DEF SubstreamInv, Arrived, Answers, NoTimeout
  <2>4. CASE r # x
    BY <1>1, <1>2, <1>7, <2>1, <2>2, <2>4 DEF SubstreamInv, Arrived, Answers, NoTimeout
  <2> QED
    BY <2>3, <2>4
<1> QED
  BY <1>1, <1>6, <1>9 DEF InboundInv

\* An inbound substream ends, with an event or an error: with an answer only
\* if its request was reported, and before that report not with a rejection of
\* a request that arrived.
LEMMA InboundEnds ==
    ASSUME TypeInv, TypeInv', InboundInv, NEW x \in InboundIds,
           stage[x] \in {"receiving", "waiting", "foreign"},
           NEW z \in {"finished", "failed"}, z = "finished" => stage[x] = "waiting",
           stage' = [stage EXCEPT ![x] = z],
           UNCHANGED <<inbound, response, next_inbound_id, emitted>>,
           \/ Fail
           \/ \E name \in InboundVerdicts :
                 /\ Queue(Event(name, x))
                 /\ name \in Answers => Told({"Request"}, x)
                 /\ name # "InboundTimeout" /\ z = "finished" => x \notin inbound
    PROVE  InboundInv'
<1> DEFINE I == InboundVerdicts
<1>1. /\ pending_events \in Seq(VerdictEvents)
      /\ stage \in [InboundIds -> {"none", "receiving", "waiting", "foreign",
                                   "finished", "failed"}]
      /\ next_inbound_id' >= next_inbound_id
      /\ x \in Nat
  BY IdsAreNat, HandlerAssumption DEF TypeInv, TypeOK, VerdictEvents
<1>2. /\ SubstreamInv(x)
      /\ ~ Queued(I, x)
      /\ ~ Told(I, x)
      /\ ~ Queued(Answers, x)
      /\ ~ Queued(NoTimeout, x)
      /\ ~ Told(NoTimeout, x)
  <2>1. SubstreamInv(x) /\ ~ Queued(I, x) /\ ~ Told(I, x)
    BY DEF InboundInv, SubstreamInv
  <2>2. Answers \subseteq I /\ NoTimeout \subseteq I
    BY DEF Answers, NoTimeout, InboundVerdicts
  <2> QED
    BY <2>1, <2>2, ToldOfFewer DEF Queued, Told
<1>3. \A r \in InboundIds : r # x => SameStream(r)
  BY <1>1 DEF SameStream
<1>4. CASE Fail
  <2>1. UNCHANGED pending_events
    BY <1>4 DEF Fail
  <2>2. ASSUME \A r : SameEvents(r) PROVE SubstreamInv(x)'
    BY <1>1, <1>2, <2>2 DEF SubstreamInv, SameEvents, Arrived, Answers, NoTimeout
  <2> QED
    BY <1>3, <2>1, <2>2, InboundQuiet
<1>5. ASSUME NEW name \in I, Queue(Event(name, x)),
             name \in Answers => Told({"Request"}, x),
             name # "InboundTimeout" /\ z = "finished" => x \notin inbound
      PROVE  InboundInv'
  <2>1. PICK e \in VerdictEvents :
          e.event = name /\ e.id = x /\ pending_events' = Append(pending_events, e)
    BY <1>1, <1>5, EventTypes DEF Queue
  <2>2. ASSUME NEW names
        PROVE  /\ \A r : Queued(names, r)' <=>
                     Queued(names, r) \/ (name \in names /\ x = r)
               /\ \A r : Told(names, r)' <=> Told(names, r)
    BY <1>1, <2>1, EventAppended DEF Queued, Told
  <2>3. OneEach(pending_events', I) /\ About(pending_events', I, InboundIds)
    <3>1. /\ OneEach(pending_events, I)
          /\ About(pending_events, I, InboundIds)
          /\ ~ Tells(pending_events, I, x)
      BY <1>2 DEF InboundInv, Queued
    <3> QED
      BY <1>1, <2>1, <3>1, EventAppended
  <2>4. ASSUME NEW r \in InboundIds PROVE SubstreamInv(r)'
    <3>1. CASE r # x
      <4>1. SameEvents(r)
        BY <2>2, <3>1 DEF SameEvents
      <4> QED
        BY <1>3, <3>1, <4>1, SubstreamStill DEF InboundInv
    <3>2. CASE r = x
      <4>1. /\ ~ Told(I, x)'
            /\ ~ Told(NoTimeout, x)'
            /\ Told({"Request"}, x)' <=> Told({"Request"}, x)
            /\ Queued(Answers, x)' => name \in Answers
            /\ Queued(NoTimeout, x)' => name # "InboundTimeout"
        <5>1. Queued(NoTimeout, x)' => name \in NoTimeout
          BY <1>2, <2>2
        <5>2. "InboundTimeout" \notin NoTimeout
          BY DEF NoTimeout
        <5>3. Queued(Answers, x)' => name \in Answers
          BY <1>2, <2>2
        <5>4. /\ ~ Told(I, x)'
              /\ ~ Told(NoTimeout, x)'
              /\ Told({"Request"}, x)' <=> Told({"Request"}, x)
          BY <1>2, <2>2
        <5> QED
          BY <5>1, <5>2, <5>3, <5>4
      <4>2. stage'[x] = z
        BY <1>1
      <4> QED
        BY <1>2, <1>5, <3>2, <4>1, <4>2 DEF SubstreamInv, Arrived, Answers, NoTimeout
    <3> QED
      BY <3>1, <3>2
  <2> QED
    BY <2>3, <2>4 DEF InboundInv
<1> QED
  BY <1>4, <1>5

\* A Canceled entry is taken out, or none.
LEMMA InboundPollPending ==
    ASSUME TypeInv, TypeInv', InboundInv, PollPending
    PROVE  InboundInv'
<1>1. UNCHANGED <<stage, response, next_inbound_id, pending_events, emitted>>
  BY DEF PollPending, streamVars
<1>2. NoneOf(InboundVerdicts \cup {"Request"})
  BY <1>1 DEF NoneOf
<1>3. CASE Taken = 0
  BY <1>1, <1>2, <1>3, InboundStill DEF PollPending, AfterCanceled
<1>4. CASE Taken # 0
  <2>1. PICK x : x = ready[Taken]
    OBVIOUS
  <2>2. x \in InboundIds /\ Canceled(x)
    <3>1. /\ Taken \in DOMAIN ready
          /\ Resolved(ready[Taken])
          /\ ready \in Seq(inbound)
          /\ inbound \subseteq InboundIds
      BY <1>4, TakenIsResolved DEF TypeInv, TypeOK
    <3> QED
      BY <1>4, <2>1, <3>1 DEF PollPending, Resolved
  <2>3. inbound' = inbound \ {x}
    BY <1>4, <2>1 DEF PollPending, AfterCanceled
  <2>4. next_inbound_id' >= next_inbound_id
    BY <1>1, HandlerAssumption DEF TypeInv, TypeOK
  <2>5. \A r \in InboundIds : r # x => SameStream(r)
    BY <1>1, <2>3, <2>4 DEF SameStream
  <2>6. ASSUME \A r : SameEvents(r) PROVE SubstreamInv(x)'
    BY <1>1, <2>2, <2>3, <2>6
    DEF InboundInv, SubstreamInv, SameEvents, Arrived, Canceled, Answers, NoTimeout
  <2> QED
    BY <1>1, <2>2, <2>5, <2>6, InboundQuiet
<1> QED
  BY <1>3, <1>4

\* A substream is opened.
LEMMA InboundListens ==
    ASSUME TypeInv, TypeInv', InboundInv, ListenProtocol
    PROVE  InboundInv'
<1>1. PICK x : x = next_inbound_id
  OBVIOUS
<1>2. /\ x \in InboundIds
      /\ next_inbound_id' = x + 1
      /\ inbound' = inbound \cup {x}
      /\ stage' = [stage EXCEPT ![x] = "receiving"]
      /\ UNCHANGED <<response, pending_events, emitted>>
  BY <1>1 DEF ListenProtocol
<1>3. /\ x \in Nat
      /\ stage \in [InboundIds -> {"none", "receiving", "waiting", "foreign",
                                   "finished", "failed"}]
  BY <1>2, IdsAreNat DEF TypeInv, TypeOK
<1>4. \A r \in InboundIds : r # x => SameStream(r)
  BY <1>1, <1>2, <1>3 DEF SameStream
<1>5. SubstreamInv(x) /\ ~ (x < next_inbound_id) /\ x < x + 1
  BY <1>1, <1>2, <1>3 DEF InboundInv
<1>6. ASSUME \A r : SameEvents(r) PROVE SubstreamInv(x)'
  BY <1>2, <1>3, <1>5, <1>6 DEF SubstreamInv, SameEvents, Arrived, Answers, NoTimeout
<1> QED
  BY <1>2, <1>4, <1>6, InboundQuiet

\* An upgrade moves on, or the application settles a request.
LEMMA InboundMoves ==
    ASSUME TypeInv, TypeInv', InboundInv, NEW x \in InboundIds,
           \/ FinishForeign(x)
           \/ NegotiateOther(x)
           \/ ReceiveMessage(x)
           \/ \E how \in {"answered", "dropped"} : Settle(x, how)
    PROVE  InboundInv'
<1>1. /\ UNCHANGED <<inbound, next_inbound_id, pending_events, emitted>>
      /\ \/ /\ UNCHANGED response
            /\ \/ /\ stage[x] = "foreign"
                  /\ stage' = [stage EXCEPT ![x] = "failed"]
               \/ /\ stage[x] = "receiving"
                  /\ \E s \in {"foreign", "waiting"} : stage' = [stage EXCEPT ![x] = s]
         \/ /\ UNCHANGED stage
            /\ response[x] = "held"
            /\ \E how \in {"answered", "dropped"} :
                  response' = [response EXCEPT ![x] = how]
  BY DEF FinishForeign, NegotiateOther, ReceiveMessage, Settle, handlerVars
<1>2. /\ stage \in [InboundIds -> {"none", "receiving", "waiting", "foreign",
                                   "finished", "failed"}]
      /\ response \in [InboundIds -> {"none", "held", "answered", "dropped"}]
      /\ next_inbound_id' >= next_inbound_id
  BY <1>1, HandlerAssumption DEF TypeInv, TypeOK
<1>3. \A r \in InboundIds : r # x => SameStream(r)
  BY <1>1, <1>2 DEF SameStream
<1>4. SubstreamInv(x)
  BY DEF InboundInv
<1>5. stage[x] \in {"foreign", "receiving"} =>
        /\ ~ Queued(InboundVerdicts, x)
        /\ ~ Told(InboundVerdicts, x)
        /\ ~ Queued(NoTimeout, x)
        /\ ~ Told(NoTimeout, x)
  <2>1. NoTimeout \subseteq InboundVerdicts
    BY DEF NoTimeout
  <2> QED
    BY <1>4, <2>1, ToldOfFewer DEF SubstreamInv, Queued, Told
<1>6. ASSUME \A r : SameEvents(r) PROVE SubstreamInv(x)'
  <2>1. SameEvents(x)
    BY <1>6
  <2>2. CASE UNCHANGED response
    <3>1. /\ stage[x] \in {"foreign", "receiving"}
          /\ \E s \in {"foreign", "waiting", "failed"} :
                /\ stage'[x] = s
                /\ s = "waiting" => stage[x] = "receiving"
      <4>1. response[x] # "held" \/ response' # [response EXCEPT ![x] = "answered"]
        BY <1>2, <2>2
      <4>2. response[x] # "held" \/ response' # [response EXCEPT ![x] = "dropped"]
        BY <1>2, <2>2
      <4> QED
        BY <1>1, <1>2, <4>1, <4>2
    <3> QED
      BY <1>1, <1>4, <1>5, <2>1, <2>2, <3>1
      DEF SubstreamInv, SameEvents, Arrived, Answers, NoTimeout
  <2>3. CASE UNCHANGED stage /\ response[x] = "held" /\ response'[x] # "none"
    BY <1>1, <1>4, <2>1, <2>3 DEF SubstreamInv, SameEvents, Arrived, Answers, NoTimeout
  <2> QED
    BY <1>1, <1>2, <2>2, <2>3
<1> QED
  BY <1>1, <1>3, <1>6, InboundQuiet

\* Every step keeps what is known of the substreams.
LEMMA InboundStep == TypeInv /\ InboundInv /\ [Next]_vars => InboundInv'
<1> SUFFICES ASSUME TypeInv, InboundInv, [Next]_vars PROVE InboundInv'
  OBVIOUS
<1> USE DEF handlerVars, entryVars, taskVars, streamVars
<1>1. TypeInv'
  BY TypeStep
<1>2. CASE /\ UNCHANGED <<inbound, stage, response, next_inbound_id>>
           /\ UNCHANGED <<pending_events, emitted>>
  <2>1. NoneOf(InboundVerdicts \cup {"Request"})
    BY <1>2 DEF NoneOf
  <2> QED
    BY <1>1, <1>2, <2>1, InboundStill
<1>3. ASSUME NEW r \in RequestIds, EndOutbound(r) PROVE InboundInv'
  <2>1. \/ \E name \in OutboundVerdicts : Queue(Event(name, r))
        \/ Fail
    BY <1>3 DEF EndOutbound, OutboundEnds, OutboundVerdicts
  <2>2. UNCHANGED <<inbound, stage, response, next_inbound_id, emitted>>
    BY <1>3 DEF EndOutbound
  <2>3. OutboundVerdicts \cap (InboundVerdicts \cup {"Request"}) = {}
    BY NamesDiffer
  <2>4. NoneOf(InboundVerdicts \cup {"Request"})
    BY <2>1, <2>2, <2>3, IdsAreNat, EndsWith
  <2> QED
    BY <1>1, <2>2, <2>4, InboundStill
<1>4. ASSUME NEW r \in InboundIds, FinishInbound(r) PROVE InboundInv'
  <2>1. /\ stage[r] = "waiting"
        /\ response[r] = "answered"
        /\ stage' = [stage EXCEPT ![r] = "finished"]
        /\ UNCHANGED <<inbound, response, next_inbound_id, emitted>>
        /\ Queue(Event("ResponseSent", r))
    BY <1>4 DEF FinishInbound
  <2>2. Told({"Request"}, r) /\ r \notin inbound
    BY <2>1 DEF InboundInv, SubstreamInv
  <2>3. \E name \in InboundVerdicts :
           /\ Queue(Event(name, r))
           /\ name \in Answers => Told({"Request"}, r)
           /\ name # "InboundTimeout" /\ "finished" = "finished" => r \notin inbound
    BY <2>1, <2>2 DEF InboundVerdicts
  <2> QED
    BY <1>1, <2>1, <2>3, InboundEnds
<1>5. ASSUME NEW r \in InboundIds, FailInbound(r) PROVE InboundInv'
  <2>1. PICK z \in {"finished", "failed"} :
          /\ stage' = [stage EXCEPT ![r] = z]
          /\ z = "finished" => stage[r] = "waiting"
    BY <1>5 DEF FailInbound, Dropped
  <2>2. /\ stage[r] \in {"receiving", "waiting", "foreign"}
        /\ UNCHANGED <<inbound, response, next_inbound_id, emitted>>
    BY <1>5 DEF FailInbound, Live
  <2>3. response[r] = "answered" => r \notin inbound
    BY DEF InboundInv, SubstreamInv
  <2>4. \/ Fail
        \/ Queue(Event("InboundTimeout", r))
        \/ /\ Queue(Event("InboundUnsupportedProtocols", r))
           /\ z = "finished" => r \notin inbound
    BY <1>5, <2>1, <2>3 DEF FailInbound
  <2>5. \/ Fail
        \/ \E name \in InboundVerdicts :
              /\ Queue(Event(name, r))
              /\ name \in Answers => Told({"Request"}, r)
              /\ name # "InboundTimeout" /\ z = "finished" => r \notin inbound
    BY <2>4 DEF InboundVerdicts, Answers
  <2> QED
    BY <1>1, <2>1, <2>2, <2>5, InboundEnds
<1>6. CASE Poll
  BY <1>1, <1>2, <1>6, InboundPollEvent, InboundPollRequest, InboundPollPending
  DEF Poll, PollClose, PollOutbound
<1>7. CASE OnConnectionEvent
  BY <1>1, <1>3, <1>4, <1>5, <1>7, InboundMoves DEF OnConnectionEvent
<1>8. CASE Upgrades
  BY <1>1, <1>2, <1>8, InboundMoves DEF Upgrades, ExpectSender
<1>9. CASE Application
  BY <1>1, <1>9, InboundMoves DEF Application, AnswerRequest, DropResponse
<1>10. CASE OnBehaviourEvent \/ IdleTimeout \/ Sleep \/ Wake \/ CloseConnection
  BY <1>2, <1>10 DEF OnBehaviourEvent, IdleTimeout, Sleep, Wake, CloseConnection
<1>11. CASE UNCHANGED vars
  BY <1>2, <1>11 DEF vars
<1> QED
  BY <1>1, <1>6, <1>7, <1>8, <1>9, <1>10, <1>11, InboundListens DEF Next

\* There are none at the start.
LEMMA InboundInit == Init => InboundInv
<1> SUFFICES ASSUME Init PROVE InboundInv
  OBVIOUS
<1>1. pending_events = <<>> /\ emitted = <<>>
  BY DEF Init
<1>2. \A names, r : ~ Queued(names, r) /\ ~ Told(names, r)
  BY <1>1 DEF Queued, Told, Tells
<1>3. \A r \in InboundIds : stage[r] = "none" /\ response[r] = "none"
  BY DEF Init
<1>4. \A r \in InboundIds : SubstreamInv(r)
  BY <1>2, <1>3 DEF SubstreamInv, Arrived
<1> QED
  BY <1>1, <1>4 DEF InboundInv, OneEach, About

\* All of it holds in every reachable state.
LEMMA HandlerInvariant == Spec => []HandlerInv
<1>1. Init => HandlerInv
  BY TypeInit, GivenInit, InboundInit DEF HandlerInv
<1>2. HandlerInv /\ [Next]_vars => HandlerInv'
  BY TypeStep, GivenStep, InboundStep DEF HandlerInv
<1> QED
  BY <1>1, <1>2, PTL DEF Spec

\* Nothing but the application's own drop leaves an upgrade without the sender
\* of its answer, for any number of substreams and in whatever order their
\* entries are taken out.
THEOREM HandlerKeepsSenders == Spec => []WaitingUpgradesHaveASender
<1>1. ASSUME HandlerInv, NEW r \in InboundIds, stage[r] = "waiting",
             response[r] \notin {"answered", "dropped"}
      PROVE  ResponderAlive(r)
  <2>1. response[r] \in {"none", "held"}
    BY <1>1 DEF HandlerInv, TypeInv, TypeOK
  <2>2. SubstreamInv(r)
    BY <1>1 DEF HandlerInv, InboundInv
  <2> QED
    BY <1>1, <2>1, <2>2 DEF SubstreamInv, ResponderAlive
<1>2. HandlerInv => WaitingUpgradesHaveASender
  BY <1>1 DEF WaitingUpgradesHaveASender
<1> QED
  BY <1>2, HandlerInvariant, PTL

-----------------------------------------------------------------------------
(***************************************************************************)
(* The handler implements HandlerReports.                                  *)
(***************************************************************************)
Timeouts == {"InboundTimeout"}

\* Who is held, open, requested or late, before and after a step.
LEMMA Views ==
    /\ \A r : r \in Held <=> r \in 1..given /\ ~ Told(OutboundVerdicts, r)
    /\ \A r : r \in Held' <=> r \in 1..given' /\ ~ Told(OutboundVerdicts, r)'
    /\ \A r : r \in Open <=> /\ r \in 1..(next_inbound_id - 1)
                             /\ ~ Told(InboundVerdicts, r)
                             /\ ~ Told({"Request"}, r)
    /\ \A r : r \in Open' <=> /\ r \in 1..(next_inbound_id' - 1)
                              /\ ~ Told(InboundVerdicts, r)'
                              /\ ~ Told({"Request"}, r)'
    /\ \A r : r \in Requested <=> /\ r \in InboundIds
                                  /\ Told({"Request"}, r)
                                  /\ ~ Told(InboundVerdicts, r)
    /\ \A r : r \in Requested' <=> /\ r \in InboundIds
                                   /\ Told({"Request"}, r)'
                                   /\ ~ Told(InboundVerdicts, r)'
    /\ \A r : r \in Late <=> r \in inbound /\ Told(Timeouts, r) /\ Arrived(r)
    /\ \A r : r \in Late' <=> r \in inbound' /\ Told(Timeouts, r)' /\ Arrived(r)'
<1>1. \A s, r : Tells(s, InboundVerdicts \cup {"Request"}, r) <=>
                   Tells(s, InboundVerdicts, r) \/ Tells(s, {"Request"}, r)
  BY DEF Tells
<1>2. /\ \A r : Told(InboundVerdicts \cup {"Request"}, r) <=>
                   Told(InboundVerdicts, r) \/ Told({"Request"}, r)
      /\ \A r : Told(InboundVerdicts \cup {"Request"}, r)' <=>
                   Told(InboundVerdicts, r)' \/ Told({"Request"}, r)'
  BY <1>1 DEF Told
<1>3. /\ \A r : r \in Held <=> r \in 1..given /\ ~ Told(OutboundVerdicts, r)
      /\ \A r : r \in Held' <=> r \in 1..given' /\ ~ Told(OutboundVerdicts, r)'
  BY DEF Held
<1>4. /\ \A r : r \in Open <=> /\ r \in 1..(next_inbound_id - 1)
                               /\ ~ Told(InboundVerdicts, r)
                               /\ ~ Told({"Request"}, r)
      /\ \A r : r \in Open' <=> /\ r \in 1..(next_inbound_id' - 1)
                                /\ ~ Told(InboundVerdicts, r)'
                                /\ ~ Told({"Request"}, r)'
  BY <1>2 DEF Open
<1>5. /\ \A r : r \in Requested <=> /\ r \in InboundIds
                                    /\ Told({"Request"}, r)
                                    /\ ~ Told(InboundVerdicts, r)
      /\ \A r : r \in Requested' <=> /\ r \in InboundIds
                                     /\ Told({"Request"}, r)'
                                     /\ ~ Told(InboundVerdicts, r)'
  BY DEF Requested
<1>6. /\ \A r : r \in Late <=> r \in inbound /\ Told(Timeouts, r) /\ Arrived(r)
      /\ \A r : r \in Late' <=> r \in inbound' /\ Told(Timeouts, r)' /\ Arrived(r)'
  BY DEF Late, Timeouts
<1> QED
  BY <1>3, <1>4, <1>5, <1>6

\* The function that gives the one connection S.
One(S) == [c \in {"connection"} |-> S]

LEMMA OneChanges ==
    /\ \A S : One(S)["connection"] = S
    /\ \A S, T : [One(S) EXCEPT !["connection"] = T] = One(T)
BY DEF One

\* The variables of HandlerReports while the connection is there.
LEMMA MappedOpen ==
    /\ connection # "closed" => /\ OnConnection(Held) = One(Held)
                                /\ OnConnection(Open) = One(Open)
                                /\ OnConnection(Requested) = One(Requested)
                                /\ OnConnection(Late) = One(Late)
    /\ connection' # "closed" => /\ OnConnection(Held)' = One(Held')
                                 /\ OnConnection(Open)' = One(Open')
                                 /\ OnConnection(Requested)' = One(Requested')
                                 /\ OnConnection(Late)' = One(Late')
BY DEF OnConnection, One

\* A set that changes changes the variable for it.
Follows(S, T, v, w) ==
    /\ v["connection"] = S
    /\ T = S => w = v
    /\ \A x : T = S \cup {x} =>
          w = [v EXCEPT !["connection"] = v["connection"] \cup {x}]
    /\ \A x : T = S \ {x} =>
          w = [v EXCEPT !["connection"] = v["connection"] \ {x}]

LEMMA MappedFollows ==
    ASSUME connection # "closed", connection' # "closed"
    PROVE  /\ Follows(Held, Held', OnConnection(Held), OnConnection(Held)')
           /\ Follows(Open, Open', OnConnection(Open), OnConnection(Open)')
           /\ Follows(Requested, Requested',
                      OnConnection(Requested), OnConnection(Requested)')
           /\ Follows(Late, Late', OnConnection(Late), OnConnection(Late)')
<1>1. ASSUME NEW S, NEW T PROVE Follows(S, T, One(S), One(T))
  <2>1. One(S)["connection"] = S
    BY OneChanges
  <2>2. ASSUME NEW U, T = U PROVE One(T) = [One(S) EXCEPT !["connection"] = U]
    BY <2>2, OneChanges
  <2> QED
    BY <2>1, <2>2 DEF Follows
<1> QED
  BY <1>1, MappedOpen

\* Nothing is told, and whoever is late stays so.
StaysLate ==
    \A r \in InboundIds : Told(Timeouts, r) =>
        ((r \in inbound' /\ Arrived(r)') <=> (r \in inbound /\ Arrived(r)))

\* Such a step is invisible.
LEMMA Invisible ==
    ASSUME TypeInv, TypeInv', StaysLate,
           UNCHANGED <<emitted, given, next_inbound_id>>,
           connection' = "closed" <=> connection = "closed"
    PROVE  UNCHANGED Reports!contractVars
<1>1. \A names, r : Told(names, r)' <=> Told(names, r)
  BY DEF Told
<1>2. Held' = Held
  BY <1>1, Views
<1>3. Open' = Open
  BY <1>1, Views
<1>4. Requested' = Requested
  BY <1>1, Views
<1>5. Late' = Late
  <2>1. inbound \subseteq InboundIds /\ inbound' \subseteq InboundIds
    BY DEF TypeInv, TypeOK
  <2>2. \A r : r \in Late' <=> r \in Late
    BY <1>1, <2>1, Views DEF StaysLate
  <2> QED
    BY <2>2
<1> QED
  BY <1>2, <1>3, <1>4, <1>5 DEF Reports!contractVars, OnConnection

\* The connection goes.
LEMMA ReportsClose ==
    ASSUME connection # "closed", connection' = "closed",
           UNCHANGED <<emitted, next_inbound_id>>
    PROVE  Reports!Next
<1>1. /\ OnConnection(Held)' = One({})
      /\ OnConnection(Open)' = One({})
      /\ OnConnection(Requested)' = One({})
      /\ OnConnection(Late)' = One({})
  BY DEF OnConnection, One
<1>2. Reports!Close("connection")
  BY <1>1, MappedOpen, OneChanges DEF Reports!Close
<1> QED
  BY <1>2 DEF Reports!Next

\* A request is handed over.
LEMMA ReportsTake ==
    ASSUME HandlerInv, TypeInv', OnBehaviourEvent
    PROVE  Reports!Next
<1>1. PICK x : x = given + 1
  OBVIOUS
<1>2. /\ given' = x
      /\ x \in RequestIds
      /\ given \in Nat
      /\ connection # "closed"
      /\ UNCHANGED <<connection, emitted, next_inbound_id, inbound, stage>>
  BY <1>1, HandlerAssumption
  DEF OnBehaviourEvent, entryVars, HandlerInv, TypeInv, TypeOK, RequestIds
<1>3. 1..x = 1..given \cup {x} /\ x \notin 1..given
  BY <1>1, <1>2
<1>4. \A names, r : Told(names, r)' <=> Told(names, r)
  BY <1>2 DEF Told
<1>5. ~ Told(OutboundVerdicts, x)
  BY <1>3, ToldIsAbout DEF HandlerInv, GivenInv, Told
<1>6. Held' = Held \cup {x}
  BY <1>2, <1>3, <1>4, <1>5, Views
<1>7. Open' = Open
  BY <1>2, <1>4, Views
<1>8. Requested' = Requested
  BY <1>4, Views
<1>9. Late' = Late
  BY <1>2, <1>4, Views DEF Arrived
<1>10. Reports!Take("connection", x)
  BY <1>2, <1>6, <1>7, <1>8, <1>9, MappedFollows DEF Reports!Take, Follows
<1> QED
  BY <1>2, <1>10 DEF Reports!Next

\* A substream is opened.
LEMMA ReportsListen ==
    ASSUME HandlerInv, TypeInv', ListenProtocol
    PROVE  Reports!Next
<1>1. PICK x : x = next_inbound_id
  OBVIOUS
<1>2. /\ x \in InboundIds
      /\ next_inbound_id' = x + 1
      /\ inbound' = inbound \cup {x}
      /\ stage' = [stage EXCEPT ![x] = "receiving"]
      /\ connection # "closed"
      /\ UNCHANGED <<connection, emitted, given>>
  BY <1>1 DEF ListenProtocol, Driving
<1>3. x \in Nat /\ 1..((x + 1) - 1) = 1..(x - 1) \cup {x}
  <2>1. x \in Nat /\ x >= 1
    BY <1>2, HandlerAssumption DEF InboundIds
  <2> QED
    BY <2>1
<1>4. \A names, r : Told(names, r)' <=> Told(names, r)
  BY <1>2 DEF Told
<1>5. stage[x] = "none" /\ SubstreamInv(x)
  BY <1>1, <1>2, <1>3 DEF HandlerInv, InboundInv, SubstreamInv
<1>6. ~ Told(InboundVerdicts, x) /\ ~ Told({"Request"}, x)
  BY <1>5 DEF SubstreamInv
<1>7. ~ Told(Timeouts, x)
  <2>1. Timeouts \subseteq InboundVerdicts
    BY DEF Timeouts, InboundVerdicts
  <2> QED
    BY <1>6, <2>1, ToldOfFewer DEF Told
<1>8. Open' = Open \cup {x}
  BY <1>1, <1>2, <1>3, <1>4, <1>6, Views
<1>9. Held' = Held
  BY <1>2, <1>4, Views
<1>10. Requested' = Requested
  BY <1>4, Views
<1>11. Late' = Late
  <2>1. \A r : r \in inbound /\ r # x => (Arrived(r)' <=> Arrived(r))
    <3>1. stage \in [InboundIds -> {"none", "receiving", "waiting", "foreign",
                                    "finished", "failed"}]
          /\ inbound \subseteq InboundIds
      BY DEF HandlerInv, TypeInv, TypeOK
    <3> QED
      BY <1>2, <3>1 DEF Arrived
  <2> QED
    BY <1>2, <1>4, <1>7, <2>1, Views
<1>12. Reports!Listen("connection")
  <2>1. next_inbound_id \in InboundIds /\ next_inbound_id' = next_inbound_id + 1
    BY <1>1, <1>2
  <2>2. Open' = Open \cup {next_inbound_id}
    BY <1>1, <1>8
  <2> QED
    BY <1>2, <1>9, <1>10, <1>11, <2>1, <2>2, MappedFollows DEF Reports!Listen, Follows
<1> QED
  BY <1>2, <1>12 DEF Reports!Next

\* A request of the peer is reported, in time or late.
LEMMA ReportsRequest ==
    ASSUME HandlerInv, TypeInv', PollRequest, connection # "closed"
    PROVE  Reports!Next
<1>1. PICK x : x = ready[Taken]
  OBVIOUS
<1>2. /\ Arrived(x)
      /\ inbound' = inbound \ {x}
      /\ emitted' = Append(emitted, Event("Request", x))
      /\ UNCHANGED <<stage, next_inbound_id, given, connection>>
  BY <1>1 DEF PollRequest, Emit, taskVars
<1>3. x \in inbound /\ x \in InboundIds /\ x \in 1..(next_inbound_id - 1)
  <2>1. /\ Taken \in DOMAIN ready
        /\ ready \in Seq(inbound)
        /\ inbound \subseteq InboundIds
        /\ next_inbound_id \in Nat
    BY TakenIsResolved, HandlerAssumption DEF PollRequest, HandlerInv, TypeInv, TypeOK
  <2>2. x \in inbound /\ x \in InboundIds
    BY <1>1, <2>1
  <2>3. x \in Nat \ {0} /\ x < next_inbound_id
    BY <2>2, HandlerAssumption DEF HandlerInv, TypeInv, EntriesInv, InboundIds
  <2> QED
    BY <2>1, <2>2, <2>3
<1>4. PICK e \in ReportedEvents :
        e.event = "Request" /\ e.id = x /\ emitted' = Append(emitted, e)
  BY <1>2, <1>3, IdsAreNat, EventTypes
<1>5. emitted \in Seq(ReportedEvents)
  BY DEF HandlerInv, TypeInv
<1>6. ASSUME NEW names
      PROVE  \A r : Told(names, r)' <=> Told(names, r) \/ ("Request" \in names /\ x = r)
  BY <1>4, <1>5, EventAppended DEF Told
<1>7. /\ "Request" \notin InboundVerdicts
      /\ "Request" \notin OutboundVerdicts
      /\ "Request" \notin Timeouts
  BY DEF InboundVerdicts, OutboundVerdicts, Timeouts
<1>8. /\ \A r : Told(OutboundVerdicts, r)' <=> Told(OutboundVerdicts, r)
      /\ \A r : Told(InboundVerdicts, r)' <=> Told(InboundVerdicts, r)
      /\ \A r : Told(Timeouts, r)' <=> Told(Timeouts, r)
      /\ \A r : Told({"Request"}, r)' <=> Told({"Request"}, r) \/ x = r
  BY <1>6, <1>7
<1>9. SubstreamInv(x)
  BY <1>3 DEF HandlerInv, InboundInv
<1>10. ~ Told({"Request"}, x)
  BY <1>3, <1>9 DEF SubstreamInv
<1>11. Held' = Held
  BY <1>2, <1>8, Views
<1>12. \A r : Arrived(r)' <=> Arrived(r)
  BY <1>2 DEF Arrived
<1>13. Reports!Request("connection", x)
  <2>1. CASE Told(InboundVerdicts, x)
    <3>1. Told(Timeouts, x)
      <4>1. Told(NoTimeout, x) \/ Told(Timeouts, x)
        BY <2>1 DEF Told, Tells, NoTimeout, Timeouts
      <4> QED
        BY <1>2, <1>3, <1>9, <4>1 DEF SubstreamInv, NoTimeout
    <3>2. x \in Late /\ Late' = Late \ {x}
      BY <1>2, <1>3, <1>8, <1>12, <3>1, Views
    <3>3. Open' = Open
      BY <1>2, <1>8, <2>1, Views
    <3>4. Requested' = Requested
      BY <1>8, <2>1, Views
    <3> QED
      BY <1>2, <1>11, <3>2, <3>3, <3>4, MappedFollows DEF Reports!Request, Follows
  <2>2. CASE ~ Told(InboundVerdicts, x)
    <3>1. ~ Told(Timeouts, x)
      <4>1. Timeouts \subseteq InboundVerdicts
        BY DEF Timeouts, InboundVerdicts
      <4> QED
        BY <2>2, <4>1, ToldOfFewer DEF Told
    <3>2. x \in Open /\ Open' = Open \ {x}
      BY <1>2, <1>3, <1>8, <1>10, <2>2, Views
    <3>3. Requested' = Requested \cup {x}
      BY <1>3, <1>8, <2>2, Views
    <3>4. Late' = Late
      BY <1>2, <1>8, <1>12, <3>1, Views
    <3> QED
      BY <1>2, <1>11, <3>2, <3>3, <3>4, MappedFollows DEF Reports!Request, Follows
  <2> QED
    BY <2>1, <2>2
<1>14. Reports!Report("Request", x)
  BY <1>2 DEF Reports!Report, Reports!Event, Event
<1> QED
  BY <1>3, <1>13, <1>14 DEF Reports!Next, Reports!InboundReport

\* A queued event is handed out.
LEMMA ReportsEvent ==
    ASSUME HandlerInv, TypeInv', PollEvent, connection # "closed"
    PROVE  Reports!Next
<1> DEFINE O == OutboundVerdicts
           I == InboundVerdicts
           R == {"Request"}
<1>1. PICK e : e = Head(pending_events)
  OBVIOUS
<1>2. /\ pending_events \in Seq(VerdictEvents)
      /\ pending_events # <<>>
      /\ emitted \in Seq(ReportedEvents)
      /\ emitted' = Append(emitted, e)
      /\ UNCHANGED <<inbound, stage, next_inbound_id, given, connection>>
  BY <1>1
  DEF HandlerInv, TypeInv, TypeOK, VerdictEvents, PollEvent, Emit, streamVars, entryVars,
      taskVars
<1>3. e \in VerdictEvents
  BY <1>1, <1>2, HeadTailProperties
<1>4. /\ e \in ReportedEvents
      /\ e.event \in O \cup I
      /\ e = Reports!Event(e.event, e.id)
  BY <1>3 DEF VerdictEvents, ReportedEvents, Reports!Event
<1>5. ASSUME NEW names
      PROVE  /\ \A r : Told(names, r)' <=> Told(names, r) \/ (e.event \in names /\ e.id = r)
             /\ e.event \in names => Queued(names, e.id)
  <2>1. \A r : Tells(Append(emitted, e), names, r) <=>
                 Tells(emitted, names, r) \/ (e.event \in names /\ e.id = r)
    BY <1>2, <1>4, EventAppended
  <2>2. \A r : Told(names, r)' <=> Told(names, r) \/ (e.event \in names /\ e.id = r)
    BY <1>2, <2>1 DEF Told
  <2>3. \A r : Tells(pending_events, names, r) <=>
                 \/ Tells(Tail(pending_events), names, r)
                 \/ e.event \in names /\ e.id = r
    BY <1>1, <1>2, EventTaken
  <2>4. e.event \in names => Queued(names, e.id)
    BY <2>3 DEF Queued
  <2> QED
    BY <2>2, <2>4
<1>6. \A r : Arrived(r)' <=> Arrived(r)
  BY <1>2 DEF Arrived
<1>7. Reports!Report(e.event, e.id)
  BY <1>2, <1>4 DEF Reports!Report
<1>8. e.event \notin R
  BY <1>4, NamesDiffer
<1>9. \A r : Told(R, r)' <=> Told(R, r)
  BY <1>5, <1>8
<1>10. CASE e.event \in O
  <2>1. e.id \in 1..given /\ ~ Told(O, e.id)
    <3>1. e.id \in 1..given
      BY <1>5, <1>10, ToldIsAbout DEF HandlerInv, GivenInv, Queued
    <3> QED
      BY <1>5, <1>10, <3>1 DEF HandlerInv, GivenInv, PlaceInv
  <2>2. e.event \notin I /\ e.event \notin Timeouts
    BY <1>10 DEF OutboundVerdicts, InboundVerdicts, Timeouts
  <2>3. /\ \A r : Told(I, r)' <=> Told(I, r)
        /\ \A r : Told(Timeouts, r)' <=> Told(Timeouts, r)
        /\ \A r : Told(O, r)' <=> Told(O, r) \/ e.id = r
    BY <1>5, <1>10, <2>2
  <2>4. e.id \in Held /\ Held' = Held \ {e.id}
    BY <1>2, <2>1, <2>3, Views
  <2>5. Open' = Open
    BY <1>2, <1>9, <2>3, Views
  <2>6. Requested' = Requested
    BY <1>9, <2>3, Views
  <2>7. Late' = Late
    BY <1>2, <1>6, <2>3, Views
  <2>8. Reports!EndOutbound("connection", e.id)
    BY <1>2, <2>4, <2>5, <2>6, <2>7, MappedFollows DEF Reports!EndOutbound, Follows
  <2>9. e.id \in RequestIds
    BY <2>1, HandlerAssumption DEF HandlerInv, TypeInv, TypeOK, RequestIds
  <2> QED
    BY <1>7, <1>10, <2>8, <2>9
    DEF Reports!Next, Reports!OutboundReport, OutboundVerdicts
<1>11. CASE e.event \in I
  <2>1. e.id \in InboundIds
    BY <1>5, <1>11, ToldIsAbout DEF HandlerInv, InboundInv, Queued
  <2>2. PICK x \in InboundIds : x = e.id
    BY <2>1
  <2>3. SubstreamInv(x) /\ Queued(I, x)
    BY <1>5, <1>11, <2>2 DEF HandlerInv, InboundInv
  <2>4. /\ ~ Told(I, x)
        /\ stage[x] \in {"finished", "failed"}
        /\ x < next_inbound_id
    BY <2>3 DEF SubstreamInv
  <2>5. x \in 1..(next_inbound_id - 1)
    <3>1. x \in Nat \ {0} /\ next_inbound_id \in Nat
      BY HandlerAssumption DEF HandlerInv, TypeInv, TypeOK, InboundIds
    <3> QED
      BY <2>4, <3>1
  <2>6. e.event \notin O
    BY <1>11, NamesDiffer
  <2>7. /\ \A r : Told(O, r)' <=> Told(O, r)
        /\ \A r : Told(I, r)' <=> Told(I, r) \/ x = r
        /\ \A r : Told(Timeouts, r)' <=> Told(Timeouts, r) \/ (e.event \in Timeouts /\ x = r)
    BY <1>5, <1>11, <2>2, <2>6
  <2>8. Held' = Held
    BY <1>2, <2>7, Views
  <2>9. Open' = Open \ {x}
    BY <1>2, <1>9, <2>7, Views
  <2>10. Requested' = Requested \ {x}
    BY <1>9, <2>7, Views
  <2>11. x \in Open \cup Requested
    BY <2>4, <2>5, Views
  <2>12. Reports!EndInbound("connection", x)
    BY <1>2, <2>8, <2>9, <2>10, <2>11, MappedFollows DEF Reports!EndInbound, Follows
  <2>13. CASE e.event \in Answers
    <3>1. Told(R, x)
      BY <1>5, <2>2, <2>3, <2>13 DEF SubstreamInv, Answers
    <3>2. x \in Requested /\ x \notin Open
      BY <2>4, <3>1, Views
    <3>3. Open' = Open
      BY <2>9, <3>2
    <3>4. e.event \notin Timeouts
      BY <2>13 DEF Timeouts, Answers
    <3>5. Late' = Late
      BY <1>2, <1>6, <2>7, <3>4, Views
    <3>6. Reports!Answered("connection", x)
      BY <1>2, <2>8, <2>10, <3>2, <3>3, <3>5, MappedFollows DEF Reports!Answered, Follows
    <3> QED
      BY <1>7, <2>2, <2>13, <3>6 DEF Reports!Next, Reports!InboundReport, Answers
  <2>14. CASE e.event = "InboundTimeout"
    <3>1. \A r : Told(Timeouts, r)' <=> Told(Timeouts, r) \/ x = r
      BY <2>7, <2>14 DEF Timeouts
    <3>2. CASE x \in inbound /\ Arrived(x)
      <4>1. ~ Told(R, x)
        BY <2>3, <3>2 DEF SubstreamInv
      <4>2. x \in Open
        BY <2>4, <2>5, <4>1, Views
      <4>3. Late' = Late \cup {x}
        BY <1>2, <1>6, <3>1, <3>2, Views
      <4>4. Reports!TimeOutInbound("connection", x)
        BY <1>2, <2>12, <4>2, <4>3, MappedFollows DEF Reports!TimeOutInbound, Follows
      <4> QED
        BY <1>7, <2>2, <2>14, <4>4 DEF Reports!Next, Reports!InboundReport
    <3>3. CASE ~ (x \in inbound /\ Arrived(x))
      <4>1. Late' = Late
        BY <1>2, <1>6, <3>1, <3>3, Views
      <4>2. Reports!TimeOutInbound("connection", x)
        BY <1>2, <2>12, <4>1, MappedFollows DEF Reports!TimeOutInbound, Follows
      <4> QED
        BY <1>7, <2>2, <2>14, <4>2 DEF Reports!Next, Reports!InboundReport
    <3> QED
      BY <3>2, <3>3
  <2>15. CASE e.event = "InboundUnsupportedProtocols"
    <3>1. e.event \notin Timeouts
      BY <2>15 DEF Timeouts
    <3>2. Late' = Late
      BY <1>2, <1>6, <2>7, <3>1, Views
    <3>3. Reports!RejectInbound("connection", x)
      BY <1>2, <2>12, <3>2, MappedFollows DEF Reports!RejectInbound, Follows
    <3> QED
      BY <1>7, <2>2, <2>15, <3>3 DEF Reports!Next, Reports!InboundReport
  <2> QED
    BY <1>11, <2>13, <2>14, <2>15 DEF InboundVerdicts, Answers
<1> QED
  BY <1>4, <1>10, <1>11

\* Every step of the handler is a step of HandlerReports, or invisible.
LEMMA ReportsStep == HandlerInv /\ [Next]_vars => [Reports!Next]_(Reports!contractVars)
<1> SUFFICES ASSUME HandlerInv, [Next]_vars
             PROVE  Reports!Next \/ UNCHANGED Reports!contractVars
  OBVIOUS
<1> USE DEF handlerVars, entryVars, taskVars, streamVars
<1>1. TypeInv /\ TypeInv'
  BY TypeStep DEF HandlerInv
<1>2. CASE /\ UNCHANGED <<emitted, given, next_inbound_id, inbound, stage>>
           /\ connection' = "closed" <=> connection = "closed"
  <2>1. StaysLate
    BY <1>2 DEF StaysLate, Arrived
  <2> QED
    BY <1>1, <1>2, <2>1, Invisible
<1>3. CASE PollClose \/ IdleTimeout \/ CloseConnection
  BY <1>2, <1>3, ReportsClose DEF PollClose, IdleTimeout, CloseConnection
<1>4. CASE PollPending
  <2>1. ASSUME Taken # 0 PROVE ~ Arrived(ready[Taken])
    BY <1>4, <2>1 DEF PollPending
  <2>2. UNCHANGED <<emitted, given, next_inbound_id, stage, connection>>
    BY <1>4 DEF PollPending
  <2>3. \A r : r \in inbound' <=> r \in inbound /\ (Taken = 0 \/ r # ready[Taken])
    BY <1>4 DEF PollPending, AfterCanceled
  <2>4. StaysLate
    BY <2>1, <2>2, <2>3 DEF StaysLate, Arrived
  <2> QED
    BY <1>1, <2>2, <2>4, Invisible
<1>5. ASSUME NEW x \in InboundIds, NEW s,
             stage[x] \in {"receiving", "waiting", "foreign"},
             stage' = [stage EXCEPT ![x] = s],
             UNCHANGED <<emitted, given, next_inbound_id, inbound, connection>>
      PROVE  UNCHANGED Reports!contractVars
  <2>1. ~ Told(InboundVerdicts, x)
    BY <1>5 DEF HandlerInv, InboundInv, SubstreamInv
  <2>2. Timeouts \subseteq InboundVerdicts
    BY DEF Timeouts, InboundVerdicts
  <2>3. ~ Told(Timeouts, x)
    BY <2>1, <2>2, ToldOfFewer DEF Told
  <2>4. \A r \in InboundIds : r # x => (Arrived(r)' <=> Arrived(r))
    BY <1>1, <1>5 DEF TypeInv, TypeOK, Arrived
  <2>5. StaysLate
    BY <1>5, <2>3, <2>4 DEF StaysLate
  <2> QED
    BY <1>1, <1>5, <2>5, Invisible
<1>6. CASE Poll
  <2>1. connection # "closed"
    BY <1>6 DEF Poll
  <2>2. CASE PollOutbound
    BY <1>2, <2>2 DEF PollOutbound
  <2> QED
    BY <1>1, <1>3, <1>4, <1>6, <2>1, <2>2, ReportsEvent, ReportsRequest DEF Poll
<1>7. CASE OnConnectionEvent
  <2>1. ASSUME NEW r \in RequestIds, EndOutbound(r)
        PROVE  UNCHANGED Reports!contractVars
    <3>1. UNCHANGED <<emitted, given, next_inbound_id, inbound, stage, connection>>
      BY <2>1 DEF EndOutbound
    <3>2. StaysLate
      BY <3>1 DEF StaysLate, Arrived
    <3> QED
      BY <1>1, <3>1, <3>2, Invisible
  <2>2. ASSUME NEW r \in InboundIds, FinishInbound(r) \/ FinishForeign(r) \/ FailInbound(r)
        PROVE  UNCHANGED Reports!contractVars
    BY <1>5, <2>2 DEF FinishInbound, FinishForeign, FailInbound, Live
  <2> QED
    BY <1>7, <2>1, <2>2 DEF OnConnectionEvent
<1>8. CASE Upgrades
  <2>1. ASSUME NEW r \in InboundIds, NegotiateOther(r) \/ ReceiveMessage(r)
        PROVE  UNCHANGED Reports!contractVars
    BY <1>5, <2>1 DEF NegotiateOther, ReceiveMessage
  <2>2. ASSUME NEW r \in InboundIds, ExpectSender(r)
        PROVE  Reports!Next \/ UNCHANGED Reports!contractVars
    BY <1>2, <2>2 DEF ExpectSender, Driving
  <2> QED
    BY <1>8, <2>1, <2>2 DEF Upgrades
<1>9. CASE Application
  BY <1>2, <1>9 DEF Application, AnswerRequest, DropResponse, Settle
<1>10. CASE Sleep \/ Wake
  BY <1>2, <1>10 DEF Sleep, Wake
<1>11. CASE UNCHANGED vars
  BY <1>2, <1>11 DEF vars
<1> QED
  BY <1>1, <1>3, <1>6, <1>7, <1>8, <1>9, <1>10, <1>11, ReportsTake, ReportsListen
  DEF Next

\* It begins as HandlerReports does.
LEMMA ReportsInit == Init => Reports!Init
<1> SUFFICES ASSUME Init PROVE Reports!Init
  OBVIOUS
<1>1. /\ given = 0
      /\ next_inbound_id = 1
      /\ inbound = {}
      /\ emitted = <<>>
  BY DEF Init
<1>2. \A names, r : ~ Told(names, r)
  BY <1>1 DEF Told, Tells
<1>3. Held = {} /\ Open = {} /\ Requested = {} /\ Late = {}
  BY <1>1, <1>2, Views
<1> QED
  BY <1>1, <1>3 DEF Reports!Init, OnConnection

\* The handler reports what FileGet relies on and in an order it relies on, for
\* any number of requests and substreams: at most one verdict per request, no
\* answer before its request, and a request after its verdict only when that
\* was a timeout.
THEOREM HandlerImplementsReports == Spec => ImplementsReports
<1>1. Init /\ [][Next]_vars /\ []HandlerInv =>
         Reports!Init /\ [][Reports!Next]_(Reports!contractVars)
  BY ReportsInit, ReportsStep, PTL
<1> QED
  BY <1>1, HandlerInvariant, PTL DEF Spec, ImplementsReports, Reports!Spec

=============================================================================
