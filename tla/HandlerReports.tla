--------------------------- MODULE HandlerReports ---------------------------
(***************************************************************************)
(* The specification of a connection's handler that FileGet relies on:     *)
(* what it may report, and in which order, as steps of HandlerContract     *)
(* that each append one event to the history of reports.                   *)
(***************************************************************************)
EXTENDS HandlerContract, Sequences

CONSTANTS
    Connection,     \* the connection of this handler
    RequestIds      \* ids of the requests it may be given

VARIABLE
    emitted         \* the events reported so far, in order

contractVars == <<next_inbound_id, held, open, requested, late, emitted>>

\* FileGetHandlerEvent: its name and the id it is about.
Event(name, r) == [event |-> name, id |-> r]

Report(name, r) == emitted' = Append(emitted, Event(name, r))

Init ==
    /\ next_inbound_id = 1
    /\ held = [c \in {Connection} |-> {}]
    /\ open = [c \in {Connection} |-> {}]
    /\ requested = [c \in {Connection} |-> {}]
    /\ late = [c \in {Connection} |-> {}]
    /\ emitted = <<>>

OutboundReport(r) ==
    /\ EndOutbound(Connection, r)
    /\ \E name \in {"Response", "OutboundTimeout",
                    "OutboundUnsupportedProtocols"} : Report(name, r)

InboundReport(r) ==
    \/ Request(Connection, r) /\ Report("Request", r)
    \/ /\ Answered(Connection, r)
       /\ \E name \in {"ResponseSent", "ResponseOmission"} : Report(name, r)
    \/ TimeOutInbound(Connection, r) /\ Report("InboundTimeout", r)
    \/ RejectInbound(Connection, r) /\ Report("InboundUnsupportedProtocols", r)

Next ==
    \/ \E r \in RequestIds : Take(Connection, r) /\ UNCHANGED emitted
    \/ Listen(Connection) /\ UNCHANGED emitted
    \/ Close(Connection) /\ UNCHANGED emitted
    \/ \E r \in RequestIds : OutboundReport(r)
    \/ \E r \in InboundIds : InboundReport(r)

Spec == Init /\ [][Next]_contractVars

=============================================================================
