-------------------------- MODULE HandlerContract --------------------------
(***************************************************************************)
(* What the handlers of a node's connections promise to the FileGet        *)
(* behaviour: which of a handler's reports may come when.  FileGet builds  *)
(* on these actions, and module Handler is shown to implement them (module *)
(* HandlerReports adds the specification).                                 *)
(*                                                                         *)
(* An outbound request ends in one of three ways.  An inbound substream    *)
(* first reports its request and then how the answer went; it may fail     *)
(* before the request arrived, and a request that arrived just before a    *)
(* timeout may be reported after it.                                       *)
(***************************************************************************)
EXTENDS Naturals

CONSTANTS
    InboundIds      \* ids that may be drawn for inbound substreams

VARIABLES
    next_inbound_id,  \* inbound_id_generator, shared by the handlers
    held,             \* connection -> our requests its handler works on
    open,             \* connection -> inbound, no request reported yet
    requested,        \* connection -> inbound, request reported
    late              \* connection -> timed out, request may still come

\* on_behaviour_event: the handler is given request r.
Take(c, r) ==
    /\ held' = [held EXCEPT ![c] = @ \cup {r}]
    /\ UNCHANGED <<next_inbound_id, open, requested, late>>

\* Response, OutboundTimeout or OutboundUnsupportedProtocols for request r.
EndOutbound(c, r) ==
    /\ r \in held[c]
    /\ held' = [held EXCEPT ![c] = @ \ {r}]
    /\ UNCHANGED <<next_inbound_id, open, requested, late>>

\* listen_protocol: an id is drawn for every inbound substream.
Listen(c) ==
    /\ next_inbound_id \in InboundIds
    /\ open' = [open EXCEPT ![c] = @ \cup {next_inbound_id}]
    /\ next_inbound_id' = next_inbound_id + 1
    /\ UNCHANGED <<held, requested, late>>

\* Request.
Request(c, r) ==
    /\ \/ /\ r \in open[c]
          /\ open' = [open EXCEPT ![c] = @ \ {r}]
          /\ requested' = [requested EXCEPT ![c] = @ \cup {r}]
          /\ UNCHANGED late
       \/ /\ r \in late[c]
          /\ late' = [late EXCEPT ![c] = @ \ {r}]
          /\ UNCHANGED <<open, requested>>
    /\ UNCHANGED <<next_inbound_id, held>>

\* ResponseSent or ResponseOmission.
Answered(c, r) ==
    /\ r \in requested[c]
    /\ requested' = [requested EXCEPT ![c] = @ \ {r}]
    /\ UNCHANGED <<next_inbound_id, held, open, late>>

\* The substream is given up, before or after its request was reported.
EndInbound(c, r) ==
    /\ r \in open[c] \cup requested[c]
    /\ open' = [open EXCEPT ![c] = @ \ {r}]
    /\ requested' = [requested EXCEPT ![c] = @ \ {r}]
    /\ UNCHANGED <<next_inbound_id, held>>

\* InboundTimeout.
TimeOutInbound(c, r) ==
    /\ EndInbound(c, r)
    /\ \/ UNCHANGED late
       \/ /\ r \in open[c]
          /\ late' = [late EXCEPT ![c] = @ \cup {r}]

\* InboundUnsupportedProtocols.
RejectInbound(c, r) ==
    /\ EndInbound(c, r)
    /\ UNCHANGED late

\* A closing connection takes its handler with it.
Close(c) ==
    /\ held' = [held EXCEPT ![c] = {}]
    /\ open' = [open EXCEPT ![c] = {}]
    /\ requested' = [requested EXCEPT ![c] = {}]
    /\ late' = [late EXCEPT ![c] = {}]
    /\ UNCHANGED next_inbound_id

=============================================================================
