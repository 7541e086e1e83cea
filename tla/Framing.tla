------------------------------ MODULE Framing ------------------------------
(***************************************************************************)
(* One framed message over a fresh substream: the request of FileGet       *)
(* (file-get/src/protocol.rs), or the response of list_files               *)
(* (src/network/protocol.rs), whose request is empty.                      *)
(*                                                                         *)
(* A message is a sequence of pieces.  LengthDelimitedCodec puts the       *)
(* number of pieces before them and refuses to send or to accept a frame   *)
(* above a limit.  The writer of a list_files response closes the          *)
(* substream behind it; that of a FileGet request keeps it open for the    *)
(* answer.  The substream may break at any moment, which the reader sees   *)
(* as its end, or as an error.                                             *)
(***************************************************************************)
EXTENDS Naturals, Sequences, SequencesExt

CONSTANTS
    Pieces,     \* pieces of messages
    MaxPieces,  \* bound on the length of a message
    MaxFrame    \* the codec's limit

ASSUME FramingAssumption ==
    /\ MaxPieces \in Nat
    /\ MaxFrame \in Nat

VARIABLES
    kind,       \* "FileGetMessage" or "ListFilesResponse"
    message,    \* what the writer has to send
    writer,     \* "opened", "ready", "sent", "closed" or "failed"
    wire,       \* tokens under way
    buffer,     \* tokens that the reader has taken from the substream
    ended,      \* no more tokens come after those on the wire
    reader,     \* "reading", "done" or "failed"
    result      \* what the reader returned

vars == <<kind, message, writer, wire, buffer, ended, reader, result>>

-----------------------------------------------------------------------------
(***************************************************************************)
(* LengthDelimitedCodec, with the encoding of prost.                       *)
(***************************************************************************)
Length(n) == [length |-> n]
Piece(x)  == [piece |-> x]

Encoded(m) == <<Length(Len(m))>> \o [i \in DOMAIN m |-> Piece(m[i])]

\* The length at the head of the buffer counts the pieces behind it.
Announced(b) == b[1].length

\* The buffer holds a whole frame.
Complete(b) == b # <<>> /\ Len(b) > Announced(b)

Decoded(b) == [i \in 1..Announced(b) |-> b[i + 1].piece]

-----------------------------------------------------------------------------
(***************************************************************************)
(* The writer.                                                             *)
(***************************************************************************)
\* write_request and read_request move no bytes: a server that has accepted
\* the substream goes on to its response.
ReadRequest ==
    /\ kind = "ListFilesResponse"
    /\ writer = "opened"
    /\ writer' = "ready"
    /\ UNCHANGED <<kind, message, wire, buffer, ended, reader, result>>

\* A frame above the limit is refused and the substream is dropped.
Send ==
    /\ IF Len(message) > MaxFrame
       THEN writer' = "failed" /\ ended' = TRUE /\ UNCHANGED wire
       ELSE writer' = "sent" /\ wire' = Encoded(message) /\ UNCHANGED ended
    /\ UNCHANGED <<kind, message, buffer, reader, result>>

SendRequest ==
    /\ kind = "FileGetMessage"
    /\ writer = "opened"
    /\ ~ended
    /\ Send

WriteResponse ==
    /\ kind = "ListFilesResponse"
    /\ writer = "ready"
    /\ ~ended
    /\ Send

\* libp2p's request-response closes the substream after write_response.
CloseAfterResponse ==
    /\ kind = "ListFilesResponse"
    /\ writer = "sent"
    /\ writer' = "closed"
    /\ ended' = TRUE
    /\ UNCHANGED <<kind, message, wire, buffer, reader, result>>

-----------------------------------------------------------------------------
(***************************************************************************)
(* The substream.                                                          *)
(***************************************************************************)
Arrive ==
    /\ wire # <<>>
    /\ reader = "reading"
    /\ buffer' = Append(buffer, Head(wire))
    /\ wire' = Tail(wire)
    /\ UNCHANGED <<kind, message, writer, ended, reader, result>>

\* The substream is reset, or its connection is lost.
Break ==
    /\ ~ended \/ wire # <<>>
    /\ wire' = <<>>
    /\ ended' = TRUE
    /\ UNCHANGED <<kind, message, writer, buffer, reader, result>>

-----------------------------------------------------------------------------
(***************************************************************************)
(* The reader: receive_message and read_response.                          *)
(***************************************************************************)
Return(m) ==
    /\ reader' = "done"
    /\ result' = m
    /\ UNCHANGED <<kind, message, writer, wire, buffer, ended>>

ReadFails ==
    /\ reader' = "failed"
    /\ UNCHANGED <<kind, message, writer, wire, buffer, ended, result>>

\* Fault: what has come is taken for the message.
AtEndAnyway == IF buffer = <<>> THEN ReadFails
               ELSE Return([i \in 1..(Len(buffer) - 1) |-> buffer[i + 1].piece])

\* The end of the substream before a whole frame: with an empty buffer the
\* stream of frames is over, UnexpectedEof; otherwise it is an error.
AtEnd == ReadFails

\* Fault: the reader waits for more.
ReadOn ==
    /\ reader = "reading"
    /\ Complete(buffer)
    /\ Return(Decoded(buffer))

Read ==
    /\ reader = "reading"
    /\ \/ Complete(buffer) /\ Return(Decoded(buffer))
       \/ ~Complete(buffer) /\ ended /\ wire = <<>> /\ AtEnd

-----------------------------------------------------------------------------
Messages == SeqOf(Pieces, MaxPieces)

Init ==
    /\ kind \in {"FileGetMessage", "ListFilesResponse"}
    /\ message \in Messages
    /\ writer = "opened"
    /\ wire = <<>>
    /\ buffer = <<>>
    /\ ended = FALSE
    /\ reader = "reading"
    /\ result = <<>>

Next ==
    \/ ReadRequest
    \/ SendRequest
    \/ WriteResponse
    \/ CloseAfterResponse
    \/ Arrive
    \/ Break
    \/ Read

Spec == Init /\ [][Next]_vars

(***************************************************************************)
(* Fairness.  Both upgrades run whenever they can, and what is on the wire *)
(* arrives unless the substream breaks.                                    *)
(***************************************************************************)
Fairness ==
    /\ WF_vars(ReadRequest \/ SendRequest \/ WriteResponse)
    /\ WF_vars(Arrive)
    /\ WF_vars(Read)

FairSpec == Spec /\ Fairness

-----------------------------------------------------------------------------
(***************************************************************************)
(* Properties.                                                             *)
(***************************************************************************)
\* Wherever the substream breaks, the reader returns the message as it was
\* written or an error, never a part of it; an oversized message is never
\* returned.
MessagesArriveWholeOrNotAtAll ==
    reader = "done" => result = message /\ Len(message) <= MaxFrame

\* The reader returns, also behind a substream that breaks, and also where
\* nobody closes the substream behind the message.
ReadersReturn == <>(reader # "reading")

=============================================================================
