---------------------------- MODULE FileTransfer ----------------------------
(***************************************************************************)
(* The contents of files while nodes fetch them from each other: the       *)
(* GetFile and RequestReceived arms of the event loop (src/network/mod.rs) *)
(* and the two ends of the substream (file-get/src/protocol.rs), which     *)
(* copy the file piece by piece while other commands run.                  *)
(*                                                                         *)
(* A file is a sequence of pieces.  The request is a frame that arrives    *)
(* whole or not at all; the answer is the bare bytes of the file, ended by *)
(* the end of the substream.  The server's end of a substream is dropped   *)
(* in the same way after a complete copy and after an error of its reader, *)
(* so both reach the requester as the end of the stream.                   *)
(***************************************************************************)
EXTENDS Naturals, Sequences, FiniteSets

CONSTANTS
    Nodes,
    Files,          \* names of files
    Initial,        \* node -> files in its sharing_dir at the start
    MaxGets,        \* bound on the get@ commands
    Window,         \* bound on the pieces under way in a substream
    ReadMayFail     \* whether reading a shared file may fail half way

\* The pieces of the files at the start.
Pieces ==
    UNION {UNION {{Initial[n][f][i] : i \in DOMAIN Initial[n][f]} :
                    f \in DOMAIN Initial[n]} : n \in Nodes}

ASSUME TransferAssumption ==
    /\ Initial = [n \in Nodes |-> Initial[n]]
    /\ \A n \in Nodes : /\ DOMAIN Initial[n] \subseteq Files
                        /\ Initial[n] \in [DOMAIN Initial[n] -> Seq(Pieces)]
    /\ MaxGets \in Nat
    /\ Window \in Nat \ {0}
    /\ ReadMayFail \in BOOLEAN

VARIABLES
    disk,       \* node -> the files in its sharing_dir, name -> pieces
    running,    \* nodes whose event loop runs
    gets        \* the file requests made so far

vars == <<disk, running, gets>>

(***************************************************************************)
(* A request: who asks whom for what; the pieces under way; how far each   *)
(* end has come; what both ends had when they opened the file, and what    *)
(* the requester has when it is told.                                      *)
(***************************************************************************)
NewGet(n, m, f, content) ==
    [to |-> n, from |-> m, file |-> f, server |-> "asked", client |-> "reading",
     read |-> 0, stream |-> <<>>, written |-> 0,
     old |-> content, source |-> <<>>, cut |-> FALSE, got |-> <<>>]

GetIds == DOMAIN gets

\* The pieces of the file get t reads from, and of the file it writes.
Source(t) == disk[gets[t].from][gets[t].file]
Target(t) == disk[gets[t].to][gets[t].file]

-----------------------------------------------------------------------------
\* A directory once f is opened with create and write, without truncate.
Opened(dir, f) ==
    [g \in DOMAIN dir \cup {f} |-> IF g \in DOMAIN dir THEN dir[g] ELSE <<>>]

\* The requests once the event loop of node n ends and drops its swarm: what
\* n serves goes no further, and what it fetches is given up.
Abandon(n) ==
    [t \in GetIds |->
        [gets[t] EXCEPT
            !.server = IF gets[t].from = n /\ @ # "ended" THEN "gone" ELSE @,
            !.client = IF gets[t].to = n /\ @ = "reading" THEN "failed" ELSE @]]

EndLoop(n) ==
    /\ gets' = Abandon(n)
    /\ running' = running \ {n}
    /\ UNCHANGED disk

\* get@: the file is opened before the user's peer is looked up.  `?' ends the
\* loop if it cannot be opened; where the peer is not known nothing more
\* happens.
GetFile(n, m, f) ==
    LET dir == Opened(disk[n], f) IN
    /\ n \in running
    /\ Len(gets) < MaxGets
    /\ \/ EndLoop(n)
       \/ /\ disk' = [disk EXCEPT ![n] = dir]
          /\ \/ gets' = Append(gets, NewGet(n, m, f, dir[f]))
             \/ UNCHANGED gets
          /\ UNCHANGED running

\* RequestReceived: the file is opened, and `?' ends the loop if it is not
\* there or cannot be opened.
Serve(t) ==
    LET m == gets[t].from IN
    /\ gets[t].server = "asked"
    /\ gets[t].client = "reading"
    /\ m \in running
    /\ \/ EndLoop(m)
       \/ /\ gets[t].file \in DOMAIN disk[m]
          /\ gets' = [gets EXCEPT ![t].server = "copying",
                                  ![t].source = Source(t)]
          /\ UNCHANGED <<disk, running>>

\* The server's copy_stream reads the next piece of the file as it is now.
SendPiece(t) ==
    LET g == gets[t] IN
    /\ g.server = "copying"
    /\ g.read < Len(Source(t))
    /\ Len(g.stream) < Window
    /\ gets' = [gets EXCEPT ![t].read = @ + 1,
                            ![t].stream = Append(@, Source(t)[g.read + 1])]
    /\ UNCHANGED <<disk, running>>

\* The copy is complete: Ok(true), and the substream is dropped.
EndOfFile(t) ==
    /\ gets[t].server = "copying"
    /\ gets[t].read >= Len(Source(t))
    /\ gets' = [gets EXCEPT ![t].server = "ended"]
    /\ UNCHANGED <<disk, running>>

\* The reader fails: the upgrade fails, and the substream is dropped.
ReadFails(t) ==
    /\ ReadMayFail
    /\ gets[t].server = "copying"
    /\ gets' = [gets EXCEPT ![t].server = "ended", ![t].cut = TRUE]
    /\ UNCHANGED <<disk, running>>

\* Fault: the piece is written behind the end of the file.
WrittenBehind(content, i, piece) == Append(content, piece)

\* The content of a file after a piece is written at position i.
Written(content, i, piece) ==
    [j \in 1..(IF i > Len(content) THEN i ELSE Len(content)) |->
        IF j = i THEN piece ELSE content[j]]

\* A request once the requester has taken a piece from the stream.
TakePiece(g) == [g EXCEPT !.stream = Tail(@), !.written = @ + 1]

\* The requester's copy_stream writes the next piece.
ReceivePiece(t) ==
    LET g == gets[t] IN
    /\ g.client = "reading"
    /\ g.stream # <<>>
    /\ disk' = [disk EXCEPT ![g.to][g.file] =
                   Written(@, g.written + 1, Head(g.stream))]
    /\ gets' = [gets EXCEPT ![t] = TakePiece(g)]
    /\ UNCHANGED running

\* Fault: the end of the substream is taken for the end of the copy though
\* pieces are still under way.
DrainedEarly(g) == g.server = "ended"

\* copy_stream has seen the end of the stream.
Drained(g) == g.server = "ended" /\ g.stream = <<>>

\* ResponseReceived, and the answer GetFile.
Finish(t) ==
    /\ gets[t].client = "reading"
    /\ Drained(gets[t])
    /\ gets' = [gets EXCEPT ![t].client = "answered", ![t].got = Target(t)]
    /\ UNCHANGED <<disk, running>>

\* The connection is lost or the substream times out.
LoseStream(t) ==
    /\ gets[t].client = "reading"
    /\ gets' = [gets EXCEPT ![t].client = "failed", ![t].server = "gone"]
    /\ UNCHANGED <<disk, running>>

-----------------------------------------------------------------------------
Init ==
    /\ disk = Initial
    /\ running = Nodes
    /\ gets = <<>>

Transfer(t) ==
    \/ Serve(t)
    \/ SendPiece(t)
    \/ EndOfFile(t)
    \/ ReadFails(t)
    \/ ReceivePiece(t)
    \/ Finish(t)
    \/ LoseStream(t)

Next ==
    \/ \E n, m \in Nodes, f \in Files : n # m /\ GetFile(n, m, f)
    \/ \E t \in GetIds : Transfer(t)

Spec == Init /\ [][Next]_vars

-----------------------------------------------------------------------------
(***************************************************************************)
(* Properties.                                                             *)
(***************************************************************************)
\* No piece is made up or moved: each was at the start at the same place of
\* the file of that name on some node, through any chain of overlapping
\* transfers, also of files that are still being fetched.
EveryPieceHasASource ==
    \A n \in Nodes : \A f \in DOMAIN disk[n] : \A i \in DOMAIN disk[n][f] :
        \E m \in Nodes :
            /\ f \in DOMAIN Initial[m]
            /\ i \in DOMAIN Initial[m][f]
            /\ disk[n][f][i] = Initial[m][f][i]

\* No other request writes a file that request t reads or writes.
Undisturbed(t) ==
    \A u \in GetIds \ {t} :
        gets[u].file = gets[t].file => gets[u].to \notin {gets[t].to, gets[t].from}

\* The file `old' with `new' written over its beginning.
Overlay(new, old) ==
    [i \in 1..(IF Len(new) > Len(old) THEN Len(new) ELSE Len(old)) |->
        IF i <= Len(new) THEN new[i] ELSE old[i]]

\* What an answered get@ leaves when nothing else writes the two files: the
\* other node's file, all of it unless its reader failed, over the beginning
\* of whatever was there.  In particular a clean transfer into a file that is
\* not longer than the new one is exact.
AnsweredGetsOverlay ==
    \A t \in GetIds :
        LET g == gets[t] IN
        g.client = "answered" /\ Undisturbed(t) =>
            /\ g.got = Overlay(SubSeq(g.source, 1, g.written), g.old)
            /\ ~g.cut => g.written = Len(g.source)

\* A get@ that is under way or has failed, at either end and at any point, has
\* overwritten the beginning of its file with as many pieces of the other
\* node's file as it has written, and nothing else of what was there.
UnfinishedGetsOverlay ==
    \A t \in GetIds :
        LET g == gets[t] IN
        g.client # "answered" /\ Undisturbed(t) =>
            Target(t) = Overlay(SubSeq(g.source, 1, g.written), g.old)

\* "When get@ has finished, look at the file fetched from user1": a get@ that
\* is answered leaves the file as the other node has it.
GotFilesAreTheirs ==
    \A t \in GetIds :
        gets[t].client = "answered" /\ Undisturbed(t) =>
            gets[t].got = gets[t].source

=============================================================================
