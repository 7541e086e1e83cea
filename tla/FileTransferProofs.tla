------------------------- MODULE FileTransferProofs -------------------------
(***************************************************************************)
(* Proofs about FileTransfer, for any number of nodes, files and requests  *)
(* and whatever the files hold.  No get@ makes a piece up, and unless      *)
(* another get@ writes either of the two files, what a get@ leaves is as   *)
(* much of the other node's file as it has written, all of it when it is   *)
(* answered, over the beginning of the one that was there.                 *)
(***************************************************************************)
EXTENDS FileTransfer, SequenceTheorems, TLAPS

-----------------------------------------------------------------------------
(***************************************************************************)
(* Types, and what a request can count on.                                 *)
(***************************************************************************)
Gets ==
    [to : Nodes, from : Nodes, file : Files,
     server : {"asked", "copying", "ended", "gone"},
     client : {"reading", "answered", "failed"},
     read : Nat, stream : Seq(Pieces), written : Nat,
     old : Seq(Pieces), source : Seq(Pieces), cut : BOOLEAN, got : Seq(Pieces)]

\* Every sharing_dir maps names to sequences of pieces.
DiskType ==
    /\ DOMAIN disk = Nodes
    /\ disk = [n \in Nodes |-> disk[n]]
    /\ \A n \in Nodes : disk[n] \in [DOMAIN disk[n] -> Seq(Pieces)]

\* Both ends have their file open, the requester's is as long as what it has
\* written, and every piece read is written or under way.
FilesOpen(t) ==
    /\ gets[t].to # gets[t].from
    /\ gets[t].file \in DOMAIN disk[gets[t].to]
    /\ gets[t].server \in {"copying", "ended"} =>
          gets[t].file \in DOMAIN disk[gets[t].from]
    /\ gets[t].written <= Len(Target(t))
    /\ gets[t].read = gets[t].written + Len(gets[t].stream)

TypeInv ==
    /\ DiskType
    /\ gets \in Seq(Gets)
    /\ \A t \in GetIds : FilesOpen(t)

-----------------------------------------------------------------------------
\* x was at the start at place i of a file of that name.
Original(f, i, x) ==
    \E m \in Nodes : /\ f \in DOMAIN Initial[m]
                     /\ i \in DOMAIN Initial[m][f]
                     /\ x = Initial[m][f][i]

\* Also the pieces under way will be written where they were at the start.
SourceInv ==
    /\ EveryPieceHasASource
    /\ \A t \in GetIds : \A i \in DOMAIN gets[t].stream :
          Original(gets[t].file, gets[t].written + i, gets[t].stream[i])

\* What both ends of an undisturbed request have done so far: it has not
\* begun, or the file that is served stays as it was opened; the stream is
\* what is read and not yet written of it, whatever has become of the server.
Asked(t) ==
    gets[t].server = "asked" =>
        /\ gets[t].written = 0
        /\ gets[t].stream = <<>>
        /\ gets[t].source = <<>>

Served(t) ==
    gets[t].server \in {"copying", "ended"} => Source(t) = gets[t].source

Copied(t) ==
    /\ gets[t].read <= Len(gets[t].source)
    /\ gets[t].stream = SubSeq(gets[t].source, gets[t].written + 1, gets[t].read)
    /\ Target(t) = Overlay(SubSeq(gets[t].source, 1, gets[t].written), gets[t].old)

Ended(t) ==
    /\ (gets[t].server = "ended" /\ ~ gets[t].cut) =>
          gets[t].read = Len(gets[t].source)
    /\ gets[t].client = "answered" =>
          /\ gets[t].server = "ended"
          /\ gets[t].stream = <<>>
          /\ gets[t].got = Target(t)

OnCourse(t) == Asked(t) /\ Served(t) /\ Copied(t) /\ Ended(t)

OverlayInv == \A t \in GetIds : Undisturbed(t) => OnCourse(t)

-----------------------------------------------------------------------------
(***************************************************************************)
(* The kinds of steps.                                                     *)
(***************************************************************************)

\* The pieces request u has moved, and for whom, are as they were.
SameParties(u) ==
    /\ gets'[u].to = gets[u].to
    /\ gets'[u].from = gets[u].from
    /\ gets'[u].file = gets[u].file
    /\ gets'[u].old = gets[u].old

SamePieces(u) ==
    /\ gets'[u].read = gets[u].read
    /\ gets'[u].stream = gets[u].stream
    /\ gets'[u].written = gets[u].written
    /\ gets'[u].source = gets[u].source
    /\ gets'[u].cut = gets[u].cut
    /\ gets'[u].got = gets[u].got

\* An end of request u may give up; an end that has ended does so only when
\* the other gives up too.
QuitsAt(u) ==
    /\ SameParties(u)
    /\ SamePieces(u)
    /\ gets'[u].server \in {gets[u].server, "gone"}
    /\ gets'[u].client \in {gets[u].client, "failed"}
    /\ gets'[u].server # gets[u].server =>
          gets[u].server # "ended" \/ gets'[u].client = "failed"

Quits ==
    /\ UNCHANGED disk
    /\ gets' \in Seq(Gets)
    /\ GetIds' = GetIds
    /\ \A u \in GetIds : QuitsAt(u)

\* Only request t changes, and for the same parties.
Moves(t) ==
    /\ gets' \in Seq(Gets)
    /\ GetIds' = GetIds
    /\ SameParties(t)
    /\ \A u \in GetIds : u # t => gets'[u] = gets[u]

\* Files that are there stay as they are, new ones are empty.
DiskGrows ==
    /\ \A n \in Nodes : \A f \in DOMAIN disk[n] :
          f \in DOMAIN disk'[n] /\ disk'[n][f] = disk[n][f]
    /\ \A n \in Nodes : \A f \in DOMAIN disk'[n] :
          f \in DOMAIN disk[n] \/ disk'[n][f] = <<>>

\* A file is opened, and perhaps a request for it made.
Opens ==
    /\ DiskType'
    /\ DiskGrows
    /\ gets' \in Seq(Gets)
    /\ \/ UNCHANGED gets
       \/ \E n, m \in Nodes : \E f \in DOMAIN disk'[n] :
            /\ n # m
            /\ gets' = Append(gets, NewGet(n, m, f, disk'[n][f]))

\* The fields of a request.
LEMMA GetFields ==
    ASSUME gets \in Seq(Gets), NEW t \in GetIds
    PROVE  /\ gets[t] \in Gets
           /\ gets[t].to \in Nodes
           /\ gets[t].from \in Nodes
           /\ gets[t].file \in Files
           /\ gets[t].server \in {"asked", "copying", "ended", "gone"}
           /\ gets[t].client \in {"reading", "answered", "failed"}
           /\ gets[t].read \in Nat
           /\ gets[t].stream \in Seq(Pieces)
           /\ gets[t].written \in Nat
           /\ gets[t].old \in Seq(Pieces)
           /\ gets[t].source \in Seq(Pieces)
           /\ gets[t].cut \in BOOLEAN
           /\ gets[t].got \in Seq(Pieces)
<1>1. gets[t] \in Gets
  BY DEF GetIds
<1> QED
  BY <1>1 DEF Gets

\* The files of a request.
LEMMA OpenFiles ==
    ASSUME TypeInv, NEW t \in GetIds
    PROVE  /\ Target(t) \in Seq(Pieces)
           /\ gets[t].file \in DOMAIN disk[gets[t].from] => Source(t) \in Seq(Pieces)
BY GetFields DEF TypeInv, DiskType, FilesOpen, Target, Source

\* Replacing one request.
LEMMA GetsUpdate ==
    ASSUME gets \in Seq(Gets), NEW t \in GetIds, NEW h \in Gets,
           gets' = [gets EXCEPT ![t] = h]
    PROVE  /\ gets' \in Seq(Gets)
           /\ GetIds' = GetIds
           /\ gets'[t] = h
           /\ \A u \in GetIds : u # t => gets'[u] = gets[u]
<1>1. gets' \in Seq(Gets) /\ Len(gets') = Len(gets)
  BY ExceptSeq DEF GetIds
<1> QED
  BY <1>1 DEF GetIds

\* The loop of a node ends.
LEMMA LoopEnds ==
    ASSUME gets \in Seq(Gets), NEW n, EndLoop(n)
    PROVE  Quits
<1>1. UNCHANGED disk /\ gets' = Abandon(n)
  BY DEF EndLoop
<1>2. /\ DOMAIN gets' = GetIds
      /\ gets' = [u \in GetIds |-> gets'[u]]
      /\ GetIds' = GetIds
      /\ GetIds = 1..Len(gets)
      /\ Len(gets) \in Nat
  <2>1. DOMAIN Abandon(n) = GetIds /\ Abandon(n) = [u \in GetIds |-> Abandon(n)[u]]
    BY Zenon DEF Abandon
  <2> QED
    BY <1>1, <2>1 DEF GetIds
<1>3. ASSUME NEW u \in GetIds PROVE gets'[u] \in Gets /\ QuitsAt(u)
  <2>1. gets[u] \in Gets
    BY <1>3, GetFields
  <2>2. gets'[u] = [gets[u] EXCEPT
            !.server = IF gets[u].from = n /\ @ # "ended" THEN "gone" ELSE @,
            !.client = IF gets[u].to = n /\ @ = "reading" THEN "failed" ELSE @]
    BY <1>1, <1>3 DEF Abandon
  <2>3. gets'[u] \in Gets
    BY <2>1, <2>2 DEF Gets
  <2>4. QuitsAt(u)
    BY <2>1, <2>2 DEF QuitsAt, SameParties, SamePieces, Gets
  <2> QED
    BY <2>3, <2>4
<1>4. gets' \in Seq(Gets)
  BY <1>2, <1>3
<1> QED
  BY <1>1, <1>2, <1>3, <1>4 DEF Quits

\* A substream is lost.
LEMMA StreamLost ==
    ASSUME gets \in Seq(Gets), NEW t \in GetIds, LoseStream(t)
    PROVE  Quits
<1> DEFINE h == [gets[t] EXCEPT !.client = "failed", !.server = "gone"]
<1>1. gets[t] \in Gets
  BY GetFields
<1>2. h \in Gets
  BY <1>1 DEF Gets
<1>3. gets' = [gets EXCEPT ![t] = h]
  BY DEF LoseStream, GetIds
<1>4. /\ h.client = "failed"
      /\ h.server = "gone"
      /\ h.to = gets[t].to
      /\ h.from = gets[t].from
      /\ h.file = gets[t].file
      /\ h.old = gets[t].old
      /\ h.read = gets[t].read
      /\ h.stream = gets[t].stream
      /\ h.written = gets[t].written
      /\ h.source = gets[t].source
      /\ h.cut = gets[t].cut
      /\ h.got = gets[t].got
  BY <1>1 DEF Gets
<1> HIDE DEF h
<1>5. /\ gets' \in Seq(Gets)
      /\ GetIds' = GetIds
      /\ gets'[t] = h
      /\ \A u \in GetIds : u # t => gets'[u] = gets[u]
  BY <1>2, <1>3, GetsUpdate
<1>6. UNCHANGED disk
  BY DEF LoseStream
<1> QED
  BY <1>4, <1>5, <1>6 DEF Quits, QuitsAt, SameParties, SamePieces

\* The file is opened before the peer is looked up.
LEMMA FileOpened ==
    ASSUME TypeInv, NEW n \in Nodes, NEW m \in Nodes, NEW f \in Files, n # m,
           GetFile(n, m, f)
    PROVE  Quits \/ Opens
<1> DEFINE dir == Opened(disk[n], f)
<1>1. CASE EndLoop(n)
  BY <1>1, LoopEnds DEF TypeInv
<1>2. CASE /\ disk' = [disk EXCEPT ![n] = dir]
           /\ gets' = Append(gets, NewGet(n, m, f, dir[f])) \/ UNCHANGED gets
  <2>1. /\ dir \in [DOMAIN dir -> Seq(Pieces)]
        /\ DOMAIN dir = DOMAIN disk[n] \cup {f}
        /\ \A g \in DOMAIN disk[n] : dir[g] = disk[n][g]
        /\ \A g \in DOMAIN dir : g \in DOMAIN disk[n] \/ dir[g] = <<>>
    <3>1. disk[n] \in [DOMAIN disk[n] -> Seq(Pieces)] /\ <<>> \in Seq(Pieces)
      BY DEF TypeInv, DiskType
    <3> QED
      BY <3>1 DEF Opened
  <2> HIDE DEF dir
  <2>2. /\ DOMAIN disk' = Nodes
        /\ disk' = [k \in Nodes |-> disk'[k]]
        /\ disk'[n] = dir
        /\ \A k \in Nodes : k # n => disk'[k] = disk[k]
    BY <1>2 DEF TypeInv, DiskType
  <2>3. DiskType' /\ DiskGrows
    BY <2>1, <2>2 DEF TypeInv, DiskType, DiskGrows
  <2>4. NewGet(n, m, f, dir[f]) \in Gets
    BY <2>1 DEF NewGet, Gets
  <2>5. gets' \in Seq(Gets)
    BY <1>2, <2>4, AppendProperties DEF TypeInv
  <2>6. CASE UNCHANGED gets
    BY <2>3, <2>5, <2>6 DEF Opens
  <2>7. CASE gets' = Append(gets, NewGet(n, m, f, dir[f]))
    <3>1. f \in DOMAIN disk'[n] /\ dir = disk'[n]
      BY <2>1, <2>2
    <3> QED
      BY <2>3, <2>5, <2>7, <3>1 DEF Opens
  <2> QED
    BY <1>2, <2>6, <2>7
<1> QED
  BY <1>1, <1>2 DEF GetFile

\* The server opens its file.
Starts(t) ==
    /\ Moves(t)
    /\ UNCHANGED disk
    /\ gets[t].file \in DOMAIN disk[gets[t].from]
    /\ gets[t].server = "asked"
    /\ gets'[t].server = "copying"
    /\ gets'[t].source = Source(t)
    /\ gets'[t].client = gets[t].client
    /\ gets'[t].read = gets[t].read
    /\ gets'[t].stream = gets[t].stream
    /\ gets'[t].written = gets[t].written
    /\ gets'[t].cut = gets[t].cut

\* The server sends a piece.
Sends(t) ==
    /\ Moves(t)
    /\ UNCHANGED disk
    /\ gets[t].server = "copying"
    /\ gets'[t].server = "copying"
    /\ gets[t].read < Len(Source(t))
    /\ gets'[t].read = gets[t].read + 1
    /\ gets'[t].stream = Append(gets[t].stream, Source(t)[gets[t].read + 1])
    /\ gets'[t].client = gets[t].client
    /\ gets'[t].source = gets[t].source
    /\ gets'[t].written = gets[t].written
    /\ gets'[t].cut = gets[t].cut

\* The server's end is dropped, after the whole file or after an error.
Stops(t) ==
    /\ Moves(t)
    /\ UNCHANGED disk
    /\ SamePieces(t) \/ gets'[t].cut = TRUE
    /\ gets[t].server = "copying"
    /\ gets'[t].server = "ended"
    /\ gets'[t].cut \/ gets[t].read >= Len(Source(t))
    /\ gets'[t].client = gets[t].client
    /\ gets'[t].source = gets[t].source
    /\ gets'[t].read = gets[t].read
    /\ gets'[t].stream = gets[t].stream
    /\ gets'[t].written = gets[t].written

\* The application is told.
Tells(t) ==
    /\ Moves(t)
    /\ UNCHANGED disk
    /\ gets[t].server = "ended"
    /\ gets'[t].server = "ended"
    /\ gets[t].stream = <<>>
    /\ gets'[t].stream = <<>>
    /\ gets'[t].got = Target(t)
    /\ gets'[t].client = "answered"
    /\ gets'[t].source = gets[t].source
    /\ gets'[t].read = gets[t].read
    /\ gets'[t].written = gets[t].written
    /\ gets'[t].cut = gets[t].cut

\* The requester writes a piece.
Writes(t) ==
    /\ Moves(t)
    /\ gets[t].stream # <<>>
    /\ gets[t].client = "reading"
    /\ disk' = [disk EXCEPT ![gets[t].to][gets[t].file] =
                   Written(@, gets[t].written + 1, Head(gets[t].stream))]
    /\ gets'[t].stream = Tail(gets[t].stream)
    /\ gets'[t].written = gets[t].written + 1
    /\ gets'[t].client = gets[t].client
    /\ gets'[t].server = gets[t].server
    /\ gets'[t].source = gets[t].source
    /\ gets'[t].read = gets[t].read
    /\ gets'[t].cut = gets[t].cut

\* A request whose copy has gone on at one of its ends.
LEMMA GetsAfterPiece ==
    ASSUME NEW g \in Gets, NEW k \in Nat, NEW s \in Seq(Pieces)
    PROVE  /\ [g EXCEPT !.read = k, !.stream = s] \in Gets
           /\ [g EXCEPT !.stream = s, !.written = k] \in Gets
BY DEF Gets

\* Every step is of one of these kinds.
LEMMA StepKinds ==
    ASSUME TypeInv, [Next]_vars
    PROVE  \/ Quits
           \/ Opens
           \/ \E t \in GetIds :
                 Starts(t) \/ Sends(t) \/ Stops(t) \/ Tells(t) \/ Writes(t)
<1>1. ASSUME NEW t \in GetIds, NEW h \in Gets, gets' = [gets EXCEPT ![t] = h],
             h.to = gets[t].to, h.from = gets[t].from, h.file = gets[t].file,
             h.old = gets[t].old
      PROVE  Moves(t) /\ gets'[t] = h
  BY <1>1, GetsUpdate DEF TypeInv, Moves, SameParties
<1>2. ASSUME NEW t \in GetIds, Serve(t) PROVE Quits \/ Starts(t)
  <2>1. CASE EndLoop(gets[t].from)
    BY <2>1, LoopEnds DEF TypeInv
  <2>2. CASE /\ gets[t].file \in DOMAIN disk[gets[t].from]
             /\ gets' = [gets EXCEPT ![t].server = "copying",
                                     ![t].source = Source(t)]
             /\ UNCHANGED disk
    <3> DEFINE h == [gets[t] EXCEPT !.server = "copying", !.source = Source(t)]
    <3>1. gets[t] \in Gets /\ Source(t) \in Seq(Pieces)
      BY <2>2, GetFields, OpenFiles DEF TypeInv
    <3>2. h \in Gets
      BY <3>1 DEF Gets
    <3>3. /\ gets[t].server = "asked"
          /\ gets' = [gets EXCEPT ![t] = h]
          /\ UNCHANGED disk
      BY <1>2, <2>2 DEF Serve, GetIds
    <3>4. /\ h.server = "copying" /\ h.source = Source(t) /\ h.to = gets[t].to
          /\ h.from = gets[t].from /\ h.file = gets[t].file /\ h.old = gets[t].old
          /\ h.client = gets[t].client /\ h.read = gets[t].read
          /\ h.stream = gets[t].stream /\ h.written = gets[t].written
          /\ h.cut = gets[t].cut
      BY <3>1 DEF Gets
    <3> HIDE DEF h
    <3>5. Moves(t) /\ gets'[t] = h
      BY <1>1, <3>2, <3>3, <3>4
    <3> QED
      BY <2>2, <3>3, <3>4, <3>5 DEF Starts
  <2> QED
    BY <1>2, <2>1, <2>2 DEF Serve
<1>3. ASSUME NEW t \in GetIds, SendPiece(t) PROVE Sends(t)
  <2> DEFINE x == Source(t)[gets[t].read + 1]
             h == [gets[t] EXCEPT !.read = @ + 1, !.stream = Append(@, x)]
  <2>1. gets[t] \in Gets /\ Source(t) \in Seq(Pieces)
    BY <1>3, GetFields, OpenFiles DEF TypeInv, FilesOpen, SendPiece
  <2>2. x \in Pieces
    <3>1. gets[t].read \in Nat /\ gets[t].read < Len(Source(t))
      BY <1>3, <2>1 DEF SendPiece, Gets
    <3>2. gets[t].read + 1 \in 1..Len(Source(t))
      BY <2>1, <3>1
    <3> QED
      BY <2>1, <3>2, ElementOfSeq
  <2>3. /\ gets[t].server = "copying"
        /\ gets[t].read < Len(Source(t))
        /\ gets' = [gets EXCEPT ![t] = h]
        /\ UNCHANGED disk
    BY <1>3 DEF SendPiece, GetIds
  <2> HIDE DEF x
  <2>4. h \in Gets
    <3>1. gets[t].read + 1 \in Nat /\ gets[t].stream \in Seq(Pieces)
      BY <2>1 DEF Gets
    <3>2. Append(gets[t].stream, x) \in Seq(Pieces)
      BY <2>2, <3>1, AppendProperties
    <3> QED
      BY <2>1, <3>1, <3>2, GetsAfterPiece
  <2>5. /\ h.server = gets[t].server /\ h.source = gets[t].source
        /\ h.to = gets[t].to /\ h.from = gets[t].from /\ h.file = gets[t].file
        /\ h.old = gets[t].old /\ h.client = gets[t].client
        /\ h.read = gets[t].read + 1 /\ h.stream = Append(gets[t].stream, x)
        /\ h.written = gets[t].written /\ h.cut = gets[t].cut
    BY <2>1 DEF Gets
  <2> HIDE DEF h
  <2>6. Moves(t) /\ gets'[t] = h
    BY <1>1, <2>3, <2>4, <2>5
  <2> QED
    BY <2>3, <2>5, <2>6 DEF Sends, x
<1>4. ASSUME NEW t \in GetIds, EndOfFile(t) \/ ReadFails(t) PROVE Stops(t)
  <2>1. gets[t] \in Gets
    BY GetFields DEF TypeInv
  <2>2. PICK b \in BOOLEAN :
          /\ b = gets[t].cut \/ b = TRUE
          /\ b \/ gets[t].read >= Len(Source(t))
          /\ gets' = [gets EXCEPT ![t] = [gets[t] EXCEPT !.server = "ended", !.cut = b]]
    <3>1. CASE EndOfFile(t)
      <4>1. gets' = [gets EXCEPT ![t] = [gets[t] EXCEPT !.server = "ended",
                                                        !.cut = gets[t].cut]]
        <5>1. [gets[t] EXCEPT !.server = "ended", !.cut = gets[t].cut]
                = [gets[t] EXCEPT !.server = "ended"]
          BY <2>1 DEF Gets
        <5> QED
          BY <3>1, <5>1 DEF EndOfFile, GetIds
      <4>2. gets[t].cut \in BOOLEAN /\ gets[t].read >= Len(Source(t))
        BY <2>1, <3>1 DEF Gets, EndOfFile
      <4> QED
        BY <4>1, <4>2
    <3>2. CASE ReadFails(t)
      BY <3>2 DEF ReadFails, GetIds
    <3> QED
      BY <1>4, <3>1, <3>2
  <2> DEFINE h == [gets[t] EXCEPT !.server = "ended", !.cut = b]
  <2>3. gets[t].server = "copying" /\ UNCHANGED disk
    BY <1>4 DEF EndOfFile, ReadFails
  <2>4. h \in Gets
    BY <2>1 DEF Gets
  <2>5. /\ h.server = "ended" /\ h.source = gets[t].source
        /\ h.to = gets[t].to /\ h.from = gets[t].from /\ h.file = gets[t].file
        /\ h.old = gets[t].old /\ h.client = gets[t].client
        /\ h.read = gets[t].read /\ h.stream = gets[t].stream
        /\ h.written = gets[t].written /\ h.cut = b /\ h.got = gets[t].got
    BY <2>1 DEF Gets
  <2>6. gets' = [gets EXCEPT ![t] = h]
    BY <2>2
  <2> HIDE DEF h
  <2>7. Moves(t) /\ gets'[t] = h
    BY <1>1, <2>4, <2>5, <2>6
  <2> QED
    BY <2>2, <2>3, <2>5, <2>7 DEF Stops, SamePieces
<1>5. ASSUME NEW t \in GetIds, Finish(t) PROVE Tells(t)
  <2> DEFINE h == [gets[t] EXCEPT !.client = "answered", !.got = Target(t)]
  <2>1. gets[t] \in Gets /\ Target(t) \in Seq(Pieces)
    BY GetFields, OpenFiles DEF TypeInv
  <2>2. h \in Gets
    BY <2>1 DEF Gets
  <2>3. /\ gets[t].server = "ended"
        /\ gets[t].stream = <<>>
        /\ gets' = [gets EXCEPT ![t] = h]
        /\ UNCHANGED disk
    BY <1>5 DEF Finish, Drained, GetIds
  <2>4. /\ h.server = gets[t].server /\ h.source = gets[t].source
        /\ h.to = gets[t].to /\ h.from = gets[t].from /\ h.file = gets[t].file
        /\ h.old = gets[t].old /\ h.client = "answered" /\ h.got = Target(t)
        /\ h.read = gets[t].read /\ h.stream = gets[t].stream
        /\ h.written = gets[t].written /\ h.cut = gets[t].cut
    BY <2>1 DEF Gets
  <2> HIDE DEF h
  <2>5. Moves(t) /\ gets'[t] = h
    BY <1>1, <2>2, <2>3, <2>4
  <2> QED
    BY <2>3, <2>4, <2>5 DEF Tells
<1>6. ASSUME NEW t \in GetIds, ReceivePiece(t) PROVE Writes(t)
  <2> DEFINE h == TakePiece(gets[t])
  <2>1. gets[t] \in Gets /\ gets[t].stream # <<>> /\ gets[t].stream \in Seq(Pieces)
    BY <1>6, GetFields DEF TypeInv, ReceivePiece
  <2>2. h \in Gets
    <3>1. Tail(gets[t].stream) \in Seq(Pieces)
      BY <2>1, HeadTailProperties
    <3>2. gets[t].written + 1 \in Nat
      BY <2>1 DEF Gets
    <3> QED
      BY <2>1, <3>1, <3>2, GetsAfterPiece DEF TakePiece
  <2>3. /\ gets[t].client = "reading"
        /\ gets' = [gets EXCEPT ![t] = h]
        /\ disk' = [disk EXCEPT ![gets[t].to][gets[t].file] =
                      Written(@, gets[t].written + 1, Head(gets[t].stream))]
    BY <1>6 DEF ReceivePiece
  <2>4. /\ h.server = gets[t].server /\ h.source = gets[t].source
        /\ h.to = gets[t].to /\ h.from = gets[t].from /\ h.file = gets[t].file
        /\ h.old = gets[t].old /\ h.client = gets[t].client
        /\ h.read = gets[t].read /\ h.stream = Tail(gets[t].stream)
        /\ h.written = gets[t].written + 1 /\ h.cut = gets[t].cut
    BY <2>1 DEF Gets, TakePiece
  <2> HIDE DEF h
  <2>5. Moves(t) /\ gets'[t] = h
    BY <1>1, <2>2, <2>3, <2>4
  <2> QED
    BY <2>1, <2>3, <2>4, <2>5 DEF Writes
<1>7. CASE UNCHANGED vars
  BY <1>7 DEF vars, Quits, QuitsAt, SameParties, SamePieces, TypeInv, GetIds
<1> QED
  BY <1>2, <1>3, <1>4, <1>5, <1>6, <1>7, FileOpened, StreamLost
  DEF Next, Transfer, TypeInv

\* A file after a piece is written no further than just behind its end.
LEMMA WrittenFile ==
    ASSUME NEW content \in Seq(Pieces), NEW i \in 1..(Len(content) + 1),
           NEW x \in Pieces
    PROVE  /\ Written(content, i, x) \in Seq(Pieces)
           /\ Len(Written(content, i, x)) =
                 IF i > Len(content) THEN i ELSE Len(content)
           /\ \A j \in 1..Len(Written(content, i, x)) :
                 Written(content, i, x)[j] = IF j = i THEN x ELSE content[j]
<1> DEFINE n == IF i > Len(content) THEN i ELSE Len(content)
           w == Written(content, i, x)
<1>1. n \in Nat /\ w = [j \in 1..n |-> IF j = i THEN x ELSE content[j]]
  BY DEF Written
<1>2. \A j \in 1..n : j = i \/ j \in 1..Len(content)
  OBVIOUS
<1>3. \A j \in 1..n : (IF j = i THEN x ELSE content[j]) \in Pieces
  BY <1>2, ElementOfSeq
<1> HIDE DEF n, w
<1>4. w \in Seq(Pieces) /\ Len(w) = n
  BY <1>1, <1>3
<1> QED
  BY <1>1, <1>4 DEF n, w

\* The requester's write touches its own file only, just behind what it has
\* written or over what was there.
LEMMA WriteHits ==
    ASSUME TypeInv, NEW t \in GetIds, Writes(t)
    PROVE  /\ Head(gets[t].stream) \in Pieces
           /\ gets[t].written + 1 \in 1..(Len(Target(t)) + 1)
           /\ DiskType'
           /\ \A n \in Nodes : DOMAIN disk'[n] = DOMAIN disk[n]
           /\ \A n \in Nodes : \A f \in DOMAIN disk[n] :
                 (n # gets[t].to \/ f # gets[t].file) => disk'[n][f] = disk[n][f]
           /\ Target(t)' =
                 Written(Target(t), gets[t].written + 1, Head(gets[t].stream))
           /\ Len(Target(t)') = IF gets[t].written + 1 > Len(Target(t))
                                THEN gets[t].written + 1 ELSE Len(Target(t))
           /\ \A j \in 1..Len(Target(t)') :
                 Target(t)'[j] = IF j = gets[t].written + 1
                                 THEN Head(gets[t].stream) ELSE Target(t)[j]
<1> DEFINE p == gets[t].to
           f == gets[t].file
           x == Head(gets[t].stream)
           i == gets[t].written + 1
           w == Written(Target(t), i, x)
<1>1. /\ gets[t].stream \in Seq(Pieces)
      /\ gets[t].stream # <<>>
      /\ gets[t].written \in Nat
      /\ p \in Nodes
  BY GetFields DEF TypeInv, Writes
<1>2. /\ Target(t) \in Seq(Pieces)
      /\ gets[t].written <= Len(Target(t))
      /\ f \in DOMAIN disk[p]
  BY OpenFiles DEF TypeInv, FilesOpen
<1>3. x \in Pieces /\ i \in 1..(Len(Target(t)) + 1)
  BY <1>1, <1>2, HeadTailProperties
<1>4. /\ w \in Seq(Pieces)
      /\ Len(w) = IF i > Len(Target(t)) THEN i ELSE Len(Target(t))
      /\ \A j \in 1..Len(w) : w[j] = IF j = i THEN x ELSE Target(t)[j]
  BY <1>2, <1>3, WrittenFile, ZenonT(30)
<1>5. disk' = [disk EXCEPT ![p] = [disk[p] EXCEPT ![f] = w]]
  BY DEF Writes, Target
<1> HIDE DEF p, f, x, i, w
<1>6. /\ DOMAIN disk' = Nodes
      /\ disk' = [n \in Nodes |-> disk'[n]]
      /\ disk'[p] = [disk[p] EXCEPT ![f] = w]
      /\ \A n \in Nodes : n # p => disk'[n] = disk[n]
  BY <1>1, <1>5 DEF TypeInv, DiskType
<1>7. /\ disk[p] \in [DOMAIN disk[p] -> Seq(Pieces)]
      /\ DOMAIN disk'[p] = DOMAIN disk[p]
      /\ disk'[p][f] = w
      /\ \A g \in DOMAIN disk[p] : g # f => disk'[p][g] = disk[p][g]
  BY <1>1, <1>2, <1>6 DEF TypeInv, DiskType
<1>8. disk'[p] \in [DOMAIN disk'[p] -> Seq(Pieces)]
  BY <1>4, <1>6, <1>7
<1>9. DiskType'
  BY <1>6, <1>8 DEF TypeInv, DiskType
<1>10. Target(t)' = w
  BY <1>7 DEF Target, Writes, Moves, SameParties, p, f
<1> QED
  BY <1>3, <1>4, <1>6, <1>7, <1>9, <1>10 DEF p, f, x, i, w

\* No file gets shorter by it.
LEMMA WriteLengthens ==
    ASSUME TypeInv, NEW t \in GetIds, Writes(t),
           NEW n \in Nodes, NEW f \in DOMAIN disk[n]
    PROVE  f \in DOMAIN disk'[n] /\ Len(disk'[n][f]) >= Len(disk[n][f])
<1>1. Len(disk[n][f]) \in Nat /\ f \in DOMAIN disk'[n]
  BY WriteHits DEF TypeInv, DiskType
<1>2. CASE n # gets[t].to \/ f # gets[t].file
  BY <1>1, <1>2, WriteHits
<1>3. CASE n = gets[t].to /\ f = gets[t].file
  <2>1. disk[n][f] = Target(t) /\ disk'[n][f] = Target(t)'
    BY <1>3 DEF Target, Writes, Moves, SameParties
  <2>2. gets[t].written \in Nat
    BY GetFields DEF TypeInv
  <2> QED
    BY <1>1, <2>1, <2>2, WriteHits
<1> QED
  BY <1>2, <1>3

\* Opening a file leaves the requests that are there with theirs.
LEMMA OpensKeeps ==
    ASSUME TypeInv, Opens
    PROVE  /\ \A u \in GetIds : /\ u \in GetIds'
                                /\ gets'[u] = gets[u]
                                /\ Target(u)' = Target(u)
                                /\ gets[u].file \in DOMAIN disk[gets[u].from] =>
                                      Source(u)' = Source(u)
           /\ \A u \in GetIds' : u \in GetIds \/
                 \E n, m \in Nodes : \E f \in DOMAIN disk'[n] :
                    n # m /\ gets'[u] = NewGet(n, m, f, disk'[n][f])
<1>1. \A u \in GetIds : u \in GetIds' /\ gets'[u] = gets[u]
  <2>1. CASE UNCHANGED gets
    BY <2>1 DEF GetIds
  <2>2. ASSUME NEW g, gets' = Append(gets, g), gets' \in Seq(Gets)
        PROVE  \A u \in GetIds : u \in GetIds' /\ gets'[u] = gets[u]
    BY <2>2 DEF GetIds, TypeInv
  <2> QED
    BY <2>1, <2>2 DEF Opens
<1>2. ASSUME NEW u \in GetIds PROVE Target(u)' = Target(u)
  BY <1>1, GetFields DEF Target, Opens, DiskGrows, TypeInv, FilesOpen
<1>3. ASSUME NEW u \in GetIds, gets[u].file \in DOMAIN disk[gets[u].from]
      PROVE  Source(u)' = Source(u)
  BY <1>1, <1>3, GetFields DEF Source, Opens, DiskGrows, TypeInv
<1>4. ASSUME NEW u \in GetIds', u \notin GetIds
      PROVE  \E n, m \in Nodes : \E f \in DOMAIN disk'[n] :
                n # m /\ gets'[u] = NewGet(n, m, f, disk'[n][f])
  <2>1. PICK n \in Nodes, m \in Nodes : \E f \in DOMAIN disk'[n] :
          n # m /\ gets' = Append(gets, NewGet(n, m, f, disk'[n][f]))
    BY <1>4 DEF Opens, GetIds
  <2>2. PICK f \in DOMAIN disk'[n] :
          n # m /\ gets' = Append(gets, NewGet(n, m, f, disk'[n][f]))
    BY <2>1
  <2>3. gets'[u] = NewGet(n, m, f, disk'[n][f])
    BY <1>4, <2>2 DEF GetIds, TypeInv
  <2> QED
    BY <2>2, <2>3
<1> QED
  BY <1>1, <1>2, <1>3, <1>4

\* The types hold at the start.
LEMMA TypeInit == Init => TypeInv
BY TransferAssumption DEF Init, TypeInv, DiskType, GetIds

\* Every step keeps them.
LEMMA TypeStep == TypeInv /\ [Next]_vars => TypeInv'
<1> SUFFICES ASSUME TypeInv, [Next]_vars PROVE TypeInv'
  OBVIOUS
<1>1. CASE Quits
  <2>1. DiskType' /\ gets' \in Seq(Gets)
    BY <1>1 DEF TypeInv, DiskType, Quits
  <2>2. ASSUME NEW u \in GetIds PROVE FilesOpen(u)'
    <3>1. FilesOpen(u) /\ QuitsAt(u) /\ UNCHANGED disk
      BY <1>1 DEF TypeInv, Quits
    <3>2. Target(u)' = Target(u)
      BY <3>1 DEF Target, QuitsAt, SameParties
    <3> QED
      BY <3>1, <3>2 DEF FilesOpen, QuitsAt, SameParties, SamePieces
  <2> QED
    BY <1>1, <2>1, <2>2 DEF TypeInv, Quits
<1>2. CASE Opens
  <2>1. DiskType' /\ gets' \in Seq(Gets)
    BY <1>2 DEF Opens
  <2>2. ASSUME NEW u \in GetIds PROVE FilesOpen(u)'
    <3>1. FilesOpen(u) /\ gets'[u] = gets[u] /\ Target(u)' = Target(u)
      BY <1>2, OpensKeeps DEF TypeInv
    <3>2. gets[u].to \in Nodes /\ gets[u].from \in Nodes
      BY GetFields DEF TypeInv
    <3> QED
      BY <1>2, <3>1, <3>2 DEF FilesOpen, Opens, DiskGrows
  <2>3. ASSUME NEW u \in GetIds', u \notin GetIds PROVE FilesOpen(u)'
    <3>1. PICK n \in Nodes, m \in Nodes : \E f \in DOMAIN disk'[n] :
            n # m /\ gets'[u] = NewGet(n, m, f, disk'[n][f])
      BY <1>2, <2>3, OpensKeeps
    <3>2. PICK f \in DOMAIN disk'[n] :
            n # m /\ gets'[u] = NewGet(n, m, f, disk'[n][f])
      BY <3>1
    <3>3. disk'[n][f] \in Seq(Pieces)
      BY <2>1 DEF DiskType
    <3> QED
      BY <3>2, <3>3 DEF FilesOpen, NewGet, Target
  <2> QED
    BY <2>1, <2>2, <2>3 DEF TypeInv
<1>3. ASSUME NEW t \in GetIds, Starts(t) \/ Sends(t) \/ Stops(t) \/ Tells(t)
      PROVE  TypeInv'
  <2>1. Moves(t) /\ UNCHANGED disk
    BY <1>3 DEF Starts, Sends, Stops, Tells
  <2>2. DiskType' /\ gets' \in Seq(Gets) /\ GetIds' = GetIds
    BY <2>1 DEF TypeInv, DiskType, Moves
  <2>3. FilesOpen(t)'
    <3>1. FilesOpen(t)
      BY DEF TypeInv
    <3>2. Target(t)' = Target(t)
      BY <2>1 DEF Target, Moves, SameParties
    <3>3. /\ gets'[t].written = gets[t].written
          /\ gets'[t].server \in {"copying", "ended"} =>
                gets[t].file \in DOMAIN disk[gets[t].from]
      BY <1>3, <3>1 DEF Starts, Sends, Stops, Tells, FilesOpen
    <3>4. gets'[t].read = gets'[t].written + Len(gets'[t].stream)
      <4>1. /\ gets[t].stream \in Seq(Pieces)
            /\ gets[t].written \in Nat
            /\ gets[t].read = gets[t].written + Len(gets[t].stream)
        BY <3>1, GetFields DEF TypeInv, FilesOpen
      <4>2. CASE Sends(t)
        <5>1. gets[t].file \in DOMAIN disk[gets[t].from]
          BY <3>1, <4>2 DEF Sends, FilesOpen
        <5>2. Source(t)[gets[t].read + 1] \in Pieces
          <6>1. Source(t) \in Seq(Pieces) /\ gets[t].read < Len(Source(t))
            BY <4>2, <5>1, OpenFiles DEF Sends
          <6>2. gets[t].read \in Nat
            BY GetFields DEF TypeInv
          <6>3. gets[t].read + 1 \in 1..Len(Source(t))
            BY <6>1, <6>2
          <6> QED
            BY <6>1, <6>3, ElementOfSeq
        <5>3. Len(Append(gets[t].stream, Source(t)[gets[t].read + 1]))
                = Len(gets[t].stream) + 1
          BY <4>1, <5>2, AppendProperties
        <5>4. Len(gets'[t].stream) = Len(gets[t].stream) + 1
              /\ gets'[t].read = gets[t].read + 1
          BY <4>2, <5>3 DEF Sends
        <5>5. Len(gets[t].stream) \in Nat
          BY <4>1
        <5> QED
          BY <3>3, <4>1, <5>4, <5>5
      <4> QED
        BY <1>3, <4>1, <4>2 DEF Starts, Stops, Tells
    <3> QED
      BY <2>1, <3>1, <3>2, <3>3, <3>4 DEF FilesOpen, Moves, SameParties
  <2>4. ASSUME NEW u \in GetIds, u # t PROVE FilesOpen(u)'
    BY <2>1, <2>4 DEF TypeInv, FilesOpen, Moves, Target
  <2> QED
    BY <2>2, <2>3, <2>4 DEF TypeInv
<1>4. ASSUME NEW t \in GetIds, Writes(t) PROVE TypeInv'
  <2>1. Moves(t) /\ FilesOpen(t)
    BY <1>4 DEF Writes, TypeInv
  <2>2. /\ DiskType'
        /\ gets' \in Seq(Gets)
        /\ GetIds' = GetIds
        /\ \A n \in Nodes : DOMAIN disk'[n] = DOMAIN disk[n]
    BY <1>4, <2>1, WriteHits DEF Moves
  <2>3. \A n \in Nodes : \A f \in DOMAIN disk[n] : Len(disk'[n][f]) >= Len(disk[n][f])
    BY <1>4, WriteLengthens
  <2>4. FilesOpen(t)'
    <3>1. /\ gets[t].stream \in Seq(Pieces)
          /\ gets[t].stream # <<>>
          /\ gets[t].written \in Nat
          /\ gets[t].to \in Nodes
          /\ gets[t].from \in Nodes
          /\ Target(t) \in Seq(Pieces)
      BY <1>4, GetFields, OpenFiles DEF TypeInv, Writes
    <3>2. Len(Tail(gets[t].stream)) = Len(gets[t].stream) - 1
      BY <3>1, HeadTailProperties
    <3>3. gets'[t].read = gets'[t].written + Len(gets'[t].stream)
      BY <1>4, <2>1, <3>1, <3>2 DEF Writes, FilesOpen
    <3>4. gets'[t].written <= Len(Target(t)')
      <4>1. gets'[t].written = gets[t].written + 1
        BY <1>4 DEF Writes
      <4>2. Len(Target(t)') = IF gets[t].written + 1 > Len(Target(t))
                              THEN gets[t].written + 1 ELSE Len(Target(t))
        BY <1>4, WriteHits
      <4>3. Len(Target(t)) \in Nat
        BY <3>1
      <4> QED
        BY <3>1, <4>1, <4>2, <4>3
    <3> QED
      BY <1>4, <2>1, <2>2, <3>1, <3>3, <3>4
      DEF FilesOpen, Moves, SameParties, Writes
  <2>5. ASSUME NEW u \in GetIds, u # t PROVE FilesOpen(u)'
    <3>1. FilesOpen(u) /\ gets'[u] = gets[u] /\ gets[u].to \in Nodes
          /\ gets[u].from \in Nodes
      BY <2>1, <2>5, GetFields DEF TypeInv, Moves
    <3>2. Len(Target(u)') >= Len(Target(u))
      BY <2>3, <3>1 DEF Target, FilesOpen
    <3>3. Target(u) \in Seq(Pieces) /\ Target(u)' \in Seq(Pieces)
          /\ gets[u].written \in Nat
      BY <2>2, <3>1, OpenFiles, GetFields DEF TypeInv, DiskType, Target, FilesOpen
    <3> QED
      BY <2>2, <3>1, <3>2, <3>3 DEF FilesOpen
  <2> QED
    BY <2>2, <2>4, <2>5 DEF TypeInv
<1> QED
  BY <1>1, <1>2, <1>3, <1>4, StepKinds

\* The types hold in every reachable state.
LEMMA TypeInvariant == Spec => []TypeInv
BY TypeInit, TypeStep, PTL DEF Spec

-----------------------------------------------------------------------------
(***************************************************************************)
(* Where pieces come from.                                                 *)
(***************************************************************************)

\* A piece of a file, or under way to one, was there at the start.
LEMMA SourceStep == TypeInv /\ TypeInv' /\ SourceInv /\ [Next]_vars => SourceInv'
<1> SUFFICES ASSUME TypeInv, TypeInv', SourceInv, [Next]_vars PROVE SourceInv'
  OBVIOUS
<1> DEFINE Flows(u) == \A i \in DOMAIN gets[u].stream :
              Original(gets[u].file, gets[u].written + i, gets[u].stream[i])
<1>1. /\ \A n \in Nodes : \A f \in DOMAIN disk[n] : \A i \in DOMAIN disk[n][f] :
            Original(f, i, disk[n][f][i])
      /\ \A u \in GetIds : Flows(u)
  BY DEF SourceInv, EveryPieceHasASource, Original
<1>2. ASSUME /\ \A n \in Nodes : \A f \in DOMAIN disk'[n] : \A i \in DOMAIN disk'[n][f] :
                  Original(f, i, disk'[n][f][i]),
             \A u \in GetIds' : Flows(u)'
      PROVE  SourceInv'
  BY <1>2 DEF SourceInv, EveryPieceHasASource, Original
<1>3. CASE Quits
  <2>1. \A u \in GetIds' : Flows(u)'
    BY <1>1, <1>3 DEF Quits, QuitsAt, SameParties, SamePieces
  <2> QED
    BY <1>1, <1>2, <1>3, <2>1 DEF Quits
<1>4. CASE Opens
  <2>1. ASSUME NEW n \in Nodes, NEW f \in DOMAIN disk'[n], NEW i \in DOMAIN disk'[n][f]
        PROVE  Original(f, i, disk'[n][f][i])
    <3>1. CASE f \in DOMAIN disk[n]
      BY <1>1, <1>4, <2>1, <3>1 DEF Opens, DiskGrows
    <3>2. CASE f \notin DOMAIN disk[n]
      BY <1>4, <2>1, <3>2 DEF Opens, DiskGrows
    <3> QED
      BY <3>1, <3>2
  <2>2. ASSUME NEW u \in GetIds' PROVE Flows(u)'
    <3>1. CASE u \in GetIds
      BY <1>1, <1>4, <3>1, OpensKeeps
    <3>2. CASE u \notin GetIds
      <4>1. \E n, m, f, content : gets'[u] = NewGet(n, m, f, content)
        BY <1>4, <2>2, <3>2, OpensKeeps
      <4>2. gets'[u].stream = <<>>
        BY <4>1 DEF NewGet
      <4> QED
        BY <4>2
    <3> QED
      BY <3>1, <3>2
  <2> QED
    BY <1>2, <2>1, <2>2
<1>5. ASSUME NEW t \in GetIds, Starts(t) \/ Sends(t) \/ Stops(t) \/ Tells(t)
      PROVE  SourceInv'
  <2>1. Moves(t) /\ UNCHANGED disk
    BY <1>5 DEF Starts, Sends, Stops, Tells
  <2>2. Flows(t)'
    <3>1. CASE Sends(t)
      <4> DEFINE s == gets[t].stream
                 x == Source(t)[gets[t].read + 1]
      <4>1. /\ s \in Seq(Pieces)
            /\ gets[t].read \in Nat
            /\ gets[t].written \in Nat
            /\ gets[t].from \in Nodes
        BY GetFields DEF TypeInv
      <4>2. /\ gets[t].file \in DOMAIN disk[gets[t].from]
            /\ gets[t].read = gets[t].written + Len(s)
        BY <3>1 DEF TypeInv, FilesOpen, Sends
      <4>3. Source(t) \in Seq(Pieces) /\ gets[t].read + 1 \in 1..Len(Source(t))
        <5>1. Source(t) \in Seq(Pieces) /\ gets[t].read < Len(Source(t))
          BY <3>1, <4>2, OpenFiles DEF Sends
        <5> QED
          BY <4>1, <5>1
      <4>4. x \in Pieces
        BY <4>3, ElementOfSeq
      <4>5. Original(gets[t].file, gets[t].read + 1, x)
        BY <1>1, <4>1, <4>2, <4>3 DEF Source
      <4>6. /\ gets'[t].stream = Append(s, x)
            /\ gets'[t].written = gets[t].written
            /\ gets'[t].file = gets[t].file
        BY <2>1, <3>1 DEF Sends, Moves, SameParties
      <4> HIDE DEF s, x
      <4>7. /\ DOMAIN Append(s, x) = 1..(Len(s) + 1)
            /\ \A i \in 1..Len(s) : Append(s, x)[i] = s[i]
            /\ Append(s, x)[Len(s) + 1] = x
            /\ Len(s) \in Nat
            /\ DOMAIN s = 1..Len(s)
        BY <4>1, <4>4, AppendProperties
      <4>8. ASSUME NEW i \in 1..(Len(s) + 1)
            PROVE  Original(gets[t].file, gets[t].written + i, Append(s, x)[i])
        <5>1. CASE i = Len(s) + 1
          <6>1. gets[t].written + i = gets[t].read + 1
            BY <4>1, <4>2, <4>7, <5>1, SMTT(30)
          <6> QED
            BY <4>5, <4>7, <5>1, <6>1
        <5>2. CASE i # Len(s) + 1
          <6>1. i \in 1..Len(s)
            BY <4>7, <5>2
          <6> QED
            BY <1>1, <4>7, <6>1 DEF s
        <5> QED
          BY <5>1, <5>2
      <4> QED
        BY <4>6, <4>7, <4>8
    <3>2. CASE /\ gets'[t].stream = gets[t].stream
               /\ gets'[t].written = gets[t].written
      BY <1>1, <2>1, <3>2 DEF Moves, SameParties
    <3> QED
      BY <1>5, <3>1, <3>2 DEF Starts, Stops, Tells
  <2>3. \A u \in GetIds' : Flows(u)'
    BY <1>1, <2>1, <2>2 DEF Moves
  <2> QED
    BY <1>1, <1>2, <2>1, <2>3
<1>6. ASSUME NEW t \in GetIds, Writes(t) PROVE SourceInv'
  <2> DEFINE s == gets[t].stream
             k == gets[t].written
  <2>1. s \in Seq(Pieces) /\ s # <<>> /\ k \in Nat /\ Moves(t)
    BY <1>6, GetFields DEF TypeInv, Writes
  <2>2. /\ Head(s) = s[1]
        /\ 1 \in DOMAIN s
        /\ Len(s) \in Nat
        /\ DOMAIN s = 1..Len(s)
        /\ DOMAIN Tail(s) = 1..(Len(s) - 1)
        /\ \A i \in 1..(Len(s) - 1) : Tail(s)[i] = s[i + 1]
    BY <2>1, HeadTailProperties
  <2>3. /\ gets'[t].stream = Tail(s)
        /\ gets'[t].written = k + 1
        /\ gets'[t].file = gets[t].file
    BY <1>6 DEF Writes, Moves, SameParties
  <2> HIDE DEF s, k
  <2>4. \A i \in DOMAIN s : Original(gets[t].file, k + i, s[i])
    BY <1>1 DEF s, k
  <2>5. ASSUME NEW n \in Nodes, NEW f \in DOMAIN disk'[n], NEW i \in DOMAIN disk'[n][f]
        PROVE  Original(f, i, disk'[n][f][i])
    <3>1. f \in DOMAIN disk[n]
      BY <1>6, WriteHits
    <3>2. CASE n # gets[t].to \/ f # gets[t].file
      BY <1>1, <1>6, <2>5, <3>1, <3>2, WriteHits
    <3>3. CASE n = gets[t].to /\ f = gets[t].file
      <4>1. disk[n][f] = Target(t) /\ disk'[n][f] = Target(t)'
        BY <2>1, <3>3 DEF Target, Moves, SameParties
      <4>2. /\ Target(t) \in Seq(Pieces)
            /\ Target(t)' \in Seq(Pieces)
        BY <2>1, <4>1, <3>1, OpenFiles DEF TypeInv, DiskType
      <4>3. /\ i \in 1..Len(Target(t)')
            /\ disk'[n][f][i] = IF i = k + 1 THEN Head(s) ELSE Target(t)[i]
        BY <1>6, <2>5, <4>1, <4>2, WriteHits DEF s, k
      <4>4. CASE i = k + 1
        BY <2>2, <2>4, <3>3, <4>3, <4>4
      <4>5. CASE i # k + 1
        <5>1. i \in DOMAIN Target(t)
          <6>1. Len(Target(t)') = IF k + 1 > Len(Target(t)) THEN k + 1 ELSE Len(Target(t))
            BY <1>6, WriteHits DEF k
          <6>2. k <= Len(Target(t)) /\ Len(Target(t)) \in Nat
            BY <4>2 DEF TypeInv, FilesOpen, k
          <6>3. i \in 1..Len(Target(t))
            BY <2>1, <4>3, <4>5, <6>1, <6>2
          <6> QED
            BY <4>2, <6>3
        <5> QED
          BY <1>1, <3>1, <4>1, <4>3, <4>5, <5>1
      <4> QED
        BY <4>4, <4>5
    <3> QED
      BY <3>2, <3>3
  <2>6. Flows(t)'
    <3>1. ASSUME NEW i \in 1..(Len(s) - 1)
          PROVE  Original(gets[t].file, (k + 1) + i, Tail(s)[i])
      <4>1. i + 1 \in 1..Len(s) /\ (k + 1) + i = k + (i + 1)
        BY <2>1, <2>2
      <4> QED
        BY <2>2, <2>4, <4>1
    <3> QED
      BY <2>2, <2>3, <3>1
  <2>7. \A u \in GetIds' : Flows(u)'
    BY <1>1, <2>1, <2>6 DEF Moves
  <2> QED
    BY <1>2, <2>5, <2>7
<1> QED
  BY <1>3, <1>4, <1>5, <1>6, StepKinds

\* Every piece of every file was at the start at that place of a file of that
\* name, through any chain of transfers.
THEOREM PiecesHaveASource == Spec => []EveryPieceHasASource
<1>1. Init => SourceInv
  BY TransferAssumption DEF Init, SourceInv, EveryPieceHasASource, GetIds
<1>2. SourceInv => EveryPieceHasASource
  BY DEF SourceInv
<1> QED
  BY <1>1, <1>2, SourceStep, TypeInvariant, PTL DEF Spec

-----------------------------------------------------------------------------
(***************************************************************************)
(* What a transfer leaves.                                                 *)
(***************************************************************************)

\* Cutting a sequence at both ends.
LEMMA Cut ==
    ASSUME NEW s \in Seq(Pieces), NEW i \in Nat, NEW k \in Nat, i <= k, k <= Len(s)
    PROVE  /\ SubSeq(s, i + 1, k) \in Seq(Pieces)
           /\ Len(SubSeq(s, i + 1, k)) = k - i
           /\ \A j \in 1..(k - i) : SubSeq(s, i + 1, k)[j] = s[i + j]
<1> DEFINE c == SubSeq(s, i + 1, k)
<1>1. c = [j \in 1..(k - i) |-> s[i + j]]
  <2>1. DOMAIN c = 1..(k - i) /\ \A j \in 1..(k - i) : c[j] = s[j + (i + 1) - 1]
    OBVIOUS
  <2>2. \A j \in 1..(k - i) : j + (i + 1) - 1 = i + j
    OBVIOUS
  <2> QED
    BY <2>1, <2>2
<1>2. \A j \in 1..(k - i) : s[i + j] \in Pieces
  <2>1. \A j \in 1..(k - i) : i + j \in 1..Len(s)
    OBVIOUS
  <2> QED
    BY <2>1, ElementOfSeq
<1>3. k - i \in Nat
  OBVIOUS
<1> HIDE DEF c
<1>4. c \in Seq(Pieces) /\ Len(c) = k - i
  BY <1>1, <1>2, <1>3
<1> QED
  BY <1>1, <1>4 DEF c

\* The stream after the server has sent one more piece.
LEMMA CutSent ==
    ASSUME NEW s \in Seq(Pieces), NEW i \in Nat, NEW k \in Nat, i <= k, k < Len(s)
    PROVE  Append(SubSeq(s, i + 1, k), s[k + 1]) = SubSeq(s, i + 1, k + 1)
<1> DEFINE a == SubSeq(s, i + 1, k)
           b == SubSeq(s, i + 1, k + 1)
<1>1. Len(s) \in Nat /\ k <= Len(s) /\ k + 1 \in Nat /\ k + 1 <= Len(s) /\ i <= k + 1
  OBVIOUS
<1>2. /\ a \in Seq(Pieces)
      /\ Len(a) = k - i
      /\ \A j \in 1..(k - i) : a[j] = s[i + j]
  BY <1>1, Cut
<1>3. /\ b \in Seq(Pieces)
      /\ Len(b) = (k + 1) - i
      /\ \A j \in 1..((k + 1) - i) : b[j] = s[i + j]
  BY <1>1, Cut
<1>4. s[k + 1] \in Pieces
  BY <1>1, ElementOfSeq
<1> HIDE DEF a, b
<1>5. /\ Append(a, s[k + 1]) \in Seq(Pieces)
      /\ Len(Append(a, s[k + 1])) = (k - i) + 1
      /\ \A j \in 1..(k - i) : Append(a, s[k + 1])[j] = a[j]
      /\ Append(a, s[k + 1])[(k - i) + 1] = s[k + 1]
  BY <1>2, <1>4, AppendProperties
<1>6. (k - i) + 1 = (k + 1) - i
  OBVIOUS
<1>7. ASSUME NEW j \in 1..((k + 1) - i) PROVE Append(a, s[k + 1])[j] = b[j]
  <2>1. CASE j \in 1..(k - i)
    BY <1>2, <1>3, <1>5, <2>1
  <2>2. CASE j = (k - i) + 1
    <3>1. i + j = k + 1
      BY <2>2
    <3> QED
      BY <1>3, <1>5, <2>2, <3>1
  <2>3. j \in 1..(k - i) \/ j = (k - i) + 1
    BY <1>1
  <2> QED
    BY <2>1, <2>2, <2>3
<1>8. Append(a, s[k + 1]) = b
  BY <1>3, <1>5, <1>6, <1>7, SeqEqual
<1> QED
  BY <1>8 DEF a, b

\* The stream after the requester has taken a piece.
LEMMA CutTaken ==
    ASSUME NEW s \in Seq(Pieces), NEW i \in Nat, NEW k \in Nat, i < k, k <= Len(s)
    PROVE  /\ Head(SubSeq(s, i + 1, k)) = s[i + 1]
           /\ Tail(SubSeq(s, i + 1, k)) = SubSeq(s, (i + 1) + 1, k)
<1> DEFINE a == SubSeq(s, i + 1, k)
           b == SubSeq(s, (i + 1) + 1, k)
<1>1. Len(s) \in Nat /\ i <= k /\ i + 1 \in Nat /\ i + 1 <= k
  OBVIOUS
<1>2. /\ a \in Seq(Pieces)
      /\ Len(a) = k - i
      /\ \A j \in 1..(k - i) : a[j] = s[i + j]
  BY <1>1, Cut
<1>3. /\ b \in Seq(Pieces)
      /\ Len(b) = k - (i + 1)
      /\ \A j \in 1..(k - (i + 1)) : b[j] = s[(i + 1) + j]
  BY <1>1, Cut
<1> HIDE DEF a, b
<1>4. a # <<>>
  BY <1>1, <1>2
<1>5. /\ Head(a) = a[1]
      /\ Tail(a) \in Seq(Pieces)
      /\ Len(Tail(a)) = Len(a) - 1
      /\ \A j \in 1..(Len(a) - 1) : Tail(a)[j] = a[j + 1]
  BY <1>2, <1>4, HeadTailProperties
<1>6. a[1] = s[i + 1]
  BY <1>1, <1>2
<1>7. Len(Tail(a)) = Len(b)
  BY <1>2, <1>3, <1>5
<1>8. ASSUME NEW j \in 1..(k - (i + 1)) PROVE Tail(a)[j] = b[j]
  <2>1. j + 1 \in 1..(k - i) /\ i + (j + 1) = (i + 1) + j /\ j \in 1..(Len(a) - 1)
    BY <1>2
  <2> QED
    BY <1>2, <1>3, <1>5, <2>1
<1>9. Tail(a) = b
  BY <1>3, <1>5, <1>7, <1>8, SeqEqual
<1> QED
  BY <1>5, <1>6, <1>9 DEF a, b

\* A file with nothing written over it.
LEMMA OverlayNothing ==
    ASSUME NEW s \in Seq(Pieces), NEW old \in Seq(Pieces)
    PROVE  Overlay(SubSeq(s, 1, 0), old) = old
<1>1. SubSeq(s, 1, 0) = <<>>
  OBVIOUS
<1>2. Overlay(<<>>, old) = [i \in 1..Len(old) |-> old[i]]
  BY DEF Overlay
<1>3. old = [i \in 1..Len(old) |-> old[i]]
  OBVIOUS
<1> QED
  BY <1>1, <1>2, <1>3

\* A file with one more piece written over it.
LEMMA OverlayMore ==
    ASSUME NEW s \in Seq(Pieces), NEW old \in Seq(Pieces), NEW i \in Nat, i < Len(s)
    PROVE  Written(Overlay(SubSeq(s, 1, i), old), i + 1, s[i + 1])
             = Overlay(SubSeq(s, 1, i + 1), old)
<1> DEFINE a == SubSeq(s, 1, i)
           b == SubSeq(s, 1, i + 1)
           o == Overlay(a, old)
           x == s[i + 1]
           n == IF i > Len(old) THEN i ELSE Len(old)
           m == IF i + 1 > Len(old) THEN i + 1 ELSE Len(old)
<1>1. Len(s) \in Nat /\ i <= Len(s) /\ i + 1 \in Nat /\ i + 1 <= Len(s) /\ Len(old) \in Nat
  OBVIOUS
<1>2. Len(a) = i /\ \A j \in 1..i : a[j] = s[j]
  <2>1. 0 + 1 = 1 /\ i - 0 = i /\ 0 \in Nat /\ 0 <= i /\ \A j \in 1..i : 0 + j = j
    BY <1>1
  <2>2. /\ Len(SubSeq(s, 0 + 1, i)) = i - 0
        /\ \A j \in 1..(i - 0) : SubSeq(s, 0 + 1, i)[j] = s[0 + j]
    BY <1>1, <2>1, Cut
  <2> QED
    BY <2>1, <2>2
<1>3. Len(b) = i + 1 /\ \A j \in 1..(i + 1) : b[j] = s[j]
  <2> DEFINE k == i + 1
  <2>1. k \in Nat /\ k <= Len(s)
    BY <1>1
  <2> HIDE DEF k
  <2>2. 0 + 1 = 1 /\ k - 0 = k /\ 0 \in Nat /\ 0 <= k /\ \A j \in 1..k : 0 + j = j
    BY <2>1
  <2>3. /\ Len(SubSeq(s, 0 + 1, k)) = k - 0
        /\ \A j \in 1..(k - 0) : SubSeq(s, 0 + 1, k)[j] = s[0 + j]
    BY <2>1, <2>2, Cut
  <2>4. Len(SubSeq(s, 1, k)) = k /\ \A j \in 1..k : SubSeq(s, 1, k)[j] = s[j]
    BY <2>2, <2>3
  <2> QED
    BY <2>4 DEF k
<1>4. o = [j \in 1..n |-> IF j <= i THEN a[j] ELSE old[j]]
  BY <1>2 DEF Overlay
<1>5. Overlay(b, old) = [j \in 1..m |-> IF j <= i + 1 THEN b[j] ELSE old[j]]
  BY <1>3 DEF Overlay
<1>6. n \in Nat /\ m = IF i + 1 > n THEN i + 1 ELSE n
  BY <1>1
<1> HIDE DEF a, b, o, x, n, m
<1>7. Len(o) = n
  BY <1>4, <1>6
<1>8. Written(o, i + 1, x) = [j \in 1..m |-> IF j = i + 1 THEN x ELSE o[j]]
  BY <1>6, <1>7 DEF Written
<1>9. ASSUME NEW j \in 1..m
      PROVE  (IF j = i + 1 THEN x ELSE o[j]) = (IF j <= i + 1 THEN b[j] ELSE old[j])
  <2>1. CASE j = i + 1
    BY <1>1, <1>3, <2>1 DEF x
  <2>2. CASE j <= i
    <3>1. j \in 1..i /\ j \in 1..n /\ j \in 1..(i + 1) /\ j # i + 1 /\ j <= i + 1
      BY <1>1, <1>6, <2>2 DEF n
    <3> QED
      BY <1>2, <1>3, <1>4, <2>2, <3>1
  <2>3. CASE j > i + 1
    <3>1. j \in 1..n /\ ~ (j <= i) /\ ~ (j <= i + 1) /\ j # i + 1
      BY <1>1, <1>6, <2>3
    <3> QED
      BY <1>4, <3>1
  <2>4. j = i + 1 \/ j <= i \/ j > i + 1
    BY <1>1, <1>6
  <2> QED
    BY <2>1, <2>2, <2>3, <2>4
<1>10. Written(o, i + 1, x) = Overlay(b, old)
  BY <1>5, <1>8, <1>9
<1> QED
  BY <1>10 DEF o, x, a, b

\* A request that is left alone stays on course.
LEMMA LeftAlone ==
    ASSUME NEW t \in GetIds, OnCourse(t), gets'[t] = gets[t],
           Target(t)' = Target(t),
           gets[t].server \in {"copying", "ended"} => Source(t)' = Source(t)
    PROVE  OnCourse(t)'
BY DEF OnCourse, Asked, Served, Copied, Ended

\* A request that is undisturbed was so before.
LEMMA WasUndisturbed ==
    ASSUME NEW t \in GetIds, Undisturbed(t)', GetIds \subseteq GetIds',
           \A u \in GetIds : /\ gets'[u].to = gets[u].to
                             /\ gets'[u].from = gets[u].from
                             /\ gets'[u].file = gets[u].file
    PROVE  Undisturbed(t)
BY DEF Undisturbed

\* A new request.
LEMMA NewOnCourse ==
    ASSUME TypeInv, Opens, NEW t \in GetIds', t \notin GetIds
    PROVE  OnCourse(t)'
<1>1. PICK n \in Nodes, m \in Nodes : \E f \in DOMAIN disk'[n] :
        n # m /\ gets'[t] = NewGet(n, m, f, disk'[n][f])
  BY OpensKeeps
<1>2. PICK f \in DOMAIN disk'[n] : gets'[t] = NewGet(n, m, f, disk'[n][f])
  BY <1>1
<1>3. /\ gets'[t].server = "asked"
      /\ gets'[t].client = "reading"
      /\ gets'[t].written = 0
      /\ gets'[t].stream = <<>>
      /\ gets'[t].source = <<>>
      /\ gets'[t].old = disk'[n][f]
      /\ gets'[t].read = 0
      /\ gets'[t].to = n
      /\ gets'[t].file = f
  BY <1>2 DEF NewGet
<1>4. disk'[n][f] \in Seq(Pieces) /\ <<>> \in Seq(Pieces)
  BY <1>2 DEF Opens, DiskType
<1>5. /\ Overlay(SubSeq(<<>>, 1, 0), disk'[n][f]) = disk'[n][f]
      /\ SubSeq(<<>>, 0 + 1, 0) = <<>>
      /\ 0 <= Len(<<>>)
  <2>1. PICK e \in Seq(Pieces) : e = <<>>
    BY <1>4
  <2>2. Overlay(SubSeq(e, 1, 0), disk'[n][f]) = disk'[n][f]
    BY <1>4, OverlayNothing
  <2>3. SubSeq(e, 0 + 1, 0) = <<>> /\ 0 <= Len(e)
    BY <2>1
  <2> QED
    BY <2>1, <2>2, <2>3
<1>6. Copied(t)'
  BY <1>3, <1>5 DEF Copied, Target
<1> QED
  BY <1>3, <1>6 DEF OnCourse, Asked, Served, Ended

\* The server opens its file.
LEMMA StartOnCourse ==
    ASSUME TypeInv, NEW t \in GetIds, OnCourse(t), Starts(t)
    PROVE  OnCourse(t)'
<1>1. /\ Target(t)' = Target(t)
      /\ Source(t)' = Source(t)
      /\ gets'[t].old = gets[t].old
  BY DEF Starts, Moves, SameParties, Target, Source
<1>2. /\ gets[t].written = 0
      /\ gets[t].stream = <<>>
      /\ gets[t].source = <<>>
      /\ Target(t) = Overlay(SubSeq(gets[t].source, 1, 0), gets[t].old)
      /\ gets[t].client # "answered"
  BY DEF OnCourse, Asked, Copied, Ended, Starts
<1>3. /\ Source(t) \in Seq(Pieces)
      /\ gets[t].source \in Seq(Pieces)
      /\ gets[t].old \in Seq(Pieces)
  BY OpenFiles, GetFields DEF Starts, TypeInv
<1>4. gets[t].read = 0
  BY <1>2 DEF TypeInv, FilesOpen
<1>5. SubSeq(Source(t), 0 + 1, 0) = <<>>
  BY <1>3
<1>6. Len(Source(t)) >= 0
  BY <1>3
<1>7. /\ Overlay(SubSeq(Source(t), 1, 0), gets[t].old) = gets[t].old
      /\ Target(t) = gets[t].old
  BY <1>2, <1>3, OverlayNothing
<1>8. /\ gets'[t].server = "copying"
      /\ gets'[t].client # "answered"
      /\ gets'[t].source = Source(t)
      /\ gets'[t].read = 0
      /\ gets'[t].written = 0
      /\ gets'[t].stream = <<>>
  BY <1>2, <1>4 DEF Starts
<1>9. Copied(t)'
  BY <1>1, <1>5, <1>6, <1>7, <1>8 DEF Copied
<1> QED
  BY <1>1, <1>8, <1>9 DEF OnCourse, Asked, Served, Ended

\* The server sends a piece.
LEMMA SendOnCourse ==
    ASSUME TypeInv, NEW t \in GetIds, OnCourse(t), Sends(t)
    PROVE  OnCourse(t)'
<1> DEFINE s == gets[t].source
           w == gets[t].written
           r == gets[t].read
<1>1. /\ Target(t)' = Target(t)
      /\ Source(t)' = Source(t)
      /\ gets'[t].old = gets[t].old
  BY DEF Sends, Moves, SameParties, Target, Source
<1>2. /\ Source(t) = s
      /\ gets[t].stream = SubSeq(s, w + 1, r)
      /\ Target(t) = Overlay(SubSeq(s, 1, w), gets[t].old)
      /\ gets[t].client # "answered"
      /\ r < Len(s)
  BY DEF OnCourse, Served, Copied, Ended, Sends
<1>3. /\ s \in Seq(Pieces)
      /\ w \in Nat
      /\ r \in Nat
      /\ Len(gets[t].stream) \in Nat
      /\ r = w + Len(gets[t].stream)
  BY GetFields DEF TypeInv, FilesOpen
<1>4. /\ gets'[t].server = "copying"
      /\ gets'[t].client # "answered"
      /\ gets'[t].source = s
      /\ gets'[t].read = r + 1
      /\ gets'[t].written = w
      /\ gets'[t].stream = Append(SubSeq(s, w + 1, r), s[r + 1])
  BY <1>2 DEF Sends
<1> HIDE DEF s, w, r
<1>5. w <= r /\ r + 1 <= Len(s)
  BY <1>2, <1>3
<1>6. gets'[t].stream = SubSeq(s, w + 1, r + 1)
  BY <1>2, <1>3, <1>4, <1>5, CutSent
<1>7. Copied(t)'
  BY <1>1, <1>2, <1>4, <1>5, <1>6 DEF Copied
<1> QED
  BY <1>1, <1>2, <1>4, <1>7 DEF OnCourse, Asked, Served, Ended

\* The server's end is dropped.
LEMMA StopOnCourse ==
    ASSUME TypeInv, NEW t \in GetIds, OnCourse(t), Stops(t)
    PROVE  OnCourse(t)'
<1>1. /\ Target(t)' = Target(t)
      /\ Source(t)' = Source(t)
      /\ gets'[t].old = gets[t].old
  BY DEF Stops, Moves, SameParties, Target, Source
<1>2. /\ Copied(t)
      /\ Source(t) = gets[t].source
      /\ gets[t].read <= Len(gets[t].source)
      /\ gets[t].client # "answered"
  BY DEF OnCourse, Served, Copied, Ended, Stops
<1>3. /\ gets[t].read \in Nat
      /\ Len(gets[t].source) \in Nat
  BY GetFields DEF TypeInv
<1>4. gets'[t].cut \/ gets[t].read = Len(gets[t].source)
  BY <1>2, <1>3 DEF Stops
<1> QED
  BY <1>1, <1>2, <1>4 DEF OnCourse, Asked, Served, Copied, Ended, Stops

\* The application is told.
LEMMA TellOnCourse ==
    ASSUME NEW t \in GetIds, OnCourse(t), Tells(t)
    PROVE  OnCourse(t)'
<1>1. /\ Target(t)' = Target(t)
      /\ Source(t)' = Source(t)
      /\ gets'[t].old = gets[t].old
  BY DEF Tells, Moves, SameParties, Target, Source
<1> QED
  BY <1>1 DEF OnCourse, Asked, Served, Copied, Ended, Tells

\* The requester writes a piece.
LEMMA WriteOnCourse ==
    ASSUME TypeInv, NEW t \in GetIds, OnCourse(t), Writes(t)
    PROVE  OnCourse(t)'
<1> DEFINE s == gets[t].source
           w == gets[t].written
           r == gets[t].read
           old == gets[t].old
<1>1. /\ s \in Seq(Pieces)
      /\ old \in Seq(Pieces)
      /\ w \in Nat
      /\ r \in Nat
      /\ gets[t].stream \in Seq(Pieces)
      /\ gets[t].stream # <<>>
      /\ r = w + Len(gets[t].stream)
      /\ gets[t].from \in Nodes
      /\ gets[t].from # gets[t].to
  BY GetFields DEF TypeInv, FilesOpen, Writes
<1>2. /\ gets'[t].server = gets[t].server
      /\ gets'[t].client # "answered"
      /\ gets'[t].source = s
      /\ gets'[t].read = r
      /\ gets'[t].written = w + 1
      /\ gets'[t].stream = Tail(gets[t].stream)
      /\ gets'[t].old = old
      /\ gets'[t].cut = gets[t].cut
  BY DEF Writes, Moves, SameParties
<1>3. gets[t].server # "asked"
  BY DEF OnCourse, Asked, Writes
<1>4. /\ r <= Len(s)
      /\ gets[t].stream = SubSeq(s, w + 1, r)
      /\ Target(t) = Overlay(SubSeq(s, 1, w), old)
      /\ (gets[t].server = "ended" /\ ~ gets[t].cut) => r = Len(s)
  BY DEF OnCourse, Copied, Ended
<1>5. Served(t)'
  <2> SUFFICES ASSUME gets[t].server \in {"copying", "ended"}
               PROVE  Source(t)' = s
    BY <1>2 DEF Served
  <2>1. Source(t) = s
    BY DEF OnCourse, Served
  <2>2. gets[t].file \in DOMAIN disk[gets[t].from]
    BY DEF TypeInv, FilesOpen
  <2>3. gets'[t].from = gets[t].from /\ gets'[t].file = gets[t].file
    BY DEF Writes, Moves, SameParties
  <2>4. gets[t].from \in Nodes /\ gets[t].from # gets[t].to
    BY <1>1
  <2>5. \A n \in Nodes : \A f \in DOMAIN disk[n] :
           (n # gets[t].to \/ f # gets[t].file) => disk'[n][f] = disk[n][f]
    BY WriteHits
  <2>6. Source(t)' = Source(t)
    BY <2>2, <2>3, <2>4, <2>5 DEF Source
  <2> QED
    BY <2>1, <2>6
<1>6. Target(t)' = Written(Target(t), w + 1, Head(gets[t].stream))
  BY WriteHits
<1> HIDE DEF s, w, r, old
<1>7. w < r /\ w < Len(s)
  <2>1. Len(gets[t].stream) \in Nat \ {0}
    BY <1>1
  <2>2. Len(s) \in Nat
    BY <1>1
  <2>3. w \in Nat /\ r \in Nat /\ r = w + Len(gets[t].stream)
    BY <1>1
  <2>4. r <= Len(s)
    BY <1>4
  <2> QED
    BY <2>1, <2>2, <2>3, <2>4
<1>8. /\ Head(gets[t].stream) = s[w + 1]
      /\ Tail(gets[t].stream) = SubSeq(s, (w + 1) + 1, r)
  <2>1. /\ s \in Seq(Pieces)
        /\ w \in Nat
        /\ r \in Nat
        /\ w < r
        /\ r <= Len(s)
    BY <1>1, <1>4, <1>7
  <2>2. /\ Head(SubSeq(s, w + 1, r)) = s[w + 1]
        /\ Tail(SubSeq(s, w + 1, r)) = SubSeq(s, (w + 1) + 1, r)
    BY <2>1, CutTaken
  <2> QED
    BY <1>4, <2>2
<1>9. Target(t)' = Overlay(SubSeq(s, 1, w + 1), old)
  <2>1. Written(Overlay(SubSeq(s, 1, w), old), w + 1, s[w + 1])
          = Overlay(SubSeq(s, 1, w + 1), old)
    BY <1>1, <1>7, OverlayMore
  <2> QED
    BY <1>4, <1>6, <1>8, <2>1, Zenon
<1>10. Copied(t)'
  BY <1>2, <1>4, <1>8, <1>9 DEF Copied
<1> QED
  BY <1>2, <1>3, <1>4, <1>5, <1>10 DEF OnCourse, Asked, Ended

\* Every step keeps the requests that stay undisturbed on course.
LEMMA OverlayStep == TypeInv /\ OverlayInv /\ [Next]_vars => OverlayInv'
<1> SUFFICES ASSUME TypeInv, OverlayInv, [Next]_vars,
                    NEW t \in GetIds', Undisturbed(t)'
             PROVE  OnCourse(t)'
  BY DEF OverlayInv
<1>1. CASE Quits
  <2>1. /\ t \in GetIds
        /\ QuitsAt(t)
        /\ UNCHANGED disk
        /\ \A u \in GetIds : SameParties(u)
        /\ GetIds \subseteq GetIds'
    BY <1>1 DEF Quits, QuitsAt
  <2>2. OnCourse(t)
    BY <2>1, WasUndisturbed DEF OverlayInv, SameParties
  <2>3. Target(t)' = Target(t) /\ Source(t)' = Source(t)
    BY <2>1 DEF Target, Source, QuitsAt, SameParties
  <2> QED
    BY <2>1, <2>2, <2>3
    DEF OnCourse, Asked, Served, Copied, Ended, QuitsAt, SameParties, SamePieces
<1>2. CASE Opens
  <2>1. CASE t \notin GetIds
    BY <1>2, <2>1, NewOnCourse
  <2>2. CASE t \in GetIds
    <3>1. \A u \in GetIds : u \in GetIds' /\ gets'[u] = gets[u]
      BY <1>2, OpensKeeps
    <3>2. OnCourse(t)
      BY <2>2, <3>1, WasUndisturbed DEF OverlayInv
    <3>3. FilesOpen(t)
      BY <2>2 DEF TypeInv
    <3>4. /\ Target(t)' = Target(t)
          /\ gets[t].server \in {"copying", "ended"} => Source(t)' = Source(t)
      BY <1>2, <2>2, <3>3, OpensKeeps DEF FilesOpen
    <3> QED
      BY <2>2, <3>1, <3>2, <3>4, LeftAlone
  <2> QED
    BY <2>1, <2>2
<1>3. ASSUME NEW u \in GetIds, Moves(u) PROVE t \in GetIds /\ OnCourse(t)
  <2>1. t \in GetIds /\ GetIds \subseteq GetIds'
    BY <1>3 DEF Moves
  <2>2. \A v \in GetIds : /\ gets'[v].to = gets[v].to
                          /\ gets'[v].from = gets[v].from
                          /\ gets'[v].file = gets[v].file
    BY <1>3 DEF Moves, SameParties
  <2> QED
    BY <2>1, <2>2, WasUndisturbed DEF OverlayInv
<1>4. ASSUME NEW u \in GetIds, Starts(u) \/ Sends(u) \/ Stops(u) \/ Tells(u)
      PROVE  OnCourse(t)'
  <2>1. Moves(u) /\ UNCHANGED disk
    BY <1>4 DEF Starts, Sends, Stops, Tells
  <2>2. t \in GetIds /\ OnCourse(t)
    BY <1>3, <2>1
  <2>3. CASE t = u
    BY <1>4, <2>2, <2>3, StartOnCourse, SendOnCourse, StopOnCourse, TellOnCourse
  <2>4. CASE t # u
    <3>1. gets'[t] = gets[t]
      BY <2>1, <2>2, <2>4 DEF Moves
    <3>2. Target(t)' = Target(t) /\ Source(t)' = Source(t)
      BY <2>1, <3>1 DEF Target, Source
    <3> QED
      BY <2>2, <3>1, <3>2, LeftAlone
  <2> QED
    BY <2>3, <2>4
<1>5. ASSUME NEW u \in GetIds, Writes(u) PROVE OnCourse(t)'
  <2>1. Moves(u)
    BY <1>5 DEF Writes
  <2>2. t \in GetIds /\ OnCourse(t)
    BY <1>3, <2>1
  <2>3. CASE t = u
    BY <1>5, <2>2, <2>3, WriteOnCourse
  <2>4. CASE t # u
    <3>1. gets'[t] = gets[t]
      BY <2>1, <2>2, <2>4 DEF Moves
    <3>2. gets[u].file = gets[t].file => gets[u].to \notin {gets[t].to, gets[t].from}
      BY <2>1, <2>4, <3>1 DEF Undisturbed, Moves, SameParties
    <3>3. FilesOpen(t) /\ gets[t].to \in Nodes /\ gets[t].from \in Nodes
      BY <2>2, GetFields DEF TypeInv
    <3>4. /\ Target(t)' = Target(t)
          /\ gets[t].server \in {"copying", "ended"} => Source(t)' = Source(t)
      BY <1>5, <3>1, <3>2, <3>3, WriteHits DEF Target, Source, FilesOpen
    <3> QED
      BY <2>2, <3>1, <3>4, LeftAlone
  <2> QED
    BY <2>3, <2>4
<1> QED
  BY <1>1, <1>2, <1>4, <1>5, StepKinds

\* When a get@ is answered and no other get@ writes the two files, what it
\* leaves is the other node's file over the beginning of what was there: all
\* of it unless its reader failed.
THEOREM AnswersOverlay == Spec => []AnsweredGetsOverlay
<1>1. Init => OverlayInv
  BY DEF Init, OverlayInv, GetIds
<1>2. TypeInv /\ OverlayInv => AnsweredGetsOverlay
  <2> SUFFICES ASSUME TypeInv, OverlayInv, NEW t \in GetIds,
                      gets[t].client = "answered", Undisturbed(t)
               PROVE  /\ gets[t].got =
                            Overlay(SubSeq(gets[t].source, 1, gets[t].written), gets[t].old)
                      /\ ~ gets[t].cut => gets[t].written = Len(gets[t].source)
    BY DEF AnsweredGetsOverlay
  <2>1. Copied(t) /\ Ended(t)
    BY DEF OverlayInv, OnCourse
  <2>2. /\ gets[t].server = "ended"
        /\ gets[t].stream = <<>>
        /\ gets[t].got = Target(t)
    BY <2>1 DEF Ended
  <2>3. gets[t].read = gets[t].written
    BY <2>2, GetFields DEF TypeInv, FilesOpen
  <2> QED
    BY <2>1, <2>2, <2>3 DEF Copied, Ended
<1> QED
  BY <1>1, <1>2, OverlayStep, TypeInvariant, PTL DEF Spec

\* A get@ that is not answered, or not yet, has changed its file just where it
\* has written, whichever end gave up and when, unless another get@ writes
\* one of the two files.
THEOREM UnfinishedOverlay == Spec => []UnfinishedGetsOverlay
<1>1. Init => OverlayInv
  BY DEF Init, OverlayInv, GetIds
<1>2. OverlayInv => UnfinishedGetsOverlay
  BY DEF OverlayInv, OnCourse, Copied, UnfinishedGetsOverlay
<1> QED
  BY <1>1, <1>2, OverlayStep, TypeInvariant, PTL DEF Spec

=============================================================================
