----------------------------- MODULE ReportProofs -----------------------------
(***************************************************************************)
(* No file is in two places: on its way to a worker, in a worker's hands,  *)
(* on its way to the reporter, or counted there.  From this follows the    *)
(* reporter's arithmetic: why comparing two counters is enough to know     *)
(* that every file of every reader has been answered, why the reporter     *)
(* cannot hang up twice, and that what it prints is what was answered.     *)
(***************************************************************************)
EXTENDS ClusterProofs, FiniteSetTheorems

(* Where every file is. *)

Position == Nat \ {0}

\* Worker w holds the answer on file f.
Holds(w, f) == wpc[w] = "send" /\ wanswer[w].file = f

\* File f has one place at most.
Unique(f) ==
  /\ \A s, t \in Stream : \A i, j \in Position :
       Carries(s, i, f) /\ Carries(t, j, f) => s = t /\ i = j
  /\ \A s \in Stream : \A i \in Position :
       Carries(s, i, f) => f \notin seen /\ \A w \in WorkerId : ~Holds(w, f)
  /\ \A v, w \in WorkerId : Holds(v, f) /\ Holds(w, f) => v = w
  /\ \A w \in WorkerId : Holds(w, f) => f \notin seen

\* File f is nowhere.
Nowhere(f) ==
  /\ \A s \in Stream : \A i \in Position : ~Carries(s, i, f)
  /\ \A w \in WorkerId : ~Holds(w, f)
  /\ f \notin seen

Sent(f) == f[2] <= files_found[f[1]]

PlaceInv == \A f \in File : Unique(f) /\ (Sent(f) \/ Nowhere(f))

-----------------------------------------------------------------------------
(* How the operations on streams move files. *)

\* A send puts its packet at the end of one stream.
LEMMA SendCarries ==
  ASSUME StreamsTypeOK, NEW t \in Stream, NEW packet \in Packet, Send(t, packet),
         NEW s \in Stream, NEW i \in Position, NEW f
  PROVE  Carries(s, i, f)' <=>
           \/ Carries(s, i, f)
           \/ s = t /\ i = Len(buf[t]) + 1 /\ packet.kind # "result" /\ packet.file = f
BY DEF StreamsTypeOK, Send, Carries, Position

\* A receive moves one stream up by a position.
LEMMA ReceiveCarries ==
  ASSUME StreamsTypeOK, NEW t \in Stream, buf[t] # <<>>, Receive(t),
         NEW s \in Stream, NEW i \in Position, NEW f
  PROVE  Carries(s, i, f)' <=> IF s = t THEN Carries(s, i + 1, f) ELSE Carries(s, i, f)
BY DEF StreamsTypeOK, Receive, Carries, Position

\* A closed stream carries nothing.
LEMMA CloseCarries ==
  ASSUME StreamsTypeOK, NEW S, Close(S),
         NEW s \in Stream, NEW i \in Position, NEW f
  PROVE  Carries(s, i, f)' => Carries(s, i, f) /\ s \notin S
BY DEF StreamsTypeOK, Close, Carries, Position

\* Streams that do not change carry the same files.
LEMMA SameCarries ==
  ASSUME UNCHANGED buf, NEW s, NEW i, NEW f
  PROVE  Carries(s, i, f)' <=> Carries(s, i, f)
BY DEF Carries

\* The head of a stream is at position 1.
LEMMA HeadCarries ==
  ASSUME StreamsTypeOK, NEW t \in Stream, buf[t] # <<>>, Head(buf[t]).kind # "result"
  PROVE  Carries(t, 1, Head(buf[t]).file)
BY DEF StreamsTypeOK, Carries

-----------------------------------------------------------------------------
(* What a step may do to the places of one file. *)

Placed(f) == Unique(f) /\ (Sent(f) \/ Nowhere(f))

\* The file leaves some of its places and enters none.
Leaves(f) ==
  /\ \A s \in Stream : \A i \in Position : Carries(s, i, f)' => Carries(s, i, f)
  /\ \A w \in WorkerId : Holds(w, f)' => Holds(w, f)
  /\ f \in seen' => f \in seen

\* Leaving a place is always allowed.
LEMMA LeavesPlaced ==
  ASSUME NEW f, Placed(f), Leaves(f), Sent(f) => Sent(f)'
  PROVE  Placed(f)'
BY DEF Placed, Leaves, Unique, Nowhere

\* The queue in front of the file moves up.
LEMMA ReceivePlaced ==
  ASSUME StreamsTypeOK, NEW t \in Stream, buf[t] # <<>>, Receive(t),
         NEW f, Placed(f), Sent(f) => Sent(f)', f \in seen' => f \in seen,
         \A w \in WorkerId : Holds(w, f)' => Holds(w, f)
  PROVE  Placed(f)'
<1>1. \A s \in Stream : \A i \in Position :
        Carries(s, i, f)' => IF s = t THEN Carries(s, i + 1, f) ELSE Carries(s, i, f)
  BY ReceiveCarries
<1>2. \A i \in Position : i + 1 \in Position
  BY DEF Position
<1>3. ASSUME NEW s \in Stream, NEW i \in Position, NEW q \in Stream, NEW j \in Position,
             Carries(s, i, f)', Carries(q, j, f)'
      PROVE  s = q /\ i = j
  <2>1. s = q
    BY <1>1, <1>2, <1>3 DEF Placed, Unique
  <2>2. CASE s = t
    <3>1. i + 1 = j + 1
      BY <1>1, <1>2, <1>3, <2>1, <2>2 DEF Placed, Unique
    <3> QED
      BY <2>1, <3>1 DEF Position
  <2>3. CASE s # t
    BY <1>1, <1>3, <2>1, <2>3 DEF Placed, Unique
  <2> QED
    BY <2>1, <2>2, <2>3
<1> QED
  BY <1>1, <1>2, <1>3 DEF Placed, Unique, Nowhere

\* Received from the head of its queue, the file is in no queue any more.
LEMMA ReceiveHead ==
  ASSUME StreamsTypeOK, NEW t \in Stream, buf[t] # <<>>, Receive(t),
         NEW f, Unique(f), Carries(t, 1, f)
  PROVE  \A s \in Stream : \A i \in Position : ~Carries(s, i, f)'
<1> SUFFICES ASSUME NEW s \in Stream, NEW i \in Position, Carries(s, i, f)' PROVE FALSE
  OBVIOUS
<1>1. IF s = t THEN Carries(s, i + 1, f) ELSE Carries(s, i, f)
  BY ReceiveCarries
<1>2. 1 \in Position /\ i + 1 \in Position /\ i + 1 # 1
  BY DEF Position
<1> QED
  BY <1>1, <1>2 DEF Unique

\* Its socket closed, a file is in no queue any more.
LEMMA CloseHead ==
  ASSUME StreamsTypeOK, NEW t \in Stream, Close({t}), NEW f, Unique(f), Carries(t, 1, f)
  PROVE  \A s \in Stream : \A i \in Position : ~Carries(s, i, f)'
<1> SUFFICES ASSUME NEW s \in Stream, NEW i \in Position, Carries(s, i, f)' PROVE FALSE
  OBVIOUS
<1>1. Carries(s, i, f) /\ s # t
  BY CloseCarries
<1> QED
  BY <1>1 DEF Unique, Position

\* A step that touches no queue, no answer and no count.
LEMMA IdlePlaced ==
  ASSUME UNCHANGED <<buf, wpc, wanswer, seen, files_found>>, NEW f, Placed(f)
  PROVE  Placed(f)'
BY SameCarries, LeavesPlaced DEF Leaves, Holds, Sent

\* A step that closes sockets and touches no answer and no count.
LEMMA ClosePlaced ==
  ASSUME StreamsTypeOK, NEW S, Close(S), UNCHANGED <<wpc, wanswer, seen, files_found>>,
         NEW f, Placed(f)
  PROVE  Placed(f)'
BY CloseCarries, LeavesPlaced DEF Leaves, Holds, Sent

-----------------------------------------------------------------------------
(* One lemma per thread. *)

\* A reader puts a file it has not sent yet in one queue.
LEMMA ReaderPlaced ==
  ASSUME StreamsTypeOK, ReaderTypeOK, NEW r \in ReaderId, ReaderStep(r),
         UNCHANGED <<wpc, wanswer, seen>>, PlaceInv
  PROVE  PlaceInv'
<1> SUFFICES ASSUME NEW f \in File, Placed(f) PROVE Placed(f)'
  BY DEF PlaceInv, Placed
<1>0. f[1] \in ReaderId /\ f[2] \in Nat
  BY ClusterAssumption DEF File
<1>1. CASE OnFile(r)
  <2>0. PICK n \in Nat : n = files_found[r] + 1
    BY ReaderFacts
  <2> DEFINE g == <<r, n>>
             t == Target(r)
  <2>1. g \in File
    BY <1>1, <2>0, ReaderFacts, ExpectedBounds, ClusterAssumption
       DEF OnFile, HasMoreFiles, File
  <2>2. t \in Stream /\ FilePacket(g) \in Packet /\ Send(t, FilePacket(g))
    BY <1>1, <2>0, <2>1, TargetType, PacketTypes DEF OnFile, Sending
  <2>3. /\ Sent(f) => Sent(f)'
        /\ ~Sent(g) /\ Sent(g)'
    <3>1. files_found' = [files_found EXCEPT ![r] = n] /\ files_found \in [ReaderId -> Nat]
      BY <1>1, <2>0, ExpectedBounds DEF OnFile, ReaderTypeOK
    <3> QED
      BY <1>0, <2>0, <3>1 DEF Sent
  <2>4. \A w \in WorkerId : Holds(w, f)' <=> Holds(w, f)
    BY DEF Holds
  <2>5. \A s \in Stream : \A i \in Position :
          Carries(s, i, f)' => Carries(s, i, f) \/ (s = t /\ i = Len(buf[t]) + 1 /\ f = g)
    BY <2>2, SendCarries DEF FilePacket
  <2>6. CASE f # g
    BY <2>3, <2>4, <2>5, <2>6, LeavesPlaced DEF Leaves
  <2>7. CASE f = g
    <3>1. Nowhere(f)
      BY <2>3, <2>7 DEF Placed
    <3>2. /\ \A s \in Stream : \A i \in Position :
                 Carries(s, i, f)' => s = t /\ i = Len(buf[t]) + 1
          /\ \A w \in WorkerId : ~Holds(w, f)'
          /\ f \notin seen'
      BY <2>4, <2>5, <3>1 DEF Nowhere
    <3>3. Unique(f)'
      BY <3>2 DEF Unique
    <3> QED
      BY <2>3, <2>7, <3>3 DEF Placed
  <2> QED
    BY <2>6, <2>7
<1>2. CASE Broadcast(r) \/ ReportFound(r)
  <2>1. ResultPacket(files_found[r]) \in Packet
    BY ReaderFacts, ExpectedBounds, ClusterAssumption, PacketTypes
  <2>2. Target(r) \in Stream /\ Send(Target(r), ResultPacket(files_found[r]))
    BY <1>2, TargetType DEF Broadcast, ReportFound, Sending
  <2>3. \A s \in Stream : \A i \in Position : Carries(s, i, f)' => Carries(s, i, f)
    BY <2>1, <2>2, SendCarries DEF ResultPacket
  <2> QED
    BY <1>2, <2>3, LeavesPlaced DEF Leaves, Holds, Sent, Broadcast, ReportFound
<1>3. CASE TraverseEnd(r) \/ TraverseFails(r) \/ ReaderEpipe(r)
  BY <1>3, IdlePlaced DEF TraverseEnd, TraverseFails, ReaderEpipe, streamVars
<1> QED
  BY <1>1, <1>2, <1>3 DEF ReaderStep

\* A worker takes a file from a queue into its hands and puts its answer in
\* another one, or drops it.
LEMMA WorkerPlaced ==
  ASSUME StreamsTypeOK, WorkerTypeOK, NEW w \in WorkerId, WorkerStep(w) \/ WorkerTimeout(w),
         UNCHANGED <<files_found, seen>>, PlaceInv
  PROVE  PlaceInv'
<1> SUFFICES ASSUME NEW f \in File, Placed(f) PROVE Placed(f)'
  BY DEF PlaceInv, Placed
<1>0. (Sent(f) => Sent(f)') /\ seen' = seen
  BY DEF Sent
<1>1. CASE WorkerOnFile(w)
  <2> DEFINE t == wcurrent[w]
  <2>0. PICK g : g = Head(buf[t]).file
    OBVIOUS
  <2>1. /\ t \in Stream /\ buf[t] # <<>> /\ Receive(t) /\ wpc[w] = "recv"
        /\ Carries(t, 1, g)
    BY <1>1, <2>0, WorkerHeadFacts, HeadCarries DEF WorkerOnFile
  <2>2. /\ wpc' = [wpc EXCEPT ![w] = "send"]
        /\ wanswer' = [wanswer EXCEPT ![w] = ReportPacket(g, Outcome[g[2]])]
    BY <1>1, <2>0 DEF WorkerOnFile, WorkerIncoming
  <2>3. \A v \in WorkerId : Holds(v, f)' <=> Holds(v, f) \/ (v = w /\ f = g)
    BY <2>1, <2>2 DEF Holds, ReportPacket, WorkerTypeOK
  <2>4. CASE f # g
    BY <1>0, <2>1, <2>3, <2>4, ReceivePlaced
  <2>5. CASE f = g
    <3>1. Unique(f) /\ Carries(t, 1, f)
      BY <2>1, <2>5 DEF Placed
    <3>2. \A s \in Stream : \A i \in Position : ~Carries(s, i, f)'
      BY <2>1, <3>1, ReceiveHead
    <3>3. f \notin seen /\ \A v \in WorkerId : ~Holds(v, f)
      BY <2>1, <3>1 DEF Unique, Position
    <3>4. Sent(f)'
      BY <1>0, <2>1, <3>1 DEF Placed, Nowhere, Position
    <3>5. Unique(f)'
      BY <1>0, <2>3, <3>2, <3>3 DEF Unique
    <3> QED
      BY <3>4, <3>5 DEF Placed
  <2> QED
    BY <2>4, <2>5
<1>2. CASE WorkerOnBadFile(w)
  <2>1. wcurrent[w] \in Stream /\ buf[wcurrent[w]] # <<>> /\ Receive(wcurrent[w])
    BY <1>2, WorkerHeadFacts DEF WorkerOnBadFile
  <2>2. \A v \in WorkerId : Holds(v, f)' => Holds(v, f)
    BY <1>2 DEF WorkerOnBadFile, Holds, WorkerTypeOK
  <2> QED
    BY <1>0, <2>1, <2>2, ReceivePlaced
<1>3. CASE WorkerOnResult(w)
  <2>1. \A v \in WorkerId : Holds(v, f)' => Holds(v, f)
    BY <1>3 DEF WorkerOnResult, Holds, WorkerTypeOK
  <2>2. \A s \in Stream : \A i \in Position : Carries(s, i, f)' => Carries(s, i, f)
    BY <1>3, CloseCarries DEF WorkerOnResult
  <2> QED
    BY <1>0, <2>1, <2>2, LeavesPlaced DEF Leaves
<1>4. CASE WorkerSend(w)
  <2>0. PICK packet \in Packet : packet = wanswer[w]
    BY <1>4, WorkerFacts DEF WorkerSend
  <2> DEFINE t == ReportStream(w)
             g == packet.file
  <2>1. /\ t \in Stream /\ Send(t, packet) /\ packet.kind = "report"
        /\ Holds(w, g)
    BY <1>4, <2>0, StreamSets DEF WorkerSend, WorkerTypeOK, Holds
  <2>2. \A v \in WorkerId : Holds(v, f)' => Holds(v, f) /\ v # w
    BY <1>4 DEF WorkerSend, Holds, WorkerTypeOK
  <2>3. \A s \in Stream : \A i \in Position :
          Carries(s, i, f)' => Carries(s, i, f) \/ (s = t /\ i = Len(buf[t]) + 1 /\ f = g)
    BY <2>1, SendCarries
  <2>4. CASE f # g
    BY <1>0, <2>2, <2>3, <2>4, LeavesPlaced DEF Leaves
  <2>5. CASE f = g
    <3>1. Sent(f)' /\ Unique(f) /\ Holds(w, f)
      BY <1>0, <2>1, <2>5 DEF Placed, Nowhere
    <3>2. /\ \A s \in Stream : \A i \in Position :
                 Carries(s, i, f)' => s = t /\ i = Len(buf[t]) + 1
          /\ \A v \in WorkerId : ~Holds(v, f)'
          /\ f \notin seen'
      BY <1>0, <2>2, <2>3, <3>1 DEF Unique
    <3>3. Unique(f)'
      BY <3>2 DEF Unique
    <3> QED
      BY <3>1, <3>3 DEF Placed
  <2> QED
    BY <2>4, <2>5
<1>5. CASE \/ WorkerWatch(w) \/ WorkerEpollWait(w) \/ WorkerOnread(w) \/ WorkerDrained(w)
           \/ WorkerEpipe(w) \/ WorkerBatchDone(w) \/ WorkerTimeout(w)
  <2>1. buf' = buf
    BY <1>5 DEF WorkerWatch, WorkerEpollWait, WorkerOnread, WorkerDrained, WorkerEpipe,
                WorkerBatchDone, WorkerTimeout, Watch, TakeEvents, streamVars
  <2>2. \A v \in WorkerId : Holds(v, f)' => Holds(v, f)
    BY <1>5 DEF WorkerWatch, WorkerEpollWait, WorkerOnread, WorkerDrained, WorkerEpipe,
                WorkerBatchDone, WorkerTimeout, Holds, WorkerTypeOK
  <2> QED
    BY <1>0, <2>1, <2>2, SameCarries, LeavesPlaced DEF Leaves
<1> QED
  BY <1>1, <1>2, <1>3, <1>4, <1>5 DEF WorkerStep

\* The reporter takes an answer from its queue and counts it.
LEMMA ReporterPlaced ==
  ASSUME StreamsTypeOK, ReporterTypeOK, ReporterStep \/ ReporterTimeout,
         UNCHANGED <<files_found, wpc, wanswer>>, PlaceInv
  PROVE  PlaceInv'
<1> SUFFICES ASSUME NEW f \in File, Placed(f) PROVE Placed(f)'
  BY DEF PlaceInv, Placed
<1>0. /\ Sent(f) => Sent(f)'
      /\ \A w \in WorkerId : Holds(w, f)' <=> Holds(w, f)
  BY DEF Sent, Holds
<1>1. CASE ReaderOnPacket
  <2>1. /\ pcurrent \in Stream /\ buf[pcurrent] # <<>> /\ seen' = seen
        /\ Receive(pcurrent) \/ Close({pcurrent})
    BY <1>1, ReporterHeadFacts DEF ReaderOnPacket, Hangup
  <2> QED
    BY <1>0, <2>1, ReceivePlaced, ClosePlaced
<1>2. CASE WorkerOnPacket
  <2> DEFINE t == pcurrent
  <2>0. PICK g : g = Head(buf[t]).file
    OBVIOUS
  <2>1. /\ t \in Stream /\ buf[t] # <<>> /\ seen' = seen \union {g}
        /\ Receive(t) \/ Close({t})
        /\ Carries(t, 1, g)
    BY <1>2, <2>0, ReporterHeadFacts, HeadCarries
       DEF WorkerOnPacket, Hangup, ReporterIncoming
  <2>2. CASE f # g /\ Receive(t)
    BY <1>0, <2>1, <2>2, ReceivePlaced
  <2>3. CASE f # g /\ Close({t})
    BY <1>0, <2>1, <2>3, CloseCarries, LeavesPlaced DEF Leaves
  <2>4. CASE f = g
    <3>1. Unique(f) /\ Carries(t, 1, f)
      BY <2>1, <2>4 DEF Placed
    <3>2. \A s \in Stream : \A i \in Position : ~Carries(s, i, f)'
      BY <2>1, <3>1, ReceiveHead, CloseHead
    <3>3. \A w \in WorkerId : ~Holds(w, f)'
      BY <1>0, <2>1, <3>1 DEF Unique, Position
    <3>4. Sent(f)'
      BY <1>0, <2>1, <3>1 DEF Placed, Nowhere, Position
    <3>5. Unique(f)'
      BY <3>2, <3>3 DEF Unique
    <3> QED
      BY <3>4, <3>5 DEF Placed
  <2> QED
    BY <2>1, <2>2, <2>3, <2>4
<1>3. CASE \/ ReporterWatch \/ ReporterEpollWait \/ ReporterOnread \/ ReporterDrained
           \/ ReporterBatchDone \/ ReporterTimeout
  BY <1>3, IdlePlaced
     DEF ReporterWatch, ReporterEpollWait, ReporterOnread, ReporterDrained,
         ReporterBatchDone, ReporterTimeout, Watch, TakeEvents, streamVars
<1> QED
  BY <1>1, <1>2, <1>3 DEF ReporterStep

-----------------------------------------------------------------------------
\* No file is anywhere yet.
LEMMA PlaceInit == Init => PlaceInv
BY DEF Init, StreamsInit, WorkerInit, ReporterInit, PlaceInv, Unique, Nowhere, Carries,
       Holds, Position

\* The invariant is inductive, given the types.
LEMMA PlaceNext == TypeOK /\ PlaceInv /\ [Next]_vars => PlaceInv'
<1> SUFFICES ASSUME TypeOK, PlaceInv, [Next]_vars PROVE PlaceInv'
  OBVIOUS
<1> USE DEF TypeOK
<1>1. ASSUME NEW r \in ReaderId, ReaderMoves(r) PROVE PlaceInv'
  BY <1>1, ReaderPlaced DEF ReaderMoves, workerVars, reporterVars
<1>2. ASSUME NEW w \in WorkerId, WorkerMoves(w) \/ WorkerExpires(w) PROVE PlaceInv'
  BY <1>2, WorkerPlaced DEF WorkerMoves, WorkerExpires, readerVars, reporterVars
<1>3. CASE ReporterMoves \/ ReporterExpires
  BY <1>3, ReporterPlaced DEF ReporterMoves, ReporterExpires, readerVars, workerVars
<1>4. CASE MainJoin
  <2> SUFFICES ASSUME NEW f \in File, Placed(f) PROVE Placed(f)'
    BY DEF PlaceInv, Placed
  <2>1. PICK S : Close(S)
    BY <1>4 DEF MainJoin
  <2>2. UNCHANGED <<wpc, wanswer, seen, files_found>>
    BY <1>4 DEF MainJoin, readerVars, workerVars, reporterVars
  <2> QED
    BY <2>1, <2>2, ClosePlaced
<1>5. CASE UNCHANGED vars
  <2> SUFFICES ASSUME NEW f \in File, Placed(f) PROVE Placed(f)'
    BY DEF PlaceInv, Placed
  <2> QED
    BY <1>5, IdlePlaced DEF vars, streamVars, readerVars, workerVars, reporterVars
<1> QED
  BY <1>1, <1>2, <1>3, <1>4, <1>5 DEF Next, Exited

\* A file's places are one or none.
LEMMA OnePlace ==
  ASSUME PlaceInv, NEW f \in Files
  PROVE  PlacesOf(f) = {} \/ \E p : PlacesOf(f) = {p}
<1>1. Unique(f)
  BY ExpectedBounds, ClusterAssumption DEF PlaceInv, Files, File
<1>2. 1..Capacity \subseteq Position
  BY ClusterAssumption DEF Position
<1>3. ASSUME NEW p \in PlacesOf(f), NEW q \in PlacesOf(f) PROVE p = q
  <2> DEFINE InStream(x) == x \in Stream \X Position /\ Carries(x[1], x[2], f)
             InHands(x) == \E w \in WorkerId : x = <<<<"worker", w, 0>>, 0>> /\ Holds(w, f)
             Counted(x) == x = <<<<"seen", 0, 0>>, 0>> /\ f \in seen
  <2>1. \A x \in PlacesOf(f) : InStream(x) \/ InHands(x) \/ Counted(x)
    BY <1>2 DEF PlacesOf, Holds
  <2>2. InStream(p) => q = p
    BY <1>1, <2>1 DEF Unique
  <2>3. InStream(q) => q = p
    BY <1>1, <2>1 DEF Unique
  <2>4. InHands(p) /\ ~InStream(q) => q = p
    BY <1>1, <2>1 DEF Unique
  <2>5. Counted(p) /\ ~InStream(q) => q = p
    BY <1>1, <2>1 DEF Unique
  <2> QED
    BY <2>1, <2>2, <2>3, <2>4, <2>5
<1> QED
  BY <1>3

\* What the invariant says of the set of places.
LEMMA PlaceInvCounts == PlaceInv => NoFileTwice
<1> SUFFICES ASSUME PlaceInv, NEW f \in Files PROVE Cardinality(PlacesOf(f)) <= 1
  BY DEF NoFileTwice
<1>1. CASE PlacesOf(f) = {}
  BY <1>1, FS_EmptySet
<1>2. ASSUME NEW p, PlacesOf(f) = {p} PROVE Cardinality(PlacesOf(f)) <= 1
  <2>1. Cardinality({p}) = 1
    BY FS_Singleton
  <2> QED
    BY <1>2, <2>1
<1> QED
  BY <1>1, <1>2, OnePlace

\* Whatever fails, expires or is disconnected, a file is never duplicated: it
\* is not answered twice, nor both answered and still to be answered.
THEOREM NoFileIsTwice == Spec => []NoFileTwice
<1>1. Spec => []PlaceInv
  BY TypeCorrect, PlaceInit, PlaceNext, PTL DEF Spec
<1> QED
  BY <1>1, PlaceInvCounts, PTL

-----------------------------------------------------------------------------
(* The packets on the streams, and the counters. *)

\* What may be sent on the streams the reporter receives.
Legal(s, packet) ==
  /\ s[1] = "report" => packet.kind = "report" /\ packet.language = Outcome[packet.file[2]]
  /\ s[1] = "result" => packet.kind = "result" /\ packet.found = Expected

BufferInv ==
  /\ \A s \in Stream : \A i \in 1..Len(buf[s]) : Legal(s, buf[s][i])
  /\ \A s \in shut : buf[s] = <<>>

\* A reader that has left the traversal has counted all it will ever send.
FoundInv ==
  \A r \in ReaderId : rpc[r] \in {"broadcast", "report", "ended"} => files_found[r] = Expected

AnswerInv ==
  \A w \in WorkerId : wpc[w] = "send" => Legal(ReportStream(w), wanswer[w])

PacketInv == BufferInv /\ FoundInv /\ AnswerInv

-----------------------------------------------------------------------------
\* The name of a stream tells who receives it and from whom.
LEMMA StreamKinds ==
  /\ \A w \in WorkerId : ReportStream(w)[1] = "report"
  /\ \A r \in ReaderId : ResultStream(r)[1] = "result"
  /\ \A w \in WorkerId : \A s \in FileStreams(w) : s[1] = "file"
  /\ \A q, r \in ReaderId : ResultStream(q) = ResultStream(r) => q = r
BY DEF ReportStream, ResultStream, FileStreams, FileStream

\* A legal packet sent on an open stream keeps all streams legal.
LEMMA SendLegal ==
  ASSUME StreamsTypeOK, BufferInv, NEW t \in Stream, NEW packet \in Packet,
         Legal(t, packet), Send(t, packet)
  PROVE  BufferInv'
<1>1. \A s \in Stream : s # t => buf'[s] = buf[s]
  BY DEF StreamsTypeOK, Send
<1>2. buf'[t] = Append(buf[t], packet) /\ buf[t] \in Seq(Packet)
  BY DEF StreamsTypeOK, Send
<1>3. \A i \in 1..Len(buf'[t]) : Legal(t, buf'[t][i])
  BY <1>2 DEF BufferInv
<1>4. shut' = shut /\ t \notin shut /\ shut \subseteq Stream
  BY DEF Send, CanSend, StreamsTypeOK
<1> QED
  BY <1>1, <1>3, <1>4 DEF BufferInv, Legal

\* Receiving keeps all streams legal.
LEMMA ReceiveLegal ==
  ASSUME StreamsTypeOK, BufferInv, NEW t \in Stream, buf[t] # <<>>, Receive(t)
  PROVE  BufferInv'
<1>1. \A s \in Stream : s # t => buf'[s] = buf[s]
  BY DEF StreamsTypeOK, Receive
<1>2. buf'[t] = Tail(buf[t]) /\ buf[t] \in Seq(Packet)
  BY DEF StreamsTypeOK, Receive
<1>3. \A i \in 1..Len(buf'[t]) : i + 1 \in 1..Len(buf[t]) /\ buf'[t][i] = buf[t][i + 1]
  BY <1>2
<1>4. shut' = shut /\ t \notin shut /\ shut \subseteq Stream
  BY DEF Receive, BufferInv, StreamsTypeOK
<1>5. \A i \in 1..Len(buf'[t]) : Legal(t, buf'[t][i])
  BY <1>3 DEF BufferInv
<1> QED
  BY <1>1, <1>4, <1>5 DEF BufferInv, Legal

\* Closing keeps all streams legal, and the closed ones empty.
LEMMA CloseLegal ==
  ASSUME StreamsTypeOK, BufferInv, NEW S \in SUBSET Stream, Close(S)
  PROVE  BufferInv'
BY DEF StreamsTypeOK, Close, BufferInv, Legal

\* A step that touches no stream.
LEMMA IdleLegal ==
  ASSUME UNCHANGED <<buf, shut>>, BufferInv
  PROVE  BufferInv'
BY DEF BufferInv, Legal

\* The head of a stream is legal on it.
LEMMA HeadLegal ==
  ASSUME StreamsTypeOK, BufferInv, NEW t \in Stream, buf[t] # <<>>
  PROVE  Legal(t, Head(buf[t])) /\ t \notin shut
BY DEF StreamsTypeOK, BufferInv

-----------------------------------------------------------------------------
(* Only legal packets are sent. *)

\* A reader announces exactly the files it sent.
LEMMA ReaderLegal ==
  ASSUME StreamsTypeOK, ReaderTypeOK, BufferInv, FoundInv, NEW r \in ReaderId, ReaderStep(r)
  PROVE  BufferInv' /\ FoundInv'
<1> USE ReaderFacts, ExpectedBounds, ClusterAssumption
<1>1. CASE OnFile(r)
  <2> DEFINE n == files_found[r] + 1
             t == FileStream(r, clients[r][round_robin_next_client_index[r]])
  <2>1. FilePacket(<<r, n>>) \in Packet
    <3>1. files_found[r] \in Nat /\ files_found[r] < NFiles
      BY <1>1 DEF OnFile, HasMoreFiles, ReaderTypeOK
    <3>2. <<r, n>> \in File
      BY <3>1 DEF File
    <3> QED
      BY <3>2, PacketTypes
  <2>2. t \in Stream /\ t[1] = "file" /\ Target(r) = t
    <3>1. rpc[r] = "traverse" /\ Target(r) = t
      BY <1>1 DEF OnFile, HasMoreFiles, Target
    <3>2. Sending(r)
      BY <1>1 DEF OnFile, Sending
    <3>3. t \in Stream
      BY <3>1, <3>2, TargetType
    <3>4. t[1] = "file"
      BY DEF FileStream
    <3> QED
      BY <3>1, <3>3, <3>4
  <2>3. BufferInv'
    BY <1>1, <2>1, <2>2, SendLegal DEF OnFile, Legal
  <2>4. n >= FilesLimit => n = Expected
    BY <1>1 DEF OnFile, HasMoreFiles, Expected
  <2>5. FoundInv'
    BY <1>1, <2>4 DEF OnFile, HasMoreFiles, FoundInv, ReaderTypeOK
  <2> QED
    BY <2>3, <2>5
<1>2. CASE TraverseEnd(r)
  <2>1. files_found[r] = Expected
    BY <1>2 DEF TraverseEnd, Expected
  <2>2. FoundInv'
    BY <1>2, <2>1 DEF TraverseEnd, FoundInv, ReaderTypeOK
  <2> QED
    BY <1>2, <2>2, IdleLegal DEF TraverseEnd, streamVars
<1>3. CASE Broadcast(r) \/ ReportFound(r)
  <2>1. files_found[r] = Expected
    BY <1>3 DEF Broadcast, ReportFound, FoundInv
  <2>2. FoundInv'
    BY <1>3, <2>1 DEF Broadcast, ReportFound, FoundInv, ReaderTypeOK
  <2>3. ResultPacket(Expected) \in Packet
    BY PacketTypes
  <2>4. Target(r) \in Stream /\ Legal(Target(r), ResultPacket(Expected))
    <3>1. Target(r) \in Stream
      BY <1>3, TargetType DEF Broadcast, ReportFound, Sending
    <3>2. Target(r)[1] \in {"file", "result"}
      BY <1>3 DEF Broadcast, ReportFound, Target, FileStream, ResultStream
    <3> QED
      BY <3>1, <3>2 DEF Legal, ResultPacket
  <2> QED
    BY <1>3, <2>1, <2>2, <2>3, <2>4, SendLegal DEF Broadcast, ReportFound
<1>4. CASE TraverseFails(r) \/ ReaderEpipe(r)
  <2>1. FoundInv'
    BY <1>4 DEF TraverseFails, ReaderEpipe, FoundInv, ReaderTypeOK
  <2> QED
    BY <1>4, <2>1, IdleLegal DEF TraverseFails, ReaderEpipe, streamVars
<1> QED
  BY <1>1, <1>2, <1>3, <1>4 DEF ReaderStep

\* A worker answers with the language the task found.
LEMMA WorkerLegal ==
  ASSUME StreamsTypeOK, WorkerTypeOK, BufferInv, AnswerInv,
         NEW w \in WorkerId, WorkerStep(w) \/ WorkerTimeout(w)
  PROVE  BufferInv' /\ AnswerInv'
<1>1. CASE WorkerOnFile(w)
  <2>1. /\ wcurrent[w] \in Stream /\ buf[wcurrent[w]] # <<>> /\ Receive(wcurrent[w])
        /\ wpc' = [wpc EXCEPT ![w] = "send"]
    BY <1>1, WorkerHeadFacts DEF WorkerOnFile
  <2>2. PICK f : wanswer' = [wanswer EXCEPT ![w] = ReportPacket(f, Outcome[f[2]])]
    BY <1>1 DEF WorkerOnFile
  <2>3. AnswerInv'
    BY <2>1, <2>2, StreamKinds DEF AnswerInv, Legal, ReportPacket, WorkerTypeOK
  <2> QED
    BY <2>1, <2>3, ReceiveLegal
<1>2. CASE WorkerOnBadFile(w)
  <2>1. AnswerInv'
    BY <1>2 DEF WorkerOnBadFile, AnswerInv, Legal, WorkerTypeOK
  <2> QED
    BY <1>2, <2>1, WorkerHeadFacts, ReceiveLegal DEF WorkerOnBadFile
<1>3. CASE WorkerOnResult(w)
  <2>1. AnswerInv'
    BY <1>3 DEF WorkerOnResult, AnswerInv, Legal, WorkerTypeOK
  <2> QED
    BY <1>3, <2>1, WorkerHeadFacts, CloseLegal DEF WorkerOnResult
<1>4. CASE WorkerSend(w)
  <2>1. AnswerInv'
    BY <1>4 DEF WorkerSend, AnswerInv, Legal, WorkerTypeOK
  <2>2. /\ ReportStream(w) \in Stream /\ wanswer[w] \in Packet
        /\ Legal(ReportStream(w), wanswer[w])
    BY <1>4, StreamSets, WorkerFacts DEF WorkerSend, AnswerInv
  <2> QED
    BY <1>4, <2>1, <2>2, SendLegal DEF WorkerSend
<1>5. CASE \/ WorkerWatch(w) \/ WorkerEpollWait(w) \/ WorkerOnread(w) \/ WorkerDrained(w)
           \/ WorkerEpipe(w) \/ WorkerBatchDone(w) \/ WorkerTimeout(w)
  <2>1. UNCHANGED <<buf, shut>>
    BY <1>5 DEF WorkerWatch, WorkerEpollWait, WorkerOnread, WorkerDrained, WorkerEpipe,
                WorkerBatchDone, WorkerTimeout, Watch, TakeEvents, streamVars
  <2>2. AnswerInv'
    BY <1>5 DEF WorkerWatch, WorkerEpollWait, WorkerOnread, WorkerDrained, WorkerEpipe,
                WorkerBatchDone, WorkerTimeout, AnswerInv, Legal, WorkerTypeOK
  <2> QED
    BY <2>1, <2>2, IdleLegal
<1> QED
  BY <1>1, <1>2, <1>3, <1>4, <1>5 DEF WorkerStep

\* The reporter sends nothing.
LEMMA ReporterLegal ==
  ASSUME StreamsTypeOK, ReporterTypeOK, BufferInv, ReporterStep \/ ReporterTimeout
  PROVE  BufferInv'
<1>1. CASE ReaderOnPacket \/ WorkerOnPacket
  <2>1. /\ pcurrent \in Stream /\ buf[pcurrent] # <<>>
        /\ Receive(pcurrent) \/ Close({pcurrent})
    BY <1>1, ReporterHeadFacts DEF ReaderOnPacket, WorkerOnPacket, Hangup
  <2> QED
    BY <2>1, ReceiveLegal, CloseLegal
<1>2. CASE \/ ReporterWatch \/ ReporterEpollWait \/ ReporterOnread \/ ReporterDrained
           \/ ReporterBatchDone \/ ReporterTimeout
  BY <1>2, IdleLegal
     DEF ReporterWatch, ReporterEpollWait, ReporterOnread, ReporterDrained,
         ReporterBatchDone, ReporterTimeout, Watch, TakeEvents, streamVars
<1> QED
  BY <1>1, <1>2 DEF ReporterStep

\* Nothing is sent yet.
LEMMA PacketInit == Init => PacketInv
BY DEF Init, StreamsInit, ReaderInit, WorkerInit, PacketInv, BufferInv, FoundInv, AnswerInv

\* The invariant is inductive, given the types.
LEMMA PacketNext == TypeOK /\ PacketInv /\ [Next]_vars => PacketInv'
<1> SUFFICES ASSUME TypeOK, PacketInv, [Next]_vars PROVE PacketInv'
  OBVIOUS
<1> USE DEF TypeOK, PacketInv
<1>1. ASSUME NEW r \in ReaderId, ReaderMoves(r) PROVE PacketInv'
  BY <1>1, ReaderLegal DEF ReaderMoves, workerVars, AnswerInv, Legal
<1>2. ASSUME NEW w \in WorkerId, WorkerMoves(w) \/ WorkerExpires(w) PROVE PacketInv'
  BY <1>2, WorkerLegal DEF WorkerMoves, WorkerExpires, readerVars, FoundInv
<1>3. CASE ReporterMoves \/ ReporterExpires
  BY <1>3, ReporterLegal
     DEF ReporterMoves, ReporterExpires, readerVars, workerVars, FoundInv, AnswerInv, Legal
<1>4. CASE MainJoin
  <2>1. joined + 1 \in 1..ThreadCount
    BY <1>4, ClusterAssumption DEF MainJoin, ThreadCount
  <2>2. BufferInv'
    BY <1>4, <2>1, ReceivedStreams, CloseLegal DEF MainJoin
  <2> QED
    BY <1>4, <2>2 DEF MainJoin, readerVars, workerVars, FoundInv, AnswerInv, Legal
<1>5. CASE UNCHANGED vars
  BY <1>5, IdleLegal
     DEF vars, streamVars, readerVars, workerVars, FoundInv, AnswerInv, Legal
<1> QED
  BY <1>1, <1>2, <1>3, <1>4, <1>5 DEF Next, Exited

-----------------------------------------------------------------------------
(* Counting. *)

\* Readers whose announcement the reporter has received.
HungUp == {r \in ReaderId : ResultStream(r) \in shut}

\* There are NReaders readers.
LEMMA ReaderCount == IsFiniteSet(ReaderId) /\ Cardinality(ReaderId) = NReaders
BY FS_Interval, ClusterAssumption DEF ReaderId

\* There is one set of readers as large as all of them.
LEMMA AllReaders ==
  ASSUME NEW S \in SUBSET ReaderId
  PROVE  /\ IsFiniteSet(S) /\ Cardinality(S) \in Nat
         /\ Cardinality(S) = NReaders => S = ReaderId
BY ReaderCount, FS_Subset, FS_CardinalityType

\* There are NReaders * Expected files to answer.
LEMMA FileCount == IsFiniteSet(Files) /\ Cardinality(Files) = NReaders * Expected
<1>1. IsFiniteSet(1..Expected) /\ Cardinality(1..Expected) = Expected
  BY FS_Interval, ExpectedBounds
<1> QED
  BY <1>1, ReaderCount, FS_Product DEF Files

\* There is one set of files as large as all of them.
LEMMA AllFiles ==
  ASSUME NEW S \in SUBSET Files
  PROVE  /\ IsFiniteSet(S) /\ Cardinality(S) \in Nat
         /\ Cardinality(S) = NReaders * Expected => S = Files
BY FileCount, FS_Subset, FS_CardinalityType

\* Only files that were sent are answered.
LEMMA SeenSent == TypeOK /\ PlaceInv => seen \subseteq Files
<1> SUFFICES ASSUME TypeOK, PlaceInv, NEW f \in seen PROVE f \in Files
  OBVIOUS
<1>1. f \in File /\ Sent(f)
  BY DEF TypeOK, ReporterTypeOK, PlaceInv, Nowhere
<1>2. PICK r \in ReaderId, n \in 1..NFiles : f = <<r, n>>
  BY <1>1 DEF File
<1>3. files_found[r] \in Nat /\ files_found[r] <= Expected
  BY ReaderFacts DEF TypeOK
<1> QED
  BY <1>1, <1>2, <1>3, ExpectedBounds, ClusterAssumption DEF Sent, Files

\* The counters agree with what they count, and the loop stops when all is in.
CountInv ==
  /\ ppc # "panicked"
  /\ workers_files = Cardinality(seen)
  /\ readers_files = Expected * (NReaders - readers_unfinished)
  /\ ppc \notin ReporterDead => readers_unfinished = NReaders - Cardinality(HungUp)
  /\ stopped /\ ppc # "expired" => seen = Files /\ HungUp = ReaderId
  /\ ppc = "ended" => stopped

\* The stop condition implies that nothing is left to come.
LEMMA StopMeansAll ==
  ASSUME NEW S \in SUBSET Files, NEW R \in SUBSET ReaderId, NEW unfinished \in Int,
         unfinished = 0, unfinished = NReaders - Cardinality(R),
         Cardinality(S) = Expected * (NReaders - unfinished)
  PROVE  S = Files /\ R = ReaderId
<1>1. Cardinality(R) = NReaders
  BY AllReaders, ClusterAssumption
<1>2. NReaders - unfinished = NReaders /\ NReaders \in Nat /\ Expected \in Nat
  BY ClusterAssumption, ExpectedBounds
<1>3. Cardinality(S) = NReaders * Expected
  BY <1>2
<1> QED
  BY <1>1, <1>3, AllReaders, AllFiles

-----------------------------------------------------------------------------
(* Steps of the other threads leave the reporter's sockets open while it     *)
(* lives.                                                                    *)

\* A step that leaves the reporter's variables and sockets alone.
LEMMA OthersCount ==
  ASSUME CountInv, UNCHANGED reporterVars,
         HungUp \subseteq HungUp', ppc \notin ReporterDead => HungUp' = HungUp
  PROVE  CountInv'
<1>1. HungUp' \subseteq ReaderId
  BY DEF HungUp
<1> QED
  BY <1>1 DEF CountInv, reporterVars

\* A reader closes no socket.
LEMMA ReaderKeepsOpen ==
  ASSUME NEW r \in ReaderId, ReaderStep(r)
  PROVE  HungUp' = HungUp
BY DEF ReaderStep, OnFile, TraverseEnd, TraverseFails, Broadcast, ReportFound, ReaderEpipe, Send, streamVars,
       HungUp

\* A worker closes its own sockets only.
LEMMA WorkerKeepsOpen ==
  ASSUME WorkerTypeOK, NEW w \in WorkerId, WorkerStep(w) \/ WorkerTimeout(w)
  PROVE  HungUp' = HungUp
<1>1. CASE WorkerOnResult(w)
  <2>1. shut' = shut \union {wcurrent[w]} /\ wcurrent[w] \in FileStreams(w)
    BY <1>1, WorkerFacts DEF WorkerOnResult, WorkerHead, Close
  <2>2. \A r \in ReaderId : ResultStream(r) # wcurrent[w]
    BY <2>1, StreamKinds
  <2> QED
    BY <2>1, <2>2 DEF HungUp
<1>2. CASE ~WorkerOnResult(w)
  <2>1. shut' = shut
    BY <1>2 DEF WorkerStep, WorkerWatch, WorkerEpollWait, WorkerOnread, WorkerDrained,
                WorkerOnFile, WorkerOnBadFile, WorkerSend, WorkerEpipe, WorkerBatchDone,
                WorkerTimeout, Watch, TakeEvents, Receive, Send, streamVars
  <2> QED
    BY <2>1 DEF HungUp
<1> QED
  BY <1>1, <1>2

\* Main closes the reporter's sockets only after its death.
LEMMA MainKeepsOpen ==
  ASSUME TypeOK, MainJoin
  PROVE  HungUp \subseteq HungUp' /\ (ppc \notin ReporterDead => HungUp' = HungUp)
<1>1. joined + 1 \in 1..ThreadCount
  BY ClusterAssumption DEF TypeOK, MainJoin, ThreadCount
<1>2. PICK thread : thread = Finalised(joined + 1)
  OBVIOUS
<1>3. shut' = shut \union Received(thread) /\ Dead(thread)
  BY <1>2 DEF MainJoin, Close
<1>4. ASSUME ppc \notin ReporterDead, NEW r \in ReaderId PROVE ResultStream(r) \notin Received(thread)
  <2>1. thread # <<"reporter", 0>>
    BY <1>3, <1>4 DEF Dead
  <2>2. CASE \E w \in WorkerId : thread = <<"worker", w>>
    BY <2>2, StreamKinds DEF Received
  <2>3. CASE \E q \in ReaderId : thread = <<"reader", q>>
    BY <2>3 DEF Received
  <2> QED
    BY <1>1, <1>2, <2>1, <2>2, <2>3, FinalisedThread
<1> QED
  BY <1>3, <1>4 DEF HungUp

-----------------------------------------------------------------------------
(* Steps of the reporter. *)

\* A reader's announcement: it was expected, it is counted, its reader leaves.
LEMMA ReaderPacketCounts ==
  ASSUME TypeOK, PlaceInv, PacketInv, CountInv, ReaderOnPacket
  PROVE  CountInv'
<1> DEFINE rfiles == readers_files + Expected
           unfinished == readers_unfinished - 1
<1>1. /\ pcurrent \in ReporterStreams /\ pcurrent \in Stream /\ pcurrent \notin shut
      /\ Legal(pcurrent, Head(buf[pcurrent])) /\ Head(buf[pcurrent]).kind = "result"
  BY ReporterHeadFacts, HeadLegal DEF ReaderOnPacket, TypeOK, PacketInv
<1>2. PICK r \in ReaderId : pcurrent = ResultStream(r)
  BY <1>1, StreamKinds DEF ReporterStreams, Legal
<1>3. r \notin HungUp /\ Head(buf[pcurrent]).found = Expected
  BY <1>1, <1>2, StreamKinds DEF HungUp, Legal
<1>4. ~stopped /\ ppc = "recv"
  BY <1>3 DEF CountInv, ReaderOnPacket, ReporterHead
<1>5. /\ readers_files' = rfiles /\ readers_unfinished' = unfinished
      /\ ppc' = "events" /\ stopped' = (unfinished = 0 /\ rfiles = workers_files)
      /\ UNCHANGED <<workers_files, seen>>
      /\ shut' = shut \union {ResultStream(r)}
  BY <1>2, <1>3, <1>4 DEF ReaderOnPacket, Hangup, ReporterIncoming, Close
<1>6. HungUp' = HungUp \union {r} /\ HungUp \subseteq ReaderId
  BY <1>5, StreamKinds DEF HungUp
<1>7. Cardinality(HungUp') = Cardinality(HungUp) + 1 /\ Cardinality(HungUp) \in Nat
  BY <1>3, <1>6, AllReaders, FS_AddElement
<1>8. /\ readers_unfinished \in Int /\ Expected \in Nat /\ NReaders \in Nat
      /\ readers_unfinished = NReaders - Cardinality(HungUp)
      /\ readers_files = Expected * (NReaders - readers_unfinished)
  BY <1>4, ExpectedBounds, ClusterAssumption
     DEF TypeOK, ReporterTypeOK, CountInv, ReporterDead
<1>9. unfinished = NReaders - Cardinality(HungUp')
  BY <1>7, <1>8
<1>10. rfiles = Expected * (NReaders - unfinished)
  <2>1. NReaders - unfinished = (NReaders - readers_unfinished) + 1
    BY <1>8
  <2>2. \A m, n \in Int : m * (n + 1) = m * n + m
    OBVIOUS
  <2> QED
    BY <1>8, <2>1, <2>2
<1>11. unfinished = 0 /\ rfiles = workers_files => seen = Files /\ HungUp' = ReaderId
  <2>1. seen \subseteq Files /\ workers_files = Cardinality(seen) /\ unfinished \in Int
    BY <1>8, SeenSent DEF CountInv
  <2>2. HungUp' \subseteq ReaderId
    BY <1>6
  <2> QED
    BY <1>9, <1>10, <2>1, <2>2, StopMeansAll
<1> QED
  BY <1>5, <1>9, <1>10, <1>11 DEF CountInv, ReporterDead

\* An answer the reporter receives is on a file it has not counted yet.
LEMMA AnswerIsNew ==
  ASSUME TypeOK, PlaceInv, NEW f, WorkerOnPacket, f = Head(ReporterIncoming).file
  PROVE  f \in Files /\ f \notin seen
<1>1. /\ pcurrent \in Stream /\ buf[pcurrent] # <<>>
      /\ Head(buf[pcurrent]) \in Packet /\ Head(buf[pcurrent]).kind = "report"
  BY ReporterHeadFacts DEF WorkerOnPacket, TypeOK
<1>2. f \in File /\ Carries(pcurrent, 1, f)
  BY <1>1, PacketFields, HeadCarries DEF TypeOK, ReporterIncoming
<1>3. f \notin seen /\ Sent(f)
  BY <1>1, <1>2 DEF PlaceInv, Unique, Nowhere, Position
<1>4. PICK r \in ReaderId, n \in 1..NFiles : f = <<r, n>>
  BY <1>2 DEF File
<1>5. files_found[r] \in Nat /\ files_found[r] <= Expected
  BY ReaderFacts DEF TypeOK
<1> QED
  BY <1>3, <1>4, <1>5, ExpectedBounds, ClusterAssumption DEF Sent, Files

\* An answer: it is new, it is counted, and no reader leaves.
LEMMA WorkerPacketCounts ==
  ASSUME TypeOK, PlaceInv, PacketInv, CountInv, WorkerOnPacket
  PROVE  CountInv'
<1> DEFINE wfiles == workers_files + 1
<1>0. PICK f : f = Head(ReporterIncoming).file
  OBVIOUS
<1>1. f \in Files /\ f \notin seen
  BY <1>0, AnswerIsNew
<1>2. ~stopped /\ ppc = "recv"
  BY <1>1 DEF CountInv, WorkerOnPacket, ReporterHead
<1>3. /\ pcurrent \in ReporterStreams /\ pcurrent \in Stream
      /\ Legal(pcurrent, Head(buf[pcurrent])) /\ Head(buf[pcurrent]).kind = "report"
  BY ReporterHeadFacts, HeadLegal DEF WorkerOnPacket, TypeOK, PacketInv
<1>4. \A r \in ReaderId : ResultStream(r) # pcurrent
  BY <1>3, StreamKinds DEF Legal
<1>5. /\ workers_files' = wfiles /\ seen' = seen \union {f}
      /\ UNCHANGED <<readers_files, readers_unfinished>>
      /\ ppc' \in {"recv", "events"}
      /\ stopped' => readers_unfinished = 0 /\ readers_files = wfiles
      /\ shut' = shut \/ shut' = shut \union {pcurrent}
  BY <1>0, <1>2 DEF WorkerOnPacket, Hangup, Receive, Close
<1>6. HungUp' = HungUp /\ HungUp \subseteq ReaderId
  BY <1>4, <1>5 DEF HungUp
<1>7. seen \subseteq Files /\ seen' \subseteq Files
  BY <1>1, <1>5, SeenSent
<1>8. workers_files' = Cardinality(seen')
  BY <1>1, <1>5, <1>7, AllFiles, FS_AddElement DEF CountInv
<1>9. /\ readers_unfinished \in Int
      /\ readers_unfinished = NReaders - Cardinality(HungUp)
      /\ readers_files = Expected * (NReaders - readers_unfinished)
  BY <1>2 DEF TypeOK, ReporterTypeOK, CountInv, ReporterDead
<1>10. stopped' => seen' = Files /\ HungUp = ReaderId
  BY <1>5, <1>6, <1>7, <1>8, <1>9, StopMeansAll
<1> QED
  BY <1>5, <1>6, <1>8, <1>9, <1>10 DEF CountInv, ReporterDead

\* The other steps of the reporter count nothing.
LEMMA ReporterCounts ==
  ASSUME TypeOK, PlaceInv, PacketInv, CountInv, ReporterStep \/ ReporterTimeout
  PROVE  CountInv'
<1>1. CASE ReaderOnPacket \/ WorkerOnPacket
  BY <1>1, ReaderPacketCounts, WorkerPacketCounts
<1>2. CASE \/ ReporterWatch \/ ReporterEpollWait \/ ReporterOnread \/ ReporterDrained
           \/ ReporterBatchDone \/ ReporterTimeout
  <2>1. HungUp' = HungUp
    BY <1>2 DEF ReporterWatch, ReporterEpollWait, ReporterOnread, ReporterDrained,
                ReporterBatchDone, ReporterTimeout, Watch, TakeEvents, streamVars, HungUp
  <2>2. /\ UNCHANGED <<workers_files, seen, readers_files, readers_unfinished>>
        /\ ppc \notin ReporterDead
        /\ ppc' \notin {"panicked"}
        /\ ppc' = "ended" => stopped'
        /\ ppc' # "expired" => stopped' = stopped
    BY <1>2 DEF ReporterWatch, ReporterEpollWait, ReporterOnread, ReporterDrained,
                ReporterBatchDone, ReporterTimeout, ReporterDead
  <2> QED
    BY <2>1, <2>2 DEF CountInv, ReporterDead
<1> QED
  BY <1>1, <1>2 DEF ReporterStep

-----------------------------------------------------------------------------
\* Nothing is counted yet.
LEMMA CountInit == Init => CountInv
<1> SUFFICES ASSUME Init PROVE CountInv
  OBVIOUS
<1>1. /\ ppc = "start" /\ seen = {} /\ workers_files = 0 /\ readers_files = 0
      /\ readers_unfinished = NReaders /\ ~stopped /\ HungUp = {}
  BY DEF Init, StreamsInit, ReporterInit, HungUp
<1>2. Expected * (NReaders - NReaders) = 0 /\ NReaders - 0 = NReaders
  BY ClusterAssumption, ExpectedBounds
<1> QED
  BY <1>1, <1>2, FS_EmptySet DEF CountInv

\* The invariant is inductive, given the types, places and packets.
LEMMA CountNext ==
  TypeOK /\ PlaceInv /\ PacketInv /\ CountInv /\ [Next]_vars => CountInv'
<1> SUFFICES ASSUME TypeOK, PlaceInv, PacketInv, CountInv, [Next]_vars PROVE CountInv'
  OBVIOUS
<1>1. ASSUME NEW r \in ReaderId, ReaderMoves(r) PROVE CountInv'
  BY <1>1, ReaderKeepsOpen, OthersCount DEF ReaderMoves
<1>2. ASSUME NEW w \in WorkerId, WorkerMoves(w) \/ WorkerExpires(w) PROVE CountInv'
  BY <1>2, WorkerKeepsOpen, OthersCount DEF WorkerMoves, WorkerExpires, TypeOK
<1>3. CASE ReporterMoves \/ ReporterExpires
  BY <1>3, ReporterCounts DEF ReporterMoves, ReporterExpires
<1>4. CASE MainJoin
  BY <1>4, MainKeepsOpen, OthersCount DEF MainJoin
<1>5. CASE UNCHANGED vars
  BY <1>5, OthersCount DEF vars, streamVars, HungUp
<1> QED
  BY <1>1, <1>2, <1>3, <1>4, <1>5 DEF Next, Exited

ReportInv == TypeOK /\ PlaceInv /\ PacketInv /\ CountInv

\* All four invariants together.
LEMMA ReportInvHolds == Spec => []ReportInv
BY TypeCorrect, InitType, NextType, PlaceInit, PlaceNext, PacketInit, PacketNext, CountInit,
   CountNext, PTL DEF Spec, ReportInv

\* The two counters the stop condition compares are what they stand for, for
\* any numbers of readers and workers and whatever fails.
THEOREM CountersAgree == Spec => []CountersMatch
<1>1. ReportInv => CountersMatch
  BY DEF ReportInv, CountInv, CountersMatch
<1> QED
  BY <1>1, ReportInvHolds, PTL

\* A reporter that stopped its loop by the counters, not by the timeout, has
\* the answers on every file every reader sent, for any numbers of threads.
THEOREM ReportIsComplete == Spec => []ReportComplete
<1>1. ReportInv => ReportComplete
  BY DEF ReportInv, CountInv, ReportComplete
<1> QED
  BY <1>1, ReportInvHolds, PTL

\* The assertion on unwatch in onhup never fails: no packet follows the stop.
THEOREM ReporterSurvives == Spec => []ReporterNeverPanics
<1>1. ReportInv => ReporterNeverPanics
  BY DEF ReportInv, CountInv, ReporterNeverPanics
<1> QED
  BY <1>1, ReportInvHolds, PTL

-----------------------------------------------------------------------------
(* The report lists what was answered. *)

\* One language's list, and the files it must hold.
Lists(list, answered, lang) ==
  /\ ToSet(list) = {f \in answered : Outcome[f[2]] = lang}
  /\ IsFiniteSet(ToSet(list))
  /\ Len(list) = Cardinality(ToSet(list))

FaithInv == \A lang \in FilterLangs : Lists(final_report[lang], seen, lang)

\* The elements of a sequence with one more at its end.
LEMMA AppendSet ==
  ASSUME NEW S, NEW list \in Seq(S), NEW x \in S
  PROVE  ToSet(Append(list, x)) = ToSet(list) \union {x}
<1>1. /\ DOMAIN Append(list, x) = 1..(Len(list) + 1)
      /\ DOMAIN list = 1..Len(list)
      /\ \A i \in 1..Len(list) : Append(list, x)[i] = list[i]
      /\ Append(list, x)[Len(list) + 1] = x
      /\ Len(list) \in Nat
  OBVIOUS
<1>2. ToSet(Append(list, x)) \subseteq ToSet(list) \union {x}
  <2>1. \A i \in 1..(Len(list) + 1) : i \in 1..Len(list) \/ i = Len(list) + 1
    BY <1>1
  <2> QED
    BY <1>1, <2>1 DEF ToSet
<1>3. ToSet(list) \subseteq ToSet(Append(list, x))
  BY <1>1 DEF ToSet
<1>4. x \in ToSet(Append(list, x))
  BY <1>1 DEF ToSet
<1> QED
  BY <1>2, <1>3, <1>4

\* A new file of the list's language joins it.
LEMMA AppendLists ==
  ASSUME NEW list \in Seq(File), NEW answered, NEW lang,
         Lists(list, answered, lang), NEW f \in File, f \notin answered, Outcome[f[2]] = lang
  PROVE  Lists(Append(list, f), answered \union {f}, lang)
<1>1. ToSet(Append(list, f)) = ToSet(list) \union {f} /\ f \notin ToSet(list)
  BY AppendSet DEF Lists
<1>2. Len(Append(list, f)) = Len(list) + 1
  OBVIOUS
<1>3. /\ IsFiniteSet(ToSet(list) \union {f})
      /\ Cardinality(ToSet(list) \union {f}) = Cardinality(ToSet(list)) + 1
  BY <1>1, FS_AddElement DEF Lists
<1> QED
  BY <1>1, <1>2, <1>3 DEF Lists

\* A file of another language does not concern the list.
LEMMA OtherLists ==
  ASSUME NEW list, NEW answered, NEW lang, Lists(list, answered, lang),
         NEW f, Outcome[f[2]] # lang
  PROVE  Lists(list, answered \union {f}, lang)
BY DEF Lists

\* The empty lists hold the answered files, which are none.
LEMMA FaithInit == Init => FaithInv
<1> SUFFICES ASSUME Init, NEW lang \in FilterLangs PROVE Lists(<<>>, {}, lang)
  BY DEF Init, ReporterInit, FaithInv
<1>1. ToSet(<<>>) = {}
  BY DEF ToSet
<1> QED
  BY <1>1, FS_EmptySet DEF Lists

\* An answer joins the list of its language, and no other.
LEMMA WorkerPacketFaithful ==
  ASSUME TypeOK, PlaceInv, PacketInv, FaithInv, WorkerOnPacket
  PROVE  FaithInv'
<1>0. PICK packet \in Packet : packet = Head(ReporterIncoming) /\ packet.kind = "report"
  BY ReporterHeadFacts DEF WorkerOnPacket, TypeOK, ReporterIncoming
<1> DEFINE f == packet.file
<1>1. f \notin seen
  BY <1>0, AnswerIsNew
<1>2. f \in File /\ packet.language = Outcome[f[2]]
  <2>1. /\ pcurrent \in ReporterStreams /\ pcurrent \in Stream
        /\ Legal(pcurrent, packet)
    BY <1>0, ReporterHeadFacts, HeadLegal
       DEF WorkerOnPacket, TypeOK, PacketInv, ReporterIncoming
  <2> QED
    BY <1>0, <2>1, PacketFields, StreamKinds DEF ReporterStreams, Legal
<1>3. seen' = seen \union {f} /\ Task(packet)
  BY <1>0 DEF WorkerOnPacket
<1>4. final_report \in [FilterLangs -> Seq(File)]
  BY DEF TypeOK, ReporterTypeOK
<1> SUFFICES ASSUME NEW lang \in FilterLangs PROVE Lists(final_report'[lang], seen', lang)
  BY DEF FaithInv, Lists
<1>5. Lists(final_report[lang], seen, lang)
  BY DEF FaithInv
<1>6. CASE packet.language = lang
  <2>1. final_report'[lang] = Append(final_report[lang], f)
    BY <1>3, <1>4, <1>6 DEF Task
  <2> QED
    <3>1. final_report[lang] \in Seq(File) /\ Outcome[f[2]] = lang
      BY <1>2, <1>4, <1>6
    <3> HIDE DEF f
    <3>2. Lists(Append(final_report[lang], f), seen \union {f}, lang)
      BY <1>1, <1>2, <1>5, <3>1, AppendLists
    <3> QED
      BY <1>3, <2>1, <3>2
<1>7. CASE packet.language # lang
  <2>1. final_report'[lang] = final_report[lang]
    BY <1>3, <1>4, <1>7 DEF Task
  <2> QED
    BY <1>2, <1>3, <1>5, <1>7, <2>1, OtherLists
<1> QED
  BY <1>6, <1>7

\* Only an answer changes the report.
LEMMA FaithNext ==
  TypeOK /\ PlaceInv /\ PacketInv /\ FaithInv /\ [Next]_vars => FaithInv'
<1> SUFFICES ASSUME TypeOK, PlaceInv, PacketInv, FaithInv, [Next]_vars PROVE FaithInv'
  OBVIOUS
<1>1. CASE ReporterMoves /\ WorkerOnPacket
  BY <1>1, WorkerPacketFaithful
<1>2. CASE ~(ReporterMoves /\ WorkerOnPacket)
  <2>1. UNCHANGED <<final_report, seen>>
    <3>1. CASE ReporterMoves
      BY <1>2, <3>1
         DEF ReporterMoves, ReporterStep, ReporterWatch, ReporterEpollWait, ReporterOnread,
             ReporterDrained, ReaderOnPacket, ReporterBatchDone
    <3>2. CASE ReporterExpires
      BY <3>2 DEF ReporterExpires, ReporterTimeout
    <3> QED
      BY <3>1, <3>2
         DEF Next, ReaderMoves, WorkerMoves, WorkerExpires, MainJoin, Exited, vars, reporterVars
  <2> QED
    BY <2>1 DEF FaithInv, Lists
<1> QED
  BY <1>1, <1>2

\* The printed report lists every answered file of a reported language once,
\* under its language, and nothing else, partial reports included.
THEOREM ReportIsFaithful == Spec => []ReportFaithful
<1>1. Spec => []FaithInv
  BY TypeCorrect, PlaceInit, PlaceNext, PacketInit, PacketNext, InitType, NextType, FaithInit,
     FaithNext, PTL DEF Spec
<1>2. FaithInv => ReportFaithful
  BY DEF FaithInv, Lists, ReportFaithful
<1> QED
  BY <1>1, <1>2, PTL
=============================================================================
