------------------------------ MODULE RunProofs ------------------------------
(***************************************************************************)
(* Nothing is lost on the way from the readers to the report: what a       *)
(* stream still holds when its receiver hangs up, where every file is, why *)
(* the threads cannot all wait for each other, and that the process        *)
(* therefore does what TaskRun promises.  The shipped configuration has    *)
(* one reader; what is assumed of their number is said where it is needed. *)
(***************************************************************************)
EXTENDS ReportProofs

\* Reader r has told worker w how many files there were.
Told(r, w) == \E j \in WorkerId : j < bcast[r] /\ clients[r][j] = w

\* The accepted clients are different workers, and a reader that reports has
\* told all of them.
BroadcastInv ==
  \A r \in ReaderId :
    /\ \A i, j \in WorkerId : clients[r][i] = clients[r][j] => i = j
    /\ rpc[r] \in {"report", "ended"} => bcast[r] = NWorkers + 1

\* An announcement is only ever the last packet of a stream, and is made once.
Ordered(packets, told) ==
  \A i \in 1..Len(packets) : packets[i].kind = "result" => told /\ i = Len(packets)

Announces(packets) == packets # <<>> /\ packets[Len(packets)].kind = "result"

\* What a reader has sent to a worker ends with its announcement, which stays
\* in the socket until the worker hangs up on it.
TailOf(r, w) ==
  /\ Ordered(buf[FileStream(r, w)], Told(r, w))
  /\ Told(r, w) /\ FileStream(r, w) \notin shut => Announces(buf[FileStream(r, w)])
  /\ FileStream(r, w) \in shut => Told(r, w) \/ ppc = "expired"

\* A reader sends one packet to the reporter, and it is its last act.
ResultOf(r) ==
  /\ Len(buf[ResultStream(r)]) <= 1
  /\ buf[ResultStream(r)] # <<>> => rpc[r] = "ended"
  /\ ResultStream(r) \in shut => rpc[r] = "ended" \/ ppc = "expired"
  /\ rpc[r] = "ended" => ResultStream(r) \in shut \/ buf[ResultStream(r)] # <<>>

TailInv == \A r \in ReaderId : \A w \in WorkerId : TailOf(r, w)

ResultInv == \A r \in ReaderId : ResultOf(r)

\* No socket holds more than its capacity.
RoomInv == \A s \in Stream : Len(buf[s]) <= Capacity

\* The readers worker w has hung up on.
Left(w) == {r \in ReaderId : FileStream(r, w) \in shut}

\* A worker counts the readers it still waits for, and ends when there are none.
HangupOf(w) ==
  /\ wpc[w] \notin WorkerDead => wunfinished[w] = NReaders - Cardinality(Left(w))
  /\ wpc[w] \in {"start", "wait"} => wunfinished[w] # 0
  /\ wpc[w] = "ended" => FileStreams(w) \subseteq shut

HangupInv == \A w \in WorkerId : HangupOf(w)

\* The reporter stops as soon as the counts agree, and does not sleep stopped.
StopInv ==
  /\ ppc \in {"start", "wait"} => ~stopped
  /\ ppc \notin ReporterDead /\ readers_unfinished = 0 /\ readers_files = workers_files
       => stopped

-----------------------------------------------------------------------------
(* Sequences of packets. *)

\* A packet joins a sequence in which nothing is announced yet.
LEMMA AppendOrdered ==
  ASSUME NEW packets \in Seq(Packet), NEW packet \in Packet, Ordered(packets, FALSE)
  PROVE  /\ Ordered(Append(packets, packet), packet.kind = "result")
         /\ packet.kind = "result" => Announces(Append(packets, packet))
<1>1. /\ Len(Append(packets, packet)) = Len(packets) + 1 /\ Len(packets) \in Nat
      /\ \A i \in 1..Len(packets) : Append(packets, packet)[i] = packets[i]
      /\ Append(packets, packet)[Len(packets) + 1] = packet
      /\ Append(packets, packet) # <<>>
  OBVIOUS
<1>2. \A i \in 1..(Len(packets) + 1) : i \in 1..Len(packets) \/ i = Len(packets) + 1
  BY <1>1
<1>3. Ordered(Append(packets, packet), packet.kind = "result")
  BY <1>1, <1>2 DEF Ordered
<1> QED
  BY <1>1, <1>3 DEF Announces

\* Taking a file off keeps the announcement at the end.
LEMMA TailOrdered ==
  ASSUME NEW packets \in Seq(Packet), packets # <<>>, Head(packets).kind # "result",
         NEW told, Ordered(packets, told)
  PROVE  /\ Ordered(Tail(packets), told)
         /\ Announces(packets) => Announces(Tail(packets))
<1>0. PICK n \in Nat : n = Len(packets) - 1
  OBVIOUS
<1>1. /\ Len(packets) = n + 1 /\ Head(packets) = packets[1]
      /\ Len(Tail(packets)) = n
      /\ \A i \in 1..n : Tail(packets)[i] = packets[i + 1]
  BY <1>0
<1>2. Ordered(Tail(packets), told)
  <2>1. ASSUME NEW i \in 1..n, Tail(packets)[i].kind = "result" PROVE told /\ i = n
    <3>1. i + 1 \in 1..(n + 1) /\ packets[i + 1].kind = "result"
      BY <1>1, <2>1
    <3>2. told /\ i + 1 = n + 1
      BY <1>1, <3>1 DEF Ordered
    <3> QED
      BY <3>2
  <2> QED
    BY <1>1, <2>1 DEF Ordered
<1>3. ASSUME Announces(packets) PROVE Announces(Tail(packets))
  <2>1. n # 0
    BY <1>1, <1>3 DEF Announces
  <2>2. n \in 1..n
    BY <2>1
  <2>3. Tail(packets)[n] = packets[n + 1]
    BY <1>1, <2>2
  <2>4. Tail(packets) # <<>>
    <3>1. Len(Tail(packets)) # 0 /\ Len(<<>>) = 0
      BY <1>1, <2>1
    <3> QED
      BY <3>1
  <2> QED
    BY <1>1, <1>3, <2>3, <2>4 DEF Announces
<1> QED
  BY <1>2, <1>3

\* Once the announcement is at the head, nothing follows it.
LEMMA HeadAnnounces ==
  ASSUME NEW packets \in Seq(Packet), packets # <<>>, Head(packets).kind = "result",
         NEW told, Ordered(packets, told)
  PROVE  told /\ Len(packets) = 1
<1>1. 1 \in 1..Len(packets) /\ Head(packets) = packets[1]
  OBVIOUS
<1> QED
  BY <1>1 DEF Ordered

\* Nothing is announced in an empty sequence.
LEMMA EmptyOrdered ==
  ASSUME NEW told
  PROVE  Ordered(<<>>, told) /\ ~Announces(<<>>)
BY DEF Ordered, Announces

-----------------------------------------------------------------------------
(* What a step does to the streams. *)

\* A send adds a packet to the end of one open stream that has room.
LEMMA SendEffect ==
  ASSUME StreamsTypeOK, NEW t \in Stream, NEW packet, Send(t, packet)
  PROVE  /\ shut' = shut /\ t \notin shut /\ Len(buf[t]) < Capacity
         /\ buf'[t] = Append(buf[t], packet)
         /\ \A s \in Stream : s # t => buf'[s] = buf[s]
BY DEF StreamsTypeOK, Send, CanSend

\* Receiving takes the head off one stream.
LEMMA ReceiveEffect ==
  ASSUME StreamsTypeOK, NEW t \in Stream, Receive(t)
  PROVE  /\ shut' = shut /\ buf'[t] = Tail(buf[t])
         /\ \A s \in Stream : s # t => buf'[s] = buf[s]
BY DEF StreamsTypeOK, Receive

\* Closing empties the streams that are closed.
LEMMA CloseEffect ==
  ASSUME StreamsTypeOK, NEW S \in SUBSET Stream, Close(S)
  PROVE  /\ shut' = shut \union S
         /\ \A s \in S : buf'[s] = <<>>
         /\ \A s \in Stream : s \notin S => buf'[s] = buf[s]
BY DEF StreamsTypeOK, Close

\* Different ends, different streams.
LEMMA StreamNames ==
  /\ \A q, r \in ReaderId : \A v, w \in WorkerId :
       FileStream(q, v) = FileStream(r, w) => q = r /\ v = w
  /\ \A q, r \in ReaderId : \A w \in WorkerId : FileStream(q, w) # ResultStream(r)
  /\ \A r \in ReaderId : \A v, w \in WorkerId : FileStream(r, w) # ReportStream(v)
  /\ \A r \in ReaderId : \A w \in WorkerId : ResultStream(r) # ReportStream(w)
  /\ \A v, w \in WorkerId : ReportStream(v) = ReportStream(w) => v = w
BY DEF FileStream, ResultStream, ReportStream

\* A step that does not concern a stream of files.
LEMMA TailSame ==
  ASSUME NEW r, NEW w, TailOf(r, w),
         buf'[FileStream(r, w)] = buf[FileStream(r, w)],
         FileStream(r, w) \in shut' <=> FileStream(r, w) \in shut,
         Told(r, w)' <=> Told(r, w), ppc = "expired" => ppc' = "expired"
  PROVE  TailOf(r, w)'
BY DEF TailOf, Ordered, Announces, FileStream

\* A step that does not concern a reader's stream to the reporter.
LEMMA ResultSame ==
  ASSUME NEW r, ResultOf(r),
         buf'[ResultStream(r)] = buf[ResultStream(r)],
         ResultStream(r) \in shut' <=> ResultStream(r) \in shut,
         rpc'[r] = "ended" <=> rpc[r] = "ended", ppc = "expired" => ppc' = "expired"
  PROVE  ResultOf(r)'
BY DEF ResultOf, ResultStream

-----------------------------------------------------------------------------
(* Steps of a reader. *)

\* Files and broadcasts go to workers.
LEMMA FileTarget ==
  ASSUME ReaderTypeOK, NEW r \in ReaderId, rpc[r] \in {"traverse", "broadcast"}
  PROVE  /\ \E w \in WorkerId : Target(r) = FileStream(r, w)
         /\ rpc[r] = "broadcast" => bcast[r] \in WorkerId /\ clients[r][bcast[r]] \in WorkerId
<1>1. clients[r] \in [WorkerId -> WorkerId]
  BY DEF ReaderTypeOK
<1>2. rpc[r] = "broadcast" => bcast[r] \in WorkerId
  BY ReaderFacts, ClusterAssumption DEF WorkerId
<1> QED
  BY <1>1, <1>2, ReaderFacts DEF Target

\* Only a broadcast tells a worker.
LEMMA ReaderTells ==
  ASSUME ReaderTypeOK, NEW r \in ReaderId, ReaderStep(r),
         NEW q \in ReaderId, NEW w \in WorkerId
  PROVE  Told(q, w)' <=> \/ Told(q, w)
                         \/ Broadcast(r) /\ q = r /\ clients[r][bcast[r]] = w
<1>0. /\ bcast \in [ReaderId -> Nat] /\ clients' = clients
      /\ \A j \in WorkerId : j \in Nat
  <2>1. bcast \in [ReaderId -> Nat]
    BY ReaderFacts DEF ReaderTypeOK
  <2>2. clients' = clients
    BY DEF ReaderStep, OnFile, TraverseEnd, TraverseFails, Broadcast, ReportFound, ReaderEpipe
  <2>3. \A j \in WorkerId : j \in Nat
    BY ClusterAssumption DEF WorkerId
  <2> QED
    BY <2>1, <2>2, <2>3
<1>1. CASE Broadcast(r)
  <2>1. bcast' = [bcast EXCEPT ![r] = @ + 1] /\ bcast[r] \in WorkerId
    BY <1>1, ReaderFacts DEF Broadcast, WorkerId
  <2>2. CASE q = r
    <3>1. bcast'[q] = bcast[q] + 1
      BY <1>0, <2>1, <2>2
    <3>2. \A j \in WorkerId : j < bcast'[q] <=> j < bcast[q] \/ j = bcast[q]
      BY <1>0, <3>1
    <3> QED
      BY <1>0, <1>1, <2>1, <2>2, <3>2 DEF Told
  <2>3. CASE q # r
    BY <1>0, <2>1, <2>3 DEF Told
  <2> QED
    BY <2>2, <2>3
<1>2. CASE ~Broadcast(r)
  BY <1>0, <1>2 DEF ReaderStep, OnFile, TraverseEnd, TraverseFails, ReportFound, ReaderEpipe, Told
<1> QED
  BY <1>1, <1>2

\* A reader tells no worker twice, and all of them before it reports.
LEMMA ReaderBroadcasts ==
  ASSUME ReaderTypeOK, BroadcastInv, NEW r \in ReaderId, ReaderStep(r)
  PROVE  /\ BroadcastInv'
         /\ rpc[r] = "broadcast" => ~Told(r, clients[r][bcast[r]])
<1>1. rpc[r] = "broadcast" => ~Told(r, clients[r][bcast[r]])
  <2> SUFFICES ASSUME rpc[r] = "broadcast", Told(r, clients[r][bcast[r]]) PROVE FALSE
    OBVIOUS
  <2>1. bcast[r] \in WorkerId
    BY ReaderFacts, ClusterAssumption DEF WorkerId
  <2>2. PICK j \in WorkerId : j < bcast[r] /\ clients[r][j] = clients[r][bcast[r]]
    BY DEF Told
  <2>3. j = bcast[r] /\ j \in Nat
    BY <2>1, <2>2, ClusterAssumption DEF BroadcastInv, WorkerId
  <2> QED
    BY <2>2, <2>3
<1>2. clients' = clients
  BY DEF ReaderStep, OnFile, TraverseEnd, TraverseFails, Broadcast, ReportFound, ReaderEpipe
<1>3. \A q \in ReaderId : q # r => rpc'[q] = rpc[q] /\ bcast'[q] = bcast[q]
  BY DEF ReaderStep, OnFile, TraverseEnd, TraverseFails, Broadcast, ReportFound, ReaderEpipe, ReaderTypeOK
<1>4. rpc'[r] \in {"report", "ended"} => bcast'[r] = NWorkers + 1
  <2>1. CASE Broadcast(r)
    BY <2>1 DEF Broadcast, ReaderTypeOK
  <2>2. CASE ReportFound(r)
    BY <2>2 DEF ReportFound, BroadcastInv, ReaderTypeOK
  <2>3. CASE OnFile(r)
    <3>1. PICK pc \in {"traverse", "broadcast"} : rpc' = [rpc EXCEPT ![r] = pc]
      BY <2>3 DEF OnFile, HasMoreFiles
    <3> QED
      BY <3>1 DEF ReaderTypeOK
  <2>4. CASE TraverseEnd(r) \/ TraverseFails(r) \/ ReaderEpipe(r)
    BY <2>4 DEF TraverseEnd, TraverseFails, ReaderEpipe, ReaderTypeOK
  <2> QED
    BY <2>1, <2>2, <2>3, <2>4 DEF ReaderStep
<1>5. BroadcastInv'
  BY <1>2, <1>3, <1>4 DEF BroadcastInv
<1> QED
  BY <1>1, <1>5

\* A reader's announcement is the last packet it sends on each of its streams.
LEMMA ReaderTails ==
  ASSUME StreamsTypeOK, ReaderTypeOK, BroadcastInv, TailInv, NEW r \in ReaderId,
         ReaderStep(r), UNCHANGED ppc
  PROVE  TailInv'
<1> SUFFICES ASSUME NEW q \in ReaderId, NEW w \in WorkerId, TailOf(q, w) PROVE TailOf(q, w)'
  BY DEF TailInv
<1> DEFINE s == FileStream(q, w)
<1>0. s \in Stream /\ shut' = shut
  BY StreamSets
     DEF ReaderStep, OnFile, TraverseEnd, TraverseFails, Broadcast, ReportFound, ReaderEpipe, Send, streamVars
<1>1. CASE rpc[r] \in {"traverse", "broadcast"} /\ Sending(r) /\ Target(r) = s
           /\ (OnFile(r) \/ Broadcast(r))
  <2>1. PICK packet \in Packet :
          /\ Send(s, packet)
          /\ packet.kind = IF rpc[r] = "broadcast" THEN "result" ELSE "file"
    <3>1. CASE OnFile(r)
      <4>1. <<r, files_found[r] + 1>> \in File
        BY <3>1, ReaderFacts, ExpectedBounds, ClusterAssumption DEF OnFile, HasMoreFiles, File
      <4> QED
        BY <1>1, <3>1, <4>1, PacketTypes DEF OnFile, HasMoreFiles, FilePacket
    <3>2. CASE Broadcast(r)
      <4>1. ResultPacket(files_found[r]) \in Packet
        BY ReaderFacts, ExpectedBounds, ClusterAssumption, PacketTypes
      <4> QED
        BY <1>1, <3>2, <4>1 DEF Broadcast, ResultPacket
    <3> QED
      BY <1>1, <3>1, <3>2
  <2>2. /\ q = r /\ ~Told(q, w)
        /\ Told(q, w)' <=> packet.kind = "result"
    <3>1. CASE OnFile(r)
      <4>1. rpc[r] = "traverse" /\ ~Broadcast(r)
        BY <3>1 DEF OnFile, HasMoreFiles, Broadcast
      <4>2. q = r
        BY <1>1, <4>1, StreamNames DEF Target, ReaderTypeOK
      <4>3. ~Told(r, w)
        BY <4>1, ReaderFacts, ClusterAssumption DEF Told, WorkerId
      <4> QED
        BY <2>1, <4>1, <4>2, <4>3, ReaderTells
    <3>2. CASE Broadcast(r)
      <4>1. rpc[r] = "broadcast" /\ bcast[r] \in WorkerId /\ clients[r][bcast[r]] \in WorkerId
        BY <3>2, FileTarget DEF Broadcast
      <4>2. q = r /\ w = clients[r][bcast[r]]
        BY <1>1, <4>1, StreamNames DEF Target
      <4>3. ~Told(r, w)
        BY <4>1, <4>2, ReaderBroadcasts
      <4> QED
        BY <2>1, <3>2, <4>1, <4>2, <4>3, ReaderTells
    <3> QED
      BY <1>1, <3>1, <3>2
  <2>3. Ordered(buf[s], FALSE) /\ buf[s] \in Seq(Packet)
    BY <1>0, <2>2 DEF TailOf, StreamsTypeOK, Ordered
  <2>4. buf'[s] = Append(buf[s], packet) /\ s \notin shut
    BY <1>0, <2>1, SendEffect
  <2>5. /\ Ordered(buf'[s], packet.kind = "result")
        /\ packet.kind = "result" => Announces(buf'[s])
    BY <2>3, <2>4, AppendOrdered
  <2> QED
    BY <1>0, <2>2, <2>4, <2>5 DEF TailOf, FileStream, Ordered, Announces
<1>2. CASE ~(rpc[r] \in {"traverse", "broadcast"} /\ Sending(r) /\ Target(r) = s
             /\ (OnFile(r) \/ Broadcast(r)))
  <2>1. buf'[s] = buf[s]
    <3>1. CASE OnFile(r) \/ Broadcast(r)
      <4>1. rpc[r] \in {"traverse", "broadcast"} /\ Sending(r)
        BY <3>1 DEF OnFile, Broadcast, HasMoreFiles, Sending
      <4>2. s # Target(r) /\ Target(r) \in Stream
        BY <1>2, <3>1, <4>1, TargetType
      <4> QED
        BY <1>0, <3>1, <4>2, SendEffect DEF OnFile, Broadcast
    <3>2. CASE ReportFound(r)
      <4>1. Target(r) = ResultStream(r) /\ Target(r) \in Stream
        BY <3>2, StreamSets DEF ReportFound, Target
      <4> QED
        BY <1>0, <3>2, <4>1, StreamNames, SendEffect DEF ReportFound
    <3>3. CASE TraverseEnd(r) \/ TraverseFails(r) \/ ReaderEpipe(r)
      BY <3>3 DEF TraverseEnd, TraverseFails, ReaderEpipe, streamVars
    <3> QED
      BY <3>1, <3>2, <3>3 DEF ReaderStep
  <2>2. Told(q, w)' <=> Told(q, w)
    <3>1. ASSUME Broadcast(r), q = r, clients[r][bcast[r]] = w PROVE FALSE
      <4>1. rpc[r] = "broadcast" /\ Sending(r) /\ Target(r) = s
        BY <3>1 DEF Broadcast, Sending, Target
      <4> QED
        BY <1>2, <3>1, <4>1
    <3> QED
      BY <3>1, ReaderTells
  <2> QED
    BY <1>0, <2>1, <2>2, TailSame
<1> QED
  BY <1>1, <1>2

\* A reader's packet to the reporter is its last.
LEMMA ReaderResults ==
  ASSUME StreamsTypeOK, ReaderTypeOK, ResultInv, NEW r \in ReaderId,
         ReaderStep(r), UNCHANGED ppc
  PROVE  ResultInv'
<1> SUFFICES ASSUME NEW q \in ReaderId, ResultOf(q) PROVE ResultOf(q)'
  BY DEF ResultInv
<1> DEFINE s == ResultStream(q)
<1>0. s \in Stream /\ shut' = shut
  BY StreamSets
     DEF ReaderStep, OnFile, TraverseEnd, TraverseFails, Broadcast, ReportFound, ReaderEpipe, Send, streamVars
<1>1. CASE ReportFound(r) /\ q = r
  <2>1. Send(s, ResultPacket(files_found[r])) /\ rpc[r] = "report" /\ rpc'[r] = "ended"
    BY <1>1 DEF ReportFound, Target, ReaderTypeOK
  <2>2. buf[s] = <<>>
    BY <1>1, <2>1 DEF ResultOf
  <2>3. buf'[s] = Append(<<>>, ResultPacket(files_found[r]))
    BY <1>0, <2>1, <2>2, SendEffect
  <2>4. Len(buf'[s]) = 1 /\ buf'[s] # <<>>
    BY <2>3
  <2> QED
    BY <1>0, <1>1, <2>1, <2>4 DEF ResultOf, ResultStream
<1>2. CASE ~(ReportFound(r) /\ q = r)
  <2>1. buf'[s] = buf[s]
    <3>1. CASE OnFile(r) \/ Broadcast(r)
      <4>1. Target(r) \in Stream
        BY <3>1, TargetType DEF OnFile, Broadcast, Sending
      <4>2. Target(r) # s
        BY <3>1, StreamNames, FileTarget DEF OnFile, Broadcast, HasMoreFiles
      <4> QED
        BY <1>0, <3>1, <4>1, <4>2, SendEffect DEF OnFile, Broadcast
    <3>2. CASE ReportFound(r)
      <4>1. Target(r) = ResultStream(r) /\ Target(r) \in Stream /\ Target(r) # s
        BY <1>2, <3>2, StreamSets, StreamKinds DEF ReportFound, Target
      <4> QED
        BY <1>0, <3>2, <4>1, SendEffect DEF ReportFound
    <3>3. CASE TraverseEnd(r) \/ TraverseFails(r) \/ ReaderEpipe(r)
      BY <3>3 DEF TraverseEnd, TraverseFails, ReaderEpipe, streamVars
    <3> QED
      BY <3>1, <3>2, <3>3 DEF ReaderStep
  <2>2. rpc'[q] = "ended" <=> rpc[q] = "ended"
    BY <1>2 DEF ReaderStep, OnFile, TraverseEnd, TraverseFails, Broadcast, ReportFound, ReaderEpipe,
                HasMoreFiles, Sending, ReaderTypeOK
  <2> QED
    BY <1>0, <2>1, <2>2, ResultSame
<1> QED
  BY <1>1, <1>2

-----------------------------------------------------------------------------
(* Steps of a worker. *)

\* What a worker does to the streams.
LEMMA WorkerEffect ==
  ASSUME StreamsTypeOK, WorkerTypeOK, NEW w \in WorkerId, WorkerStep(w) \/ WorkerTimeout(w)
  PROVE  \/ UNCHANGED <<buf, shut>> /\ ~WorkerOnResult(w)
         \/ \E s \in FileStreams(w) :
              /\ buf[s] # <<>> /\ Head(buf[s]).kind = "file" /\ Receive(s)
              /\ ~WorkerOnResult(w)
         \/ \E s \in FileStreams(w) :
              /\ buf[s] # <<>> /\ Head(buf[s]).kind = "result" /\ Close({s})
              /\ WorkerOnResult(w)
         \/ (\E packet \in Packet : Send(ReportStream(w), packet)) /\ ~WorkerOnResult(w)
<1>1. CASE WorkerOnFile(w) \/ WorkerOnBadFile(w)
  <2>1. WorkerHead(w, "file") /\ Receive(wcurrent[w])
    BY <1>1 DEF WorkerOnFile, WorkerOnBadFile
  <2>2. wcurrent[w] \in FileStreams(w)
    BY <2>1, WorkerFacts DEF WorkerHead
  <2>3. ~WorkerOnResult(w)
    BY <2>1 DEF WorkerOnResult, WorkerHead
  <2> QED
    BY <2>1, <2>2, <2>3, WorkerHeadFacts
<1>2. CASE WorkerOnResult(w)
  <2>1. WorkerHead(w, "result") /\ Close({wcurrent[w]})
    BY <1>2 DEF WorkerOnResult
  <2>2. wcurrent[w] \in FileStreams(w)
    BY <2>1, WorkerFacts DEF WorkerHead
  <2> QED
    BY <1>2, <2>1, <2>2, WorkerHeadFacts
<1>3. CASE WorkerSend(w)
  <2>1. wanswer[w] \in Packet /\ ~WorkerOnResult(w)
    BY <1>3, WorkerFacts DEF WorkerSend, WorkerOnResult, WorkerHead
  <2> QED
    BY <1>3, <2>1 DEF WorkerSend
<1>4. CASE \/ WorkerWatch(w) \/ WorkerEpollWait(w) \/ WorkerOnread(w) \/ WorkerDrained(w)
           \/ WorkerEpipe(w) \/ WorkerBatchDone(w) \/ WorkerTimeout(w)
  <2>1. UNCHANGED <<buf, shut>>
    BY <1>4 DEF WorkerWatch, WorkerEpollWait, WorkerOnread, WorkerDrained, WorkerEpipe,
                WorkerBatchDone, WorkerTimeout, Watch, TakeEvents, streamVars
  <2> QED
    BY <1>2, <2>1
<1> QED
  BY <1>1, <1>2, <1>3, <1>4 DEF WorkerStep

\* A worker drains its sockets from the head and closes one on its announcement.
LEMMA WorkerTails ==
  ASSUME StreamsTypeOK, WorkerTypeOK, TailInv, NEW w \in WorkerId,
         WorkerStep(w) \/ WorkerTimeout(w), UNCHANGED <<ppc, clients, bcast>>
  PROVE  TailInv'
<1> SUFFICES ASSUME NEW q \in ReaderId, NEW v \in WorkerId, TailOf(q, v) PROVE TailOf(q, v)'
  BY DEF TailInv
<1> DEFINE s == FileStream(q, v)
<1>0. s \in Stream /\ buf[s] \in Seq(Packet) /\ (Told(q, v)' <=> Told(q, v))
  BY StreamSets DEF StreamsTypeOK, Told
<1>1. ASSUME s \in FileStreams(w), buf[s] # <<>>, Head(buf[s]).kind = "file", Receive(s)
      PROVE  TailOf(q, v)'
  <2>1. buf'[s] = Tail(buf[s]) /\ shut' = shut
    BY <1>0, <1>1, ReceiveEffect
  <2>2. /\ Ordered(buf'[s], Told(q, v))
        /\ Announces(buf[s]) => Announces(buf'[s])
    BY <1>0, <1>1, <2>1, TailOrdered DEF TailOf
  <2> QED
    BY <1>0, <2>1, <2>2 DEF TailOf, FileStream, Ordered, Announces
<1>2. ASSUME s \in FileStreams(w), buf[s] # <<>>, Head(buf[s]).kind = "result", Close({s})
      PROVE  TailOf(q, v)'
  <2>1. Told(q, v)
    BY <1>0, <1>2, HeadAnnounces DEF TailOf
  <2>2. {s} \in SUBSET Stream
    BY <1>0
  <2>3. buf'[s] = <<>> /\ s \in shut'
    BY <1>2, <2>2, CloseEffect
  <2> QED
    BY <1>0, <2>1, <2>3, EmptyOrdered DEF TailOf, FileStream, Ordered, Announces
<1>3. ASSUME buf'[s] = buf[s], s \in shut' <=> s \in shut
      PROVE  TailOf(q, v)'
  BY <1>0, <1>3, TailSame
<1>4. ASSUME NEW t \in Stream, t # s, Receive(t) \/ Close({t}) \/ \E packet \in Packet : Send(t, packet)
      PROVE  TailOf(q, v)'
  <2>1. {t} \in SUBSET Stream /\ s \notin {t}
    BY <1>4
  <2> QED
    BY <1>0, <1>3, <1>4, <2>1, ReceiveEffect, CloseEffect, SendEffect
<1>5. ReportStream(w) # s /\ ReportStream(w) \in Stream /\ FileStreams(w) \subseteq Stream
  BY StreamNames, StreamSets
<1> QED
  BY <1>1, <1>2, <1>3, <1>4, <1>5, WorkerEffect

\* A worker does not touch what the readers tell the reporter.
LEMMA WorkerResults ==
  ASSUME StreamsTypeOK, WorkerTypeOK, ResultInv, NEW w \in WorkerId,
         WorkerStep(w) \/ WorkerTimeout(w), UNCHANGED <<ppc, rpc>>
  PROVE  ResultInv'
<1> SUFFICES ASSUME NEW q \in ReaderId, ResultOf(q) PROVE ResultOf(q)'
  BY DEF ResultInv
<1> DEFINE s == ResultStream(q)
<1>0. s \in Stream /\ s \notin FileStreams(w) /\ s # ReportStream(w)
      /\ ReportStream(w) \in Stream /\ FileStreams(w) \subseteq Stream
  BY StreamSets, StreamKinds, StreamNames DEF FileStreams
<1>1. buf'[s] = buf[s] /\ (s \in shut' <=> s \in shut)
  <2>1. ASSUME NEW t \in Stream, t # s, Receive(t) \/ Close({t}) \/ \E packet \in Packet : Send(t, packet)
        PROVE  buf'[s] = buf[s] /\ (s \in shut' <=> s \in shut)
    <3>1. {t} \in SUBSET Stream /\ s \notin {t}
      BY <2>1
    <3> QED
      BY <1>0, <2>1, <3>1, ReceiveEffect, CloseEffect, SendEffect
  <2> QED
    BY <1>0, <2>1, WorkerEffect
<1> QED
  BY <1>1, ResultSame

\* What others close does not change what a live worker has hung up on.
LEMMA OthersHangup ==
  ASSUME NEW w \in WorkerId, HangupOf(w),
         wpc'[w] = wpc[w], wunfinished'[w] = wunfinished[w], shut \subseteq shut',
         wpc[w] \notin WorkerDead => \A s \in FileStreams(w) : s \in shut' <=> s \in shut
  PROVE  HangupOf(w)'
<1>1. wpc[w] \notin WorkerDead => Left(w)' = Left(w)
  BY DEF Left, FileStreams, FileStream
<1>2. FileStreams(w)' = FileStreams(w)
  BY DEF FileStreams, FileStream, ReaderId
<1> QED
  BY <1>1, <1>2 DEF HangupOf

\* A worker hangs up on one reader at a time and ends after the last.
LEMMA WorkerHangups ==
  ASSUME StreamsTypeOK, WorkerTypeOK, BufferInv, HangupInv, NEW w \in WorkerId,
         WorkerStep(w) \/ WorkerTimeout(w)
  PROVE  HangupInv'
<1>0. /\ Left(w) \subseteq ReaderId /\ Cardinality(Left(w)) \in Nat /\ IsFiniteSet(Left(w))
      /\ NReaders \in Nat /\ wunfinished[w] \in Int
  BY AllReaders, ClusterAssumption DEF Left, WorkerTypeOK
<1>1. ASSUME NEW v \in WorkerId, v # w PROVE HangupOf(v)'
  <2>1. wpc'[v] = wpc[v] /\ wunfinished'[v] = wunfinished[v]
    BY <1>1 DEF WorkerStep, WorkerWatch, WorkerEpollWait, WorkerOnread, WorkerDrained,
                WorkerOnFile, WorkerOnBadFile, WorkerOnResult, WorkerSend, WorkerEpipe,
                WorkerBatchDone, WorkerTimeout, WorkerTypeOK
  <2>2. shut \subseteq shut' /\ \A s \in FileStreams(v) : s \in shut' <=> s \in shut
    <3>1. \A s \in FileStreams(v) : s \notin FileStreams(w)
      BY <1>1, ReceiversDisjoint
    <3>2. \/ shut' = shut
          \/ \E s \in FileStreams(w) : shut' = shut \union {s}
      BY WorkerEffect DEF Receive, Send, Close
    <3> QED
      BY <3>1, <3>2
  <2> QED
    BY <2>1, <2>2, OthersHangup DEF HangupInv
<1>2. CASE WorkerOnResult(w)
  <2>1. PICK s \in FileStreams(w) : buf[s] # <<>> /\ Close({s})
    BY <1>2, WorkerEffect
  <2>2. PICK r \in ReaderId : s = FileStream(r, w)
    BY DEF FileStreams
  <2>3. r \notin Left(w)
    BY <2>1, <2>2, StreamSets DEF Left, BufferInv
  <2>4. Left(w)' = Left(w) \union {r}
    BY <2>1, <2>2, StreamNames DEF Left, Close, FileStream
  <2>5. Cardinality(Left(w)') = Cardinality(Left(w)) + 1
    BY <1>0, <2>3, <2>4, FS_AddElement
  <2>6. wpc'[w] = "events" /\ wpc[w] = "recv" /\ wunfinished'[w] = wunfinished[w] - 1
    BY <1>2 DEF WorkerOnResult, WorkerHead, WorkerTypeOK
  <2>7. wunfinished[w] = NReaders - Cardinality(Left(w))
    BY <2>6 DEF HangupInv, HangupOf, WorkerDead
  <2>8. wunfinished'[w] = NReaders - Cardinality(Left(w)')
    BY <1>0, <2>5, <2>6, <2>7
  <2> QED
    BY <1>1, <2>6, <2>8 DEF HangupInv, HangupOf
<1>3. CASE ~WorkerOnResult(w)
  <2>1. shut' = shut
    BY <1>3, WorkerEffect DEF Receive, Send
  <2>2. Left(w)' = Left(w) /\ FileStreams(w)' = FileStreams(w)
    BY <2>1 DEF Left, FileStreams, FileStream, ReaderId
  <2>3. HangupOf(w)
    BY DEF HangupInv
  <2>4. CASE WorkerBatchDone(w)
    <3>1. /\ wunfinished'[w] = wunfinished[w] /\ wpc[w] = "events"
          /\ wpc'[w] = IF wunfinished[w] = 0 THEN "ended" ELSE "wait"
      BY <2>4 DEF WorkerBatchDone, WorkerTypeOK
    <3>2. wunfinished[w] = NReaders - Cardinality(Left(w))
      BY <2>3, <3>1 DEF HangupOf, WorkerDead
    <3>3. wunfinished[w] = 0 => FileStreams(w) \subseteq shut
      <4>1. wunfinished[w] = 0 => Left(w) = ReaderId
        BY <1>0, <3>2, AllReaders
      <4> QED
        BY <4>1 DEF Left, FileStreams
    <3> QED
      BY <1>1, <2>1, <2>2, <3>1, <3>2, <3>3 DEF HangupInv, HangupOf
  <2>5. CASE ~WorkerBatchDone(w)
    <3>1. /\ wunfinished'[w] = wunfinished[w]
          /\ wpc[w] \notin WorkerDead
          /\ wpc'[w] # "ended"
          /\ wpc'[w] \in {"start", "wait"} => wpc[w] = "start"
      BY <1>3, <2>5
         DEF WorkerStep, WorkerWatch, WorkerEpollWait, WorkerOnread, WorkerDrained,
             WorkerOnFile, WorkerOnBadFile, WorkerSend, WorkerEpipe, WorkerTimeout,
             WorkerHead, WorkerTypeOK, WorkerDead
    <3>2. HangupOf(w)'
      BY <2>1, <2>2, <2>3, <3>1 DEF HangupOf
    <3> QED
      BY <1>1, <3>2 DEF HangupInv
  <2> QED
    BY <2>4, <2>5
<1> QED
  BY <1>2, <1>3

-----------------------------------------------------------------------------
(* Steps of the reporter. *)

\* What the reporter does to the streams.
LEMMA ReporterEffect ==
  ASSUME StreamsTypeOK, ReporterTypeOK, ReporterStep \/ ReporterTimeout
  PROVE  \/ UNCHANGED <<buf, shut>> /\ ~ReaderOnPacket /\ ~WorkerOnPacket
         \/ /\ pcurrent \in ReporterStreams /\ pcurrent \in Stream
            /\ buf[pcurrent] # <<>>
            /\ \/ ReaderOnPacket /\ Head(buf[pcurrent]).kind = "result"
               \/ WorkerOnPacket /\ Head(buf[pcurrent]).kind = "report"
            /\ Receive(pcurrent) \/ Close({pcurrent})
<1>1. CASE ReaderOnPacket \/ WorkerOnPacket
  BY <1>1, ReporterHeadFacts DEF ReaderOnPacket, WorkerOnPacket, Hangup
<1>2. CASE ~ReaderOnPacket /\ ~WorkerOnPacket
  BY <1>2 DEF ReporterStep, ReporterWatch, ReporterEpollWait, ReporterOnread, ReporterDrained,
              ReporterBatchDone, ReporterTimeout, Watch, TakeEvents, streamVars
<1> QED
  BY <1>1, <1>2

\* The reporter does not touch what the readers tell the workers.
LEMMA ReporterTails ==
  ASSUME StreamsTypeOK, ReporterTypeOK, TailInv, ReporterStep \/ ReporterTimeout,
         UNCHANGED <<clients, bcast>>
  PROVE  TailInv'
<1> SUFFICES ASSUME NEW q \in ReaderId, NEW v \in WorkerId, TailOf(q, v) PROVE TailOf(q, v)'
  BY DEF TailInv
<1> DEFINE s == FileStream(q, v)
<1>0. s \in Stream /\ s \notin ReporterStreams /\ (Told(q, v)' <=> Told(q, v))
  BY StreamSets, ReceiversDisjoint DEF Told
<1>1. buf'[s] = buf[s] /\ (s \in shut' <=> s \in shut)
  <2>1. ASSUME NEW t \in Stream, t # s, Receive(t) \/ Close({t})
        PROVE  buf'[s] = buf[s] /\ (s \in shut' <=> s \in shut)
    <3>1. {t} \in SUBSET Stream /\ s \notin {t}
      BY <2>1
    <3> QED
      BY <1>0, <2>1, <3>1, ReceiveEffect, CloseEffect
  <2> QED
    BY <1>0, <2>1, ReporterEffect
<1>2. ppc # "expired"
  BY ReporterDeadStays DEF ReporterDead
<1> QED
  BY <1>0, <1>1, <1>2, TailSame

\* The reporter closes a reader's socket on the one packet it brings.
LEMMA ReporterResults ==
  ASSUME StreamsTypeOK, ReporterTypeOK, BufferInv, ResultInv,
         ReporterStep \/ ReporterTimeout, UNCHANGED rpc, ppc' # "panicked"
  PROVE  ResultInv'
<1> SUFFICES ASSUME NEW q \in ReaderId, ResultOf(q) PROVE ResultOf(q)'
  BY DEF ResultInv
<1> DEFINE s == ResultStream(q)
<1>0. s \in Stream /\ ppc # "expired" /\ {s} \in SUBSET Stream
  BY StreamSets, ReporterDeadStays DEF ReporterDead
<1>1. CASE ReaderOnPacket /\ pcurrent = s
  <2>1. buf[s] # <<>>
    BY <1>1, ReporterHeadFacts DEF ReaderOnPacket
  <2>2. Close({s})
    BY <1>1 DEF ReaderOnPacket, Hangup
  <2>3. buf'[s] = <<>> /\ s \in shut'
    BY <1>0, <2>2, CloseEffect
  <2>4. rpc'[q] = "ended" /\ Len(<<>>) <= 1
    BY <2>1 DEF ResultOf
  <2> QED
    BY <2>3, <2>4 DEF ResultOf, ResultStream
<1>2. CASE ~(ReaderOnPacket /\ pcurrent = s)
  <2>1. WorkerOnPacket => pcurrent # s
    BY ReporterHeadFacts, HeadLegal, StreamKinds DEF WorkerOnPacket, Legal
  <2>2. buf'[s] = buf[s] /\ (s \in shut' <=> s \in shut)
    <3>1. ASSUME NEW t \in Stream, t # s, Receive(t) \/ Close({t})
          PROVE  buf'[s] = buf[s] /\ (s \in shut' <=> s \in shut)
      <4>1. {t} \in SUBSET Stream /\ s \notin {t}
        BY <3>1
      <4> QED
        BY <1>0, <3>1, <4>1, ReceiveEffect, CloseEffect
    <3> QED
      BY <1>0, <1>2, <2>1, <3>1, ReporterEffect
  <2> QED
    BY <1>0, <2>2, ResultSame
<1> QED
  BY <1>1, <1>2

\* The reporter leaves no moment to stop unused.
LEMMA ReporterStops ==
  ASSUME ReporterTypeOK, StopInv, ReporterStep \/ ReporterTimeout, ppc' # "panicked"
  PROVE  StopInv'
<1>1. CASE ReaderOnPacket
  <2>1. /\ ppc' = "events" /\ workers_files' = workers_files
        /\ stopped' = (readers_unfinished' = 0 /\ readers_files' = workers_files)
    BY <1>1 DEF ReaderOnPacket, Hangup
  <2> QED
    BY <2>1 DEF StopInv
<1>2. CASE WorkerOnPacket
  <2>1. readers_files' = readers_files /\ workers_files' = workers_files + 1 /\ ppc = "recv"
    BY <1>2 DEF WorkerOnPacket, ReporterHead
  <2>2. CASE readers_files = workers_files + 1
    <3>1. /\ ppc' = "events"
          /\ stopped' = (readers_unfinished' = 0 /\ readers_files = workers_files + 1)
      BY <1>2, <2>2 DEF WorkerOnPacket, Hangup
    <3> QED
      BY <2>1, <3>1 DEF StopInv
  <2>3. CASE readers_files # workers_files + 1
    <3>1. ppc' = "recv"
      BY <1>2, <2>1, <2>3 DEF WorkerOnPacket
    <3> QED
      BY <2>1, <2>3, <3>1 DEF StopInv
  <2> QED
    BY <2>2, <2>3
<1>3. CASE ~ReaderOnPacket /\ ~WorkerOnPacket
  BY <1>3 DEF ReporterStep, ReporterWatch, ReporterEpollWait, ReporterOnread, ReporterDrained,
              ReporterBatchDone, ReporterTimeout, StopInv, ReporterDead
<1> QED
  BY <1>1, <1>2, <1>3

-----------------------------------------------------------------------------
(* Steps of main. *)

\* A reader that has broadcast has told every worker.
LEMMA EveryoneTold ==
  ASSUME ReaderTypeOK, BroadcastInv, NEW r \in ReaderId, bcast[r] = NWorkers + 1,
         NEW w \in WorkerId
  PROVE  Told(r, w)
<1>1. IsFiniteSet(WorkerId)
  BY FS_Interval, ClusterAssumption DEF WorkerId
<1>2. clients[r] \in Injection(WorkerId, WorkerId)
  BY DEF ReaderTypeOK, BroadcastInv, Injection, IsInjective
<1>3. clients[r] \in Surjection(WorkerId, WorkerId)
  BY <1>1, <1>2, FS_Injection
<1>4. PICK j \in WorkerId : clients[r][j] = w
  BY <1>3 DEF Surjection
<1>5. j < bcast[r]
  BY ClusterAssumption DEF WorkerId
<1> QED
  BY <1>4, <1>5 DEF Told

\* When the reporter has ended by itself, all readers have ended and told everybody.
LEMMA EndedMeansTold ==
  ASSUME ReaderTypeOK, CountInv, BroadcastInv, ResultInv, ppc = "ended", NEW r \in ReaderId
  PROVE  rpc[r] = "ended" /\ \A w \in WorkerId : Told(r, w)
<1>1. ResultStream(r) \in shut
  BY DEF CountInv, HungUp
<1>2. rpc[r] = "ended"
  BY <1>1 DEF ResultInv, ResultOf
<1> QED
  BY <1>2, EveryoneTold DEF BroadcastInv

\* Main closes the sockets of a dead thread, after the reporter has died.
LEMMA MainEffect ==
  ASSUME TypeOK, JoinInv, MainJoin
  PROVE  \E S \in SUBSET Stream :
           /\ Close(S)
           /\ S # {} => ppc \in ReporterDead
           /\ \A w \in WorkerId : S \intersect FileStreams(w) # {} => wpc[w] \in WorkerDead
<1> DEFINE k == joined + 1
           S == Received(Finalised(k))
<1>0. joined \in Nat /\ k \in 1..ThreadCount
  BY ClusterAssumption DEF TypeOK, MainJoin, ThreadCount
<1>1. S \in SUBSET Stream /\ Close(S) /\ Dead(Finalised(k))
  BY <1>0, ReceivedStreams DEF MainJoin
<1>2. CASE Finalised(k) = <<"reporter", 0>>
  <2>1. ppc \in ReporterDead /\ S = ReporterStreams
    BY <1>1, <1>2 DEF Dead, Received
  <2> QED
    BY <1>1, <2>1, ReceiversDisjoint
<1>3. ASSUME NEW w \in WorkerId, Finalised(k) = <<"worker", w>>
      PROVE  ppc \in ReporterDead /\ wpc[w] \in WorkerDead /\ S = FileStreams(w)
  <2>1. joined # 0
    BY <1>3 DEF Finalised
  <2>2. 1 \in 1..joined /\ Finalised(1) = <<"reporter", 0>>
    BY <1>0, <2>1 DEF Finalised
  <2> QED
    BY <1>1, <1>3, <2>2 DEF JoinInv, Dead, Received
<1>4. CASE \E w \in WorkerId : Finalised(k) = <<"worker", w>>
  BY <1>1, <1>3, <1>4, ReceiversDisjoint
<1>5. CASE \E r \in ReaderId : Finalised(k) = <<"reader", r>>
  <2>1. S = {}
    BY <1>5 DEF Received
  <2> QED
    BY <1>1, <2>1
<1> QED
  BY <1>0, <1>2, <1>4, <1>5, FinalisedThread

\* What main closes was announced, or the reporter had given up.
LEMMA MainDelivers ==
  ASSUME TypeOK, JoinInv, CountInv, BroadcastInv, TailInv, ResultInv, HangupInv, MainJoin
  PROVE  TailInv' /\ ResultInv' /\ HangupInv'
<1>0. UNCHANGED <<rpc, bcast, clients, wpc, wunfinished, ppc>>
  BY DEF MainJoin, readerVars, workerVars, reporterVars
<1>1. PICK S \in SUBSET Stream :
        /\ Close(S)
        /\ S # {} => ppc \in ReporterDead
        /\ \A w \in WorkerId : S \intersect FileStreams(w) # {} => wpc[w] \in WorkerDead
  BY MainEffect
<1>2. /\ shut' = shut \union S
      /\ \A s \in S : buf'[s] = <<>>
      /\ \A s \in Stream : s \notin S => buf'[s] = buf[s]
  BY <1>1, CloseEffect DEF TypeOK
<1>3. S # {} => ppc \in {"ended", "expired"}
  BY <1>1 DEF CountInv, ReporterDead
<1>4. ASSUME NEW r \in ReaderId, NEW w \in WorkerId PROVE TailOf(r, w)'
  <2> DEFINE s == FileStream(r, w)
  <2>0. s \in Stream /\ (Told(r, w)' <=> Told(r, w)) /\ TailOf(r, w)
    BY <1>0, StreamSets DEF Told, TailInv
  <2>1. CASE s \in S
    <3>1. Told(r, w) \/ ppc = "expired"
      BY <1>3, <2>1, EndedMeansTold DEF TypeOK
    <3>2. buf'[s] = <<>> /\ s \in shut'
      BY <1>2, <2>1
    <3> QED
      BY <1>0, <2>0, <3>1, <3>2, EmptyOrdered DEF TailOf, FileStream, Ordered, Announces
  <2>2. CASE s \notin S
    BY <1>0, <1>2, <2>0, <2>2, TailSame
  <2> QED
    BY <2>1, <2>2
<1>5. ASSUME NEW r \in ReaderId PROVE ResultOf(r)'
  <2> DEFINE s == ResultStream(r)
  <2>0. s \in Stream /\ ResultOf(r)
    BY StreamSets DEF ResultInv
  <2>1. CASE s \in S
    <3>1. rpc[r] = "ended" \/ ppc = "expired"
      BY <1>3, <2>1, EndedMeansTold DEF TypeOK
    <3>2. buf'[s] = <<>> /\ s \in shut' /\ Len(<<>>) <= 1
      BY <1>2, <2>1
    <3> QED
      BY <1>0, <3>1, <3>2 DEF ResultOf, ResultStream
  <2>2. CASE s \notin S
    BY <1>0, <1>2, <2>0, <2>2, ResultSame
  <2> QED
    BY <2>1, <2>2
<1>6. ASSUME NEW w \in WorkerId PROVE HangupOf(w)'
  BY <1>0, <1>1, <1>2, OthersHangup DEF HangupInv
<1> QED
  BY <1>4, <1>5, <1>6 DEF TailInv, ResultInv, HangupInv

-----------------------------------------------------------------------------
(* All of it together. *)

\* A socket is never filled beyond its capacity.
LEMMA RoomNext == TypeOK /\ RoomInv /\ [Next]_vars => RoomInv'
<1> SUFFICES ASSUME TypeOK, RoomInv, [Next]_vars PROVE RoomInv'
  OBVIOUS
<1> USE DEF TypeOK
<1>1. TouchesNot({})
  <2>1. ASSUME NEW r \in ReaderId, ReaderMoves(r) PROVE TouchesNot({})
    BY <2>1, ReaderTouches DEF ReaderMoves
  <2>2. ASSUME NEW w \in WorkerId, WorkerMoves(w) \/ WorkerExpires(w) PROVE TouchesNot({})
    BY <2>2, WorkerTouches DEF WorkerMoves, WorkerExpires
  <2>3. CASE ReporterMoves \/ ReporterExpires
    BY <2>3, ReporterTouches DEF ReporterMoves, ReporterExpires
  <2>4. CASE MainJoin
    <3>1. joined + 1 \in 1..ThreadCount
      BY <2>4, ClusterAssumption DEF MainJoin, ThreadCount
    <3> QED
      BY <2>4, <3>1, ReceivedStreams DEF MainJoin, TouchesNot
  <2>5. CASE UNCHANGED vars
    BY <2>5 DEF vars, TouchesNot
  <2> QED
    BY <2>1, <2>2, <2>3, <2>4, <2>5 DEF Next, Exited
<1> SUFFICES ASSUME NEW s \in Stream PROVE Len(buf'[s]) <= Capacity
  BY DEF RoomInv
<1>2. buf[s] \in Seq(Packet) /\ Len(buf[s]) <= Capacity /\ Capacity \in Nat
  BY ClusterAssumption DEF StreamsTypeOK, RoomInv
<1>3. ASSUME NEW t \in Stream, NEW packet \in Packet, Send(t, packet)
      PROVE  Len(buf'[s]) <= Capacity
  BY <1>2, <1>3, SendEffect
<1>4. ASSUME NEW t \in Stream, buf[t] # <<>>, Receive(t)
      PROVE  Len(buf'[s]) <= Capacity
  <2>1. CASE t = s
    <3>1. buf'[s] = Tail(buf[s]) /\ buf[s] # <<>>
      BY <1>4, <2>1, ReceiveEffect
    <3>2. Len(Tail(buf[s])) = Len(buf[s]) - 1 /\ Len(buf[s]) \in Nat
      BY <1>2, <3>1
    <3> QED
      BY <1>2, <3>1, <3>2
  <2>2. CASE t # s
    BY <1>2, <1>4, <2>2, ReceiveEffect
  <2> QED
    BY <2>1, <2>2
<1>5. ASSUME NEW S \in SUBSET Stream, Close(S)
      PROVE  Len(buf'[s]) <= Capacity
  BY <1>2, <1>5, CloseEffect
<1>6. ASSUME UNCHANGED buf PROVE Len(buf'[s]) <= Capacity
  BY <1>2, <1>6
<1> QED
  BY <1>1, <1>3, <1>4, <1>5, <1>6 DEF TouchesNot, Watch, TakeEvents, streamVars

DeliveryInv == BroadcastInv /\ TailInv /\ ResultInv /\ HangupInv /\ StopInv

\* Nothing is sent, nobody has hung up.
LEMMA DeliveryInit == Init => DeliveryInv /\ RoomInv
<1> SUFFICES ASSUME Init PROVE DeliveryInv /\ RoomInv
  OBVIOUS
<1> USE ClusterAssumption DEF Init
<1>1. /\ \A s \in Stream : buf[s] = <<>>
      /\ shut = {}
  BY DEF StreamsInit
<1>2. /\ \A r \in ReaderId : rpc[r] = "traverse" /\ bcast[r] = 1 /\ clients[r] \in AcceptOrders
  BY DEF ReaderInit
<1>3. BroadcastInv
  BY <1>2 DEF BroadcastInv, AcceptOrders
<1>4. TailInv
  <2>1. \A r \in ReaderId : \A w \in WorkerId : ~Told(r, w)
    BY <1>2 DEF Told, WorkerId
  <2> QED
    BY <1>1, <2>1, EmptyOrdered, StreamSets DEF TailInv, TailOf
<1>5. ResultInv
  BY <1>1, <1>2, StreamSets DEF ResultInv, ResultOf
<1>6. HangupInv
  <2>1. ASSUME NEW w \in WorkerId PROVE HangupOf(w)
    <3>1. wpc[w] = "start" /\ wunfinished[w] = NReaders /\ Left(w) = {}
      BY <1>1 DEF WorkerInit, Left
    <3> QED
      BY <3>1, FS_EmptySet DEF HangupOf
  <2> QED
    BY <2>1 DEF HangupInv
<1>7. StopInv
  BY DEF StopInv, ReporterInit
<1>8. RoomInv
  BY <1>1 DEF RoomInv
<1> QED
  BY <1>3, <1>4, <1>5, <1>6, <1>7, <1>8 DEF DeliveryInv

\* The invariant is inductive, given the earlier ones.
LEMMA DeliveryNext ==
  ReportInv /\ ReportInv' /\ JoinInv /\ DeliveryInv /\ [Next]_vars => DeliveryInv'
<1> SUFFICES ASSUME ReportInv, ReportInv', JoinInv, DeliveryInv, [Next]_vars
             PROVE  DeliveryInv'
  OBVIOUS
<1> USE DEF DeliveryInv
<1>0. /\ TypeOK /\ StreamsTypeOK /\ ReaderTypeOK /\ WorkerTypeOK /\ ReporterTypeOK
      /\ BufferInv /\ CountInv /\ ppc' # "panicked"
  BY DEF ReportInv, TypeOK, PacketInv, CountInv
<1>1. ASSUME NEW r \in ReaderId, ReaderMoves(r) PROVE DeliveryInv'
  <2>1. ReaderStep(r) /\ UNCHANGED <<wpc, wunfinished, ppc>>
        /\ UNCHANGED <<stopped, readers_unfinished, readers_files, workers_files>>
    BY <1>1 DEF ReaderMoves, workerVars, reporterVars
  <2>2. shut' = shut
    BY <2>1 DEF ReaderStep, OnFile, TraverseEnd, TraverseFails, Broadcast, ReportFound, ReaderEpipe, Send,
                streamVars
  <2>3. HangupInv'
    BY <2>1, <2>2, OthersHangup DEF HangupInv
  <2>4. StopInv'
    BY <2>1 DEF StopInv
  <2> QED
    BY <1>0, <2>1, <2>3, <2>4, ReaderBroadcasts, ReaderTails, ReaderResults
<1>2. ASSUME NEW w \in WorkerId, WorkerMoves(w) \/ WorkerExpires(w) PROVE DeliveryInv'
  <2>1. WorkerStep(w) \/ WorkerTimeout(w)
    BY <1>2 DEF WorkerMoves, WorkerExpires
  <2>2. UNCHANGED <<rpc, clients, bcast, ppc>>
        /\ UNCHANGED <<stopped, readers_unfinished, readers_files, workers_files>>
    BY <1>2 DEF WorkerMoves, WorkerExpires, readerVars, reporterVars
  <2>3. BroadcastInv' /\ StopInv'
    BY <2>2 DEF BroadcastInv, StopInv
  <2> QED
    BY <1>0, <2>1, <2>2, <2>3, WorkerTails, WorkerResults, WorkerHangups
<1>3. CASE ReporterMoves \/ ReporterExpires
  <2>1. ReporterStep \/ ReporterTimeout
    BY <1>3 DEF ReporterMoves, ReporterExpires
  <2>2. UNCHANGED <<rpc, clients, bcast, wpc, wunfinished>>
    BY <1>3 DEF ReporterMoves, ReporterExpires, readerVars, workerVars
  <2>3. BroadcastInv'
    BY <2>2 DEF BroadcastInv
  <2>4. HangupInv'
    <3>1. shut' = shut \/ \E s \in ReporterStreams : shut' = shut \union {s}
      BY <1>0, <2>1, ReporterEffect DEF Receive, Close
    <3>2. \A w \in WorkerId : \A s \in FileStreams(w) : s \in shut' <=> s \in shut
      BY <3>1, ReceiversDisjoint
    <3>3. shut \subseteq shut'
      BY <3>1
    <3> QED
      BY <2>2, <3>2, <3>3, OthersHangup DEF HangupInv
  <2> QED
    BY <1>0, <2>1, <2>2, <2>3, <2>4, ReporterTails, ReporterResults, ReporterStops
<1>4. CASE MainJoin
  <2>1. BroadcastInv' /\ StopInv'
    BY <1>4 DEF MainJoin, readerVars, reporterVars, BroadcastInv, StopInv
  <2> QED
    BY <1>0, <1>4, <2>1, MainDelivers
<1>5. CASE UNCHANGED vars
  <2>1. UNCHANGED <<buf, shut, rpc, clients, bcast, wpc, wunfinished, ppc, stopped,
                    readers_unfinished, readers_files, workers_files>>
    BY <1>5 DEF vars, streamVars, readerVars, workerVars, reporterVars
  <2>2. TailInv'
    BY <2>1, TailSame DEF TailInv, Told
  <2>3. ResultInv'
    BY <2>1, ResultSame DEF ResultInv
  <2>4. HangupInv'
    BY <2>1, OthersHangup DEF HangupInv
  <2> QED
    BY <2>1, <2>2, <2>3, <2>4 DEF BroadcastInv, StopInv
<1> QED
  BY <1>1, <1>2, <1>3, <1>4, <1>5 DEF Next, Exited

-----------------------------------------------------------------------------
(* A process with one reader, as it is shipped, loses no file, no thread   *)
(* of it waits for ever unless the task fails on a file, and its steps are *)
(* those of TaskRun.  With two readers the reporter hangs up too early     *)
(* (see the run two_readers).                                              *)

\* The invariants that hold for every number of readers.
ClusterInv == ReportInv /\ WakeInv /\ JoinInv /\ DeliveryInv /\ RoomInv

\* They hold together.
LEMMA ClusterInvHolds == Spec => []ClusterInv
<1>1. Init => WakeInv /\ JoinInv /\ DeliveryInv /\ RoomInv
  BY WakeInit, JoinInit, DeliveryInit
<1>2. /\ ReportInv /\ ReportInv' /\ WakeInv /\ JoinInv /\ DeliveryInv /\ RoomInv /\ [Next]_vars
        => WakeInv' /\ JoinInv' /\ DeliveryInv' /\ RoomInv'
  BY WakeNext, JoinNext, DeliveryNext, RoomNext DEF ReportInv
<1> QED
  BY <1>1, <1>2, ReportInvHolds, PTL DEF Spec, ClusterInv

\* A file somewhere is in a stream, in a worker's hands or counted.
Somewhere(f) ==
  \/ \E s \in Stream : \E i \in Position : Carries(s, i, f)
  \/ \E w \in WorkerId : Holds(w, f)
  \/ f \in seen

Failed == Panicked \/ Expired

\* Until something fails, every file that was sent is somewhere.
HeldInv == ~Failed => \A f \in Files : Sent(f) => Somewhere(f)

\* The reporter hangs up on a worker only when everything is answered.
ShutInv == \A w \in WorkerId : ReportStream(w) \in shut => seen = Files \/ ppc = "expired"

-----------------------------------------------------------------------------
\* A file of the run is one that may be sent.
LEMMA FilesFacts == \A f \in Files : f \in File /\ f[1] \in ReaderId /\ f[2] \in Nat
BY ExpectedBounds, ClusterAssumption DEF Files, File

\* A file that is somewhere was sent.
LEMMA SomewhereSent ==
  ASSUME TypeOK, PlaceInv, NEW f \in File, Somewhere(f)
  PROVE  f \in Files
<1>1. Sent(f)
  BY DEF PlaceInv, Nowhere, Somewhere
<1>2. PICK r \in ReaderId, n \in 1..NFiles : f = <<r, n>>
  BY DEF File
<1>3. files_found[r] \in Nat /\ files_found[r] <= Expected
  BY ReaderFacts DEF TypeOK
<1> QED
  BY <1>1, <1>2, <1>3, ExpectedBounds, ClusterAssumption DEF Sent, Files

\* What a worker holds, or a stream to a worker or from one carries, is on a file.
LEMMA CarriedFile ==
  ASSUME TypeOK, NEW s \in Stream, NEW i \in 1..Len(buf[s]), buf[s][i].kind # "result"
  PROVE  i \in Position /\ buf[s][i].file \in File /\ Carries(s, i, buf[s][i].file)
<1>1. buf[s] \in Seq(Packet)
  BY DEF TypeOK, StreamsTypeOK
<1>2. buf[s][i] \in Packet /\ i \in Nat /\ i >= 1 /\ i <= Len(buf[s])
  BY <1>1
<1>3. buf[s][i].kind \in {"file", "report"}
  BY <1>2 DEF Packet
<1>4. buf[s][i].file \in File
  BY <1>2, <1>3, PacketFields
<1> QED
  BY <1>2, <1>4 DEF Carries, Position

\* With one reader, the counts agree only on the last answer.
LEMMA LastAnswer ==
  ASSUME NReaders = 1, ReportInv, WorkerOnPacket, readers_files = workers_files + 1
  PROVE  seen' = Files /\ Len(buf[pcurrent]) = 1
<1> USE DEF ReportInv
<1>0. PICK f : f = Head(ReporterIncoming).file
  OBVIOUS
<1>1. f \in Files /\ f \notin seen
  BY <1>0, AnswerIsNew
<1>2. seen' = seen \union {f} /\ seen \subseteq Files /\ ppc = "recv"
  BY <1>0, SeenSent DEF WorkerOnPacket, ReporterHead
<1>3. Cardinality(seen') = Cardinality(seen) + 1 /\ Cardinality(seen) \in Nat
  BY <1>1, <1>2, AllFiles, FS_AddElement
<1>4. readers_files = Cardinality(seen')
  BY <1>3 DEF CountInv
<1>5. /\ HungUp \subseteq ReaderId /\ Cardinality(HungUp) \in Nat
      /\ Cardinality(HungUp) <= 1
  <2>1. HungUp \subseteq ReaderId
    BY DEF HungUp
  <2> QED
    BY <2>1, ReaderCount, FS_Subset, FS_CardinalityType
<1>6. readers_files = Expected * (NReaders - readers_unfinished)
      /\ readers_unfinished = NReaders - Cardinality(HungUp)
  BY <1>2 DEF CountInv, ReporterDead
<1>7. readers_files = Expected * Cardinality(HungUp)
  BY <1>5, <1>6
<1>8. Cardinality(HungUp) # 0
  BY <1>3, <1>4, <1>7, ExpectedBounds
<1>9. Cardinality(seen') = NReaders * Expected
  BY <1>4, <1>5, <1>7, <1>8, ExpectedBounds
<1>10. seen' = Files
  BY <1>1, <1>2, <1>9, AllFiles
<1>11. /\ pcurrent \in Stream /\ buf[pcurrent] # <<>>
       /\ Head(buf[pcurrent]).kind = "report"
       /\ pcurrent[1] = "report"
  <2>1. pcurrent \in ReporterStreams /\ Legal(pcurrent, Head(buf[pcurrent]))
    BY ReporterHeadFacts, HeadLegal DEF WorkerOnPacket, TypeOK, PacketInv
  <2> QED
    BY <2>1, ReporterHeadFacts, StreamKinds DEF WorkerOnPacket, TypeOK, ReporterStreams, Legal
<1>12. Carries(pcurrent, 1, f)
  BY <1>0, <1>11, HeadCarries DEF TypeOK, ReporterIncoming
<1>13. ASSUME NEW i \in 1..Len(buf[pcurrent]) PROVE i = 1
  <2> DEFINE g == buf[pcurrent][i].file
  <2>1. buf[pcurrent][i].kind # "result"
    BY <1>11 DEF PacketInv, BufferInv, Legal
  <2>2. i \in Position /\ g \in File /\ Carries(pcurrent, i, g)
    BY <1>11, <2>1, CarriedFile
  <2>3. g \in Files
    BY <1>11, <2>2, SomewhereSent DEF Somewhere
  <2>4. g \notin seen
    BY <1>11, <2>2 DEF PlaceInv, Unique
  <2>5. g = f
    BY <1>2, <1>10, <2>3, <2>4
  <2>6. f \in File /\ 1 \in Position
    BY <2>2, <2>5 DEF Position
  <2> QED
    BY <1>11, <1>12, <2>2, <2>5, <2>6 DEF PlaceInv, Unique
<1>14. buf[pcurrent] \in Seq(Packet)
  BY <1>11 DEF TypeOK, StreamsTypeOK
<1>15. Len(buf[pcurrent]) = 1
  <2>1. Len(buf[pcurrent]) \in Nat /\ Len(buf[pcurrent]) >= 1
    BY <1>11, <1>14
  <2>2. Len(buf[pcurrent]) \in 1..Len(buf[pcurrent])
    BY <2>1
  <2> QED
    BY <1>13, <2>2
<1> QED
  BY <1>10, <1>15

\* A queue that is not empty and has at most one packet has one.
LEMMA OnlyPacket ==
  ASSUME NEW packets \in Seq(Packet), packets # <<>>, Len(packets) <= 1
  PROVE  Len(packets) = 1
<1>1. \A n \in Nat : n # 0 /\ n <= 1 => n = 1
  OBVIOUS
<1>2. Len(packets) \in Nat /\ Len(packets) # 0
  OBVIOUS
<1> QED
  BY <1>1, <1>2

\* Every socket that closes while main runs holds just the packet in hand.
LEMMA ClosesEmpty ==
  ASSUME NReaders = 1, ClusterInv, ClusterInv', [Next]_vars, joined' = joined,
         NEW s \in shut' \ shut
  PROVE  Len(buf[s]) = 1
<1> USE DEF ClusterInv, ReportInv
<1>0. /\ StreamsTypeOK /\ WorkerTypeOK /\ ReporterTypeOK /\ joined \in Nat
  BY ClusterAssumption DEF TypeOK, ThreadCount
<1>1. ASSUME NEW r \in ReaderId, ReaderMoves(r) PROVE FALSE
  BY <1>1 DEF ReaderMoves, ReaderStep, OnFile, TraverseEnd, TraverseFails, Broadcast, ReportFound,
              ReaderEpipe, Send, streamVars
<1>2. ASSUME NEW w \in WorkerId, WorkerMoves(w) \/ WorkerExpires(w) PROVE Len(buf[s]) = 1
  <2>1. WorkerStep(w) \/ WorkerTimeout(w)
    BY <1>2 DEF WorkerMoves, WorkerExpires
  <2>2. s \in FileStreams(w) /\ buf[s] # <<>> /\ Head(buf[s]).kind = "result"
    BY <1>0, <2>1, WorkerEffect DEF Receive, Send, Close
  <2>3. PICK r \in ReaderId : s = FileStream(r, w)
    BY <2>2 DEF FileStreams
  <2>4. Ordered(buf[s], Told(r, w))
    BY <2>3 DEF DeliveryInv, TailInv, TailOf
  <2>5. buf[s] \in Seq(Packet)
    BY <1>0, <2>2, StreamSets DEF StreamsTypeOK
  <2> QED
    BY <2>2, <2>4, <2>5, HeadAnnounces
<1>3. CASE ReporterMoves \/ ReporterExpires
  <2>1. ReporterStep \/ ReporterTimeout
    BY <1>3 DEF ReporterMoves, ReporterExpires
  <2>2. /\ s = pcurrent /\ s \in Stream /\ s \in ReporterStreams /\ buf[s] # <<>>
        /\ (ReaderOnPacket /\ Head(buf[s]).kind = "result") \/ WorkerOnPacket
    BY <1>0, <2>1, ReporterEffect DEF Receive, Close
  <2>3. CASE WorkerOnPacket
    <3>1. readers_files = workers_files + 1
      BY <2>3 DEF WorkerOnPacket, Receive
    <3> QED
      BY <2>2, <2>3, <3>1, LastAnswer
  <2>4. CASE ReaderOnPacket /\ Head(buf[s]).kind = "result"
    <3>1. Legal(s, Head(buf[s]))
      BY <1>0, <2>2, HeadLegal DEF PacketInv
    <3>2. PICK r \in ReaderId : s = ResultStream(r)
      BY <2>2, <2>4, <3>1, StreamKinds DEF ReporterStreams, Legal
    <3>3. Len(buf[s]) <= 1
      BY <3>2 DEF DeliveryInv, ResultInv, ResultOf
    <3>4. buf[s] \in Seq(Packet)
      BY <1>0, <2>2 DEF StreamsTypeOK
    <3> QED
      BY <2>2, <3>3, <3>4, OnlyPacket
  <2> QED
    BY <2>2, <2>3, <2>4
<1>4. CASE MainJoin
  BY <1>0, <1>4 DEF MainJoin
<1>5. CASE UNCHANGED vars
  BY <1>5 DEF vars, streamVars
<1> QED
  BY <1>1, <1>2, <1>3, <1>4, <1>5 DEF Next, Exited

\* onhup of worker.lua and reporter.lua closes a socket that holds nothing but
\* the packet being handled, also when the task fails: nothing on its way is
\* dropped.
THEOREM NothingIsDropped ==
  ASSUME NReaders = 1
  PROVE  Spec => NothingDropped
<1>1. ClusterInv /\ ClusterInv' /\ [Next]_vars
        => [joined' = joined => \A s \in shut' \ shut : Len(buf[s]) = 1]_vars
  BY ClosesEmpty
<1> QED
  BY <1>1, ClusterInvHolds, PTL DEF Spec, NothingDropped

-----------------------------------------------------------------------------
(* Nothing is lost until something fails. *)

\* A thread that failed stays so.
LEMMA FailedStays ==
  ASSUME TypeOK, [Next]_vars
  PROVE  (Panicked => Panicked') /\ (Expired => Expired') /\ (WalkFailed => WalkFailed')
<1> USE DEF Panicked, Expired, WalkFailed
<1>0. ReaderTypeOK /\ WorkerTypeOK
  BY DEF TypeOK
<1>1. \A r \in ReaderId : rpc[r] \in {"failed", "panicked"} => rpc'[r] = rpc[r]
  <2> SUFFICES ASSUME NEW r \in ReaderId, rpc[r] \in {"failed", "panicked"}
               PROVE  rpc'[r] = rpc[r]
    OBVIOUS
  <2>1. ASSUME NEW q \in ReaderId, ReaderStep(q) PROVE rpc'[r] = rpc[r]
    BY <1>0, <2>1, ReaderDeadStays DEF ReaderDead
  <2> QED
    BY <2>1 DEF Next, ReaderMoves, WorkerMoves, WorkerExpires, ReporterMoves, ReporterExpires,
                MainJoin, Exited, vars, readerVars
<1>2. \A w \in WorkerId : wpc[w] \in {"panicked", "expired"} => wpc'[w] = wpc[w]
  <2> SUFFICES ASSUME NEW w \in WorkerId, wpc[w] \in {"panicked", "expired"}
               PROVE  wpc'[w] = wpc[w]
    OBVIOUS
  <2>1. ASSUME NEW v \in WorkerId, WorkerStep(v) \/ WorkerTimeout(v) PROVE wpc'[w] = wpc[w]
    BY <1>0, <2>1, WorkerDeadStays DEF WorkerDead
  <2> QED
    BY <2>1 DEF Next, ReaderMoves, WorkerMoves, WorkerExpires, ReporterMoves, ReporterExpires,
                MainJoin, Exited, vars, workerVars
<1>3. ppc \in {"panicked", "expired"} => ppc' = ppc
  <2> SUFFICES ASSUME ppc \in {"panicked", "expired"} PROVE ppc' = ppc
    OBVIOUS
  <2>1. ~ReporterStep /\ ~ReporterTimeout
    BY ReporterDeadStays DEF ReporterDead
  <2> QED
    BY <2>1 DEF Next, ReaderMoves, WorkerMoves, WorkerExpires, ReporterMoves, ReporterExpires,
                MainJoin, Exited, vars, reporterVars
<1> QED
  BY <1>1, <1>2, <1>3

InStreams(f) == \E s \in Stream : \E i \in Position : Carries(s, i, f)

\* Packet p is on file f.
IsOn(p, f) == p.kind # "result" /\ p.file = f

\* What is in a stream stays there while other packets are sent.
LEMMA SendKeeps ==
  ASSUME StreamsTypeOK, NEW t \in Stream, NEW packet \in Packet, Send(t, packet), NEW f,
         InStreams(f) \/ IsOn(packet, f)
  PROVE  InStreams(f)'
<1>1. Len(buf[t]) + 1 \in Position
  BY DEF StreamsTypeOK, Position
<1> QED
  BY <1>1, SendCarries DEF InStreams, IsOn

\* Receiving takes only the head out of the streams.
LEMMA ReceiveKeeps ==
  ASSUME StreamsTypeOK, NEW t \in Stream, buf[t] # <<>>, Receive(t), NEW f, InStreams(f)
  PROVE  InStreams(f)' \/ IsOn(Head(buf[t]), f)
<1>1. PICK s \in Stream, i \in Position : Carries(s, i, f)
  BY DEF InStreams
<1>2. CASE s # t
  BY <1>1, <1>2, ReceiveCarries DEF InStreams
<1>3. CASE s = t /\ i # 1
  <2>1. PICK j \in Position : i = j + 1
    <3>1. i - 1 \in Position /\ i = (i - 1) + 1
      BY <1>3 DEF Position
    <3> QED
      BY <3>1
  <2> QED
    BY <1>1, <1>3, <2>1, ReceiveCarries DEF InStreams
<1>4. CASE s = t /\ i = 1
  <2>1. buf[t] \in Seq(Packet)
    BY DEF StreamsTypeOK
  <2>2. Head(buf[t]) = buf[t][1]
    BY <2>1
  <2> QED
    BY <1>1, <1>4, <2>2 DEF Carries, IsOn
<1> QED
  BY <1>2, <1>3, <1>4

\* So does closing a stream that holds just the head.
LEMMA CloseKeeps ==
  ASSUME StreamsTypeOK, NEW t \in Stream, Len(buf[t]) = 1, Close({t}), NEW f, InStreams(f)
  PROVE  InStreams(f)' \/ IsOn(Head(buf[t]), f)
<1>1. PICK s \in Stream, i \in Position : Carries(s, i, f)
  BY DEF InStreams
<1>2. CASE s # t
  <2>1. buf'[s] = buf[s]
    BY <1>2 DEF Close
  <2> QED
    BY <1>1, <2>1 DEF InStreams, Carries
<1>3. CASE s = t
  <2>1. i = 1
    BY <1>1, <1>3 DEF Carries, Position
  <2>2. buf[t] \in Seq(Packet)
    BY DEF StreamsTypeOK
  <2>3. Head(buf[t]) = buf[t][1]
    BY <2>2
  <2> QED
    BY <1>1, <1>3, <2>1, <2>3 DEF Carries, IsOn
<1> QED
  BY <1>2, <1>3

\* A reader sends what it counts.
LEMMA ReaderHolds ==
  ASSUME TypeOK, HeldInv, ~Failed, NEW r \in ReaderId, ReaderMoves(r),
         NEW f \in Files, Sent(f)'
  PROVE  Somewhere(f)'
<1>0. /\ StreamsTypeOK /\ ReaderTypeOK /\ ReaderStep(r)
      /\ UNCHANGED <<wpc, wanswer, seen>>
  BY DEF TypeOK, ReaderMoves, workerVars, reporterVars
<1>1. ASSUME Sent(f), UNCHANGED buf PROVE Somewhere(f)'
  <2>1. Somewhere(f)
    BY <1>1 DEF HeldInv
  <2> QED
    BY <1>0, <1>1, <2>1 DEF Somewhere, Carries, Holds
<1>2. ASSUME Sent(f), NEW t \in Stream, NEW packet \in Packet, Send(t, packet)
      PROVE  Somewhere(f)'
  <2>1. Somewhere(f)
    BY <1>2 DEF HeldInv
  <2>2. InStreams(f) => InStreams(f)'
    BY <1>0, <1>2, SendKeeps
  <2> QED
    BY <1>0, <2>1, <2>2 DEF Somewhere, InStreams, Holds
<1>3. CASE OnFile(r)
  <2>0. PICK n : n = files_found[r] + 1
    OBVIOUS
  <2>1. /\ Send(Target(r), FilePacket(<<r, n>>)) /\ Target(r) \in Stream
        /\ files_found' = [files_found EXCEPT ![r] = n]
    BY <1>0, <1>3, <2>0, TargetType DEF OnFile, Sending
  <2>2. n \in 1..NFiles /\ files_found[r] \in Nat
    BY <1>0, <1>3, <2>0, ReaderFacts, ClusterAssumption DEF OnFile, HasMoreFiles
  <2>3. FilePacket(<<r, n>>) \in Packet
    BY <2>2, PacketTypes DEF File
  <2>4. Sent(f) \/ f = <<r, n>>
    <3>1. PICK q \in ReaderId, m \in Nat : f = <<q, m>>
      BY ExpectedBounds DEF Files
    <3>2. CASE q # r
      BY <1>0, <2>1, <3>1, <3>2 DEF Sent, ReaderTypeOK
    <3>3. CASE q = r
      <4>1. m <= n
        BY <1>0, <2>1, <3>1, <3>3 DEF Sent, ReaderTypeOK
      <4>2. m <= files_found[r] \/ m = n
        BY <2>0, <2>2, <4>1
      <4> QED
        BY <3>1, <3>3, <4>2 DEF Sent
    <3> QED
      BY <3>2, <3>3
  <2>5. f = <<r, n>> => InStreams(f)'
    BY <1>0, <2>1, <2>3, SendKeeps DEF IsOn, FilePacket
  <2> QED
    BY <1>2, <2>1, <2>3, <2>4, <2>5 DEF Somewhere, InStreams
<1>4. CASE Broadcast(r) \/ ReportFound(r)
  <2>1. Sent(f)
    BY <1>4 DEF Broadcast, ReportFound, Sent
  <2>2. Send(Target(r), ResultPacket(files_found[r])) /\ Target(r) \in Stream
    BY <1>0, <1>4, TargetType DEF Broadcast, ReportFound, Sending
  <2>3. ResultPacket(files_found[r]) \in Packet
    BY <1>0, PacketTypes, ReaderFacts, ExpectedBounds, ClusterAssumption
  <2> QED
    BY <1>2, <2>1, <2>2, <2>3
<1>5. CASE TraverseEnd(r) \/ TraverseFails(r) \/ ReaderEpipe(r)
  BY <1>1, <1>5 DEF TraverseEnd, TraverseFails, ReaderEpipe, Sent, streamVars
<1> QED
  BY <1>0, <1>3, <1>4, <1>5 DEF ReaderStep

\* A worker answers what it receives, and sends what it answered.
LEMMA WorkerHolds ==
  ASSUME NReaders = 1, ClusterInv, ClusterInv', [Next]_vars, HeldInv, ~Failed, ~Failed',
         NEW w \in WorkerId, WorkerMoves(w) \/ WorkerExpires(w),
         NEW f \in Files, Sent(f)'
  PROVE  Somewhere(f)'
<1>0. /\ StreamsTypeOK /\ WorkerTypeOK /\ BufferInv
      /\ WorkerStep(w) \/ WorkerTimeout(w)
      /\ UNCHANGED <<seen, files_found, joined>>
  BY DEF ClusterInv, ReportInv, PacketInv, TypeOK, WorkerMoves, WorkerExpires, readerVars,
         reporterVars
<1>1. Somewhere(f)
  BY <1>0 DEF HeldInv, Sent
<1>2. \A v \in WorkerId : v # w => (Holds(v, f)' <=> Holds(v, f))
  BY <1>0 DEF WorkerStep, WorkerWatch, WorkerEpollWait, WorkerOnread, WorkerDrained,
              WorkerOnFile, WorkerOnBadFile, WorkerOnResult, WorkerSend, WorkerEpipe,
              WorkerBatchDone, WorkerTimeout, WorkerTypeOK, Holds
<1>3. wpc'[w] \notin {"panicked", "expired"}
  BY DEF Failed, Panicked, Expired
<1>4. CASE WorkerOnFile(w)
  <2>1. /\ wpc[w] = "recv" /\ wcurrent[w] \in Stream /\ buf[wcurrent[w]] # <<>>
        /\ Receive(wcurrent[w])
    BY <1>0, <1>4, WorkerHeadFacts DEF WorkerOnFile
  <2>2. Head(buf[wcurrent[w]]).file = f => Holds(w, f)'
    <3> SUFFICES ASSUME Head(buf[wcurrent[w]]).file = f PROVE Holds(w, f)'
      OBVIOUS
    <3>1. /\ wpc' = [wpc EXCEPT ![w] = "send"]
          /\ wanswer' = [wanswer EXCEPT ![w] = ReportPacket(f, Outcome[f[2]])]
      BY <1>4 DEF WorkerOnFile, WorkerIncoming
    <3>2. wpc'[w] = "send" /\ wanswer'[w] = ReportPacket(f, Outcome[f[2]])
      BY <1>0, <3>1 DEF WorkerTypeOK
    <3> QED
      BY <3>2 DEF Holds, ReportPacket
  <2>3. InStreams(f) => InStreams(f)' \/ Head(buf[wcurrent[w]]).file = f
    BY <1>0, <2>1, ReceiveKeeps DEF IsOn
  <2>4. ~Holds(w, f)
    BY <2>1 DEF Holds
  <2> QED
    BY <1>0, <1>1, <1>2, <2>2, <2>3, <2>4 DEF Somewhere, InStreams
<1>5. CASE WorkerOnBadFile(w)
  BY <1>0, <1>3, <1>5 DEF WorkerOnBadFile, WorkerTypeOK
<1>6. CASE WorkerOnResult(w)
  <2>1. /\ wpc[w] = "recv" /\ wcurrent[w] \in Stream /\ buf[wcurrent[w]] # <<>>
        /\ Head(buf[wcurrent[w]]).kind = "result" /\ Close({wcurrent[w]})
    BY <1>0, <1>6, WorkerHeadFacts DEF WorkerOnResult
  <2>2. wcurrent[w] \in shut' \ shut
    BY <1>0, <2>1, HeadLegal DEF Close
  <2>3. Len(buf[wcurrent[w]]) = 1
    BY <1>0, <2>2, ClosesEmpty
  <2>4. InStreams(f) => InStreams(f)'
    BY <1>0, <2>1, <2>3, CloseKeeps DEF IsOn
  <2>5. ~Holds(w, f)
    BY <2>1 DEF Holds
  <2> QED
    BY <1>0, <1>1, <1>2, <2>4, <2>5 DEF Somewhere, InStreams
<1>7. CASE WorkerSend(w)
  <2>1. /\ ReportStream(w) \in Stream /\ wanswer[w] \in Packet
        /\ wanswer[w].kind = "report" /\ Send(ReportStream(w), wanswer[w])
    BY <1>0, <1>7, StreamSets, WorkerFacts DEF WorkerSend, WorkerTypeOK
  <2>2. InStreams(f) \/ Holds(w, f) => InStreams(f)'
    BY <1>0, <2>1, SendKeeps DEF IsOn, Holds
  <2> QED
    BY <1>0, <1>1, <1>2, <2>2 DEF Somewhere, InStreams
<1>8. CASE WorkerEpipe(w) \/ WorkerTimeout(w)
  BY <1>0, <1>3, <1>8 DEF WorkerEpipe, WorkerTimeout, WorkerTypeOK
<1>9. CASE WorkerWatch(w) \/ WorkerEpollWait(w) \/ WorkerOnread(w) \/ WorkerDrained(w)
           \/ WorkerBatchDone(w)
  <2>1. UNCHANGED buf
    BY <1>9 DEF WorkerWatch, WorkerEpollWait, WorkerOnread, WorkerDrained, WorkerBatchDone,
                Watch, TakeEvents, streamVars
  <2>2. ~Holds(w, f)
    BY <1>9 DEF WorkerWatch, WorkerEpollWait, WorkerOnread, WorkerDrained, WorkerBatchDone,
                Holds
  <2> QED
    BY <1>0, <1>1, <1>2, <2>1, <2>2 DEF Somewhere, Carries
<1> QED
  BY <1>0, <1>4, <1>5, <1>6, <1>7, <1>8, <1>9 DEF WorkerStep

\* The reporter counts what it receives.
LEMMA ReporterHolds ==
  ASSUME NReaders = 1, ClusterInv, ClusterInv', [Next]_vars, HeldInv, ~Failed,
         ReporterMoves \/ ReporterExpires, NEW f \in Files, Sent(f)'
  PROVE  Somewhere(f)'
<1>0. /\ StreamsTypeOK /\ ReporterTypeOK /\ BufferInv
      /\ ReporterStep \/ ReporterTimeout
      /\ UNCHANGED <<wpc, wanswer, files_found, joined>>
  BY DEF ClusterInv, ReportInv, PacketInv, TypeOK, ReporterMoves, ReporterExpires, readerVars,
         workerVars
<1>1. Somewhere(f)
  BY <1>0 DEF HeldInv, Sent
<1>2. f \in seen => f \in seen'
  BY <1>0 DEF ReporterStep, ReporterWatch, ReporterEpollWait, ReporterOnread, ReporterDrained,
              ReaderOnPacket, WorkerOnPacket, ReporterBatchDone, ReporterTimeout
<1>3. CASE UNCHANGED <<buf, shut>>
  BY <1>0, <1>1, <1>2, <1>3 DEF Somewhere, Carries, Holds
<1>4. CASE /\ pcurrent \in Stream /\ buf[pcurrent] # <<>>
           /\ \/ ReaderOnPacket /\ Head(buf[pcurrent]).kind = "result"
              \/ WorkerOnPacket /\ Head(buf[pcurrent]).kind = "report"
           /\ Receive(pcurrent) \/ Close({pcurrent})
  <2>1. InStreams(f) => InStreams(f)' \/ IsOn(Head(buf[pcurrent]), f)
    <3>1. CASE Receive(pcurrent)
      BY <1>0, <1>4, <3>1, ReceiveKeeps
    <3>2. CASE Close({pcurrent})
      <4>1. pcurrent \in shut' \ shut
        BY <1>0, <1>4, <3>2, HeadLegal DEF Close
      <4>2. Len(buf[pcurrent]) = 1
        BY <1>0, <4>1, ClosesEmpty
      <4> QED
        BY <1>0, <1>4, <3>2, <4>2, CloseKeeps
    <3> QED
      BY <1>4, <3>1, <3>2
  <2>2. IsOn(Head(buf[pcurrent]), f) => f \in seen'
    BY <1>4 DEF IsOn, WorkerOnPacket, ReporterIncoming
  <2> QED
    BY <1>0, <1>1, <1>2, <2>1, <2>2 DEF Somewhere, InStreams, Holds
<1> QED
  BY <1>0, <1>3, <1>4, ReporterEffect

\* Before main closes a socket, everything is counted.
LEMMA MainHolds ==
  ASSUME ClusterInv, HeldInv, ~Failed, MainJoin, NEW f \in Files, Sent(f)'
  PROVE  Somewhere(f)'
<1>0. /\ TypeOK /\ JoinInv /\ CountInv /\ StreamsTypeOK
      /\ UNCHANGED <<wpc, wanswer, seen, files_found>>
  BY DEF ClusterInv, ReportInv, TypeOK, MainJoin, readerVars, workerVars, reporterVars
<1>1. Somewhere(f)
  BY <1>0 DEF HeldInv, Sent
<1>2. PICK S \in SUBSET Stream : Close(S) /\ (S # {} => ppc \in ReporterDead)
  BY <1>0, MainEffect
<1>3. CASE S = {}
  <2>1. \A s \in Stream : buf'[s] = buf[s]
    BY <1>0, <1>2, <1>3, CloseEffect
  <2> QED
    BY <1>0, <1>1, <2>1 DEF Somewhere, Carries, Holds
<1>4. CASE S # {}
  <2>1. ppc = "ended"
    BY <1>2, <1>4 DEF ReporterDead, Failed, Panicked, Expired
  <2>2. seen = Files
    BY <1>0, <2>1 DEF CountInv
  <2> QED
    BY <1>0, <2>2 DEF Somewhere
<1> QED
  BY <1>3, <1>4

\* Nothing has been sent at first.
LEMMA HeldInit == Init => HeldInv
<1> SUFFICES ASSUME Init, NEW f \in Files, Sent(f) PROVE FALSE
  BY DEF HeldInv
<1>1. f[1] \in ReaderId /\ f[2] \in Nat /\ f[2] # 0
  BY ExpectedBounds DEF Files
<1> QED
  BY <1>1 DEF Init, ReaderInit, Sent

\* With one reader, the invariant is inductive.
LEMMA HeldNext ==
  ASSUME NReaders = 1, ClusterInv, ClusterInv', HeldInv, [Next]_vars
  PROVE  HeldInv'
<1> SUFFICES ASSUME ~Failed', NEW f \in Files, Sent(f)' PROVE Somewhere(f)'
  BY DEF HeldInv, Files
<1>0. TypeOK /\ ~Failed
  BY FailedStays DEF ClusterInv, ReportInv, Failed
<1>1. ASSUME NEW r \in ReaderId, ReaderMoves(r) PROVE Somewhere(f)'
  BY <1>0, <1>1, ReaderHolds
<1>2. ASSUME NEW w \in WorkerId, WorkerMoves(w) \/ WorkerExpires(w) PROVE Somewhere(f)'
  BY <1>0, <1>2, WorkerHolds
<1>3. CASE ReporterMoves \/ ReporterExpires
  BY <1>0, <1>3, ReporterHolds
<1>4. CASE MainJoin
  BY <1>0, <1>4, MainHolds
<1>5. CASE UNCHANGED vars
  BY <1>0, <1>5 DEF vars, streamVars, readerVars, workerVars, reporterVars, HeldInv, Sent,
                   Somewhere, Carries, Holds
<1> QED
  BY <1>1, <1>2, <1>3, <1>4, <1>5 DEF Next, Exited

\* Both invariants say together where every file is.
LEMMA HeldPlaces ==
  ASSUME ClusterInv, HeldInv
  PROVE  EveryFileInOnePlace
<1> SUFFICES ASSUME ~Failed, NEW f \in Files
             PROVE  Cardinality(PlacesOf(f)) = (IF f[2] <= files_found[f[1]] THEN 1 ELSE 0)
  BY DEF EveryFileInOnePlace, Failed
<1>0. /\ f \in File /\ PlaceInv /\ TypeOK
      /\ \A s \in Stream : Len(buf[s]) <= Capacity /\ buf[s] \in Seq(Packet)
  BY FilesFacts DEF ClusterInv, ReportInv, RoomInv, TypeOK, StreamsTypeOK
<1>1. CASE Sent(f)
  <2>1. Somewhere(f)
    BY <1>1 DEF HeldInv
  <2>2. ASSUME NEW s \in Stream, NEW i \in Position, Carries(s, i, f)
        PROVE  <<s, i>> \in PlacesOf(f)
    <3>1. i \in 1..Capacity
      <4>1. i \in Nat /\ i >= 1 /\ i <= Len(buf[s])
        BY <2>2 DEF Carries, Position
      <4>2. Len(buf[s]) \in Nat /\ Len(buf[s]) <= Capacity /\ Capacity \in Nat
        BY <1>0, ClusterAssumption
      <4> QED
        BY <4>1, <4>2
    <3> QED
      BY <2>2, <3>1 DEF PlacesOf
  <2>3. PlacesOf(f) # {}
    BY <2>1, <2>2 DEF Somewhere, Holds, PlacesOf
  <2>4. PICK p : PlacesOf(f) = {p}
    BY <1>0, <2>3, OnePlace
  <2>5. Cardinality({p}) = 1
    BY FS_Singleton
  <2> QED
    BY <1>1, <2>4, <2>5 DEF Sent
<1>2. CASE ~Sent(f)
  <2>1. Nowhere(f)
    BY <1>0, <1>2 DEF PlaceInv
  <2>2. 1..Capacity \subseteq Position
    BY ClusterAssumption DEF Position
  <2>3. PlacesOf(f) = {}
    BY <2>1, <2>2 DEF Nowhere, Holds, PlacesOf
  <2> QED
    BY <1>2, <2>3, FS_EmptySet DEF Sent
<1> QED
  BY <1>1, <1>2

\* Until a thread fails, every file that a reader has sent is in exactly one
\* place: on its way to a worker, in its hands, on its way to the reporter or
\* counted there.
THEOREM FilesAreSomewhere ==
  ASSUME NReaders = 1
  PROVE  Spec => []EveryFileInOnePlace
<1>1. ClusterInv /\ ClusterInv' /\ HeldInv /\ [Next]_vars => HeldInv'
  BY HeldNext
<1>2. ClusterInv /\ HeldInv => EveryFileInOnePlace
  BY HeldPlaces
<1> QED
  BY <1>1, <1>2, HeldInit, ClusterInvHolds, PTL DEF Spec

-----------------------------------------------------------------------------
(* Why no timeout fires: the threads never all wait for each other. *)

\* The threads come to rest only when nobody waits.
LEMMA NobodyWaits ==
  ASSUME NReaders = 1, ClusterInv, HeldInv, Quiet, ~Failed, ~WalkFailed
  PROVE  ppc # "wait" /\ \A w \in WorkerId : wpc[w] # "wait"
<1>0. /\ TypeOK /\ StreamsTypeOK /\ ReaderTypeOK /\ WorkerTypeOK /\ ReporterTypeOK
      /\ PlaceInv /\ BufferInv /\ FoundInv /\ CountInv /\ WakeInv /\ NoLostWakeup
      /\ BroadcastInv /\ TailInv /\ ResultInv /\ HangupInv /\ StopInv
  BY WakeInvWakes DEF ClusterInv, ReportInv, TypeOK, PacketInv, DeliveryInv
<1>1. 1 \in ReaderId /\ ReaderId = {1}
  BY DEF ReaderId
<1>2. ASSUME NEW w \in WorkerId, wpc[w] = "wait", NEW s \in FileStreams(w)
      PROVE  buf[s] = <<>>
  <2>1. Available(FileStreams(w)) = {}
    BY <1>2 DEF Quiet, WorkerBlocked, WorkerDead
  <2> QED
    BY <1>0, <1>2, <2>1 DEF Available, NoLostWakeup
<1>3. ASSUME ppc = "wait" PROVE FALSE
  <2>1. \A s \in ReporterStreams : buf[s] = <<>>
    <3>1. Available(ReporterStreams) = {}
      BY <1>3 DEF Quiet, ReporterBlocked, ReporterDead
    <3> QED
      BY <1>0, <1>3, <3>1 DEF Available, NoLostWakeup
  <2>2. \A s \in Stream : buf[s] = <<>> => ~SendBlocked(s)
    BY ClusterAssumption DEF SendBlocked
  <2>3. \A w \in WorkerId : wpc[w] \in {"wait", "ended"}
    <3> SUFFICES ASSUME NEW w \in WorkerId PROVE wpc[w] \in {"wait", "ended"}
      OBVIOUS
    <3>1. ~SendBlocked(ReportStream(w))
      BY <2>1, <2>2, StreamSets
    <3>2. wpc[w] \notin {"panicked", "expired"}
      BY DEF Failed, Panicked, Expired
    <3> QED
      BY <3>1, <3>2 DEF Quiet, WorkerBlocked, WorkerDead
  <2>4. \A w \in WorkerId : \A s \in FileStreams(w) : buf[s] = <<>>
    <3> SUFFICES ASSUME NEW w \in WorkerId, NEW s \in FileStreams(w) PROVE buf[s] = <<>>
      OBVIOUS
    <3>1. wpc[w] = "ended" => s \in shut
      BY <1>0 DEF HangupInv, HangupOf
    <3>2. s \in shut => buf[s] = <<>>
      BY <1>0 DEF BufferInv
    <3> QED
      BY <1>2, <2>3, <3>1, <3>2
  <2>5. \A s \in Stream : buf[s] = <<>>
    BY <2>1, <2>4 DEF Stream
  <2>6. rpc[1] = "ended"
    <3>1. Sending(1) => ~SendBlocked(Target(1))
      BY <1>0, <1>1, <2>2, <2>5, TargetType
    <3>2. rpc[1] \notin {"failed", "panicked"}
      BY <1>1 DEF Failed, Panicked, WalkFailed
    <3> QED
      BY <1>1, <3>1, <3>2 DEF Quiet, ReaderBlocked, ReaderDead
  <2>7. HungUp = ReaderId
    <3>1. ResultStream(1) \in shut
      BY <1>0, <1>1, <2>1, <2>6, StreamSets DEF ResultInv, ResultOf
    <3> QED
      BY <1>1, <3>1 DEF HungUp
  <2>8. readers_unfinished = 0 /\ readers_files = Expected
    <3>1. Cardinality(HungUp) = 1
      BY <2>7, ReaderCount
    <3>2. readers_unfinished = NReaders - Cardinality(HungUp)
      BY <1>0, <1>3 DEF CountInv, ReporterDead
    <3>3. readers_unfinished = 0
      BY <3>1, <3>2
    <3>4. readers_files = Expected * (NReaders - readers_unfinished)
      BY <1>0 DEF CountInv
    <3>5. Expected \in Nat
      BY ExpectedBounds
    <3> QED
      BY <3>3, <3>4, <3>5
  <2>9. seen = Files
    <3>1. ASSUME NEW f \in Files PROVE f \in seen
      <4>1. Sent(f)
        <5>1. files_found[1] = Expected
          BY <1>0, <1>1, <2>6 DEF FoundInv
        <5>2. f[1] = 1 /\ f[2] <= Expected
          BY <1>1, ExpectedBounds DEF Files
        <5> QED
          BY <5>1, <5>2 DEF Sent
      <4>2. Somewhere(f)
        BY <4>1 DEF HeldInv
      <4>3. \A s \in Stream : \A i \in Position : ~Carries(s, i, f)
        BY <2>5 DEF Carries, Position
      <4>4. \A w \in WorkerId : ~Holds(w, f)
        BY <2>3 DEF Holds
      <4> QED
        BY <4>2, <4>3, <4>4 DEF Somewhere
    <3> QED
      BY <1>0, <3>1, SeenSent
  <2>10. workers_files = Expected
    <3>1. workers_files = NReaders * Expected
      BY <1>0, <2>9, FileCount DEF CountInv
    <3> QED
      BY <3>1, ExpectedBounds
  <2> QED
    BY <1>0, <1>3, <2>8, <2>10 DEF StopInv, ReporterDead
<1>4. ASSUME NEW w \in WorkerId, wpc[w] = "wait" PROVE FALSE
  <2>1. ppc = "ended"
    BY <1>3 DEF Quiet, ReporterBlocked, ReporterDead, Failed, Panicked, Expired
  <2>2. Told(1, w)
    BY <1>0, <1>1, <2>1, EndedMeansTold
  <2>3. buf[FileStream(1, w)] = <<>>
    BY <1>1, <1>2, <1>4, StreamSets
  <2>4. FileStream(1, w) \in shut
    BY <1>0, <1>1, <2>2, <2>3 DEF TailInv, TailOf, Announces
  <2>5. Left(w) = ReaderId
    BY <1>1, <2>4 DEF Left
  <2>6. wunfinished[w] = NReaders - Cardinality(Left(w)) /\ wunfinished[w] # 0
    BY <1>0, <1>4 DEF HangupInv, HangupOf, WorkerDead
  <2> QED
    BY <2>5, <2>6, ReaderCount
<1> QED
  BY <1>3, <1>4

-----------------------------------------------------------------------------
(* Why nothing fails unless the task fails on a file or a walk fails. *)

SomeBad == \E f \in Files : Outcome[f[2]] = "bad"

\* A thread fails only on what it reads, and times out only on a thread that
\* failed.
FailInv ==
  /\ Panicked => SomeBad \/ WalkFailed
  /\ Expired => Panicked \/ WalkFailed

\* A reader that lives has not been hung up on.
LEMMA ReaderIsServed ==
  ASSUME ClusterInv, NEW r \in ReaderId, ReaderEpipe(r)
  PROVE  ppc = "expired"
<1>0. ReaderTypeOK /\ BroadcastInv /\ TailInv /\ ResultInv
  BY DEF ClusterInv, ReportInv, TypeOK, DeliveryInv
<1>1. ReaderStep(r) /\ Sending(r) /\ Target(r) \in shut
  BY DEF ReaderEpipe, ReaderStep
<1>2. CASE rpc[r] = "traverse"
  <2>1. PICK w \in WorkerId : Target(r) = FileStream(r, w)
    BY <1>0, <1>2, FileTarget
  <2>2. ~Told(r, w)
    <3>1. bcast[r] = 1
      BY <1>0, <1>2, ReaderFacts
    <3> QED
      BY <3>1, ClusterAssumption DEF Told, WorkerId
  <2> QED
    BY <1>0, <1>1, <2>1, <2>2 DEF TailInv, TailOf
<1>3. CASE rpc[r] = "broadcast"
  <2>1. Target(r) = FileStream(r, clients[r][bcast[r]]) /\ clients[r][bcast[r]] \in WorkerId
    BY <1>0, <1>3, FileTarget DEF Target
  <2>2. ~Told(r, clients[r][bcast[r]])
    BY <1>0, <1>1, <1>3, ReaderBroadcasts
  <2> QED
    BY <1>0, <1>1, <2>1, <2>2 DEF TailInv, TailOf
<1>4. CASE rpc[r] = "report"
  <2>1. Target(r) = ResultStream(r)
    BY <1>4 DEF Target
  <2> QED
    BY <1>0, <1>1, <1>4, <2>1 DEF ResultInv, ResultOf
<1> QED
  BY <1>1, <1>2, <1>3, <1>4 DEF Sending, HasMoreFiles

\* A worker that holds an answer has not been hung up on.
LEMMA WorkerIsServed ==
  ASSUME ClusterInv, ShutInv, NEW w \in WorkerId, WorkerEpipe(w)
  PROVE  ppc = "expired"
<1>0. /\ TypeOK /\ WorkerTypeOK /\ PlaceInv
      /\ wpc[w] = "send" /\ ReportStream(w) \in shut
  BY DEF ClusterInv, ReportInv, TypeOK, WorkerEpipe
<1>1. PICK f : f = wanswer[w].file
  OBVIOUS
<1>2. f \in File
  BY <1>0, <1>1, WorkerFacts, PacketFields DEF WorkerTypeOK
<1>3. Holds(w, f)
  BY <1>0, <1>1 DEF Holds
<1>4. f \in Files /\ f \notin seen
  BY <1>0, <1>2, <1>3, SomewhereSent DEF Somewhere, PlaceInv, Unique
<1> QED
  BY <1>0, <1>4 DEF ShutInv

\* The file a worker fails on is one of the run.
LEMMA BadFileIsBad ==
  ASSUME ClusterInv, NEW w \in WorkerId, WorkerOnBadFile(w)
  PROVE  SomeBad
<1>0. TypeOK /\ StreamsTypeOK /\ WorkerTypeOK /\ PlaceInv
  BY DEF ClusterInv, ReportInv, TypeOK
<1>1. PICK p : p = Head(buf[wcurrent[w]])
  OBVIOUS
<1>2. /\ wcurrent[w] \in Stream /\ buf[wcurrent[w]] # <<>>
      /\ p \in Packet /\ p.kind = "file" /\ Outcome[p.file[2]] = "bad"
  BY <1>0, <1>1, WorkerHeadFacts DEF WorkerOnBadFile, WorkerIncoming
<1>3. p.file \in File
  BY <1>2, PacketFields
<1>4. Carries(wcurrent[w], 1, p.file)
  BY <1>0, <1>1, <1>2, HeadCarries
<1>5. 1 \in Position
  BY DEF Position
<1>6. p.file \in Files
  BY <1>0, <1>2, <1>3, <1>4, <1>5, SomewhereSent DEF Somewhere
<1> QED
  BY <1>2, <1>6 DEF SomeBad

\* Until a thread has failed, none is panicked or expired after a step that is
\* not on a bad file.
LEMMA FailNext ==
  ASSUME NReaders = 1, ClusterInv, ClusterInv', HeldInv, ShutInv, FailInv, [Next]_vars
  PROVE  FailInv'
<1>0. /\ TypeOK /\ ReaderTypeOK /\ WorkerTypeOK /\ ppc' # "panicked"
      /\ SomeBad' <=> SomeBad
  BY DEF ClusterInv, ReportInv, TypeOK, CountInv, SomeBad, Files
<1>1. CASE Failed \/ WalkFailed
  BY <1>0, <1>1, FailedStays DEF Failed, FailInv
<1>2. CASE ~Failed /\ ~WalkFailed
  <2>0. /\ ppc \notin {"panicked", "expired"}
        /\ \A r \in ReaderId : rpc[r] # "panicked"
        /\ \A w \in WorkerId : wpc[w] \notin {"panicked", "expired"}
    BY <1>2 DEF Failed, Panicked, Expired
  <2>1. ASSUME NEW r \in ReaderId, ReaderMoves(r) PROVE ~Panicked' /\ ~Expired'
    <3>1. ~ReaderEpipe(r)
      BY <2>0, ReaderIsServed
    <3>2. \A q \in ReaderId : rpc'[q] # "panicked"
      BY <1>0, <2>0, <2>1, <3>1
         DEF ReaderMoves, ReaderStep, OnFile, TraverseEnd, TraverseFails, Broadcast, ReportFound, ReaderTypeOK
    <3> QED
      BY <2>0, <2>1, <3>2 DEF ReaderMoves, workerVars, reporterVars, Panicked, Expired
  <2>2. ASSUME NEW w \in WorkerId, WorkerMoves(w) PROVE ~Expired' /\ (Panicked' => SomeBad)
    <3>1. ~WorkerEpipe(w)
      BY <2>0, WorkerIsServed
    <3>2. CASE WorkerOnBadFile(w)
      <4>1. \A v \in WorkerId : wpc'[v] # "expired"
        BY <1>0, <2>0, <3>2 DEF WorkerOnBadFile, WorkerTypeOK
      <4> QED
        BY <2>0, <2>2, <3>2, <4>1, BadFileIsBad DEF WorkerMoves, reporterVars, Expired
    <3>3. CASE ~WorkerOnBadFile(w)
      <4>1. \A v \in WorkerId : wpc'[v] \notin {"panicked", "expired"}
        BY <1>0, <2>0, <2>2, <3>1, <3>3
           DEF WorkerMoves, WorkerStep, WorkerWatch, WorkerEpollWait, WorkerOnread,
               WorkerDrained, WorkerOnFile, WorkerOnResult, WorkerSend, WorkerBatchDone,
               WorkerTypeOK
      <4> QED
        BY <2>0, <2>2, <4>1 DEF WorkerMoves, readerVars, reporterVars, Panicked, Expired
    <3> QED
      BY <3>2, <3>3
  <2>3. ASSUME NEW w \in WorkerId, WorkerExpires(w) PROVE FALSE
    <3>1. Quiet /\ wpc[w] = "wait"
      BY <1>2, <2>3 DEF WorkerExpires, TimeoutDue, WorkerTimeout, Failed
    <3> QED
      BY <1>2, <3>1, NobodyWaits
  <2>4. CASE ReporterMoves
    <3>1. ppc' # "expired"
      BY <2>0, <2>4 DEF ReporterMoves, ReporterStep, ReporterWatch, ReporterEpollWait, ReporterOnread,
                  ReporterDrained, ReaderOnPacket, WorkerOnPacket, ReporterBatchDone, Hangup
    <3> QED
      BY <1>0, <2>0, <2>4, <3>1 DEF ReporterMoves, readerVars, workerVars, Panicked, Expired,
                                   FailInv
  <2>5. ~ReporterExpires
    <3>1. ReporterExpires => Quiet /\ ppc = "wait"
      BY <1>2 DEF ReporterExpires, TimeoutDue, ReporterTimeout, Failed
    <3> QED
      BY <1>2, <3>1, NobodyWaits
  <2>6. CASE MainJoin \/ UNCHANGED vars
    BY <2>0, <2>6 DEF MainJoin, vars, readerVars, workerVars, reporterVars, Panicked, Expired,
                      FailInv
  <2> QED
    BY <1>0, <2>1, <2>2, <2>3, <2>4, <2>5, <2>6 DEF Next, Exited, FailInv
<1> QED
  BY <1>1, <1>2

\* The reporter hangs up on a worker after the last answer.
LEMMA ShutNext ==
  ASSUME NReaders = 1, ClusterInv, ClusterInv', ShutInv, [Next]_vars
  PROVE  ShutInv'
<1>0. /\ TypeOK /\ StreamsTypeOK /\ ReaderTypeOK /\ WorkerTypeOK /\ ReporterTypeOK
      /\ BufferInv /\ CountInv /\ JoinInv
      /\ TypeOK' /\ PlaceInv'
  BY DEF ClusterInv, ReportInv, PacketInv, TypeOK
<1>s. seen' \subseteq Files
  <2>1. TypeOK' /\ PlaceInv' => (seen \subseteq Files)'
    BY SeenSent, PTL
  <2> QED
    BY <1>0, <2>1 DEF Files
<1>1. ASSUME seen = Files \/ ppc = "expired" PROVE seen' = Files \/ ppc' = "expired"
  <2>1. seen \subseteq seen'
    <3>1. ReporterStep \/ ReporterTimeout => seen \subseteq seen'
      BY DEF ReporterStep, ReporterWatch, ReporterEpollWait, ReporterOnread, ReporterDrained,
             ReaderOnPacket, WorkerOnPacket, ReporterBatchDone, ReporterTimeout
    <3> QED
      BY <3>1 DEF Next, ReaderMoves, WorkerMoves, WorkerExpires, ReporterMoves, ReporterExpires,
                  MainJoin, Exited, vars, reporterVars
  <2>2. ppc = "expired" => ppc' = "expired"
    <3>1. ppc = "expired" => ~ReporterStep /\ ~ReporterTimeout
      BY ReporterDeadStays DEF ReporterDead
    <3> QED
      BY <3>1 DEF Next, ReaderMoves, WorkerMoves, WorkerExpires, ReporterMoves, ReporterExpires,
                  MainJoin, Exited, vars, reporterVars
  <2> QED
    BY <1>s, <1>1, <2>1, <2>2
<1>2. ASSUME NEW w \in WorkerId, ReportStream(w) \in shut' \ shut
      PROVE  seen' = Files \/ ppc' = "expired"
  <2>1. ASSUME NEW r \in ReaderId, ReaderMoves(r) PROVE FALSE
    BY <1>2, <2>1 DEF ReaderMoves, ReaderStep, OnFile, TraverseEnd, TraverseFails, Broadcast, ReportFound,
                      ReaderEpipe, Send, streamVars
  <2>2. ASSUME NEW v \in WorkerId, WorkerMoves(v) \/ WorkerExpires(v) PROVE FALSE
    <3>1. WorkerStep(v) \/ WorkerTimeout(v)
      BY <2>2 DEF WorkerMoves, WorkerExpires
    <3>2. ReportStream(w) \in FileStreams(v)
      BY <1>0, <1>2, <3>1, WorkerEffect DEF Receive, Send, Close
    <3> QED
      BY <3>2, StreamKinds
  <2>3. CASE ReporterMoves \/ ReporterExpires
    <3>1. ReporterStep \/ ReporterTimeout
      BY <2>3 DEF ReporterMoves, ReporterExpires
    <3>2. /\ ReportStream(w) = pcurrent /\ pcurrent \in Stream /\ buf[pcurrent] # <<>>
          /\ (ReaderOnPacket /\ Head(buf[pcurrent]).kind = "result") \/ WorkerOnPacket
      BY <1>0, <1>2, <3>1, ReporterEffect DEF Receive, Close
    <3>3. WorkerOnPacket
      BY <1>0, <3>2, HeadLegal, StreamKinds DEF Legal
    <3>4. readers_files = workers_files + 1
      BY <1>2, <3>3 DEF WorkerOnPacket, Receive
    <3> QED
      BY <3>3, <3>4, LastAnswer DEF ClusterInv
  <2>4. CASE MainJoin
    <3>1. PICK S \in SUBSET Stream : Close(S) /\ (S # {} => ppc \in ReporterDead)
      BY <1>0, <2>4, MainEffect
    <3>2. ppc \in {"ended", "expired"}
      BY <1>0, <1>2, <3>1, CloseEffect DEF ReporterDead, CountInv
    <3>3. seen = Files \/ ppc = "expired"
      BY <1>0, <3>2 DEF CountInv
    <3> QED
      BY <1>1, <3>3
  <2>5. CASE UNCHANGED vars
    BY <1>2, <2>5 DEF vars, streamVars
  <2> QED
    BY <2>1, <2>2, <2>3, <2>4, <2>5 DEF Next, Exited
<1> QED
  BY <1>1, <1>2 DEF ShutInv, ReportStream, Files

\* What holds with one reader only.
RunInv == HeldInv /\ ShutInv /\ FailInv

\* With one reader, it holds in every run.
LEMMA RunInvHolds ==
  ASSUME NReaders = 1
  PROVE  Spec => [](ClusterInv /\ RunInv)
<1>1. Init => ShutInv /\ FailInv
  BY DEF Init, StreamsInit, ReaderInit, WorkerInit, ReporterInit, ShutInv, FailInv, Panicked,
         Expired
<1>2. ClusterInv /\ ClusterInv' /\ RunInv /\ [Next]_vars => RunInv'
  BY HeldNext, ShutNext, FailNext DEF RunInv
<1> QED
  BY <1>1, <1>2, HeldInit, ClusterInvHolds, PTL DEF Spec, RunInv

\* The threads never all wait for each other and nobody waits for a packet that
\* was never sent: the 11-day timeouts fire only when a thread has failed.
THEOREM NothingExpires ==
  ASSUME NReaders = 1
  PROVE  Spec => []ExpiresOnlyAfterPanic
<1>1. RunInv => ExpiresOnlyAfterPanic
  BY DEF RunInv, FailInv, ExpiresOnlyAfterPanic
<1> QED
  BY <1>1, RunInvHolds, PTL

\* A thread dies of an error or times out only if the task fails on one of the
\* files or SRCDIR cannot be walked to the end: no send meets a closed socket
\* unless something has failed before.
THEOREM FailsOnItsInput ==
  ASSUME NReaders = 1
  PROVE  Spec => [](Panicked \/ Expired => SomeBad \/ WalkFailed)
<1>1. RunInv => (Panicked \/ Expired => SomeBad \/ WalkFailed)
  BY DEF RunInv, FailInv
<1> QED
  BY <1>1, RunInvHolds, PTL

-----------------------------------------------------------------------------
(* The steps of the process are steps of TaskRun. *)

Good == {f \in Files : Outcome[f[2]] # "bad"}

Accepted == {f \in Files : Outcome[f[2]] \in FilterLangs}

Reported == UNION {ToSet(final_report[lang]) : lang \in FilterLangs}

Status ==
  IF joined = ThreadCount THEN "exited"
  ELSE IF ppc = "ended" THEN "complete"
  ELSE IF ppc \in {"expired", "panicked"} THEN "partial"
  ELSE "running"

\* What TaskRun's actions say of the process.
LEMMA TaskRunActions ==
  /\ TaskSpecification!TaskInit <=>
       seen = {} /\ Reported = {} /\ ~WalkFailed /\ Status = "running"
  /\ \A f : TaskSpecification!Answer(f) <=>
       /\ Status = "running" /\ f \in Good \ seen
       /\ seen' = seen \union {f} /\ Reported' = Reported \union ({f} \intersect Accepted)
       /\ Status' = Status /\ (WalkFailed' <=> WalkFailed)
  /\ TaskSpecification!SourceFails <=>
       /\ Status \in {"running", "partial"} /\ Status' = Status /\ WalkFailed'
       /\ seen' = seen /\ Reported' = Reported
  /\ TaskSpecification!PrintAll <=>
       /\ Status = "running" /\ seen = Files /\ ~WalkFailed /\ Status' = "complete"
       /\ seen' = seen /\ Reported' = Reported /\ (WalkFailed' <=> WalkFailed)
  /\ TaskSpecification!PrintPartial <=>
       /\ Status = "running" /\ (Good # Files \/ WalkFailed) /\ Status' = "partial"
       /\ seen' = seen /\ Reported' = Reported /\ (WalkFailed' <=> WalkFailed)
  /\ TaskSpecification!Exit <=>
       /\ Status \in {"complete", "partial"} /\ Status' = "exited"
       /\ seen' = seen /\ Reported' = Reported /\ (WalkFailed' <=> WalkFailed)
BY DEF TaskSpecification!TaskInit, TaskSpecification!Answer, TaskSpecification!SourceFails,
       TaskSpecification!PrintAll, TaskSpecification!PrintPartial, TaskSpecification!Exit,
       Good, Accepted, Reported, Status, WalkFailed

\* Only a reader's walk fails.
LEMMA WalkStays ==
  ASSUME UNCHANGED rpc
  PROVE  WalkFailed' <=> WalkFailed
BY DEF WalkFailed

\* The reporter ends after all the readers, whose walks have succeeded.
LEMMA EndedReaders ==
  ASSUME ClusterInv, stopped, ppc # "expired", NEW r \in ReaderId
  PROVE  rpc[r] = "ended"
<1>1. HungUp = ReaderId
  BY DEF ClusterInv, ReportInv, CountInv
<1>2. ResultStream(r) \in shut
  BY <1>1 DEF HungUp
<1> QED
  BY <1>2 DEF ClusterInv, DeliveryInv, ResultInv, ResultOf

\* An error that a walk meets is one of SRCDIR, and comes before the process
\* has exited or printed a complete report.
LEMMA WalkFailsStep ==
  ASSUME NReaders = 1, ClusterInv, NEW r \in ReaderId, ReaderMoves(r), TraverseFails(r)
  PROVE  TaskSpecification!SourceFails
<1>0. /\ TypeOK /\ ReaderTypeOK /\ CountInv /\ JoinInv
      /\ rpc[r] = "traverse" /\ rpc' = [rpc EXCEPT ![r] = "failed"] /\ r = 1
      /\ UNCHANGED <<seen, final_report, ppc, joined>>
  BY DEF ClusterInv, ReportInv, TypeOK, ReaderId, TraverseFails, ReaderMoves, reporterVars
<1>1. WalkFailed'
  BY <1>0 DEF WalkFailed, ReaderTypeOK
<1>2. ppc # "ended"
  BY <1>0, EndedReaders DEF CountInv
<1>3. joined # ThreadCount
  <2> SUFFICES ASSUME joined = ThreadCount PROVE FALSE
    OBVIOUS
  <2>1. ThreadCount \in 1..joined /\ Finalised(ThreadCount) = <<"reader", 1>>
    BY ClusterAssumption DEF ThreadCount, Finalised
  <2>2. Dead(<<"reader", 1>>)
    BY <1>0, <2>1 DEF JoinInv
  <2> QED
    BY <1>0, <2>2 DEF Dead, ReaderDead
<1>4. Status \in {"running", "partial"} /\ Status' = Status
  BY <1>0, <1>2, <1>3 DEF Status, ThreadCount
<1>5. seen' = seen /\ Reported' = Reported
  BY <1>0 DEF Reported, ToSet
<1> QED
  BY <1>1, <1>4, <1>5, TaskRunActions

\* As long as the reporter runs, so does the process.
LEMMA StillRunning ==
  ASSUME TypeOK, JoinInv, joined # 0
  PROVE  ppc \in ReporterDead
<1>1. 1 \in 1..joined
  BY ClusterAssumption DEF TypeOK, ThreadCount
<1>2. Dead(Finalised(1)) /\ Finalised(1) = <<"reporter", 0>>
  BY <1>1 DEF JoinInv, Finalised
<1> QED
  BY <1>2 DEF Dead

\* Counting a worker's answer answers its file.
LEMMA AnswerStep ==
  ASSUME ClusterInv, ClusterInv', WorkerOnPacket, joined' = joined, UNCHANGED rpc
  PROVE  \E f \in Files : TaskSpecification!Answer(f)
<1>0. /\ TypeOK /\ StreamsTypeOK /\ ReporterTypeOK /\ BufferInv /\ PlaceInv /\ JoinInv
      /\ ppc = "recv" /\ ppc' # "panicked"
  BY DEF ClusterInv, ReportInv, PacketInv, TypeOK, CountInv, WorkerOnPacket, ReporterHead
<1>1. PICK packet : packet = Head(ReporterIncoming)
  OBVIOUS
<1>2. /\ packet \in Packet /\ packet.kind = "report"
      /\ pcurrent \in Stream /\ pcurrent \in ReporterStreams /\ buf[pcurrent] # <<>>
      /\ Task(packet) /\ seen' = seen \union {packet.file}
  BY <1>0, <1>1, ReporterHeadFacts DEF WorkerOnPacket, ReporterIncoming
<1>3. PICK f : f = packet.file
  OBVIOUS
<1>4. f \in Files /\ f \in File /\ f \notin seen
  BY <1>0, <1>1, <1>3, AnswerIsNew, FilesFacts
<1>5. packet.language = Outcome[f[2]] /\ packet.language \in Languages
  <2>1. Legal(pcurrent, packet)
    BY <1>0, <1>1, <1>2, HeadLegal DEF ReporterIncoming
  <2>2. pcurrent[1] = "report"
    BY <1>2, <2>1, StreamKinds DEF ReporterStreams, Legal
  <2> QED
    BY <1>2, <1>3, <2>1, <2>2, PacketFields DEF Legal
<1>6. f \in Good \ seen
  BY <1>4, <1>5 DEF Good, Languages
<1>7. Reported' = Reported \union ({f} \intersect Accepted)
  <2>1. CASE packet.language \in FilterLangs
    <3>1. PICK lang \in FilterLangs : lang = packet.language
      BY <2>1
    <3>2. final_report' = [final_report EXCEPT ![lang] = Append(final_report[lang], f)]
      BY <1>2, <1>3, <3>1 DEF Task
    <3>3. \A l \in FilterLangs :
            ToSet(final_report'[l]) =
              IF l = lang THEN ToSet(final_report[l]) \union {f} ELSE ToSet(final_report[l])
      <4>1. final_report[lang] \in Seq(File)
        BY <1>0 DEF ReporterTypeOK
      <4>2. ToSet(Append(final_report[lang], f)) = ToSet(final_report[lang]) \union {f}
        BY <1>4, <4>1, AppendSet
      <4> QED
        BY <1>0, <3>2, <4>2 DEF ReporterTypeOK
    <3>4. f \in Accepted
      BY <1>4, <1>5, <2>1 DEF Accepted
    <3>5. Reported' = UNION {ToSet(final_report'[l]) : l \in FilterLangs}
      BY DEF Reported, ToSet
    <3>6. UNION {ToSet(final_report'[l]) : l \in FilterLangs} = Reported \union {f}
      BY <3>3 DEF Reported
    <3> QED
      BY <3>4, <3>5, <3>6
  <2>2. CASE packet.language \notin FilterLangs
    <3>1. final_report' = final_report
      BY <1>2, <2>2 DEF Task
    <3>2. f \notin Accepted
      BY <1>5, <2>2 DEF Accepted
    <3> QED
      BY <3>1, <3>2 DEF Reported, ToSet
  <2> QED
    BY <2>1, <2>2
<1>8. Status = "running" /\ Status' = Status
  <2>1. joined = 0
    BY <1>0, StillRunning DEF ReporterDead
  <2>2. joined # ThreadCount
    BY <2>1, ClusterAssumption DEF ThreadCount
  <2>3. ppc' \in {"recv", "events"}
    BY <1>0 DEF WorkerOnPacket, Hangup
  <2> QED
    BY <1>0, <2>2, <2>3 DEF Status, ThreadCount
<1> QED
  BY <1>2, <1>3, <1>4, <1>6, <1>7, <1>8, WalkStays, TaskRunActions

\* Every step of the process is one of TaskRun, or invisible there.
LEMMA StepIsTaskStep ==
  ASSUME NReaders = 1, ClusterInv, ClusterInv', RunInv, RunInv', [Next]_vars
  PROVE  [TaskSpecification!TaskNext]_(TaskSpecification!taskVars)
<1> DEFINE Same == /\ seen' = seen /\ Reported' = Reported
                   /\ (WalkFailed' <=> WalkFailed) /\ Status' = Status
<1>0. /\ TypeOK /\ ReaderTypeOK /\ JoinInv /\ CountInv /\ ppc # "panicked" /\ ppc' # "panicked"
      /\ ThreadCount \in Nat /\ ThreadCount >= 3 /\ ThreadCount' = ThreadCount
  BY ClusterAssumption DEF ClusterInv, ReportInv, TypeOK, CountInv, ThreadCount
<1>1. ASSUME Same PROVE UNCHANGED TaskSpecification!taskVars
  BY <1>1 DEF TaskSpecification!taskVars, Reported, Status, WalkFailed
<1>2. ASSUME UNCHANGED <<seen, final_report>> PROVE seen' = seen /\ Reported' = Reported
  BY <1>2 DEF Reported, ToSet
<1>3. ASSUME UNCHANGED <<seen, final_report, ppc, joined>>, WalkFailed' <=> WalkFailed
      PROVE  Same
  BY <1>0, <1>2, <1>3 DEF Status
<1>4. ASSUME NEW r \in ReaderId, ReaderMoves(r) PROVE Same \/ TaskSpecification!TaskNext
  <2>1. CASE TraverseFails(r)
    BY <1>4, <2>1, WalkFailsStep DEF TaskSpecification!TaskNext
  <2>2. CASE ~TraverseFails(r)
    <3>1. \A q \in ReaderId : rpc'[q] = "failed" <=> rpc[q] = "failed"
      BY <1>0, <1>4, <2>2 DEF ReaderMoves, ReaderStep, OnFile, HasMoreFiles, TraverseEnd,
                              Broadcast, ReportFound, ReaderEpipe, Sending, ReaderTypeOK
    <3>2. WalkFailed' <=> WalkFailed
      BY <3>1 DEF WalkFailed
    <3> QED
      BY <1>3, <1>4, <3>2 DEF ReaderMoves, reporterVars
  <2> QED
    BY <2>1, <2>2
<1>5. ASSUME NEW w \in WorkerId, WorkerMoves(w) \/ WorkerExpires(w) PROVE Same
  BY <1>3, <1>5, WalkStays DEF WorkerMoves, WorkerExpires, readerVars, reporterVars
<1>6. ASSUME ReporterMoves PROVE Same \/ TaskSpecification!TaskNext
  <2>0. /\ joined' = joined /\ rpc' = rpc /\ ReporterStep /\ ppc \notin ReporterDead
        /\ joined # ThreadCount /\ Status = "running"
    <3>1. joined' = joined /\ rpc' = rpc /\ ReporterStep /\ ppc \notin ReporterDead
      BY <1>6, ReporterDeadStays DEF ReporterMoves, readerVars
    <3>2. joined = 0
      BY <1>0, <3>1, StillRunning
    <3>3. joined # ThreadCount
      BY <1>0, <3>2
    <3> QED
      BY <3>1, <3>3 DEF Status, ReporterDead
  <2>1. CASE WorkerOnPacket
    BY <2>0, <2>1, AnswerStep DEF TaskSpecification!TaskNext
  <2>2. CASE ReporterBatchDone /\ stopped
    <3>1. seen = Files
      BY <1>0, <2>0, <2>2 DEF CountInv, ReporterDead
    <3>2. UNCHANGED <<seen, final_report>> /\ ppc' = "ended"
      BY <2>2 DEF ReporterBatchDone
    <3>3. Status' = "complete"
      BY <1>0, <2>0, <3>2 DEF Status
    <3>4. ~WalkFailed
      BY <2>0, <2>2, EndedReaders DEF WalkFailed, ReporterDead
    <3>5. TaskSpecification!PrintAll
      BY <1>2, <2>0, <3>1, <3>2, <3>3, <3>4, WalkStays, TaskRunActions
    <3> QED
      BY <3>5 DEF TaskSpecification!TaskNext
  <2>3. CASE \/ ReporterWatch \/ ReporterEpollWait \/ ReporterOnread \/ ReporterDrained
             \/ ReaderOnPacket \/ (ReporterBatchDone /\ ~stopped)
    <3>1. UNCHANGED <<seen, final_report>> /\ ppc' \in {"wait", "events", "recv"}
      BY <1>0, <2>3 DEF ReporterWatch, ReporterEpollWait, ReporterOnread, ReporterDrained,
                        ReaderOnPacket, ReporterBatchDone, Hangup
    <3>2. Status' = "running"
      BY <1>0, <2>0, <3>1 DEF Status
    <3> QED
      BY <1>2, <2>0, <3>1, <3>2, WalkStays
  <2> QED
    BY <2>0, <2>1, <2>2, <2>3 DEF ReporterStep
<1>7. ASSUME ReporterExpires PROVE TaskSpecification!TaskNext
  <2>1. /\ joined' = joined /\ ppc = "wait" /\ ppc' = "expired"
        /\ UNCHANGED <<rpc, seen, final_report>>
    BY <1>7 DEF ReporterExpires, ReporterTimeout, readerVars
  <2>2. joined # ThreadCount
    BY <1>0, <2>1, StillRunning DEF ReporterDead
  <2>3. Status = "running" /\ Status' = "partial"
    BY <1>0, <2>1, <2>2 DEF Status
  <2>4. SomeBad' \/ WalkFailed
    <3>1. WalkFailed' <=> WalkFailed
      BY <2>1, WalkStays
    <3> QED
      BY <2>1, <3>1 DEF RunInv, FailInv, Expired
  <2>5. Good # Files \/ WalkFailed
    BY <2>4 DEF SomeBad, Good, Files
  <2>6. TaskSpecification!PrintPartial
    BY <1>2, <2>1, <2>3, <2>5, WalkStays, TaskRunActions
  <2> QED
    BY <2>6 DEF TaskSpecification!TaskNext
<1>8. ASSUME MainJoin PROVE Same \/ TaskSpecification!TaskNext
  <2>1. /\ joined < ThreadCount /\ joined' = joined + 1 /\ joined \in Nat
        /\ UNCHANGED <<rpc, seen, final_report, ppc>>
    BY <1>0, <1>8 DEF MainJoin, readerVars, reporterVars, TypeOK
  <2>2. CASE joined + 1 = ThreadCount
    <3>1. joined # 0 /\ joined # ThreadCount
      BY <1>0, <2>1, <2>2
    <3>2. ppc \in {"ended", "expired"}
      BY <1>0, <3>1, StillRunning DEF ReporterDead
    <3>3. Status \in {"complete", "partial"} /\ Status' = "exited"
      BY <1>0, <2>1, <2>2, <3>1, <3>2 DEF Status
    <3>4. TaskSpecification!Exit
      BY <1>2, <2>1, <3>3, WalkStays, TaskRunActions
    <3> QED
      BY <3>4 DEF TaskSpecification!TaskNext
  <2>3. CASE joined + 1 # ThreadCount
    <3>1. joined # ThreadCount /\ joined' # ThreadCount'
      BY <1>0, <2>1, <2>3
    <3> QED
      BY <1>2, <2>1, <3>1, WalkStays DEF Status
  <2> QED
    BY <2>2, <2>3
<1>9. ASSUME UNCHANGED vars PROVE Same
  BY <1>3, <1>9, WalkStays DEF vars, readerVars, reporterVars
<1> QED
  BY <1>1, <1>4, <1>5, <1>6, <1>7, <1>8, <1>9 DEF Next, Exited

\* Threads, sockets and finalisers together take no step that TaskRun does not
\* allow: each file is answered once, only accepted ones are reported, and the
\* report is complete unless the task fails on a file or the walk of SRCDIR
\* fails.
THEOREM TaskRunSteps ==
  ASSUME NReaders = 1
  PROVE  Spec => /\ TaskSpecification!TaskInit
                 /\ [][TaskSpecification!TaskNext]_(TaskSpecification!taskVars)
<1>1. Init => TaskSpecification!TaskInit
  <2> SUFFICES ASSUME Init PROVE TaskSpecification!TaskInit
    OBVIOUS
  <2>1. /\ seen = {} /\ ppc = "start" /\ joined = 0
        /\ \A lang \in FilterLangs : final_report[lang] = <<>>
    BY DEF Init, ReporterInit
  <2>2. Reported = {}
    BY <2>1 DEF Reported, ToSet
  <2>3. Status = "running"
    BY <2>1, ClusterAssumption DEF Status, ThreadCount
  <2>4. ~WalkFailed
    BY DEF Init, ReaderInit, WalkFailed
  <2> QED
    BY <2>1, <2>2, <2>3, <2>4, TaskRunActions
<1>2. ClusterInv /\ ClusterInv' /\ RunInv /\ RunInv' /\ [Next]_vars
        => [TaskSpecification!TaskNext]_(TaskSpecification!taskVars)
  BY StepIsTaskStep
<1> QED
  BY <1>1, <1>2, RunInvHolds, PTL DEF Spec
=============================================================================
