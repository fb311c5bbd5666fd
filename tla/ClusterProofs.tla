--------------------------- MODULE ClusterProofs ---------------------------
(***************************************************************************)
(* Theorems about Cluster, for every number of readers, workers and files, *)
(* every limit and capacity and every outcome of the task: types, that no  *)
(* edge-triggered event is lost, and that main closes receivers before     *)
(* senders.                                                                *)
(***************************************************************************)
EXTENDS Cluster, TLAPS

\* The sets of streams a thread receives on are sets of streams.
LEMMA StreamSets ==
  /\ \A r \in ReaderId : \A w \in WorkerId :
       FileStream(r, w) \in FileStreams(w) /\ FileStream(r, w) \in Stream
  /\ \A w \in WorkerId : FileStreams(w) \subseteq Stream
  /\ ReporterStreams \subseteq Stream
  /\ \A w \in WorkerId : ReportStream(w) \in ReporterStreams
  /\ \A r \in ReaderId : ResultStream(r) \in ReporterStreams
<1>1. \A r \in ReaderId : \A w \in WorkerId : FileStream(r, w) \in FileStreams(w)
  BY DEF FileStreams
<1>2. \A w \in WorkerId : FileStreams(w) \subseteq Stream
  BY DEF Stream
<1>3. ReporterStreams \subseteq Stream
  BY DEF Stream
<1>4. \A w \in WorkerId : ReportStream(w) \in ReporterStreams
  BY DEF ReporterStreams
<1>5. \A r \in ReaderId : ResultStream(r) \in ReporterStreams
  BY DEF ReporterStreams
<1> QED
  BY <1>1, <1>2, <1>3, <1>4, <1>5

\* NoStream is no stream.
LEMMA NoStreamIsNone == NoStream \notin Stream
BY DEF NoStream, Stream, FileStreams, ReporterStreams, FileStream, ReportStream, ResultStream

-----------------------------------------------------------------------------
(* The operations on streams keep their types. *)

\* A send appends a packet and may fire an edge.
LEMMA SendType ==
  ASSUME StreamsTypeOK, NEW s \in Stream, NEW packet \in Packet, Send(s, packet)
  PROVE  StreamsTypeOK'
BY DEF StreamsTypeOK, Send

\* Watching adds streams to the epoll set.
LEMMA WatchType ==
  ASSUME StreamsTypeOK, NEW S \in SUBSET Stream, Watch(S)
  PROVE  StreamsTypeOK'
BY DEF StreamsTypeOK, Watch

\* epoll_wait only takes edges away.
LEMMA TakeEventsType ==
  ASSUME StreamsTypeOK, NEW S, TakeEvents(S)
  PROVE  StreamsTypeOK'
BY DEF StreamsTypeOK, TakeEvents

\* Receiving drops the head of a stream that has one.
LEMMA ReceiveType ==
  ASSUME StreamsTypeOK, NEW s \in Stream, buf[s] # <<>>, Receive(s)
  PROVE  StreamsTypeOK'
BY DEF StreamsTypeOK, Receive

\* Closing empties streams.
LEMMA CloseType ==
  ASSUME StreamsTypeOK, NEW S \in SUBSET Stream, Close(S)
  PROVE  StreamsTypeOK'
<1>1. buf' \in [Stream -> Seq(Packet)]
  BY DEF StreamsTypeOK, Close
<1> QED
  BY <1>1 DEF StreamsTypeOK, Close

\* The packets of the program are packets.
LEMMA PacketTypes ==
  /\ \A f \in File : FilePacket(f) \in Packet
  /\ \A n \in 0..NFiles : ResultPacket(n) \in Packet
  /\ \A f \in File : \A lang \in Languages : ReportPacket(f, lang) \in Packet
BY DEF Packet, FilePacket, ResultPacket, ReportPacket

\* What a packet of a kind carries.
LEMMA PacketFields ==
  ASSUME NEW p \in Packet
  PROVE  /\ p.kind = "file" => p.file \in File
         /\ p.kind = "result" => p.found \in 0..NFiles
         /\ p.kind = "report" => p.file \in File /\ p.language \in Languages
BY DEF Packet

\* A stream that is not empty has a packet at its head.
LEMMA HeadType ==
  ASSUME StreamsTypeOK, NEW s \in Stream, buf[s] # <<>>
  PROVE  Head(buf[s]) \in Packet
BY DEF StreamsTypeOK

\* No more files are sent than there are, or than the limit.
LEMMA ExpectedBounds ==
  Expected \in Nat /\ Expected <= NFiles /\ Expected <= FilesLimit
BY ClusterAssumption DEF Expected

-----------------------------------------------------------------------------
(* Type correctness: one lemma per component, one step per action. *)

\* A reader's next packet goes to one of its workers or to the reporter.
LEMMA TargetType ==
  ASSUME ReaderTypeOK, NEW r \in ReaderId, Sending(r)
  PROVE  Target(r) \in Stream
<1>1. CASE rpc[r] = "traverse"
  BY <1>1, StreamSets DEF Target, ReaderTypeOK
<1>2. CASE rpc[r] = "broadcast"
  <2>1. bcast[r] \in WorkerId
    BY <1>2, ClusterAssumption DEF ReaderTypeOK, WorkerId
  <2> QED
    BY <1>2, <2>1, StreamSets DEF Target, ReaderTypeOK
<1>3. CASE rpc[r] = "report"
  BY <1>3, StreamSets DEF Target
<1> QED
  BY <1>1, <1>2, <1>3 DEF Sending, HasMoreFiles

\* What the types say of one reader.
LEMMA ReaderFacts ==
  ASSUME ReaderTypeOK, NEW r \in ReaderId
  PROVE  /\ files_found[r] \in Nat /\ files_found[r] <= Expected
         /\ bcast[r] \in Nat /\ 1 <= bcast[r] /\ bcast[r] <= NWorkers + 1
         /\ round_robin_next_client_index[r] \in WorkerId
         /\ rpc[r] = "traverse" => files_found[r] < FilesLimit /\ bcast[r] = 1
         /\ rpc[r] = "broadcast" => bcast[r] <= NWorkers
BY ClusterAssumption, ExpectedBounds DEF ReaderTypeOK

\* A step of a reader keeps the types of its variables and of the streams.
LEMMA ReaderStepType ==
  ASSUME StreamsTypeOK, ReaderTypeOK, NEW r \in ReaderId, ReaderStep(r)
  PROVE  StreamsTypeOK' /\ ReaderTypeOK'
<1> USE ReaderFacts
<1>1. CASE OnFile(r)
  <2> DEFINE n == files_found[r] + 1
  <2>1. n \in 1..Expected /\ n \in 1..NFiles
    BY <1>1, ExpectedBounds, ClusterAssumption DEF OnFile, HasMoreFiles, Expected
  <2>2. FilePacket(<<r, n>>) \in Packet
    BY <2>1, PacketTypes DEF File
  <2>3. StreamsTypeOK'
    BY <1>1, <2>2, SendType, TargetType DEF OnFile, Sending
  <2>4. NextClient(round_robin_next_client_index[r]) \in WorkerId
    BY ClusterAssumption DEF NextClient, WorkerId
  <2>5. /\ files_found' = [files_found EXCEPT ![r] = n]
        /\ rpc' = [rpc EXCEPT ![r] = IF n >= FilesLimit THEN "broadcast" ELSE @]
        /\ UNCHANGED <<clients, bcast>>
        /\ rpc[r] = "traverse"
    BY <1>1 DEF OnFile, HasMoreFiles
  <2>6. round_robin_next_client_index' \in [ReaderId -> WorkerId]
    BY <1>1, <2>4 DEF OnFile, ReaderTypeOK
  <2>7. files_found' \in [ReaderId -> 0..Expected]
    BY <2>1, <2>5, ExpectedBounds DEF ReaderTypeOK
  <2>8. rpc' \in [ReaderId -> {"traverse", "broadcast", "report"} \union ReaderDead]
    BY <2>5 DEF ReaderTypeOK
  <2>9. ASSUME NEW q \in ReaderId
        PROVE  /\ rpc'[q] = "traverse" => files_found'[q] < FilesLimit /\ bcast'[q] = 1
               /\ rpc'[q] = "broadcast" => bcast'[q] <= NWorkers
    <3>1. CASE q = r
      BY <3>1, <2>1, <2>5, ClusterAssumption, ExpectedBounds DEF ReaderTypeOK
    <3>2. CASE q # r
      BY <3>2, <2>5 DEF ReaderTypeOK
    <3> QED
      BY <3>1, <3>2
  <2> QED
    BY <2>3, <2>5, <2>6, <2>7, <2>8, <2>9 DEF ReaderTypeOK
<1>2. CASE TraverseEnd(r)
  <2>1. StreamsTypeOK'
    BY <1>2 DEF TraverseEnd, StreamsTypeOK, streamVars
  <2>2. /\ rpc' = [rpc EXCEPT ![r] = "broadcast"]
        /\ UNCHANGED <<files_found, clients, round_robin_next_client_index, bcast>>
        /\ rpc[r] = "traverse"
    BY <1>2 DEF TraverseEnd
  <2>3. bcast[r] <= NWorkers
    BY <2>2, ClusterAssumption
  <2> QED
    BY <2>1, <2>2, <2>3 DEF ReaderTypeOK
<1>3. CASE Broadcast(r)
  <2>1. ResultPacket(files_found[r]) \in Packet
    BY PacketTypes, ExpectedBounds, ClusterAssumption
  <2>2. StreamsTypeOK'
    BY <1>3, <2>1, SendType, TargetType DEF Broadcast, Sending
  <2>3. /\ rpc' = [rpc EXCEPT ![r] = IF bcast[r] = NWorkers THEN "report" ELSE @]
        /\ bcast' = [bcast EXCEPT ![r] = @ + 1]
        /\ UNCHANGED <<files_found, clients, round_robin_next_client_index>>
        /\ rpc[r] = "broadcast"
    BY <1>3 DEF Broadcast
  <2>4. bcast[r] + 1 \in 1..(NWorkers + 1) /\ (bcast[r] # NWorkers => bcast[r] + 1 <= NWorkers)
    BY <2>3, ClusterAssumption
  <2>5. bcast' \in [ReaderId -> 1..(NWorkers + 1)]
    BY <2>3, <2>4 DEF ReaderTypeOK
  <2>6. rpc' \in [ReaderId -> {"traverse", "broadcast", "report"} \union ReaderDead]
    BY <2>3 DEF ReaderTypeOK
  <2>7. ASSUME NEW q \in ReaderId
        PROVE  /\ rpc'[q] = "traverse" => files_found'[q] < FilesLimit /\ bcast'[q] = 1
               /\ rpc'[q] = "broadcast" => bcast'[q] <= NWorkers
    BY <2>3, <2>4 DEF ReaderTypeOK
  <2> QED
    BY <2>2, <2>3, <2>5, <2>6, <2>7 DEF ReaderTypeOK
<1>4. CASE ReportFound(r)
  <2>1. ResultPacket(files_found[r]) \in Packet
    BY PacketTypes, ExpectedBounds, ClusterAssumption
  <2>2. StreamsTypeOK'
    BY <1>4, <2>1, SendType, TargetType DEF ReportFound, Sending
  <2>3. ReaderTypeOK'
    BY <1>4 DEF ReportFound, ReaderTypeOK, ReaderDead
  <2> QED
    BY <2>2, <2>3
<1>5. CASE ReaderEpipe(r)
  <2>1. StreamsTypeOK'
    BY <1>5 DEF ReaderEpipe, StreamsTypeOK, streamVars
  <2>2. ReaderTypeOK'
    BY <1>5 DEF ReaderEpipe, ReaderTypeOK, ReaderDead
  <2> QED
    BY <2>1, <2>2
<1>6. CASE TraverseFails(r)
  <2>1. StreamsTypeOK'
    BY <1>6 DEF TraverseFails, StreamsTypeOK, streamVars
  <2>2. ReaderTypeOK'
    BY <1>6 DEF TraverseFails, ReaderTypeOK, ReaderDead
  <2> QED
    BY <2>1, <2>2
<1> QED
  BY <1>1, <1>2, <1>3, <1>4, <1>5, <1>6 DEF ReaderStep

\* What the types say of one worker.
LEMMA WorkerFacts ==
  ASSUME WorkerTypeOK, NEW w \in WorkerId
  PROVE  /\ wevents[w] \subseteq FileStreams(w)
         /\ wpc[w] \in {"recv", "send"} => wcurrent[w] \in FileStreams(w)
         /\ wpc[w] = "send" => wanswer[w] \in Packet
         /\ wunfinished[w] \in Int
BY DEF WorkerTypeOK, NoAnswer

\* A packet the worker takes off its current stream, and where it was.
LEMMA WorkerHeadFacts ==
  ASSUME StreamsTypeOK, WorkerTypeOK, NEW w \in WorkerId, NEW kind, WorkerHead(w, kind)
  PROVE  /\ wpc[w] = "recv"
         /\ wcurrent[w] \in Stream
         /\ buf[wcurrent[w]] # <<>>
         /\ Head(buf[wcurrent[w]]) \in Packet
         /\ Head(buf[wcurrent[w]]).kind = kind
<1>1. wpc[w] = "recv" /\ wcurrent[w] \in Stream
  BY StreamSets, WorkerFacts DEF WorkerHead
<1> QED
  BY <1>1, HeadType DEF WorkerHead, WorkerIncoming

\* A step of a worker keeps the types of its variables and of the streams.
LEMMA WorkerStepType ==
  ASSUME StreamsTypeOK, WorkerTypeOK, NEW w \in WorkerId,
         WorkerStep(w) \/ WorkerTimeout(w)
  PROVE  StreamsTypeOK' /\ WorkerTypeOK'
<1> USE WorkerFacts
<1>1. CASE WorkerWatch(w)
  <2>1. StreamsTypeOK'
    BY <1>1, StreamSets, WatchType DEF WorkerWatch
  <2>2. WorkerTypeOK'
    BY <1>1 DEF WorkerWatch, WorkerTypeOK
  <2> QED
    BY <2>1, <2>2
<1>2. CASE WorkerEpollWait(w)
  <2>1. StreamsTypeOK'
    BY <1>2, TakeEventsType DEF WorkerEpollWait
  <2>2. Available(FileStreams(w)) \subseteq FileStreams(w) /\ FileStreams(w) \subseteq Stream
    BY StreamSets DEF Available
  <2>3. WorkerTypeOK'
    BY <1>2, <2>2 DEF WorkerEpollWait, WorkerTypeOK
  <2> QED
    BY <2>1, <2>3
<1>3. CASE WorkerOnread(w)
  <2>1. StreamsTypeOK'
    BY <1>3 DEF WorkerOnread, StreamsTypeOK, streamVars
  <2>2. PICK s \in wevents[w] :
          /\ wevents' = [wevents EXCEPT ![w] = @ \ {s}]
          /\ wcurrent' = [wcurrent EXCEPT ![w] = s]
    BY <1>3 DEF WorkerOnread
  <2>3. s \in FileStreams(w) /\ s \in Stream
    BY StreamSets
  <2>4. WorkerTypeOK'
    BY <1>3, <2>2, <2>3 DEF WorkerOnread, WorkerTypeOK
  <2> QED
    BY <2>1, <2>4
<1>4. CASE WorkerDrained(w)
  <2>1. StreamsTypeOK'
    BY <1>4 DEF WorkerDrained, StreamsTypeOK, streamVars
  <2>2. WorkerTypeOK'
    BY <1>4 DEF WorkerDrained, WorkerTypeOK
  <2> QED
    BY <2>1, <2>2
<1>5. CASE WorkerOnFile(w)
  <2> DEFINE f == Head(WorkerIncoming(w)).file
             answer == ReportPacket(f, Outcome[f[2]])
  <2>1. f \in File /\ StreamsTypeOK'
    BY <1>5, WorkerHeadFacts, PacketFields, ReceiveType DEF WorkerOnFile, WorkerIncoming
  <2>2. Outcome[f[2]] \in Languages
    BY <1>5, <2>1, ClusterAssumption DEF WorkerOnFile, File
  <2>3. answer \in Packet /\ answer.kind = "report"
    BY <2>1, <2>2, PacketTypes DEF ReportPacket
  <2>4. /\ wanswer' = [wanswer EXCEPT ![w] = answer]
        /\ wpc' = [wpc EXCEPT ![w] = "send"]
        /\ UNCHANGED <<wevents, wcurrent, wunfinished>>
        /\ wpc[w] = "recv"
    BY <1>5 DEF WorkerOnFile, WorkerHead
  <2> HIDE DEF f, answer
  <2>5. WorkerTypeOK'
    BY <2>3, <2>4 DEF WorkerTypeOK
  <2> QED
    BY <2>1, <2>5
<1>6. CASE WorkerOnBadFile(w)
  <2>1. StreamsTypeOK'
    BY <1>6, WorkerHeadFacts, ReceiveType DEF WorkerOnBadFile
  <2>2. WorkerTypeOK'
    BY <1>6 DEF WorkerOnBadFile, WorkerTypeOK, WorkerDead
  <2> QED
    BY <2>1, <2>2
<1>7. CASE WorkerOnResult(w)
  <2>1. StreamsTypeOK'
    BY <1>7, WorkerHeadFacts, CloseType DEF WorkerOnResult
  <2>2. WorkerTypeOK'
    BY <1>7 DEF WorkerOnResult, WorkerTypeOK
  <2> QED
    BY <2>1, <2>2
<1>8. CASE WorkerSend(w)
  <2>1. wpc[w] = "send" /\ wanswer[w] \in Packet /\ ReportStream(w) \in Stream
    BY <1>8, StreamSets DEF WorkerSend
  <2>2. StreamsTypeOK'
    BY <1>8, <2>1, SendType DEF WorkerSend
  <2>3. WorkerTypeOK'
    BY <1>8 DEF WorkerSend, WorkerTypeOK
  <2> QED
    BY <2>2, <2>3
<1>9. CASE WorkerEpipe(w)
  <2>1. StreamsTypeOK'
    BY <1>9 DEF WorkerEpipe, StreamsTypeOK, streamVars
  <2>2. WorkerTypeOK'
    BY <1>9 DEF WorkerEpipe, WorkerTypeOK, WorkerDead
  <2> QED
    BY <2>1, <2>2
<1>10. CASE WorkerBatchDone(w)
  <2>1. StreamsTypeOK'
    BY <1>10 DEF WorkerBatchDone, StreamsTypeOK, streamVars
  <2>2. WorkerTypeOK'
    BY <1>10 DEF WorkerBatchDone, WorkerTypeOK, WorkerDead
  <2> QED
    BY <2>1, <2>2
<1>11. CASE WorkerTimeout(w)
  <2>1. StreamsTypeOK'
    BY <1>11 DEF WorkerTimeout, StreamsTypeOK, streamVars
  <2>2. WorkerTypeOK'
    BY <1>11 DEF WorkerTimeout, WorkerTypeOK, WorkerDead
  <2> QED
    BY <2>1, <2>2
<1> QED
  BY <1>1, <1>2, <1>3, <1>4, <1>5, <1>6, <1>7, <1>8, <1>9, <1>10, <1>11 DEF WorkerStep

\* The packet the reporter takes off its current stream, and where it was.
LEMMA ReporterHeadFacts ==
  ASSUME StreamsTypeOK, ReporterTypeOK, NEW kind, ReporterHead(kind)
  PROVE  /\ pcurrent \in ReporterStreams /\ pcurrent \in Stream
         /\ buf[pcurrent] # <<>>
         /\ Head(buf[pcurrent]) \in Packet
         /\ Head(buf[pcurrent]).kind = kind
<1>1. pcurrent \in ReporterStreams
  BY DEF ReporterHead, ReporterTypeOK
<1>2. pcurrent \in Stream
  BY <1>1, StreamSets
<1> QED
  BY <1>1, <1>2, HeadType DEF ReporterHead, ReporterIncoming

\* A hangup keeps the types of the streams and of what it assigns.
LEMMA HangupType ==
  ASSUME StreamsTypeOK, ReporterTypeOK, pcurrent \in Stream, buf[pcurrent] # <<>>,
         NEW rfiles, NEW wfiles, NEW unfinished \in Int,
         Hangup(rfiles, wfiles, unfinished)
  PROVE  /\ StreamsTypeOK'
         /\ ppc' \in {"events", "panicked"}
         /\ readers_unfinished' \in Int
         /\ stopped' \in BOOLEAN
         /\ pcurrent' \in {pcurrent, NoStream}
<1>1. CASE stopped
  BY <1>1, ReceiveType DEF Hangup, ReporterTypeOK
<1>2. CASE ~stopped
  BY <1>2, CloseType DEF Hangup, ReporterTypeOK
<1> QED
  BY <1>1, <1>2

\* The task keeps the report a sequence of files for each language.
LEMMA TaskType ==
  ASSUME ReporterTypeOK, NEW packet \in Packet, packet.kind = "report", Task(packet)
  PROVE  final_report' \in [FilterLangs -> Seq(File)]
<1>1. packet.file \in File
  BY PacketFields
<1> QED
  BY <1>1 DEF Task, ReporterTypeOK

\* A step of the reporter keeps the types of its variables and of the streams.
LEMMA ReporterStepType ==
  ASSUME StreamsTypeOK, ReporterTypeOK, ReporterStep \/ ReporterTimeout
  PROVE  StreamsTypeOK' /\ ReporterTypeOK'
<1>1. CASE ReporterWatch
  <2>1. StreamsTypeOK'
    BY <1>1, StreamSets, WatchType DEF ReporterWatch
  <2>2. ReporterTypeOK'
    BY <1>1 DEF ReporterWatch, ReporterTypeOK
  <2> QED
    BY <2>1, <2>2
<1>2. CASE ReporterEpollWait
  <2>1. StreamsTypeOK'
    BY <1>2, TakeEventsType DEF ReporterEpollWait
  <2>2. ReporterTypeOK'
    BY <1>2 DEF ReporterEpollWait, ReporterTypeOK, Available
  <2> QED
    BY <2>1, <2>2
<1>3. CASE ReporterOnread
  <2>1. StreamsTypeOK'
    BY <1>3 DEF ReporterOnread, StreamsTypeOK, streamVars
  <2>2. pevents' \subseteq ReporterStreams /\ pcurrent' \in ReporterStreams
    BY <1>3 DEF ReporterOnread, ReporterTypeOK
  <2>3. pcurrent' # NoStream
    BY <2>2, StreamSets, NoStreamIsNone
  <2>4. ReporterTypeOK'
    BY <1>3, <2>2, <2>3 DEF ReporterOnread, ReporterTypeOK
  <2> QED
    BY <2>1, <2>4
<1>4. CASE ReporterDrained
  <2>1. StreamsTypeOK'
    BY <1>4 DEF ReporterDrained, StreamsTypeOK, streamVars
  <2>2. ReporterTypeOK'
    BY <1>4 DEF ReporterDrained, ReporterTypeOK
  <2> QED
    BY <2>1, <2>2
<1>5. CASE ReaderOnPacket
  <2> DEFINE rfiles == readers_files + Head(ReporterIncoming).found
  <2>1. /\ pcurrent \in Stream
        /\ buf[pcurrent] # <<>>
        /\ Head(buf[pcurrent]).found \in 0..NFiles
    BY <1>5, ReporterHeadFacts, PacketFields DEF ReaderOnPacket
  <2>2. rfiles \in Nat
    BY <2>1, ClusterAssumption DEF ReporterTypeOK, ReporterIncoming
  <2>3. /\ readers_files' = rfiles
        /\ Hangup(rfiles, workers_files, readers_unfinished - 1)
        /\ UNCHANGED <<pevents, workers_files, final_report, seen>>
    BY <1>5 DEF ReaderOnPacket
  <2> HIDE DEF rfiles
  <2>4. readers_unfinished - 1 \in Int
    BY DEF ReporterTypeOK
  <2>5. /\ StreamsTypeOK'
        /\ ppc' \in {"events", "panicked"}
        /\ readers_unfinished' \in Int
        /\ stopped' \in BOOLEAN
        /\ pcurrent' \in {pcurrent, NoStream}
    BY <2>1, <2>3, <2>4, HangupType
  <2>6. ReporterTypeOK'
    BY <2>2, <2>3, <2>5 DEF ReporterTypeOK, ReporterDead
  <2> QED
    BY <2>5, <2>6
<1>6. CASE WorkerOnPacket
  <2> DEFINE packet == Head(ReporterIncoming)
             wfiles == workers_files + 1
  <2>1. /\ ppc = "recv"
        /\ pcurrent \in Stream
        /\ buf[pcurrent] # <<>>
        /\ packet \in Packet
        /\ packet.kind = "report"
    BY <1>6, ReporterHeadFacts DEF WorkerOnPacket, ReporterIncoming, ReporterHead
  <2>2. packet.file \in File
    BY <2>1, PacketFields
  <2>3. /\ workers_files' = wfiles
        /\ seen' = seen \union {packet.file}
        /\ Task(packet)
        /\ UNCHANGED <<pevents, readers_files>>
    BY <1>6 DEF WorkerOnPacket
  <2>4. \/ Hangup(readers_files, wfiles, readers_unfinished)
        \/ Receive(pcurrent) /\ UNCHANGED <<ppc, pcurrent, readers_unfinished, stopped>>
    BY <1>6 DEF WorkerOnPacket
  <2>5. wfiles \in Nat /\ final_report' \in [FilterLangs -> Seq(File)] /\ seen' \subseteq File
    BY <2>1, <2>2, <2>3, TaskType DEF ReporterTypeOK
  <2> HIDE DEF packet, wfiles
  <2>6. CASE Hangup(readers_files, wfiles, readers_unfinished)
    <3>1. readers_unfinished \in Int
      BY DEF ReporterTypeOK
    <3>2. /\ StreamsTypeOK'
          /\ ppc' \in {"events", "panicked"}
          /\ readers_unfinished' \in Int
          /\ stopped' \in BOOLEAN
          /\ pcurrent' \in {pcurrent, NoStream}
      BY <2>1, <2>6, <3>1, HangupType
    <3>3. ReporterTypeOK'
      BY <2>3, <2>5, <3>2 DEF ReporterTypeOK, ReporterDead
    <3> QED
      BY <3>2, <3>3
  <2>7. CASE Receive(pcurrent) /\ UNCHANGED <<ppc, pcurrent, readers_unfinished, stopped>>
    <3>1. StreamsTypeOK'
      BY <2>1, <2>7, ReceiveType
    <3>2. ReporterTypeOK'
      BY <2>3, <2>5, <2>7 DEF ReporterTypeOK
    <3> QED
      BY <3>1, <3>2
  <2> QED
    BY <2>4, <2>6, <2>7
<1>7. CASE ReporterBatchDone
  <2>1. StreamsTypeOK'
    BY <1>7 DEF ReporterBatchDone, StreamsTypeOK, streamVars
  <2>2. ReporterTypeOK'
    BY <1>7 DEF ReporterBatchDone, ReporterTypeOK, ReporterDead
  <2> QED
    BY <2>1, <2>2
<1>8. CASE ReporterTimeout
  <2>1. StreamsTypeOK'
    BY <1>8 DEF ReporterTimeout, StreamsTypeOK, streamVars
  <2>2. ReporterTypeOK'
    BY <1>8 DEF ReporterTimeout, ReporterTypeOK, ReporterDead
  <2> QED
    BY <2>1, <2>2
<1> QED
  BY <1>1, <1>2, <1>3, <1>4, <1>5, <1>6, <1>7, <1>8 DEF ReporterStep

\* The threads main finalises are threads of the process.
LEMMA FinalisedThread ==
  ASSUME NEW k \in 1..ThreadCount
  PROVE  \/ Finalised(k) = <<"reporter", 0>>
         \/ \E w \in WorkerId : Finalised(k) = <<"worker", w>>
         \/ \E r \in ReaderId : Finalised(k) = <<"reader", r>>
<1> USE ClusterAssumption DEF ThreadCount
<1>1. CASE k = 1
  BY <1>1 DEF Finalised
<1>2. CASE k > 1 /\ k <= 1 + NWorkers
  <2>1. NWorkers + 2 - k \in WorkerId
    BY <1>2 DEF WorkerId
  <2> QED
    BY <1>2, <2>1 DEF Finalised
<1>3. CASE k > 1 + NWorkers
  <2>1. NReaders + NWorkers + 2 - k \in ReaderId
    BY <1>3 DEF ReaderId
  <2>2. Finalised(k) = <<"reader", NReaders + NWorkers + 2 - k>>
    BY <1>3 DEF Finalised
  <2> QED
    BY <2>1, <2>2
<1> QED
  BY <1>1, <1>2, <1>3

\* A thread receives on streams.
LEMMA ReceivedStreams ==
  ASSUME NEW k \in 1..ThreadCount
  PROVE  Received(Finalised(k)) \subseteq Stream
BY FinalisedThread, StreamSets DEF Received

\* A step of main keeps the types of the streams and of its counter.
LEMMA MainJoinType ==
  ASSUME TypeOK, MainJoin
  PROVE  StreamsTypeOK' /\ joined' \in 0..ThreadCount
<1>1. joined + 1 \in 1..ThreadCount
  BY ClusterAssumption DEF MainJoin, TypeOK, ThreadCount
<1>2. StreamsTypeOK'
  BY <1>1, ReceivedStreams, CloseType DEF MainJoin, TypeOK
<1> QED
  BY <1>1, <1>2 DEF MainJoin

-----------------------------------------------------------------------------
\* The initial states are well typed.
LEMMA InitType == Init => TypeOK
<1> SUFFICES ASSUME Init PROVE TypeOK
  OBVIOUS
<1> USE ClusterAssumption, ExpectedBounds
<1>1. StreamsTypeOK
  BY DEF Init, StreamsInit, StreamsTypeOK
<1>2. ReaderTypeOK
  <2>1. clients \in [ReaderId -> [WorkerId -> WorkerId]]
    BY DEF Init, ReaderInit, AcceptOrders
  <2> QED
    BY <2>1 DEF Init, ReaderInit, ReaderTypeOK, WorkerId
<1>3. WorkerTypeOK
  BY DEF Init, WorkerInit, WorkerTypeOK
<1>4. ReporterTypeOK
  <2>1. final_report \in [FilterLangs -> Seq(File)]
    BY DEF Init, ReporterInit
  <2>2. readers_unfinished \in Int
    BY DEF Init, ReporterInit
  <2> QED
    BY <2>1, <2>2 DEF Init, ReporterInit, ReporterTypeOK
<1>5. joined \in 0..ThreadCount
  BY DEF Init, ThreadCount
<1> QED
  BY <1>1, <1>2, <1>3, <1>4, <1>5 DEF TypeOK

\* Every step of the process keeps its variables well typed.
LEMMA NextType == TypeOK /\ [Next]_vars => TypeOK'
<1> SUFFICES ASSUME TypeOK, [Next]_vars PROVE TypeOK'
  OBVIOUS
<1> USE DEF TypeOK
<1>1. ASSUME NEW r \in ReaderId, ReaderMoves(r) PROVE TypeOK'
  BY <1>1, ReaderStepType
     DEF ReaderMoves, workerVars, reporterVars, WorkerTypeOK, ReporterTypeOK
<1>2. ASSUME NEW w \in WorkerId, WorkerMoves(w) \/ WorkerExpires(w) PROVE TypeOK'
  BY <1>2, WorkerStepType
     DEF WorkerMoves, WorkerExpires, readerVars, reporterVars, ReaderTypeOK, ReporterTypeOK
<1>3. CASE ReporterMoves \/ ReporterExpires
  BY <1>3, ReporterStepType
     DEF ReporterMoves, ReporterExpires, readerVars, workerVars, ReaderTypeOK, WorkerTypeOK
<1>4. CASE MainJoin
  <2>1. StreamsTypeOK' /\ joined' \in 0..ThreadCount
    BY <1>4, MainJoinType
  <2>2. UNCHANGED <<readerVars, workerVars, reporterVars>>
    BY <1>4 DEF MainJoin
  <2> QED
    BY <2>1, <2>2
       DEF readerVars, workerVars, reporterVars, ReaderTypeOK, WorkerTypeOK, ReporterTypeOK
<1>5. CASE UNCHANGED vars
  BY <1>5 DEF vars, streamVars, readerVars, workerVars, reporterVars,
              StreamsTypeOK, ReaderTypeOK, WorkerTypeOK, ReporterTypeOK
<1> QED
  BY <1>1, <1>2, <1>3, <1>4, <1>5 DEF Next, Exited

\* Every state of the process is well typed: no counter, index or queue of a
\* thread leaves its range, for any number of threads and files.
THEOREM TypeCorrect == Spec => []TypeOK
BY InitType, NextType, PTL DEF Spec

-----------------------------------------------------------------------------
(* Edge-triggered events, and the order in which the threads are finalised. *)

\* Stream s of a live epoll loop is watched until it is closed, and what it
\* holds has a fired edge or an event among P, those still to be served.
Woken(s, P) ==
  /\ s \notin shut => s \in watched
  /\ buf[s] # <<>> => s \in ready \union P

WorkerLive == {"wait", "events", "recv", "send"}

\* Events worker w has taken from epoll_wait and will still drain.
WorkerPending(w) ==
  IF wpc[w] = "wait" THEN {}
  ELSE IF wpc[w] = "events" THEN wevents[w]
  ELSE wevents[w] \union {wcurrent[w]}

WorkerWoken(w) ==
  wpc[w] \in WorkerLive => \A s \in FileStreams(w) : Woken(s, WorkerPending(w))

ReporterPending ==
  IF ppc = "wait" THEN {}
  ELSE IF ppc = "events" THEN pevents
  ELSE pevents \union {pcurrent}

ReporterWoken ==
  ppc \in {"wait", "events", "recv"} =>
    \A s \in ReporterStreams : Woken(s, ReporterPending)

WakeInv == (\A w \in WorkerId : WorkerWoken(w)) /\ ReporterWoken

-----------------------------------------------------------------------------
\* Different threads receive on different streams.
LEMMA ReceiversDisjoint ==
  /\ \A v, w \in WorkerId : v # w => FileStreams(v) \intersect FileStreams(w) = {}
  /\ \A w \in WorkerId : FileStreams(w) \intersect ReporterStreams = {}
<1>1. \A v, w \in WorkerId : v # w => FileStreams(v) \intersect FileStreams(w) = {}
  BY DEF FileStreams, FileStream
<1>2. ASSUME NEW w \in WorkerId, NEW s \in FileStreams(w), s \in ReporterStreams
      PROVE  FALSE
  <2>1. PICK r \in ReaderId : s = <<"file", r, w>>
    BY DEF FileStreams, FileStream
  <2> QED
    BY <1>2, <2>1 DEF ReporterStreams, ReportStream, ResultStream
<1> QED
  BY <1>1, <1>2

\* Sending, receiving and closing keep a stream woken, whoever does it.
LEMMA SendWoken ==
  ASSUME StreamsTypeOK, NEW s \in Stream, NEW P, Woken(s, P),
         NEW t \in Stream, NEW packet, Send(t, packet)
  PROVE  Woken(s, P)'
BY DEF StreamsTypeOK, Woken, Send, CanSend

\* Taking a packet off a stream leaves its edge as it was.
LEMMA ReceiveWoken ==
  ASSUME StreamsTypeOK, NEW s \in Stream, NEW P, Woken(s, P),
         NEW t \in Stream, buf[t] # <<>>, Receive(t)
  PROVE  Woken(s, P)'
BY DEF StreamsTypeOK, Woken, Receive

\* A closed stream is empty, so it needs no edge.
LEMMA CloseWoken ==
  ASSUME StreamsTypeOK, NEW s \in Stream, NEW P, Woken(s, P), NEW S, Close(S)
  PROVE  Woken(s, P)'
BY DEF StreamsTypeOK, Woken, Close

\* Watching never takes an edge away.
LEMMA WatchWoken ==
  ASSUME StreamsTypeOK, NEW s \in Stream, NEW P, Woken(s, P), NEW S, Watch(S)
  PROVE  Woken(s, P)'
BY DEF StreamsTypeOK, Woken, Watch

\* An epoll_wait on other streams leaves a stream as it was.
LEMMA TakeEventsWoken ==
  ASSUME NEW s, NEW P, Woken(s, P), NEW S, s \notin S, TakeEvents(S)
  PROVE  Woken(s, P)'
BY DEF Woken, TakeEvents

\* A step that touches no stream.
LEMMA IdleWoken ==
  ASSUME NEW s, NEW P, Woken(s, P), UNCHANGED streamVars
  PROVE  Woken(s, P)'
BY DEF Woken, streamVars

-----------------------------------------------------------------------------
\* A step keeps the streams of T woken if no epoll_wait on one of them is made.
TouchesNot(T) ==
  \/ \E t \in Stream : \E packet \in Packet : Send(t, packet)
  \/ \E t \in Stream : buf[t] # <<>> /\ Receive(t)
  \/ \E S \in SUBSET Stream : Close(S) \/ Watch(S)
  \/ \E S \in SUBSET Stream : S \intersect T = {} /\ TakeEvents(S)
  \/ UNCHANGED streamVars

\* A step of another thread keeps a stream woken.
LEMMA StaysWoken ==
  ASSUME StreamsTypeOK, NEW T \in SUBSET Stream, TouchesNot(T),
         NEW s \in T, NEW P, Woken(s, P)
  PROVE  Woken(s, P)'
<1>1. CASE \E t \in Stream : \E packet \in Packet : Send(t, packet)
  BY <1>1, SendWoken
<1>2. CASE \E t \in Stream : buf[t] # <<>> /\ Receive(t)
  BY <1>2, ReceiveWoken
<1>3. CASE \E S \in SUBSET Stream : Close(S) \/ Watch(S)
  BY <1>3, CloseWoken, WatchWoken
<1>4. CASE \E S \in SUBSET Stream : S \intersect T = {} /\ TakeEvents(S)
  BY <1>4, TakeEventsWoken
<1>5. CASE UNCHANGED streamVars
  BY <1>5, IdleWoken
<1> QED
  BY <1>1, <1>2, <1>3, <1>4, <1>5 DEF TouchesNot

-----------------------------------------------------------------------------
(* Who touches what: only a thread's own epoll_wait takes edges off its      *)
(* streams.                                                                  *)

\* A reader only sends.
LEMMA ReaderTouches ==
  ASSUME StreamsTypeOK, ReaderTypeOK, NEW r \in ReaderId, ReaderStep(r), NEW T
  PROVE  TouchesNot(T)
<1>1. CASE OnFile(r)
  <2>1. <<r, files_found[r] + 1>> \in File
    BY <1>1, ReaderFacts, ExpectedBounds, ClusterAssumption DEF OnFile, HasMoreFiles, File
  <2> QED
    BY <1>1, <2>1, PacketTypes, TargetType DEF OnFile, Sending, TouchesNot
<1>2. CASE Broadcast(r) \/ ReportFound(r)
  <2>1. files_found[r] \in 0..NFiles
    BY ReaderFacts, ExpectedBounds, ClusterAssumption
  <2> QED
    BY <1>2, <2>1, PacketTypes, TargetType
       DEF Broadcast, ReportFound, Sending, TouchesNot
<1>3. CASE TraverseEnd(r) \/ TraverseFails(r) \/ ReaderEpipe(r)
  BY <1>3 DEF TraverseEnd, TraverseFails, ReaderEpipe, TouchesNot
<1> QED
  BY <1>1, <1>2, <1>3 DEF ReaderStep

\* A worker waits on its own streams only.
LEMMA WorkerTouches ==
  ASSUME StreamsTypeOK, WorkerTypeOK, NEW w \in WorkerId,
         WorkerStep(w) \/ WorkerTimeout(w),
         NEW T, FileStreams(w) \intersect T = {}
  PROVE  TouchesNot(T)
<1> USE DEF TouchesNot
<1>1. CASE WorkerWatch(w) \/ WorkerEpollWait(w)
  BY <1>1, StreamSets DEF WorkerWatch, WorkerEpollWait
<1>2. CASE WorkerOnFile(w) \/ WorkerOnBadFile(w)
  BY <1>2, WorkerHeadFacts DEF WorkerOnFile, WorkerOnBadFile
<1>3. CASE WorkerOnResult(w)
  BY <1>3, WorkerHeadFacts DEF WorkerOnResult
<1>4. CASE WorkerSend(w)
  BY <1>4, StreamSets, WorkerFacts DEF WorkerSend
<1>5. CASE WorkerOnread(w) \/ WorkerDrained(w) \/ WorkerEpipe(w) \/ WorkerBatchDone(w)
             \/ WorkerTimeout(w)
  BY <1>5 DEF WorkerOnread, WorkerDrained, WorkerEpipe, WorkerBatchDone, WorkerTimeout
<1> QED
  BY <1>1, <1>2, <1>3, <1>4, <1>5 DEF WorkerStep

\* A hangup closes a stream, or receives one packet and panics.
LEMMA HangupTouches ==
  ASSUME pcurrent \in Stream, buf[pcurrent] # <<>>, NEW T,
         NEW rfiles, NEW wfiles, NEW unfinished, Hangup(rfiles, wfiles, unfinished)
  PROVE  TouchesNot(T)
BY DEF Hangup, TouchesNot

\* The reporter waits on its own streams only.
LEMMA ReporterTouches ==
  ASSUME StreamsTypeOK, ReporterTypeOK, ReporterStep \/ ReporterTimeout,
         NEW T, ReporterStreams \intersect T = {}
  PROVE  TouchesNot(T)
<1>1. CASE ReporterWatch \/ ReporterEpollWait
  BY <1>1, StreamSets DEF ReporterWatch, ReporterEpollWait, TouchesNot
<1>2. CASE ReaderOnPacket
  BY <1>2, ReporterHeadFacts, HangupTouches DEF ReaderOnPacket
<1>3. CASE WorkerOnPacket
  <2>1. /\ pcurrent \in Stream /\ buf[pcurrent] # <<>>
        /\ \/ Receive(pcurrent)
           \/ Hangup(readers_files, workers_files + 1, readers_unfinished)
    BY <1>3, ReporterHeadFacts DEF WorkerOnPacket
  <2> QED
    BY <2>1, HangupTouches DEF TouchesNot
<1>4. CASE ReporterOnread \/ ReporterDrained \/ ReporterBatchDone \/ ReporterTimeout
  BY <1>4 DEF ReporterOnread, ReporterDrained, ReporterBatchDone, ReporterTimeout, TouchesNot
<1> QED
  BY <1>1, <1>2, <1>3, <1>4 DEF ReporterStep

-----------------------------------------------------------------------------
(* A thread's own steps keep its streams woken. *)

\* While worker w stands still, its streams stay woken.
LEMMA OthersKeepWorkerWoken ==
  ASSUME StreamsTypeOK, NEW w \in WorkerId, WorkerWoken(w), TouchesNot(FileStreams(w)),
         wpc'[w] = wpc[w], wevents'[w] = wevents[w], wcurrent'[w] = wcurrent[w]
  PROVE  WorkerWoken(w)'
<1> SUFFICES ASSUME wpc[w] \in WorkerLive, NEW s \in FileStreams(w)
             PROVE  Woken(s, WorkerPending(w))'
  BY DEF WorkerWoken
<1> DEFINE P == WorkerPending(w)
<1>1. P' = P
  BY DEF WorkerPending
<1>2. Woken(s, P)
  BY DEF WorkerWoken
<1> HIDE DEF P
<1>3. Woken(s, P)'
  BY <1>1, <1>2, StreamSets, StaysWoken
<1> QED
  BY <1>3 DEF P

\* What worker w takes from epoll_wait it drains before it sleeps again.
LEMMA WorkerKeepsWoken ==
  ASSUME StreamsTypeOK, WorkerTypeOK, NEW w \in WorkerId, WorkerWoken(w),
         WorkerStep(w) \/ WorkerTimeout(w)
  PROVE  WorkerWoken(w)'
<1> SUFFICES ASSUME wpc'[w] \in WorkerLive, NEW s \in FileStreams(w)
             PROVE  Woken(s, WorkerPending(w))'
  BY DEF WorkerWoken
<1>0. s \in Stream /\ wevents[w] \subseteq FileStreams(w)
  BY StreamSets, WorkerFacts
<1>a. wpc[w] \in WorkerLive => Woken(s, WorkerPending(w))
  BY DEF WorkerWoken
<1> USE DEF WorkerTypeOK
<1>1. CASE WorkerWatch(w)
  BY <1>0, <1>1 DEF WorkerWatch, WorkerPending, Woken, Watch
<1>2. CASE WorkerEpollWait(w)
  BY <1>0, <1>a, <1>2
     DEF WorkerEpollWait, WorkerPending, WorkerLive, Woken, TakeEvents, Available
<1>3. CASE WorkerOnread(w)
  BY <1>0, <1>a, <1>3 DEF WorkerOnread, WorkerPending, WorkerLive, Woken, streamVars
<1>4. CASE WorkerDrained(w)
  BY <1>0, <1>a, <1>4
     DEF WorkerDrained, WorkerIncoming, WorkerPending, WorkerLive, Woken, streamVars
<1>5. CASE WorkerOnFile(w)
  <2>1. /\ WorkerHead(w, "file") /\ Receive(wcurrent[w])
        /\ wpc' = [wpc EXCEPT ![w] = "send"] /\ UNCHANGED <<wevents, wcurrent>>
    BY <1>5 DEF WorkerOnFile
  <2>2. wpc[w] = "recv" /\ wcurrent[w] \in Stream /\ buf[wcurrent[w]] # <<>>
    BY <2>1, WorkerHeadFacts
  <2>3. WorkerPending(w)' = WorkerPending(w)
    BY <2>1, <2>2 DEF WorkerPending
  <2>4. Woken(s, WorkerPending(w))
    BY <1>a, <2>2 DEF WorkerLive
  <2>5. \A P : Woken(s, P) => Woken(s, P)'
    BY <1>0, <2>1, <2>2, ReceiveWoken
  <2> QED
    BY <2>3, <2>4, <2>5 DEF Woken
<1>6. CASE WorkerOnBadFile(w)
  BY <1>6 DEF WorkerOnBadFile, WorkerLive
<1>7. CASE WorkerOnResult(w)
  BY <1>0, <1>a, <1>7, WorkerHeadFacts
     DEF WorkerOnResult, WorkerPending, WorkerLive, Woken, Close
<1>8. CASE WorkerSend(w)
  BY <1>0, <1>a, <1>8, StreamSets, SendWoken DEF WorkerSend, WorkerPending, WorkerLive, Woken
<1>9. CASE WorkerEpipe(w)
  BY <1>9 DEF WorkerEpipe, WorkerLive
<1>10. CASE WorkerBatchDone(w)
  BY <1>0, <1>a, <1>10 DEF WorkerBatchDone, WorkerPending, WorkerLive, Woken, streamVars
<1>11. CASE WorkerTimeout(w)
  BY <1>11 DEF WorkerTimeout, WorkerLive
<1> QED
  BY <1>1, <1>2, <1>3, <1>4, <1>5, <1>6, <1>7, <1>8, <1>9, <1>10, <1>11 DEF WorkerStep

\* While the reporter stands still, its streams stay woken.
LEMMA OthersKeepReporterWoken ==
  ASSUME StreamsTypeOK, ReporterWoken, TouchesNot(ReporterStreams),
         ppc' = ppc, pevents' = pevents, pcurrent' = pcurrent
  PROVE  ReporterWoken'
<1> SUFFICES ASSUME ppc \in {"wait", "events", "recv"}, NEW s \in ReporterStreams
             PROVE  Woken(s, ReporterPending)'
  BY DEF ReporterWoken
<1> DEFINE P == ReporterPending
<1>1. P' = P
  BY DEF ReporterPending
<1>2. Woken(s, P)
  BY DEF ReporterWoken
<1> HIDE DEF P
<1>3. Woken(s, P)'
  BY <1>1, <1>2, StreamSets, StaysWoken
<1> QED
  BY <1>3 DEF P

\* A hangup empties the stream it leaves, or panics.
LEMMA HangupKeepsWoken ==
  ASSUME StreamsTypeOK, ReporterTypeOK, ReporterWoken, ppc = "recv",
         NEW rfiles, NEW wfiles, NEW unfinished, Hangup(rfiles, wfiles, unfinished),
         pevents' = pevents
  PROVE  ReporterWoken'
<1> SUFFICES ASSUME ppc' \in {"wait", "events", "recv"}, NEW s \in ReporterStreams
             PROVE  Woken(s, ReporterPending)'
  BY DEF ReporterWoken
<1>1. s \in Stream /\ Woken(s, ReporterPending)
  BY StreamSets DEF ReporterWoken
<1> QED
  BY <1>1 DEF Hangup, ReporterPending, Woken, Close

\* What the reporter takes from epoll_wait it drains before it sleeps again.
LEMMA ReporterKeepsWoken ==
  ASSUME StreamsTypeOK, ReporterTypeOK, ReporterWoken, ReporterStep \/ ReporterTimeout
  PROVE  ReporterWoken'
<1>2. CASE ReaderOnPacket
  BY <1>2, HangupKeepsWoken DEF ReaderOnPacket, ReporterHead
<1>3. CASE WorkerOnPacket /\ readers_files = workers_files + 1
  BY <1>3, HangupKeepsWoken DEF WorkerOnPacket, ReporterHead
<1>4. CASE ~ReaderOnPacket /\ ~(WorkerOnPacket /\ readers_files = workers_files + 1)
  <2> SUFFICES ASSUME ppc' \in {"wait", "events", "recv"}, NEW s \in ReporterStreams
               PROVE  Woken(s, ReporterPending)'
    BY DEF ReporterWoken
  <2>0. s \in Stream /\ pevents \subseteq ReporterStreams
    BY StreamSets DEF ReporterTypeOK
  <2>a. ppc \in {"wait", "events", "recv"} => Woken(s, ReporterPending)
    BY DEF ReporterWoken
  <2>1. CASE ReporterWatch
    BY <2>0, <2>1 DEF ReporterWatch, ReporterPending, Woken, Watch
  <2>2. CASE ReporterEpollWait
    BY <2>0, <2>a, <2>2 DEF ReporterEpollWait, ReporterPending, Woken, TakeEvents, Available
  <2>3. CASE ReporterOnread
    BY <2>0, <2>a, <2>3 DEF ReporterOnread, ReporterPending, Woken, streamVars
  <2>4. CASE ReporterDrained
    BY <2>0, <2>a, <2>4
       DEF ReporterDrained, ReporterIncoming, ReporterPending, Woken, streamVars
  <2>5. CASE WorkerOnPacket
    <3>1. Receive(pcurrent) /\ ppc = "recv" /\ UNCHANGED <<ppc, pcurrent, pevents>>
      BY <1>4, <2>5 DEF WorkerOnPacket, ReporterHead
    <3>2. pcurrent \in Stream /\ buf[pcurrent] # <<>>
      BY <2>5, ReporterHeadFacts DEF WorkerOnPacket
    <3> QED
      BY <2>0, <2>a, <3>1, <3>2, ReceiveWoken DEF ReporterPending, Woken
  <2>6. CASE ReporterBatchDone
    BY <2>0, <2>a, <2>6 DEF ReporterBatchDone, ReporterPending, Woken, streamVars
  <2>7. CASE ReporterTimeout
    BY <2>7 DEF ReporterTimeout
  <2> QED
    BY <1>4, <2>1, <2>2, <2>3, <2>4, <2>5, <2>6, <2>7 DEF ReporterStep
<1> QED
  BY <1>2, <1>3, <1>4

-----------------------------------------------------------------------------
(* The invariant. *)

\* No loop runs yet.
LEMMA WakeInit == Init => WakeInv
BY DEF Init, WorkerInit, ReporterInit, WakeInv, WorkerWoken, ReporterWoken, WorkerLive

\* The invariant is inductive, given the types.
LEMMA WakeNext == TypeOK /\ WakeInv /\ [Next]_vars => WakeInv'
<1> SUFFICES ASSUME TypeOK, WakeInv, [Next]_vars PROVE WakeInv'
  OBVIOUS
<1> USE DEF TypeOK, WakeInv
<1>1. ASSUME \A T : TouchesNot(T), UNCHANGED <<wpc, wevents, wcurrent>>,
             UNCHANGED <<ppc, pevents, pcurrent>>
      PROVE  WakeInv'
  BY <1>1, OthersKeepWorkerWoken, OthersKeepReporterWoken
<1>2. ASSUME NEW r \in ReaderId, ReaderMoves(r) PROVE WakeInv'
  BY <1>1, <1>2, ReaderTouches DEF ReaderMoves, workerVars, reporterVars
<1>3. ASSUME NEW w \in WorkerId, WorkerMoves(w) \/ WorkerExpires(w) PROVE WakeInv'
  <2>1. /\ WorkerStep(w) \/ WorkerTimeout(w)
        /\ UNCHANGED <<ppc, pevents, pcurrent>>
    BY <1>3 DEF WorkerMoves, WorkerExpires, reporterVars
  <2>2. WorkerWoken(w)'
    BY <2>1, WorkerKeepsWoken
  <2>3. ASSUME NEW v \in WorkerId, v # w PROVE WorkerWoken(v)'
    <3>1. TouchesNot(FileStreams(v))
      BY <2>1, <2>3, ReceiversDisjoint, WorkerTouches
    <3>2. wpc'[v] = wpc[v] /\ wevents'[v] = wevents[v] /\ wcurrent'[v] = wcurrent[v]
      BY <2>1, <2>3
         DEF WorkerStep, WorkerWatch, WorkerEpollWait, WorkerOnread, WorkerDrained,
             WorkerOnFile, WorkerOnBadFile, WorkerOnResult, WorkerSend, WorkerEpipe,
             WorkerBatchDone, WorkerTimeout, WorkerTypeOK
    <3> QED
      BY <3>1, <3>2, OthersKeepWorkerWoken
  <2>4. ReporterWoken'
    BY <2>1, ReceiversDisjoint, WorkerTouches, OthersKeepReporterWoken
  <2> QED
    BY <2>2, <2>3, <2>4
<1>4. CASE ReporterMoves \/ ReporterExpires
  <2>1. /\ ReporterStep \/ ReporterTimeout
        /\ UNCHANGED <<wpc, wevents, wcurrent>>
    BY <1>4 DEF ReporterMoves, ReporterExpires, workerVars
  <2>2. \A v \in WorkerId : TouchesNot(FileStreams(v))
    BY <2>1, ReceiversDisjoint, ReporterTouches
  <2> QED
    BY <2>1, <2>2, ReporterKeepsWoken, OthersKeepWorkerWoken
<1>5. CASE MainJoin
  <2>1. joined + 1 \in 1..ThreadCount
    BY <1>5, ClusterAssumption DEF MainJoin, ThreadCount
  <2>2. \A T : TouchesNot(T)
    BY <1>5, <2>1, ReceivedStreams DEF MainJoin, TouchesNot
  <2> QED
    BY <1>1, <1>5, <2>2 DEF MainJoin, workerVars, reporterVars
<1>6. CASE UNCHANGED vars
  BY <1>1, <1>6 DEF vars, workerVars, reporterVars, streamVars, TouchesNot
<1> QED
  BY <1>2, <1>3, <1>4, <1>5, <1>6 DEF Next, Exited

\* A sleeping loop has nothing pending, so its packets have edges.
LEMMA WakeInvWakes == WakeInv => NoLostWakeup
BY DEF WakeInv, WorkerWoken, ReporterWoken, WorkerLive, WorkerPending, ReporterPending,
       Woken, NoLostWakeup

\* No edge-triggered event is lost, whatever the numbers of threads, the
\* batches epoll_wait makes and the sockets' sizes: a thread that sleeps in
\* epoll_wait will be woken for every packet in its sockets.
THEOREM NoLostWakeups == Spec => []NoLostWakeup
<1>1. Spec => []WakeInv
  BY TypeCorrect, WakeInit, WakeNext, PTL DEF Spec
<1> QED
  BY <1>1, WakeInvWakes, PTL

-----------------------------------------------------------------------------
(* The order of finalisation. *)

\* The threads main has finalised are dead.
JoinInv == \A k \in 1..joined : Dead(Finalised(k))

\* A dead reader takes no step.
LEMMA ReaderDeadStays ==
  ASSUME ReaderTypeOK, NEW r \in ReaderId, rpc[r] \in ReaderDead,
         NEW q \in ReaderId, ReaderStep(q)
  PROVE  rpc'[r] = rpc[r]
BY DEF ReaderStep, OnFile, TraverseEnd, TraverseFails, Broadcast, ReportFound, ReaderEpipe, Sending,
       HasMoreFiles, ReaderDead, ReaderTypeOK

\* A dead worker takes no step.
LEMMA WorkerDeadStays ==
  ASSUME WorkerTypeOK, NEW w \in WorkerId, wpc[w] \in WorkerDead,
         NEW v \in WorkerId, WorkerStep(v) \/ WorkerTimeout(v)
  PROVE  wpc'[w] = wpc[w]
BY DEF WorkerStep, WorkerWatch, WorkerEpollWait, WorkerOnread, WorkerDrained, WorkerOnFile,
       WorkerOnBadFile, WorkerOnResult, WorkerSend, WorkerEpipe, WorkerBatchDone,
       WorkerTimeout, WorkerHead, WorkerDead, WorkerTypeOK

\* A dead reporter takes no step.
LEMMA ReporterDeadStays ==
  ASSUME ppc \in ReporterDead, ReporterStep \/ ReporterTimeout
  PROVE  FALSE
BY DEF ReporterStep, ReporterWatch, ReporterEpollWait, ReporterOnread, ReporterDrained,
       ReaderOnPacket, WorkerOnPacket, ReporterBatchDone, ReporterTimeout, ReporterHead,
       ReporterDead

\* No step brings a thread back to life.
LEMMA DeadStays ==
  ASSUME TypeOK, [Next]_vars, NEW k \in 1..ThreadCount, Dead(Finalised(k))
  PROVE  Dead(Finalised(k))'
<1> USE DEF TypeOK
<1>1. ppc \in ReporterDead => ppc' \in ReporterDead
  BY ReporterDeadStays
     DEF Next, ReaderMoves, WorkerMoves, WorkerExpires, ReporterMoves, ReporterExpires,
         MainJoin, Exited, vars, reporterVars
<1>2. ASSUME NEW w \in WorkerId, wpc[w] \in WorkerDead PROVE wpc'[w] \in WorkerDead
  BY <1>2, WorkerDeadStays
     DEF Next, ReaderMoves, WorkerMoves, WorkerExpires, ReporterMoves, ReporterExpires,
         MainJoin, Exited, vars, workerVars
<1>3. ASSUME NEW r \in ReaderId, rpc[r] \in ReaderDead PROVE rpc'[r] \in ReaderDead
  BY <1>3, ReaderDeadStays
     DEF Next, ReaderMoves, WorkerMoves, WorkerExpires, ReporterMoves, ReporterExpires,
         MainJoin, Exited, vars, readerVars
<1> QED
  BY <1>1, <1>2, <1>3, FinalisedThread DEF Dead, Finalised

\* No thread is finalised yet.
LEMMA JoinInit == Init => JoinInv
BY DEF Init, JoinInv

\* MainJoin is the one step that finalises a thread, and waits for its death.
LEMMA JoinNext == TypeOK /\ JoinInv /\ [Next]_vars => JoinInv'
<1> SUFFICES ASSUME TypeOK, JoinInv, [Next]_vars, NEW k \in 1..joined'
             PROVE  Dead(Finalised(k))'
  BY DEF JoinInv
<1>0. joined \in Nat /\ joined <= ThreadCount /\ ThreadCount \in Nat
  BY ClusterAssumption DEF TypeOK, ThreadCount
<1>1. CASE MainJoin
  <2>1. k \in 1..ThreadCount /\ (k \in 1..joined \/ k = joined + 1)
    BY <1>0, <1>1 DEF MainJoin
  <2>2. Dead(Finalised(k))
    BY <1>1, <2>1 DEF MainJoin, JoinInv
  <2> QED
    BY <2>1, <2>2, DeadStays
<1>2. CASE ~MainJoin
  <2>1. joined' = joined
    BY <1>2 DEF Next, ReaderMoves, WorkerMoves, WorkerExpires, ReporterMoves,
                ReporterExpires, Exited, vars
  <2>2. k \in 1..ThreadCount /\ Dead(Finalised(k))
    BY <1>0, <2>1 DEF JoinInv
  <2> QED
    BY <2>2, DeadStays
<1> QED
  BY <1>1, <1>2

\* The order of finalisation does the rest.
LEMMA JoinInvOrders == TypeOK /\ JoinInv => ReceiversCloseFirst
<1> SUFFICES ASSUME TypeOK, JoinInv PROVE ReceiversCloseFirst
  OBVIOUS
<1>0. joined \in Nat /\ NWorkers \in Nat /\ NReaders \in Nat
  BY ClusterAssumption DEF TypeOK, ThreadCount
<1>1. joined >= 1 => ppc \in ReporterDead
  BY <1>0 DEF JoinInv, Finalised, Dead
<1>2. ASSUME NEW w \in WorkerId, joined > 1 + NWorkers PROVE wpc[w] \in WorkerDead
  <2> DEFINE k == NWorkers + 2 - w
  <2>1. k \in 1..joined /\ 1 < k /\ k <= 1 + NWorkers /\ NWorkers + 2 - k = w
    BY <1>0, <1>2 DEF WorkerId
  <2>2. Finalised(k) = <<"worker", w>>
    BY <2>1 DEF Finalised
  <2> QED
    BY <2>1, <2>2 DEF JoinInv, Dead
<1>3. ASSUME NEW w \in WorkerId, IsJoined(<<"worker", w>>) PROVE joined >= 1
  BY <1>0, <1>3 DEF IsJoined
<1>4. ASSUME NEW r \in ReaderId, IsJoined(<<"reader", r>>)
      PROVE  joined >= 1 /\ joined > 1 + NWorkers
  <2>1. PICK k \in 1..joined : Finalised(k) = <<"reader", r>>
    BY <1>4 DEF IsJoined
  <2> QED
    BY <1>0, <2>1 DEF Finalised
<1> QED
  BY <1>1, <1>2, <1>3, <1>4 DEF ReceiversCloseFirst

\* Whatever fails or expires, and for any numbers of threads, a socket loses
\* its sending end only after the thread at its receiving end has died, so no
\* event loop ever reads end-of-file.
THEOREM ReceiversFirst == Spec => []ReceiversCloseFirst
<1>1. Spec => []JoinInv
  BY TypeCorrect, JoinInit, JoinNext, PTL DEF Spec
<1> QED
  BY <1>1, TypeCorrect, JoinInvOrders, PTL
=============================================================================
