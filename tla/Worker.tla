------------------------------- MODULE Worker -------------------------------
(***************************************************************************)
(* logic/threads/worker.lua after its sockets are connected: an epoll loop *)
(* over the readers' sockets that runs the task on each file and sends the *)
(* answer to the reporter with a blocking send.                            *)
(***************************************************************************)
EXTENDS Streams

VARIABLES
  wpc,         \* where worker w is
  wevents,     \* events of the current epoll_wait not yet dispatched
  wcurrent,    \* the stream onread is draining
  wanswer,     \* what task(packet.file) returned, while it is being sent
  wunfinished  \* worker.lua: readers_unfinished

workerVars == <<wpc, wevents, wcurrent, wanswer, wunfinished>>

NoAnswer == [kind |-> "none"]

\* ended: the loop was stopped; expired: it was stopped by ontimeout;
\* panicked: an error reached the top of the thread, its sockets stay open.
WorkerDead == {"ended", "expired", "panicked"}

WorkerTypeOK ==
  /\ wpc \in [WorkerId -> {"start", "wait", "events", "recv", "send"} \union WorkerDead]
  /\ wevents \in [WorkerId -> SUBSET Stream]
  /\ wcurrent \in [WorkerId -> Stream \union {NoStream}]
  /\ wanswer \in [WorkerId -> Packet \union {NoAnswer}]
  /\ wunfinished \in [WorkerId -> Int]
  /\ \A w \in WorkerId :
       /\ wevents[w] \subseteq FileStreams(w)
       /\ wpc[w] \in {"recv", "send"} => wcurrent[w] \in FileStreams(w)
       /\ wpc[w] = "send" => wanswer[w].kind = "report"

WorkerInit ==
  /\ wpc = [w \in WorkerId |-> "start"]
  /\ wevents = [w \in WorkerId |-> {}]
  /\ wcurrent = [w \in WorkerId |-> NoStream]
  /\ wanswer = [w \in WorkerId |-> NoAnswer]
  /\ wunfinished = [w \in WorkerId |-> NReaders]

WorkerIncoming(w) == buf[wcurrent[w]]

\* Make the readers' sockets non-blocking and watch them.
WorkerWatch(w) ==
  /\ wpc[w] = "start"
  /\ Watch(FileStreams(w))
  /\ wpc' = [wpc EXCEPT ![w] = "wait"]
  /\ UNCHANGED <<wevents, wcurrent, wanswer, wunfinished>>

\* epoll_wait returns; its batch is served in any order.
WorkerEpollWait(w) ==
  /\ wpc[w] = "wait"
  /\ Available(FileStreams(w)) # {}
  /\ wevents' = [wevents EXCEPT ![w] = Available(FileStreams(w))]
  /\ TakeEvents(FileStreams(w))
  /\ wpc' = [wpc EXCEPT ![w] = "events"]
  /\ UNCHANGED <<wcurrent, wanswer, wunfinished>>

\* The next event of the batch: onread(fd).
WorkerOnread(w) ==
  /\ wpc[w] = "events"
  /\ \E s \in wevents[w] :
       /\ wevents' = [wevents EXCEPT ![w] = @ \ {s}]
       /\ wcurrent' = [wcurrent EXCEPT ![w] = s]
  /\ wpc' = [wpc EXCEPT ![w] = "recv"]
  /\ UNCHANGED <<wanswer, wunfinished>>
  /\ UNCHANGED streamVars

\* Mutant of WorkerDrained: recv reads once instead of until EAGAIN.
WorkerDrainedEarly(w) ==
  /\ wpc[w] = "recv"
  /\ wpc' = [wpc EXCEPT ![w] = "events"]
  /\ wcurrent' = [wcurrent EXCEPT ![w] = NoStream]
  /\ UNCHANGED <<wevents, wanswer, wunfinished>>
  /\ UNCHANGED streamVars

\* recv answers EAGAIN: the socket is drained, onread returns.
WorkerDrained(w) ==
  /\ wpc[w] = "recv"
  /\ WorkerIncoming(w) = <<>>
  /\ wpc' = [wpc EXCEPT ![w] = "events"]
  /\ wcurrent' = [wcurrent EXCEPT ![w] = NoStream]
  /\ UNCHANGED <<wevents, wanswer, wunfinished>>
  /\ UNCHANGED streamVars

WorkerHead(w, kind) ==
  /\ wpc[w] = "recv"
  /\ WorkerIncoming(w) # <<>>
  /\ Head(WorkerIncoming(w)).kind = kind

\* Mutant of WorkerOnFile: the packet is left in r_buf after its callback.
WorkerOnFileAgain(w) ==
  LET f == Head(WorkerIncoming(w)).file
  IN  /\ WorkerHead(w, "file")
      /\ Outcome[f[2]] # "bad"
      /\ wanswer' = [wanswer EXCEPT ![w] = ReportPacket(f, Outcome[f[2]])]
      /\ wpc' = [wpc EXCEPT ![w] = "send"]
      /\ UNCHANGED <<wevents, wcurrent, wunfinished>>
      /\ UNCHANGED streamVars

\* A file the task can handle: its answer is to be sent to the reporter.
WorkerOnFile(w) ==
  LET f == Head(WorkerIncoming(w)).file
  IN  /\ WorkerHead(w, "file")
      /\ Outcome[f[2]] # "bad"
      /\ Receive(wcurrent[w])
      /\ wanswer' = [wanswer EXCEPT ![w] = ReportPacket(f, Outcome[f[2]])]
      /\ wpc' = [wpc EXCEPT ![w] = "send"]
      /\ UNCHANGED <<wevents, wcurrent, wunfinished>>

\* readfile or the task raises: onerror(nil) raises again, the thread dies.
WorkerOnBadFile(w) ==
  /\ WorkerHead(w, "file")
  /\ Outcome[Head(WorkerIncoming(w)).file[2]] = "bad"
  /\ Receive(wcurrent[w])
  /\ wpc' = [wpc EXCEPT ![w] = "panicked"]
  /\ UNCHANGED <<wevents, wcurrent, wanswer, wunfinished>>

\* {result}: onhup unwatches and closes this reader's socket.
WorkerOnResult(w) ==
  /\ WorkerHead(w, "result")
  /\ Close({wcurrent[w]})
  /\ wunfinished' = [wunfinished EXCEPT ![w] = @ - 1]
  /\ wpc' = [wpc EXCEPT ![w] = "events"]
  /\ wcurrent' = [wcurrent EXCEPT ![w] = NoStream]
  /\ UNCHANGED <<wevents, wanswer>>

\* reporter:send(task(packet.file)) returns and the drain goes on.
WorkerSend(w) ==
  /\ wpc[w] = "send"
  /\ Send(ReportStream(w), wanswer[w])
  /\ wanswer' = [wanswer EXCEPT ![w] = NoAnswer]
  /\ wpc' = [wpc EXCEPT ![w] = "recv"]
  /\ UNCHANGED <<wevents, wcurrent, wunfinished>>

\* The reporter closed this worker's socket: the send raises.
WorkerEpipe(w) ==
  /\ wpc[w] = "send"
  /\ ReportStream(w) \in shut
  /\ wpc' = [wpc EXCEPT ![w] = "panicked"]
  /\ UNCHANGED <<wevents, wcurrent, wanswer, wunfinished>>
  /\ UNCHANGED streamVars

\* The batch is served: leave the loop if onhup stopped it, else wait again.
WorkerBatchDone(w) ==
  /\ wpc[w] = "events"
  /\ wevents[w] = {}
  /\ wpc' = [wpc EXCEPT ![w] = IF wunfinished[w] = 0 THEN "ended" ELSE "wait"]
  /\ UNCHANGED <<wevents, wcurrent, wanswer, wunfinished>>
  /\ UNCHANGED streamVars

\* epoll_wait times out: ontimeout stops the loop and the thread ends.
WorkerTimeout(w) ==
  /\ wpc[w] = "wait"
  /\ Available(FileStreams(w)) = {}
  /\ wpc' = [wpc EXCEPT ![w] = "expired"]
  /\ UNCHANGED <<wevents, wcurrent, wanswer, wunfinished>>
  /\ UNCHANGED streamVars

WorkerStep(w) ==
  \/ WorkerWatch(w)
  \/ WorkerEpollWait(w)
  \/ WorkerOnread(w)
  \/ WorkerDrained(w)
  \/ WorkerOnFile(w)
  \/ WorkerOnBadFile(w)
  \/ WorkerOnResult(w)
  \/ WorkerSend(w)
  \/ WorkerEpipe(w)
  \/ WorkerBatchDone(w)

WorkerBlocked(w) ==
  \/ wpc[w] \in WorkerDead
  \/ wpc[w] = "wait" /\ Available(FileStreams(w)) = {}
  \/ wpc[w] = "send" /\ SendBlocked(ReportStream(w))
=============================================================================
