------------------------------ MODULE Reporter ------------------------------
(***************************************************************************)
(* logic/threads/reporter.lua after its clients are accepted: an epoll     *)
(* loop over the readers' and the workers' sockets that counts files,      *)
(* collects the accepted ones and stops when the two counts agree and      *)
(* every reader has hung up.                                               *)
(***************************************************************************)
EXTENDS Streams

VARIABLES
  ppc,                 \* where the reporter is
  pevents,             \* events of the current epoll_wait not yet dispatched
  pcurrent,            \* the stream onread is draining
  readers_files,
  workers_files,
  readers_unfinished,
  stopped,             \* epoll:stop was called, the epoll fd is closed
  final_report,        \* final_report[lang]: articles of that language
  seen                 \* history: the files a report was received for

reporterVars == <<ppc, pevents, pcurrent, readers_files, workers_files,
                  readers_unfinished, stopped, final_report, seen>>

\* filter_langs of the languages task.
FilterLangs == {"en", "ru"}

ReporterDead == {"ended", "expired", "panicked"}

\* The loop was left and final_report printed.
Printed == ppc \in {"ended", "expired"}

ReporterTypeOK ==
  /\ ppc \in {"start", "wait", "events", "recv"} \union ReporterDead
  /\ pevents \subseteq ReporterStreams
  /\ pcurrent \in ReporterStreams \union {NoStream}
  /\ ppc = "recv" => pcurrent # NoStream
  /\ readers_files \in Nat
  /\ workers_files \in Nat
  /\ readers_unfinished \in Int
  /\ stopped \in BOOLEAN
  /\ final_report \in [FilterLangs -> Seq(File)]
  /\ seen \subseteq File

ReporterInit ==
  /\ ppc = "start"
  /\ pevents = {}
  /\ pcurrent = NoStream
  /\ readers_files = 0
  /\ workers_files = 0
  /\ readers_unfinished = NReaders
  /\ stopped = FALSE
  /\ final_report = [lang \in FilterLangs |-> <<>>]
  /\ seen = {}

ReporterIncoming == buf[pcurrent]

\* reader:recv and worker:recv share a queue discipline, not a callback.
ReporterHead(kind) ==
  /\ ppc = "recv"
  /\ ReporterIncoming # <<>>
  /\ Head(ReporterIncoming).kind = kind

\* Watch every reader's and every worker's socket.
ReporterWatch ==
  /\ ppc = "start"
  /\ Watch(ReporterStreams)
  /\ ppc' = "wait"
  /\ UNCHANGED <<pevents, pcurrent, readers_files, workers_files,
                 readers_unfinished, stopped, final_report, seen>>

ReporterEpollWait ==
  /\ ppc = "wait"
  /\ Available(ReporterStreams) # {}
  /\ pevents' = Available(ReporterStreams)
  /\ TakeEvents(ReporterStreams)
  /\ ppc' = "events"
  /\ UNCHANGED <<pcurrent, readers_files, workers_files,
                 readers_unfinished, stopped, final_report, seen>>

ReporterOnread ==
  /\ ppc = "events"
  /\ \E s \in pevents : pcurrent' = s /\ pevents' = pevents \ {s}
  /\ ppc' = "recv"
  /\ UNCHANGED <<readers_files, workers_files, readers_unfinished, stopped,
                 final_report, seen>>
  /\ UNCHANGED streamVars

\* recv answers EAGAIN: onread returns.
ReporterDrained ==
  /\ ppc = "recv"
  /\ ReporterIncoming = <<>>
  /\ ppc' = "events"
  /\ pcurrent' = NoStream
  /\ UNCHANGED <<pevents, readers_files, workers_files, readers_unfinished,
                 stopped, final_report, seen>>
  /\ UNCHANGED streamVars

\* Mutant of Hangup: the last reader's hangup stops the loop, counts unseen.
HangupUncounted(rfiles, wfiles, unfinished) ==
  IF stopped
    THEN /\ ppc' = "panicked"
         /\ Receive(pcurrent)
         /\ UNCHANGED <<readers_unfinished, stopped, pcurrent>>
    ELSE /\ ppc' = "events"
         /\ Close({pcurrent})
         /\ readers_unfinished' = unfinished
         /\ stopped' = (unfinished = 0)
         /\ pcurrent' = NoStream

\* onhup(pcurrent) once the counters are rfiles, wfiles and unfinished: close
\* the socket and stop the loop when nothing is left to come.  After a stop the
\* epoll fd is closed, unwatch fails and the assertion ends the thread.
Hangup(rfiles, wfiles, unfinished) ==
  IF stopped
    THEN /\ ppc' = "panicked"
         /\ Receive(pcurrent)
         /\ UNCHANGED <<readers_unfinished, stopped, pcurrent>>
    ELSE /\ ppc' = "events"
         /\ Close({pcurrent})
         /\ readers_unfinished' = unfinished
         /\ stopped' = (unfinished = 0 /\ rfiles = wfiles)
         /\ pcurrent' = NoStream

\* {result = {files_found}} from a reader, which then counts as hung up.
ReaderOnPacket ==
  LET rfiles == readers_files + Head(ReporterIncoming).found
  IN  /\ ReporterHead("result")
      /\ readers_files' = rfiles
      /\ Hangup(rfiles, workers_files, readers_unfinished - 1)
      /\ UNCHANGED <<pevents, workers_files, final_report, seen>>

\* Mutant of Task: the article replaces the language's list.
TaskOverwriting(packet) ==
  final_report' = IF packet.language \in FilterLangs
                    THEN [final_report EXCEPT ![packet.language] = <<packet.file>>]
                    ELSE final_report

\* task(packet) of reporters/languages.lua: the article joins its language.
Task(packet) ==
  final_report' = IF packet.language \in FilterLangs
                    THEN [final_report EXCEPT ![packet.language] = Append(@, packet.file)]
                    ELSE final_report

\* Mutant of WorkerOnPacket: only accepted answers are counted.
WorkerOnPacketAccepted ==
  LET packet == Head(ReporterIncoming)
      wfiles == workers_files + (IF packet.language \in FilterLangs THEN 1 ELSE 0)
  IN  /\ ReporterHead("report")
      /\ workers_files' = wfiles
      /\ seen' = seen \union {packet.file}
      /\ Task(packet)
      /\ IF readers_files = wfiles
           THEN Hangup(readers_files, wfiles, readers_unfinished)
           ELSE /\ Receive(pcurrent)
                /\ UNCHANGED <<ppc, pcurrent, readers_unfinished, stopped>>
      /\ UNCHANGED <<pevents, readers_files>>

\* Mutant of WorkerOnPacket: hang up once there are at least as many answers.
WorkerOnPacketAtLeast ==
  LET packet == Head(ReporterIncoming)
      wfiles == workers_files + 1
  IN  /\ ReporterHead("report")
      /\ workers_files' = wfiles
      /\ seen' = seen \union {packet.file}
      /\ Task(packet)
      /\ IF readers_files <= wfiles
           THEN Hangup(readers_files, wfiles, readers_unfinished)
           ELSE /\ Receive(pcurrent)
                /\ UNCHANGED <<ppc, pcurrent, readers_unfinished, stopped>>
      /\ UNCHANGED <<pevents, readers_files>>

\* A worker's answer: count it, report it, and hang up on this worker when as
\* many files were answered as readers have announced so far.
WorkerOnPacket ==
  LET packet == Head(ReporterIncoming)
      wfiles == workers_files + 1
  IN  /\ ReporterHead("report")
      /\ workers_files' = wfiles
      /\ seen' = seen \union {packet.file}
      /\ Task(packet)
      /\ IF readers_files = wfiles
           THEN Hangup(readers_files, wfiles, readers_unfinished)
           ELSE /\ Receive(pcurrent)
                /\ UNCHANGED <<ppc, pcurrent, readers_unfinished, stopped>>
      /\ UNCHANGED <<pevents, readers_files>>

\* The batch is served: print the report if the loop was stopped.
ReporterBatchDone ==
  /\ ppc = "events"
  /\ pevents = {}
  /\ ppc' = IF stopped THEN "ended" ELSE "wait"
  /\ UNCHANGED <<pevents, pcurrent, readers_files, workers_files,
                 readers_unfinished, stopped, final_report, seen>>
  /\ UNCHANGED streamVars

\* Mutant of ReporterTimeout: the loop is not stopped.
ReporterTimeoutIgnored ==
  /\ ppc = "wait"
  /\ Available(ReporterStreams) = {}
  /\ UNCHANGED <<reporterVars, streamVars>>

\* epoll_wait times out: stop, and print what was collected.
ReporterTimeout ==
  /\ ppc = "wait"
  /\ Available(ReporterStreams) = {}
  /\ ppc' = "expired"
  /\ stopped' = TRUE
  /\ UNCHANGED <<pevents, pcurrent, readers_files, workers_files,
                 readers_unfinished, final_report, seen>>
  /\ UNCHANGED streamVars

ReporterStep ==
  \/ ReporterWatch
  \/ ReporterEpollWait
  \/ ReporterOnread
  \/ ReporterDrained
  \/ ReaderOnPacket
  \/ WorkerOnPacket
  \/ ReporterBatchDone

ReporterBlocked ==
  \/ ppc \in ReporterDead
  \/ ppc = "wait" /\ Available(ReporterStreams) = {}
=============================================================================
