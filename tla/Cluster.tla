------------------------------ MODULE Cluster ------------------------------
(***************************************************************************)
(* A tgnews process from the moment its threads are connected until main   *)
(* has closed the Lua states of all of them: readers, workers, reporter    *)
(* and the finalisers that lua_close(L) runs in tgnews.c.                  *)
(***************************************************************************)
EXTENDS Reader, Worker, Reporter, FiniteSets

VARIABLE joined  \* how many thread objects lua_close has finalised

vars == <<streamVars, readerVars, workerVars, reporterVars, joined>>

ThreadCount == NReaders + NWorkers + 1

\* Mutant of Finalised: order of creation.
FinalisedForward(k) ==
  IF k <= NReaders THEN <<"reader", k>>
  ELSE IF k <= NReaders + NWorkers THEN <<"worker", k - NReaders>>
  ELSE <<"reporter", 0>>

\* Thread objects are finalised in reverse order of creation; init() creates
\* the readers, then the workers, then the reporter.
Finalised(k) ==
  IF k = 1 THEN <<"reporter", 0>>
  ELSE IF k <= 1 + NWorkers THEN <<"worker", NWorkers + 2 - k>>
  ELSE <<"reader", NReaders + NWorkers + 2 - k>>

IsJoined(thread) == \E k \in 1..joined : Finalised(k) = thread

Dead(thread) ==
  CASE thread[1] = "reporter" -> ppc \in ReporterDead
    [] thread[1] = "worker"   -> wpc[thread[2]] \in WorkerDead
    [] OTHER                  -> rpc[thread[2]] \in ReaderDead

\* The streams a thread receives on: closing its Lua state closes them.
Received(thread) ==
  CASE thread[1] = "reporter" -> ReporterStreams
    [] thread[1] = "worker"   -> FileStreams(thread[2])
    [] OTHER                  -> {}

TypeOK ==
  /\ StreamsTypeOK
  /\ ReaderTypeOK
  /\ WorkerTypeOK
  /\ ReporterTypeOK
  /\ joined \in 0..ThreadCount

Init ==
  /\ StreamsInit
  /\ ReaderInit
  /\ WorkerInit
  /\ ReporterInit
  /\ joined = 0

ReaderMoves(r) ==
  /\ ReaderStep(r)
  /\ UNCHANGED <<workerVars, reporterVars, joined>>

WorkerMoves(w) ==
  /\ WorkerStep(w)
  /\ UNCHANGED <<readerVars, reporterVars, joined>>

ReporterMoves ==
  /\ ReporterStep
  /\ UNCHANGED <<readerVars, workerVars, joined>>

\* Mutant of MainJoin: the threads are joined, their states never closed.
MainJoinOnly ==
  /\ joined < ThreadCount
  /\ Dead(Finalised(joined + 1))
  /\ joined' = joined + 1
  /\ UNCHANGED <<streamVars, readerVars, workerVars, reporterVars>>

\* Mutant of MainJoin: the states are closed without joining the threads.
MainCloseOnly ==
  /\ joined < ThreadCount
  /\ Close(Received(Finalised(joined + 1)))
  /\ joined' = joined + 1
  /\ UNCHANGED <<readerVars, workerVars, reporterVars>>

\* lua_thread_gc: pthread_join, then lua_close, which closes the sockets.
MainJoin ==
  /\ joined < ThreadCount
  /\ Dead(Finalised(joined + 1))
  /\ Close(Received(Finalised(joined + 1)))
  /\ joined' = joined + 1
  /\ UNCHANGED <<readerVars, workerVars, reporterVars>>

MainBlocked == joined < ThreadCount => ~Dead(Finalised(joined + 1))

\* Nothing can move: every thread is dead or waits for another one.
Quiet ==
  /\ \A r \in ReaderId : ReaderBlocked(r)
  /\ \A w \in WorkerId : WorkerBlocked(w)
  /\ ReporterBlocked
  /\ MainBlocked

Expired == ppc = "expired" \/ \E w \in WorkerId : wpc[w] = "expired"

\* The timeouts are of 11 days: the first fires only in a process that has
\* come to rest, the others may follow it at any time.
TimeoutDue == Quiet \/ Expired

WorkerExpires(w) ==
  /\ TimeoutDue
  /\ WorkerTimeout(w)
  /\ UNCHANGED <<readerVars, reporterVars, joined>>

ReporterExpires ==
  /\ TimeoutDue
  /\ ReporterTimeout
  /\ UNCHANGED <<readerVars, workerVars, joined>>

\* main returns.
Exited ==
  /\ joined = ThreadCount
  /\ UNCHANGED vars

Next ==
  \/ \E r \in ReaderId : ReaderMoves(r)
  \/ \E w \in WorkerId : WorkerMoves(w) \/ WorkerExpires(w)
  \/ ReporterMoves
  \/ ReporterExpires
  \/ MainJoin
  \/ Exited

\* The kernel schedules every thread, a blocked call returns once it can, and
\* a timeout that stays due fires.  A walk need not fail: it is no way out of a
\* send that blocks.
Fairness ==
  /\ \A r \in ReaderId : WF_vars(ReaderMoves(r) /\ rpc'[r] # "failed")
  /\ \A w \in WorkerId : WF_vars(WorkerMoves(w)) /\ WF_vars(WorkerExpires(w))
  /\ WF_vars(ReporterMoves)
  /\ WF_vars(ReporterExpires)
  /\ WF_vars(MainJoin)

Spec == Init /\ [][Next]_vars /\ Fairness
-----------------------------------------------------------------------------
(***************************************************************************)
(* Properties.                                                             *)
(***************************************************************************)
Files == ReaderId \X (1..Expected)

\* A reader could not walk SRCDIR to the end.
WalkFailed == \E r \in ReaderId : rpc[r] = "failed"

\* A thread was ended by a file the task fails on or by a peer that hung up.
Panicked ==
  \/ \E r \in ReaderId : rpc[r] = "panicked"
  \/ \E w \in WorkerId : wpc[w] = "panicked"
  \/ ppc = "panicked"

ToSet(seq) == {seq[i] : i \in DOMAIN seq}

\* A run the reporter ended by itself, not on a timeout, has a report on every
\* file every reader sent: no stop condition fires early.
ReportComplete == ppc = "ended" => seen = Files

\* The report lists exactly the answered files whose language is reported, each
\* under its language and once.
ReportFaithful ==
  \A lang \in FilterLangs :
    /\ ToSet(final_report[lang]) = {f \in seen : Outcome[f[2]] = lang}
    /\ Len(final_report[lang]) = Cardinality(ToSet(final_report[lang]))

\* Stream s carries file f, or its answer, at position i.
Carries(s, i, f) ==
  i <= Len(buf[s]) /\ buf[s][i].kind # "result" /\ buf[s][i].file = f

\* Where file f is: on its way to a worker, in a worker's hands, on its way to
\* the reporter, or counted there.
PlacesOf(f) ==
  {p \in Stream \X (1..Capacity) : Carries(p[1], p[2], f)}
  \union {<<<<"worker", w, 0>>, 0>> : w \in {v \in WorkerId : wpc[v] = "send" /\ wanswer[v].file = f}}
  \union (IF f \in seen THEN {<<<<"seen", 0, 0>>, 0>>} ELSE {})

\* Until something fails, every file sent so far is in exactly one place: never
\* dropped with a closed socket, never reported twice.
EveryFileInOnePlace ==
  ~Panicked /\ ~Expired =>
    \A f \in Files : Cardinality(PlacesOf(f)) = (IF f[2] <= files_found[f[1]] THEN 1 ELSE 0)

\* The stop condition compares counters: as many reports are counted as files
\* were answered, and as many announced as the readers that hung up have sent.
CountersMatch ==
  /\ workers_files = Cardinality(seen)
  /\ readers_files = Expected * (NReaders - readers_unfinished)

\* Edge-triggered events are not lost: a stream that holds packets while its
\* receiver sleeps, or has no event left for it, has a fired edge.
NoLostWakeup ==
  /\ \A w \in WorkerId : \A s \in FileStreams(w) :
       wpc[w] = "wait" /\ buf[s] # <<>> => s \in ready
  /\ \A s \in ReporterStreams : ppc = "wait" /\ buf[s] # <<>> => s \in ready

\* A thread's Lua state, and so its ends of all sockets, is closed only when
\* every thread that receives from it is dead: no event loop ever sees EOF.
ReceiversCloseFirst ==
  /\ \A w \in WorkerId : IsJoined(<<"worker", w>>) => ppc \in ReporterDead
  /\ \A r \in ReaderId : IsJoined(<<"reader", r>>) =>
       ppc \in ReporterDead /\ \A w \in WorkerId : wpc[w] \in WorkerDead

\* The process comes to rest on its own unless a thread failed: no circular
\* wait on full sockets, nobody waits for a packet that was never sent, but for
\* those of a reader whose walk failed.
ExpiresOnlyAfterPanic == Expired => Panicked \/ WalkFailed

\* The reporter never hangs up again once it has stopped its epoll loop.
ReporterNeverPanics == ppc # "panicked"

\* A socket that is closed while main still runs holds nothing but the packet
\* being handled.
NothingDropped ==
  [][joined' = joined => \A s \in shut' \ shut : Len(buf[s]) = 1]_vars

\* main returns.
EventuallyExits == <>(joined = ThreadCount)

\* Even with failures, no file is in two places: none is answered twice.
NoFileTwice == \A f \in Files : Cardinality(PlacesOf(f)) <= 1

\* A printed report covers every file the task can handle, if SRCDIR could be
\* walked to the end.
GoodFilesReported ==
  Printed /\ ~WalkFailed => {f \in Files : Outcome[f[2]] # "bad"} \subseteq seen

\* The promise of the whole program; files it fails on, and a walk that fails,
\* excuse a partial report.
TaskSpecification == INSTANCE TaskRun WITH
  Good <- {f \in Files : Outcome[f[2]] # "bad"},
  Accepted <- {f \in Files : Outcome[f[2]] \in FilterLangs},
  answered <- seen,
  report <- UNION {ToSet(final_report[lang]) : lang \in FilterLangs},
  unreadable <- WalkFailed,
  status <- IF joined = ThreadCount THEN "exited"
            ELSE IF ppc = "ended" THEN "complete"
            ELSE IF ppc \in {"expired", "panicked"} THEN "partial"
            ELSE "running"

\* Threads, sockets and finalisers together implement TaskRun.
ImplementsTaskRun == TaskSpecification!TaskSpec
=============================================================================
