------------------------------ MODULE Startup ------------------------------
(***************************************************************************)
(* How a tgnews process connects its threads, up to the state in which the *)
(* Cluster module begins.  Main starts the readers, the workers and the    *)
(* reporter in this order; every thread then runs a straight line of       *)
(* socket calls, some of which wait for calls of other threads.  The       *)
(* sockets are files of the working directory, so what a killed process    *)
(* left behind is there when the next one starts.                          *)
(*                                                                         *)
(* A server socket has the number of its path: one per reader, then the    *)
(* reporter's for workers and the reporter's for readers.                  *)
(***************************************************************************)
EXTENDS Naturals, Sequences, Functions

CONSTANTS
  NReaders,  \* threads.readers.amount
  NWorkers,  \* threads.workers.amount
  Backlog,   \* a socket refuses no connection while at most so many wait
  MaxFaults, \* bound: failing calls in one run of the process
  MaxRuns    \* bound: runs of the process in one working directory

ASSUME StartupAssumption ==
  /\ NReaders \in Nat \ {0}
  /\ NWorkers \in Nat \ {0}
  /\ Backlog \in Nat
  /\ MaxFaults \in Nat
  /\ MaxRuns \in Nat \ {0}

\* Threads are numbered in the order of their creation.
Reader == 1..NReaders
Worker == (NReaders + 1)..(NReaders + NWorkers)
Reporter == NReaders + NWorkers + 1
Thread == 1..Reporter

ReporterForWorkers == NReaders + 1
ReporterForReaders == NReaders + 2
Server == 1..(NReaders + 2)

NoFile == 0             \* nothing at the path
Stale == NReaders + 3   \* the socket file of a process that is gone

\* Mutant of ReaderForWorkers: the $index of the route is not replaced.
ReaderForWorkersUnindexed(r) == 1

\* The path reader r listens at: reader_for_workers with its index.
ReaderForWorkers(r) == r

PathOf(s) == IF s \in Reader THEN ReaderForWorkers(s) ELSE s

\* The thread a server socket belongs to.
Owner(s) == IF s \in Reader THEN s ELSE Reporter

VARIABLES
  main,       \* "starting", "closing" (in lua_close) or "gone"
  joined,     \* how many threads main has finalised
  started,    \* how many threads run
  at,         \* at[t]: index of the next call of thread t
  asleep,     \* threads between two attempts to connect
  ended,      \* threads whose body has returned or raised
  names,      \* names[p]: the server socket path p leads to, NoFile or Stale
  stage,      \* stage[s]: "none", "bound", "listening" or "closed"
  waiting,    \* waiting[s]: threads connected to s and not accepted yet
  clients,    \* clients[s]: threads accepted by s, in order
  interrupts, \* SIGINTs of this run
  faults,     \* calls of this run that failed
  run         \* runs of the process so far

threadVars == <<started, at, asleep, ended, stage, waiting, clients>>
vars == <<main, joined, threadVars, names, interrupts, faults, run>>

TypeOK ==
  /\ main \in {"starting", "closing", "gone"}
  /\ joined \in 0..started
  /\ started \in 0..Reporter
  /\ at \in [Thread -> Nat \ {0}]
  /\ asleep \subseteq Thread
  /\ ended \subseteq Thread
  /\ names \in [Server -> Server \union {NoFile, Stale}]
  /\ stage \in [Server -> {"none", "bound", "listening", "closed"}]
  /\ waiting \in [Server -> Seq(Thread)]
  /\ clients \in [Server -> Seq(Thread)]
  /\ interrupts \in 0..1
  /\ faults \in 0..MaxFaults
  /\ run \in 1..MaxRuns

----------------------------------------------------------------------------
(* The calls a thread makes before it starts to work. *)

Serve(s, amount) ==
  <<<<"unlink", s>>, <<"bind", s>>, <<"listen", s>>>>
    \o [i \in 1..amount |-> <<"accept", s>>]

\* Mutant of ReaderProgram: the reporter is called before the workers are in.
ReaderProgramReporterFirst(r) ==
  <<<<"connect", ReporterForReaders>>>> \o Serve(r, NWorkers)

ReaderProgram(r) ==
  Serve(r, NWorkers) \o <<<<"connect", ReporterForReaders>>>>

\* Mutant of WorkerProgram: the reporter is called before the readers.
WorkerProgramReporterFirst ==
  [i \in 1..(NReaders + 1) |->
     <<"connect", IF i = 1 THEN ReporterForWorkers ELSE i - 1>>]

WorkerProgram ==
  [i \in 1..(NReaders + 1) |->
     <<"connect", IF i <= NReaders THEN ReaderForWorkers(i) ELSE ReporterForWorkers>>]

ReporterProgram ==
  Serve(ReporterForReaders, NReaders) \o Serve(ReporterForWorkers, NWorkers)

Program(t) ==
  CASE t \in Reader -> ReaderProgram(t)
    [] t \in Worker -> WorkerProgram
    [] OTHER        -> ReporterProgram

\* The thread has made all its calls: this is where Cluster takes over.
Connected(t) == at[t] > Len(Program(t))

Runs(t) == t <= started /\ t \notin ended /\ t \notin asleep /\ main # "gone"

Call(t) == Program(t)[at[t]][1]
On(t) == Program(t)[at[t]][2]
Calls(t, what) == Runs(t) /\ ~Connected(t) /\ Call(t) = what

Advance(t) == at' = [at EXCEPT ![t] = @ + 1]

----------------------------------------------------------------------------
Init ==
  /\ main = "starting"
  /\ joined = 0
  /\ started = 0
  /\ at = [t \in Thread |-> 1]
  /\ asleep = {}
  /\ ended = {}
  /\ names = [p \in Server |-> NoFile]
  /\ stage = [s \in Server |-> "none"]
  /\ waiting = [s \in Server |-> <<>>]
  /\ clients = [s \in Server |-> <<>>]
  /\ interrupts = 0
  /\ faults = 0
  /\ run = 1

\* Mutant of StartThread: one thread too many.
StartThreadPast ==
  /\ main = "starting"
  /\ started' = started + 1
  /\ main' = IF started' > Reporter THEN "closing" ELSE "starting"
  /\ UNCHANGED <<joined, at, asleep, ended, names, stage, waiting, clients, interrupts, faults, run>>

\* lua_thread_start, called for each thread in turn by Cluster:init; after the
\* last one the main chunk returns and main enters lua_close.
StartThread ==
  /\ main = "starting"
  /\ started' = started + 1
  /\ main' = IF started' = Reporter THEN "closing" ELSE "starting"
  /\ UNCHANGED <<joined, at, asleep, ended, names, stage, waiting, clients, interrupts, faults, run>>

\* check_task, check_src_dir or assert(thread.start(...)) raises: main reports
\* the error and closes.
StartFails ==
  /\ main = "starting"
  /\ faults < MaxFaults
  /\ faults' = faults + 1
  /\ main' = "closing"
  /\ UNCHANGED <<joined, threadVars, names, interrupts, run>>

\* Any of the calls below is asserted; it ends the thread when it fails.
Raise(t) ==
  /\ Runs(t) /\ ~Connected(t)
  /\ faults < MaxFaults
  /\ faults' = faults + 1
  /\ ended' = ended \union {t}
  /\ UNCHANGED <<main, joined, started, at, asleep, names, stage, waiting, clients, interrupts, run>>

Unlink(t) ==
  /\ Calls(t, "unlink")
  /\ names' = [names EXCEPT ![PathOf(On(t))] = NoFile]
  /\ Advance(t)
  /\ UNCHANGED <<main, joined, started, asleep, ended, stage, waiting, clients, interrupts, faults, run>>

\* bind fails, and the assertion ends the thread, if the path exists.
Bind(t) ==
  /\ Calls(t, "bind")
  /\ LET s == On(t)
         free == names[PathOf(s)] = NoFile
     IN /\ names' = IF free THEN [names EXCEPT ![PathOf(s)] = s] ELSE names
        /\ stage' = IF free THEN [stage EXCEPT ![s] = "bound"] ELSE stage
        /\ at' = IF free THEN [at EXCEPT ![t] = @ + 1] ELSE at
        /\ ended' = IF free THEN ended ELSE ended \union {t}
  /\ UNCHANGED <<main, joined, started, asleep, waiting, clients, interrupts, faults, run>>

Listen(t) ==
  /\ Calls(t, "listen")
  /\ stage' = [stage EXCEPT ![On(t)] = "listening"]
  /\ Advance(t)
  /\ UNCHANGED <<main, joined, started, asleep, ended, names, waiting, clients, interrupts, faults, run>>

\* Accepting blocks while nobody has connected.
Accept(t) ==
  /\ Calls(t, "accept")
  /\ LET s == On(t)
     IN /\ waiting[s] # <<>>
        /\ clients' = [clients EXCEPT ![s] = Append(@, Head(waiting[s]))]
        /\ waiting' = [waiting EXCEPT ![s] = Tail(@)]
  /\ Advance(t)
  /\ UNCHANGED <<main, joined, started, asleep, ended, names, stage, interrupts, faults, run>>

Listening(p) == names[p] \in Server /\ stage[names[p]] = "listening"

\* connect blocks while the backlog is full.
Connect(t) ==
  /\ Calls(t, "connect")
  /\ Listening(On(t))
  /\ LET s == names[On(t)]
     IN /\ Len(waiting[s]) <= Backlog
        /\ waiting' = [waiting EXCEPT ![s] = Append(@, t)]
  /\ Advance(t)
  /\ UNCHANGED <<main, joined, started, asleep, ended, names, stage, clients, interrupts, faults, run>>

\* ENOENT without a file, ECONNREFUSED with one nobody listens at: retry later.
ConnectLater(t) ==
  /\ Calls(t, "connect")
  /\ ~Listening(On(t))
  /\ asleep' = asleep \union {t}
  /\ UNCHANGED <<main, joined, started, at, ended, names, stage, waiting, clients, interrupts, faults, run>>

Wake(t) ==
  /\ t \in asleep
  /\ asleep' = asleep \ {t}
  /\ UNCHANGED <<main, joined, started, at, ended, names, stage, waiting, clients, interrupts, faults, run>>

Steps(t) ==
  \/ Unlink(t) \/ Bind(t) \/ Listen(t) \/ Accept(t)
  \/ Connect(t) \/ ConnectLater(t) \/ Wake(t)

\* What the module Cluster is about, in one step: connected threads do their
\* work and all of them end, by themselves, by an error or by a timeout.
Work ==
  /\ started = Reporter
  /\ \A t \in Thread : Connected(t) /\ t \notin ended
  /\ ended' = Thread
  /\ UNCHANGED <<main, joined, started, at, asleep, names, stage, waiting, clients, interrupts, faults, run>>

\* Without one of its peers a connected thread may come to an end as well, by
\* EPIPE or by the timeout of its epoll loop.
GiveUp(t) ==
  /\ Runs(t) /\ Connected(t)
  /\ ended # {}
  /\ ended' = ended \union {t}
  /\ UNCHANGED <<main, joined, started, at, asleep, names, stage, waiting, clients, interrupts, faults, run>>

\* The process is gone, and its threads and descriptors with it.
Vanish ==
  /\ main' = "gone"
  /\ joined' = 0
  /\ started' = 0
  /\ at' = [t \in Thread |-> 1]
  /\ asleep' = {}
  /\ ended' = {}
  /\ stage' = [s \in Server |-> "none"]
  /\ waiting' = [s \in Server |-> <<>>]
  /\ clients' = [s \in Server |-> <<>>]
  /\ UNCHANGED <<interrupts, faults, run>>

\* lua_close: threads are finalised in the reverse order of their creation.  The
\* finaliser joins the thread; closing its server sockets removes their paths.
Finalise ==
  /\ main = "closing" /\ joined < started
  /\ joined' = joined + 1
  /\ LET t == started - joined
         open == {s \in Server : Owner(s) = t /\ stage[s] # "none"}
     IN /\ t \in ended
        /\ names' = [p \in Server |-> IF \E s \in open : PathOf(s) = p THEN NoFile ELSE names[p]]
        /\ stage' = [s \in Server |-> IF s \in open THEN "closed" ELSE stage[s]]
  /\ UNCHANGED <<main, started, at, asleep, ended, waiting, clients, interrupts, faults, run>>

MainReturns ==
  /\ main = "closing" /\ joined = started
  /\ UNCHANGED names
  /\ Vanish

\* The first ^C makes main's Lua code raise; inside lua_close none runs.
Interrupt ==
  /\ main # "gone"
  /\ interrupts = 0
  /\ interrupts' = 1
  /\ main' = "closing"
  /\ UNCHANGED <<joined, threadVars, names, faults, run>>

\* The second one kills the process, whose socket files stay.
Kill ==
  /\ main # "gone"
  /\ interrupts = 1
  /\ names' = [p \in Server |-> IF names[p] = NoFile THEN NoFile ELSE Stale]
  /\ Vanish

RunAgain ==
  /\ main = "gone"
  /\ run < MaxRuns
  /\ run' = run + 1
  /\ main' = "starting"
  /\ interrupts' = 0
  /\ faults' = 0
  /\ UNCHANGED <<joined, threadVars, names>>

Next ==
  \/ StartThread \/ StartFails \/ Work \/ Finalise \/ MainReturns
  \/ Interrupt \/ Kill \/ RunAgain
  \/ \E t \in Thread : Steps(t) \/ Raise(t) \/ GiveUp(t)

\* Every thread is scheduled, main too; faults, signals and reruns need not be.
Spec ==
  /\ Init
  /\ [][Next]_vars
  /\ WF_vars(StartThread) /\ WF_vars(Work) /\ WF_vars(Finalise) /\ WF_vars(MainReturns)
  /\ \A t \in Thread : WF_vars(Steps(t))

----------------------------------------------------------------------------
(* Properties *)

\* A server socket of this process is what its path leads to: no thread takes
\* away the path another one listens at (unlink and bind in listen).
ServersReachable ==
  \A s \in Server : stage[s] \in {"bound", "listening"} => names[PathOf(s)] = s

HasCalled(t, s) ==
  \E i \in 1..(at[t] - 1) : Program(t)[i] = <<"connect", PathOf(s)>>

\* Each server is connected to exactly the threads that called its path in this
\* run, once each: no reader serves another reader's worker, none a worker
\* twice, and nobody is connected to what a killed process left.
RightPeers ==
  \A s \in Server :
    LET peers == clients[s] \o waiting[s]
    IN /\ IsInjective(peers)
       /\ Range(peers) = {t \in Thread : HasCalled(t, s)}

\* A worker begins to read only when every reader has all its connections, and
\* the reporter is the last to begin: with all others connected, no packet
\* reaches an end that nobody is going to watch.
ReportersStartLast ==
  /\ \A w \in Worker : Connected(w) => \A r \in Reader : Connected(r)
  /\ Connected(Reporter) => \A t \in Thread : Connected(t)

\* When every thread got started and no call fails, the threads find each other
\* and the process ends, whatever socket files it found.
EventuallyEnds == started = Reporter ~> (main = "gone" \/ faults > 0)

\* "ENOENT -- .sock file is not created yet" (UnixSocketClient.lua): a thread
\* that waits for a path sees a server there, unless the process is killed.
FileIsCreatedLater ==
  \A t \in Thread :
    t \in asleep ~> (main = "gone" \/ Connected(t) \/ Listening(On(t)))
=============================================================================
