# tgnews: a TLA+ model of the clustering process

`tgnews TASK SRCDIR` walks a directory, runs a task on every file in parallel
and prints one JSON report. The parallel part is a small distributed system
inside one process: reader, worker and reporter threads, each with a Lua state
of its own, that talk only over unix stream sockets. This directory holds TLA+
specifications of that system, the TLC configurations that check them on small
instances, and proofs checked by TLAPS of what holds for every number of
threads and files. Paths below are relative to `src/src/` of the repository.

## 1. Inventory

| component | state it keeps | operations | talks to |
|---|---|---|---|
| main program (`tgnews.c`, `logic/tgnews.lua`) | the main `lua_State` | start the cluster or the normalizer; `lua_close` | finalises every thread object |
| cluster (`logic/Cluster.lua`) | table of thread objects | `check_task`, `check_src_dir`, start readers, workers, reporter | `thread.start` |
| reader (`logic/threads/reader.lua`) | `files_found`, accepted clients, round robin index | accept workers, connect, traverse, send files, broadcast and report the result | sends to workers and the reporter |
| worker (`logic/threads/worker.lua`) | epoll set, `readers_unfinished`, `r_buf`s | connect, epoll loop, task per file, hang up on a reader's result | receives from readers, sends to the reporter |
| reporter (`logic/threads/reporter.lua`) | `readers_files`, `workers_files`, `readers_unfinished`, `final_report` | accept, epoll loop, count, collect, stop, print | receives from readers and workers |
| languages task (`logic/workers/languages.lua`, `logic/reporters/languages.lua`) | `report`, `lang_index` | classify, filter, group | called by worker and reporter |
| detectors (`logic/detectors/`) | none | language from text, url, title... | called by the task |
| socket classes (`logic/UnixSocket*.lua`) | `r_buf`, `w_buf`, `clients` | connect with retry, listen, accept, send, recv, broadcast, round robin | lua-net |
| lua-net (`libs/lua-net/`) | descriptors | unix and tcp sockets, epoll loop, `splitby` framing | kernel |
| lua-thread (`libs/lua-thread/`) | `state` running/dead, `lua_State` | start, stop, join, gc | pthreads |
| lua-fs (`libs/lua-fs/`) | none | stat, readfile, traverse | kernel |
| lua-text (`libs/lua-text/`) | none | tags, alphabets, white space, case, pairs of words | detectors |
| normalizer (`logic/workers/normalizer.lua`) | none | rewrite every file | lua-fs |
| lua-sys, lua-class, lua-trace, vendored Lua, cjson, utf8proc | | plumbing | |

How they interact. For `R` readers and `W` workers there are `R*W` reader to
worker connections, `W` worker to reporter and `R` reader to reporter. A reader
hands its files to its workers in round robin, then sends every worker and the
reporter a `result` packet with the number of files. A worker answers each file
to the reporter and hangs up on a reader when its `result` arrives; it ends when
all readers did. The reporter counts answers (`workers_files`) and announced
files (`readers_files`), hangs up on a reader on its `result`, on a worker when
the counts agree at one of its answers, and stops its loop at a hangup with the
counts equal and no reader left. Main sits in `lua_close`, whose finalisers
join each thread and then close its Lua state, and with it its sockets.

What is hard here:
- three kinds of actors race over sockets that block when full, so a wait may
  be circular;
- the reporter decides that all is done by comparing two counters fed by
  different sockets whose packets interleave arbitrarily;
- the epoll sets are edge-triggered: one drain that ends too soon is a sleep
  that never ends;
- after `stop` has closed the epoll descriptor, the rest of the current batch
  is still dispatched;
- a file the task raises on ends the whole worker thread, silently for its
  peers, with its sockets open;
- the threads find each other through files of the working directory, in an
  order of blocking calls nobody supervises, and a killed process leaves files;
- packets are cut anywhere by chunks, a full socket or a signal;
- shutdown is a by-product of garbage collection order, and the finalisers act
  on a field that the threads change under them;
- a walk that fails ends the reader before, between or after its files, as
  silently for the others;
- the walk of the directory shares descriptors, a stop flag and a Lua stack
  between its levels and drops the errors of all but the first.

What makes each component correct:
- *reader*: sends each file once, and a count that matches;
- *worker*: answers each file it receives once, hangs up on a reader only after
  its last file, never sleeps on unread packets;
- *reporter*: stops only when every file is answered, reports exactly the
  answered files, never dispatches a packet after its stop;
- *main*: closes no socket under a live receiver, and returns;
- *set-up*: everybody is connected to the right peers, once, before anybody
  works, and whatever files are lying around;
- *sockets*: whole packets, in order, once each, and all of them;
- *thread objects*: no double join, no Lua state closed while it is in use;
- *walk*: each path once, none missed without a reason, never after a stop, and
  it ends;
- *language*: looks at exactly the neighbouring words of the text, inside its
  buffers;
- *the process*: never comes to rest by itself with work left.

`PROJECT.json` lists every hazard at its line with the properties aimed at it.

## 2. Modules

```
Streams ── Reader ──┐
        ├─ Worker ──┼─ Cluster ── MCCluster          (TLC)
        └─ Reporter ┘     │  └── INSTANCE TaskRun    (refinement)
                          └── ClusterProofs ── ReportProofs ── RunProofs

Startup ── StartupProofs                            (TLC, proofs)
PacketStream ─┬─ MCPacketStream                     (TLC)
              ├─ INSTANCE PacketFifo                (refinement)
              └─ PacketStreamProofs
LuaThread ── LuaThreadProofs                        (TLC, proofs)
Traverse ─┬─ MCTraverse                             (TLC)
          └─ TraverseProofs
Language ─┬─ MCLanguage                             (TLC)
          └─ LanguageProofs
```

`Cluster` is the heart; the modules below it in the picture justify what it
takes for granted. `Startup` ends in the states `Cluster` begins with
(`RightPeers`, `ReportersStartLast`). `PacketStream` shows that a connection is
the queue of packets that `Streams` is built on (`ImplementsFifo`). `LuaThread`
is the object behind `MainJoin`. `Traverse` is what the reader's `OnFile`,
`TraverseEnd` and `TraverseFails` abstract to a number of files and an outcome,
`Language` what `Outcome` stands for.

- **Streams**: the connections. `buf[s]` is the sequence of packets sent on
  stream `s` and not yet given to the receiver's `on_packet`; `shut` are the
  streams whose receiving end is closed; `watched` and `ready` are the receivers'
  epoll sets and their fired edges. `Send`, `Receive`, `Close`, `Watch`,
  `TakeEvents` are the socket and epoll calls.
- **Reader**: one action per blocking call of `reader.lua` from the first file
  on: `OnFile`, the two outcomes of `fs.traverse`, `TraverseEnd` and
  `TraverseFails` (the assertion on its result ends the thread), `Broadcast` (one
  client each), `ReportFound`, and `ReaderEpipe`, the send to a closed peer.
- **Worker**: the epoll loop of `worker.lua`. `WorkerEpollWait` takes a batch,
  `WorkerOnread` picks an event, then the drain of `recv` handles one packet per
  step (`WorkerOnFile`, `WorkerOnBadFile`, `WorkerOnResult`) until
  `WorkerDrained`; `WorkerSend` is the blocking answer in the middle of it.
- **Reporter**: the epoll loop of `reporter.lua`. `ReaderOnPacket` and
  `WorkerOnPacket` are the two packet callbacks with the whole of `onhup`
  (`Hangup`), including its failing assertion after a stop; `Task` is
  `reporters/languages.lua`.
- **Cluster**: composes the threads, adds the timeouts (`WorkerExpires`,
  `ReporterExpires`), main's finalisers (`MainJoin`), fairness and the
  properties.
- **TaskRun**: the abstract specification of the program, with no threads:
  answer every file once, print, exit; print early only if the task fails on
  some file or `SRCDIR` cannot be read to the end (`SourceFails`).
- **MCCluster**: the functions `Outcome` for TLC.
- **Startup**: the life of a process around `Cluster`. Main starts the threads in
  order (`StartThread`, `StartFails`); each thread runs its `Program`, a list of
  socket calls with one action per kind (`Unlink`, `Bind`, `Listen`, `Accept`,
  `Connect`, and `ConnectLater` with `Wake` for the retry), any of which may
  fail (`Raise`); all that `Cluster` describes is one step, `Work`, and `GiveUp`
  ends a connected thread that has lost a peer. `names` is the directory: which
  server each path leads to, or a `Stale` file. `Interrupt` and `Kill` are the
  first and second ^C. `lua_close` finalises the threads one by one (`Finalise`:
  join, close, remove the socket files) before `MainReturns`; `RunAgain` starts
  the next process on the files the last one left.
- **PacketStream**, **PacketFifo**: one connection. `w_buf`, `socket` and `r_buf`
  are the bytes in the sender, the kernel and the receiver; `Copy` moves as many
  as fit, `Interrupted` is a signal in the middle of `send`, `Recv` takes a
  chunk, `SplitPacket` is a turn of the loop of `splitby`. `PacketFifo` is what
  the ends may rely on.
- **LuaThread**: the functions of lua-thread cut at every read or write of
  `state` and every pthread call, against the steps of the threads (`End`,
  `Exit`, `Cancelled`). `handle` is what pthreads knows of a thread.
- **Traverse**: `lua_fs_traverse_worker` with its recursion as a stack of
  `frames`. `opened` counts descriptors, `slots` the values left on the Lua
  stack; `Return` is any `return` of a level.
- **Language**: `detectors/language.lua` call by call, each call an operator on
  sequences of character classes (listed in the module). A loop of lua-text that
  copies some characters is given by the set of positions it copies (`Copy`).

### Abstractions

- A packet is a record and a step handles one packet. Bytes, JSON and the
  framing of `splitby` are left out, so the kernel's buffer and `r_buf` are one
  queue, and `Capacity` bounds it in packets. Every `send` is one `send(2)` call
  with blocking sockets, so nobody sees half a packet.
- `Outcome[n]` is what the task makes of file `n`: a language, `"unknown"` (not
  accepted), or `"bad"`: the task or `readfile` raises. It is a constant: TLC
  fixes one function per run, the proofs hold for all. All readers walk the same
  `SRCDIR`, so it does not depend on the reader.
- Whether the walk of `SRCDIR` fails depends on the file system alone, so
  `TraverseFails` may happen whenever the reader is in its walk, before, between
  or after its files, also while it is in a blocked `send`, which is more than
  the code can do. It stands for `SRCDIR` that cannot be opened, an entry of its
  top level that is too long or that `stat` fails on, and a `readfile` that
  raises in the callback when `read_files` is set. A nested directory that fails
  has no such effect: `NFiles` counts the files the walk reaches.
- A file is named `<<reader, n>>`. The code identifies answers by nothing but
  their count, the model keeps the name to state properties. `seen`, the set of
  files a report was received for, is the only history variable.
- `Init` is the state in which all connections are up. The workers may have been
  accepted in any order, differently by each reader (`AcceptOrders`). `Startup`
  checks that every thread gets exactly these connections, that a worker begins
  only when all readers have theirs, and that the reporter begins last. A reader
  that sends before its peers are ready is then no different from one whose
  peers are slow to watch.
- The kernel may return a batch of events in any order. A batch holds all fired
  edges (the array of 65536 events of `lua_net.h` never fills).
- `ready` is kept as the kernel keeps it, edge by edge: set by a send, or by
  `epoll_ctl` on a socket that already holds data, and cleared by `epoll_wait`.
- A thread that panics keeps its sockets: `lua_thread_atpanic` ends the thread,
  its Lua state is closed by main's finaliser only.
- Finalisers run in reverse order of creation, `lua_close` calls them in the
  reverse order of marking (`lua_thread.c:133`, Lua manual 2.5.1).
- Peer hangups (`EPOLLRDHUP`) are not actions. A stream loses its sending end
  when main closes the sender's state; `ReceiversCloseFirst` says the receiver is
  dead by then, and is proved; threads that panic keep their sockets. The branch
  that handles end of file in a live loop is unreachable in this composition.
- In `Startup` a system call that is not modelled in detail either succeeds or
  raises, at most `MaxFaults` times per process. Signals that only interrupt a
  call are left out, as `signal` restarts calls (SA_RESTART) and `sleep` is
  retried by its loop. `connect` blocks on a full backlog, as it does on blocking
  unix sockets.
- In `PacketStream` payloads contain neither separator nor NUL, which cjson
  escapes. A signal during `send` gives a short count only if bytes were taken.
- In `Traverse` the length of a path is counted in names, and `found` are paths
  of positions. Any `opendir` may fail, for whatever reason (`OpenFails`); it
  succeeds only while a descriptor is left (`Open`), and all `quota` of them
  are available to the walk.
- In `Language` one symbol stands for a class; `normalize` folds the case of one
  class and yields nil on invalid UTF-8. Texts hold no `www.`, no `host.zone/`
  and no `@`, so `strip_emails` and two of the three patterns of `strip_urls`
  find nothing. They hold no character either that NFKC maps into another
  class: a fullwidth `<`, which `normalize` turns into a `<` after the tags were
  stripped, is not covered.

### Fairness and time

Every thread gets weak fairness: the kernel schedules runnable threads, and a
blocked `send` or `epoll_wait` returns once it can. The timeouts of the epoll
loops are 999999999 ms, 11.5 days, so an expiry is an action that is enabled
only when nothing else can move (`Quiet`) or another timeout has fired already
(both loops have the same length, their relative order is open); an expiry that
stays due fires. A walk need not fail: the fairness of a reader is about its
other steps, so `TraverseFails` is no way out of a blocked `send` that the code
could count on. Without `Quiet` a timeout could win every race against a thread
that has only to be scheduled, which says nothing about the code. A thread whose
task itself runs for 11 days is outside the model.

## 3. What is checked

| run | instance | states | question |
|---|---|---|---|
| `healthy` | 1 reader, 2 workers, 4 files with limit 3, 2 packets per socket | 54 700 | is a run in which no file fails, though the walk may, complete, faithful, free of deadlock, and does it implement `TaskRun`? |
| `bad_file` | 1 reader, 2 workers, 4 files, the first one bad, 1 packet per socket, so that the reader blocks on the dead worker | 1 700 | does the process still end, with a faithful partial report? |
| `two_readers` | 2 readers, 1 worker, 2 files each, 2 packets per socket | 241 500 | what survives more than one reader? |
| `bad_file_report` | as `bad_file`, 2 packets per socket | | violation: good files are missing from the printed report |
| `two_readers_report` | as `two_readers`, 1 file each | | violation: the same, although no file and no walk fails |
| `startup` | 2 readers, 2 workers, 1 failing call, 2 processes, backlog 0 | 138 000 | do the threads find each other in every order, and with the files of a killed process around? |
| `startup_interrupted` | 1 reader, 1 worker, no failing call, 1 process | | violation: after ^C a thread waits for a socket nobody will create |
| `packet_stream` | 4 packets of 1 to 5 bytes, chunks of 3, 5 bytes of buffer, 2 signals | 8 600 | is the byte stream a queue of packets? |
| `lua_thread` | 3 threads, 4 calls of stop and join | 16 800 | do the calls and finalisers agree on who is joined, detached, closed? |
| `traverse` | every pair of directories of up to 2 entries of 7 kinds, 0, 2 or 9 descriptors, any `opendir` failing, limits 1, 2, 9, paths of up to 3 names | 427 000 | does the walk end, stop, and find what is there? |
| `traverse_stack` | 20 empty directories in one | | violation: the Lua stack of the call overflows |
| `language` | texts of up to 4 of 11 symbols, up to 6 around tags, up to 8 words and spaces | 198 000 | are the right pairs of words looked up, inside the buffers? |

Properties of `Cluster` (all defined at the end of `Cluster.tla`):
- `TypeOK`.
- `ReportComplete`: the stop condition never fires early.
- `ReportFaithful`: the report is the answered files, each once under its language.
- `EveryFileInOnePlace`: until a thread panics or expires, a sent file is in
  exactly one of: a queue, a worker's hands, another queue, `seen`. A failed walk
  is no excuse.
- `NoFileTwice`: the half of it that survives failures.
- `CountersMatch`: the counters that are compared are what they stand for.
- `NoLostWakeup`: nobody sleeps on unread packets.
- `ReceiversCloseFirst`: main never closes a sender under a live receiver.
- `ExpiresOnlyAfterPanic`: freedom from deadlock. As a timeout is due exactly
  when the process is at rest, an expiry with neither a panic nor a failed walk
  is a circular wait or a wait for a packet nobody sends.
- `ReporterNeverPanics`: no hangup after the stop.
- `NothingDropped` (action property): a socket closed while main still runs
  holds only the packet being handled.
- `EventuallyExits`, `ImplementsTaskRun` (temporal).
- `GoodFilesReported`, of the two violation runs: a printed report covers every
  file the task can handle, unless the walk failed.

Properties of the other modules, besides a `TypeOK` each:
- `Startup`: `ServersReachable`, no thread takes a path away from another;
  `RightPeers`, a server has exactly the peers that called it; `ReportersStartLast`,
  nobody works too early; `EventuallyEnds`, without a failing call the process
  ends; `FileIsCreatedLater`, which fails (finding 3).
- `PacketStream`: `BytesInOrder`, the bytes on their way are what is sent and not
  delivered, also in the middle of packets; `ImplementsFifo`; `AllDelivered`,
  under edge-triggered waiting.
- `LuaThread`: `ClosedAfterItsThread`, `JoinsOnlyJoinable`, `LeftEnded`.
- `Traverse`: `FoundOnce`, no path is given twice (a file that several paths lead
  to is given under each); `Complete`, which says what the reader's assertion on
  the result does not: files are missing without an error if they are below a
  nested directory that could not be opened, or after an entry that ended its
  walk; `EventuallyReturns`, also when directories contain each
  other; `StackHasRoom`, which fails (finding 4).
- `Language`: `ReadsInside`, the majority test keeps the unbounded trim of
  `collapse_whitespace` in its buffer; `GramsOfTheText`, against a definition of
  words by where they begin and end.

Bounds. Two workers are the least with which answers overtake each other and
with which `broadcast` is more than one send; two files per worker make a queue
form behind a file in progress; capacities 1 and 2 make every send block
somewhere while a capacity of 2 also lets a file queue behind another. A limit
below the number of files and one above it take both exits of the traversal.
Larger instances add threads that play the same parts; the properties marked in
section 4 are proved for all of them. Deadlock checking is on in all runs of
`Cluster`: the only final state is `Exited`. In the other modules something
comes to its proper end (the last process, the last packet, a function), and the
temporal properties say that it does.

In `startup` a backlog of 0 makes `connect` wait for `accept` as early as it
can; two readers and two workers make cross-connections possible; a second
process is enough to meet the files of a first. In `packet_stream` the packets
are shorter and longer than a chunk, and the longest is longer than the socket.
In `traverse` two directories are enough for cycles and three levels, and a
limit of 1 or 2 is reached at any of them. In `language` the limits are scaled
down with the texts: 2 pairs looked at, 2 pairs that decide.

Each property of a passing run has a mutant in `PROJECT.json`: a plausible bug
in one action (a missing wrap of the round robin index, a drain that stops
after one read, an early hangup, finalisers in creation order...) under which
TLC finds the property violated. The mutated operators stand before the
definitions they replace.

### Findings

1. `bad_file_report`. `tgnews.h:13` promises that the task is executed on the
   files of SRCDIR. If the task raises on one file (`worker.lua:55`, an
   unreadable file, or an error in a detector) `onerror(nil)` raises again and
   the worker thread ends. Nobody is told. Its queued files are lost, the
   reader blocks on its full socket, and the report is printed when the timeouts
   of 11 days have passed.
2. `two_readers_report`. `Cluster.lua:16` describes `readers.amount` as "as
   many as input dirs". With two readers the answers counted can equal the files
   announced so far while the other reader's files are on their way
   (`reporter.lua:69`); the reporter then hangs up on a worker that has answers
   to send, and that worker dies of `EPIPE`. With the shipped amount of 1 the
   condition is exact (`NothingDropped`, `EveryFileInOnePlace` in `healthy`).
3. `startup_interrupted`. `UnixSocketClient.lua:21` retries on `ENOENT` because
   the file "is not created yet". After a ^C, or a failing `thread.start`, in the
   middle of `Cluster:init`, it never will be: the threads already there retry
   for ever, and main waits for them in `lua_thread_gc` until a second ^C, which
   leaves the socket files.
4. `traverse_stack`. `lua_fs_traverse_worker` ignores what its nested calls
   return but leaves it on the Lua stack (`lua_fs.c:158`). The Lua manual
   (section 4.2) grants a C function 20 slots unless it calls `lua_checkstack`;
   twenty subdirectories, or seven that cannot be opened, use them up.

Noticed while modelling, and kept in the models as the code has it:
- An unreadable `SRCDIR`, or a top-level entry that is too long or that `stat`
  fails on, fails the assertion of `reader.lua:30`. The reader ends without a
  result, the workers and the reporter wait for it until their timeouts, 11.5
  days later, and then the reporter prints what was answered. In a nested
  directory the same errors are dropped.
- `strip_chars` with `keep` keeps bytes that `utf8_char_len` has no length for
  (`lua_text.c:327`), so a text of control characters counts as both Cyrillic
  and Latin; the pairs of words then decide against it.
- `strip_tags` does not collapse or trim, as the comment over it says.
- `stop` marks a thread dead before it is (`lua_thread.c:113`); the finaliser
  then closes a Lua state in use. Nothing in the program calls `stop`.
- `USAGE` lists five tasks; only `languages` exists, and `normalize` is not
  listed. `check_task` rejects the others.

## 4. What is proved

The theorems of the first table are about `Spec` of `Cluster`, for every value of
the constants that satisfies `ClusterAssumption`: at least one reader, one worker, one packet
of room and a limit of at least one file; any number of files, none included;
any outcomes. TLC evaluates the assumption in every run.

| theorem | module | states |
|---|---|---|
| `TypeCorrect` | ClusterProofs | `[]TypeOK` |
| `NoLostWakeups` | ClusterProofs | `[]NoLostWakeup` |
| `ReceiversFirst` | ClusterProofs | `[]ReceiversCloseFirst` |
| `NoFileIsTwice` | ReportProofs | `[]NoFileTwice` |
| `CountersAgree` | ReportProofs | `[]CountersMatch` |
| `ReportIsComplete` | ReportProofs | `[]ReportComplete` |
| `ReporterSurvives` | ReportProofs | `[]ReporterNeverPanics` |
| `ReportIsFaithful` | ReportProofs | `[]ReportFaithful` |
| `NothingIsDropped` | RunProofs | `NReaders = 1 => NothingDropped` |
| `FilesAreSomewhere` | RunProofs | `NReaders = 1 => []EveryFileInOnePlace` |
| `NothingExpires` | RunProofs | `NReaders = 1 => []ExpiresOnlyAfterPanic` |
| `FailsOnItsInput` | RunProofs | `NReaders = 1 => [](Panicked \/ Expired => SomeBad \/ WalkFailed)` |
| `TaskRunSteps` | RunProofs | `NReaders = 1 =>` the safety half of `ImplementsTaskRun` |

The last five have one reader as a hypothesis, which is the configuration the
program ships (`Cluster.lua:16`, `amount = 1`), with any number of workers and
files. It cannot be dropped: with two readers `two_readers` leaves these
properties out and `two_readers_report` shows why (finding 2).

Those of the second are about `LuaThread`, for any number of threads and calls.

| theorem | module | states |
|---|---|---|
| `ThreadTypeCorrect` | LuaThreadProofs | `[]TypeOK` |
| `ClosedAfterThread` | LuaThreadProofs | `[]ClosedAfterItsThread` |
| `JoinsJoinable` | LuaThreadProofs | `[]JoinsOnlyJoinable` |
| `NoneLeftRunning` | LuaThreadProofs | `[]LeftEnded` |

Those of the third are about `Startup`, for any number of readers and workers, any
backlog, any number of failing calls and of runs.

| theorem | module | states |
|---|---|---|
| `StartupTypeCorrect` | StartupProofs | `[]TypeOK` |
| `Reachable` | StartupProofs | `[]ServersReachable` |
| `PeersAreRight` | StartupProofs | `[]RightPeers` |
| `ReporterIsLast` | StartupProofs | `[]ReportersStartLast` |

Those of the fourth are about `PacketStream`, for any packets of bytes, any chunk
size, any room in the socket and any number of signals.

| theorem | module | states |
|---|---|---|
| `StreamTypes` | PacketStreamProofs | `[]TypeOK` |
| `NoByteIsLost` | PacketStreamProofs | `[]BytesInOrder` |
| `StreamIsFifo` | PacketStreamProofs | `ImplementsFifo` |

Those of the fifth are about `Traverse`, for any directories, also ones that
contain each other, and any limits.

| theorem | module | states |
|---|---|---|
| `WalkTypes` | TraverseProofs | `[]TypeOK` |
| `LevelsAreNested` | TraverseProofs | `[](ChainInv /\ DepthInv)`, the levels are a chain of open directories, at most `PathMax + 1` of them |
| `FilesAreFoundOnce` | TraverseProofs | `[]FoundOnce` |
| `NoFileIsMissed` | TraverseProofs | `[]Complete` |

Those of the sixth are about `Language`, for texts of any length, any tables of
pairs and any limits.

| theorem | module | states |
|---|---|---|
| `TextTypes` | LanguageProofs | `[]TypeOK` |
| `StaysInBuffer` | LanguageProofs | `[]ReadsInside` |
| `GramsAreRight` | LanguageProofs | `[]GramsOfTheText` |

The arguments.

*TypeCorrect.* `TypeOK` is inductive. Apart from ranges it says where a
worker's current stream and batch come from and that a reader in its traversal
is below the limit, which the other proofs use.

*NoLostWakeups.* `NoLostWakeup` is about sleepers only and not inductive: the
edge of a stream is taken by `epoll_wait` long before the stream is drained.
`WakeInv` covers the rest of the loop: in a live loop, every stream with packets
has a fired edge or is among the events still pending, the one being drained
included. A step of another thread cannot spoil it, as receivers watch disjoint
sets of streams (`ReceiversDisjoint`, `TouchesNot`, `StaysWoken`).

*ReceiversFirst.* Threads that main has finalised are dead (`JoinInv`) and stay
dead; the property then follows from the order of `Finalised`.

*NoFileIsTwice.* `PlaceInv`: each file has at most one place among all queues,
hands and `seen`, and none before its reader counted it. A receive moves the
queue up (`ReceivePlaced`), a send moves the file from a hand to a queue, and so
on, one lemma per thread.

*CountersAgree, ReportIsComplete, ReporterSurvives* share one invariant,
`CountInv`, on top of `PlaceInv` and `PacketInv` (streams to the reporter carry
only answers with the right language, and announcements of exactly `Expected`
files; a closed stream is empty). Every answer is on a new file, so
`workers_files = Cardinality(seen)`. Every reader hangs up at most once, so
`readers_files = Expected * (readers hung up)`. When the loop stops, both are
`NReaders * Expected`, the cardinality of the set of all files, hence
`seen = Files` (`StopMeansAll`). With all files seen and all readers' sockets
closed, no packet can be left to dispatch, and so `onhup` is never entered
after the stop. This holds for any number of readers: finding 2 loses files but
never produces a report that claims to be complete.

*ReportIsFaithful.* `FaithInv` adds that each list is finite and as long as its
set, preserved because every answer is on a new file.

*The four about LuaThread* share `ThreadInv`. Its core is what `state` means: a
thread that left Lua by itself is marked, a marked thread that did not is
cancelled, and in the middle of `stop` the handle is ahead of the mark
(`MarkedInv`, `HandleInv`). Only then is "read the state, act later" safe: what
was read as `RUNNING` may end, but is not joined or detached by anybody else.
`CollectedInv` adds that finalisers leave only marked threads behind.

*The four about Startup* rest on `ProgramFacts`, what the lists of calls look
like: each socket is unlinked, bound and listened at once, by its owner, at one
index (`BindAt`), then come its accepts, and each path is called once. `StageInv`
ties the stage of a server to the index of its owner, so an unlink comes before
the socket is bound and a `listen` never meets a closed one; `NamesInv` says that
a path leads to its own server, a stale file or nowhere. `RightPeers` is then
inductive: a connect reaches the server of its path and is the first of its
thread. For `ReportersStartLast`, `CountInv` counts a server's clients by the
index of its owner. They are distinct callers by `RightPeers`, and only readers
(workers) call the reporter's first (second) socket, so as many of them as there
are readers (workers) are all of them (`AllHaveCalled`); calling the reporter is
a thread's last call (`LastCalls`). `CalledInv` closes the argument: a worker can
call the reporter only when that listens to workers, which is after it has
accepted all readers.

*RunProofs* first collects what holds for any number of readers about the order
of packets: an announcement is the last packet of its stream and is made once
(`TailInv`, `ResultInv`), a worker's count of unfinished readers is the number of
those it has not hung up on (`HangupInv`), a reporter whose counts agree is
stopped (`StopInv`), a socket holds no more than `Capacity` (`RoomInv`).

*NothingIsDropped.* A worker hangs up on a reader at the announcement, which is
the last packet. The reporter hangs up when it handles the announcement, the
only packet of its stream, or after its stop: then every file is seen
(`ReportIsComplete`), each in one place, so nothing but the answer in hand can be
in a socket. It is here that one reader is needed: with two the counts can agree
in between.

*FilesAreSomewhere.* `HeldInv`: until something fails, a file that was sent is in
a stream, in hands or seen; a `Receive` moves it on and `NothingIsDropped` says
that a `Close` loses none. At most one place is `NoFileIsTwice`.

*NothingExpires, FailsOnItsInput.* Not an induction on what each thread waits
for but an argument about a state in which no thread can move (`Quiet`), from the
invariants above. If nothing has failed, no walk either, the threads are looked at from the end
of the chain backwards: the reporter either is done or sleeps, so by `NoLostWakeups`
its sockets are empty; then no worker can be blocked in a `send`, workers sleep
with empty sockets, and no reader is blocked. So each reader has ended, each
announcement was taken, each worker has ended, `seen = Files`, and the reporter
has stopped: nobody waits. An expiry is possible at rest only, so it comes after
a failure. `ShutInv` closes the circle: a `send` meets a closed socket only if
its receiver has failed before or has everything it waited for, so the first
failure of all is a bad file's or the walk's, and a failed walk stays failed
(`WalkStays`).

*TaskRunSteps.* Step simulation under the refinement mapping of `Cluster`, with
all invariants above at both ends of the step. A report is complete only when
every reader has announced its files, hence ended (`EndedReaders`), so none has
failed in its walk; one that is partial comes of a panic or a timeout, which
`FailsOnItsInput` puts down to a file or the walk.

*The three about PacketStream* share `StreamInv`. Its equation is `BytesInOrder`
with the bytes not yet taken added on both sides, so that `Copy` changes neither
side. `Wire` is a recursive function; what is proved about it by induction
(`WirePrefix`: the wire of fewer packets is a prefix of that of more) is proved
by a least counterexample (`NatMin`), as the library's induction theorems cannot
be instantiated here. `Cut` is the heart: if a separator is in `r_buf`, then what
stands before the first one is the next payload, as payloads hold none.

*The four about Traverse.* `ShapeInv` describes the stack: each level but the
last is reading the entry before its `read`, which is the directory of the next
one (`ChainInv`), so a name and the position of every level are the path walked.
The path of a level grows by one name with its depth, and a name is entered only
if the path has room for it: `DepthInv`.
A path is *past* (`Past`) if it branches off below the position of some level;
`FoundInv` says that everything found is past, so the next file, which is not
yet, is new. `MissInv` says that every file that is past is found or below a
directory that returned an error; when the last level returns, every path is past (`PastAtEnd`).

*The three about Language.* `LangInv` says what each call has left out of the text
so far (`Free`), that a text that is collapsed has a word, and that `words` and
`grams` are what `collapse_whitespace` and `split_2grams` make of it. The lemmas on
texts carry the weight. Positions in a set are numbered by `Nth` and, backwards,
by `Rank` (`NthRank`). Without a character other than a space both sides of the
majority test are 0, so the test is what gives the text a word
(`MajorityHasWord`), and the trim stops at its last character (`Trimmed`):
`ReadsInside`. For `GramsOfTheText`, what `collapse_whitespace` keeps (`Left`) is
the words and one space after each (`RankRun`, `SpaceBefore`), so the spaces of
the result are one in front and one for each beginning of a word (`SpacesAre`).
Between the n-th space and the next stands the n-th word of the text
(`WordBetween`), hence between the n-th and the one after the next a pair
(`PairBetween`), and there are as many pairs as neighbours (`PairsAre`).

Induction. Where a proof needs one over numbers, it takes the least
counterexample; nothing is assumed about the data but the constants' assumptions.

Only model-checked, because liveness and fairness are beyond the prover:
`EventuallyExits`, the liveness half of `ImplementsTaskRun`, `AllDelivered`,
`EventuallyEnds`, `EventuallyReturns`. Every safety property of the passing runs
is stated by a theorem; five of them, `EveryFileInOnePlace`, `ExpiresOnlyAfterPanic`,
`NothingDropped`, the safety half of `ImplementsTaskRun` and that the process fails
only on its input, under the hypothesis of one reader.

## 5. Not modelled, and the plan

Not modelled, because no thread or task of the program reaches it: TCP sockets
(`lua_net_ip4_tcp.c`), the detectors other than `language.lua`, `parse_url`,
`replace_chars`, `count_chars` and `count_whitespace` of lua-text, watching for
`EPOLLOUT`. Peer hangups in a live epoll loop are excluded by
`ReceiversCloseFirst`.

Not modelled, because nothing in it can be interleaved or interrupted with
effect: the normalizer (one read, one write), `fs.stat`, `readfile` and
`writefile`, `lua-class`, `lua-trace`, the copying of a thread's arguments.

Not modelled, because it is third-party code: the vendored Lua interpreter,
cjson and utf8proc, most of the lines of the repository. What the program takes
from them (finaliser order, the stack guarantee, escaping, case folding) is
stated where it is used.

Not modelled, because it is no mode of use the program knows: two processes at
once in one working directory. `Startup` would find connections to the wrong
process.

No safety property of a run is left to prove. Liveness stays with TLC.
