------------------------------ MODULE Streams ------------------------------
(***************************************************************************)
(* The connections between the threads of a tgnews process.                *)
(*                                                                         *)
(* Every pair of threads that talk is joined by one unix stream socket:    *)
(* reader -> worker, worker -> reporter and reader -> reporter.  Packets   *)
(* are newline-terminated JSON objects; here a packet is a record and a    *)
(* stream is the sequence of packets sent and not yet handed to the        *)
(* receiver's on_packet callback, so the kernel's socket buffer and the    *)
(* r_buf of UnixSocketClient are one queue and Capacity bounds both.       *)
(*                                                                         *)
(* Receivers poll their sockets with an edge-triggered epoll set: a stream *)
(* is `ready' when its edge has fired and epoll_wait has not reported it.  *)
(***************************************************************************)
EXTENDS Integers, Sequences

CONSTANTS
  NReaders,   \* threads.readers.amount
  NWorkers,   \* threads.workers.amount
  NFiles,     \* regular files under SRCDIR that its walk reaches
  FilesLimit, \* threads.readers.files_limit
  Capacity,   \* packets a socket holds before a blocking send waits
  Outcome     \* what the task makes of file n: its language, or "bad" if it raises

Languages == {"en", "ru", "unknown"}

ASSUME ClusterAssumption ==
  /\ NReaders \in Nat \ {0}
  /\ NWorkers \in Nat \ {0}
  /\ NFiles \in Nat
  /\ FilesLimit \in Nat \ {0}
  /\ Capacity \in Nat \ {0}
  /\ Outcome \in [1..NFiles -> Languages \union {"bad"}]

ReaderId == 1..NReaders
WorkerId == 1..NWorkers

\* The files every reader sends: it stops after files_limit of them.
Expected == IF NFiles <= FilesLimit THEN NFiles ELSE FilesLimit

FileStream(r, w) == <<"file", r, w>>     \* reader r to worker w
ReportStream(w) == <<"report", w, 0>>    \* worker w to the reporter
ResultStream(r) == <<"result", r, 0>>    \* reader r to the reporter

FileStreams(w) == {FileStream(r, w) : r \in ReaderId}
ReporterStreams == {ReportStream(w) : w \in WorkerId}
                     \union {ResultStream(r) : r \in ReaderId}
Stream == (UNION {FileStreams(w) : w \in WorkerId}) \union ReporterStreams

NoStream == <<"none", 0, 0>>

\* A file is the n-th one that reader r found.
File == ReaderId \X (1..NFiles)

\* {file = ...} from a reader, {result = {files_found}} from a reader, and the
\* table a worker's task returns; `file' is the name that identifies them.
FilePacket(f) == [kind |-> "file", file |-> f]
ResultPacket(n) == [kind |-> "result", found |-> n]
ReportPacket(f, lang) == [kind |-> "report", file |-> f, language |-> lang]

Packet == [kind : {"file"}, file : File]
            \union [kind : {"result"}, found : 0..NFiles]
            \union [kind : {"report"}, file : File, language : Languages]
-----------------------------------------------------------------------------
VARIABLES
  buf,      \* buf[s]: packets sent on s and not yet given to on_packet
  shut,     \* streams whose receiving socket is closed
  watched,  \* streams in the epoll set of their receiver
  ready     \* watched streams whose edge has fired since the last epoll_wait

streamVars == <<buf, shut, watched, ready>>

StreamsTypeOK ==
  /\ buf \in [Stream -> Seq(Packet)]
  /\ shut \subseteq Stream
  /\ watched \subseteq Stream
  /\ ready \subseteq watched

StreamsInit ==
  /\ buf = [s \in Stream |-> <<>>]
  /\ shut = {}
  /\ watched = {}
  /\ ready = {}

\* A blocking send returns: the peer is open and there is room.
CanSend(s) == s \notin shut /\ Len(buf[s]) < Capacity

\* A send that cannot return, now or until the receiver moves.
SendBlocked(s) == s \notin shut /\ Len(buf[s]) >= Capacity

Send(s, packet) ==
  /\ CanSend(s)
  /\ buf' = [buf EXCEPT ![s] = Append(@, packet)]
  /\ ready' = IF s \in watched THEN ready \union {s} ELSE ready
  /\ UNCHANGED <<shut, watched>>

\* epoll_ctl(ADD): a socket that already holds data is ready at once.
Watch(S) ==
  /\ watched' = watched \union S
  /\ ready' = ready \union {s \in S : buf[s] # <<>>}
  /\ UNCHANGED <<buf, shut>>

\* What epoll_wait reports for the epoll set S: fired edges that still have
\* something to read.
Available(S) == {s \in S \intersect ready : buf[s] # <<>>}

\* epoll_wait takes every fired edge of S off the ready list.
TakeEvents(S) ==
  /\ ready' = ready \ S
  /\ UNCHANGED <<buf, shut, watched>>

Receive(s) ==
  /\ buf' = [buf EXCEPT ![s] = Tail(@)]
  /\ UNCHANGED <<shut, watched, ready>>

\* The receivers of S close their sockets: what is left in them is dropped
\* and the kernel takes them out of the epoll set.
Close(S) ==
  /\ buf' = [s \in Stream |-> IF s \in S THEN <<>> ELSE buf[s]]
  /\ shut' = shut \union S
  /\ watched' = watched \ S
  /\ ready' = ready \ S
=============================================================================
