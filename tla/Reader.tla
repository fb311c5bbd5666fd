------------------------------- MODULE Reader -------------------------------
(***************************************************************************)
(* logic/threads/reader.lua after its sockets are connected: walk SRCDIR,  *)
(* hand the files to the workers in round robin, then tell every worker    *)
(* and the reporter how many files there were.  All sends block.           *)
(***************************************************************************)
EXTENDS Streams

VARIABLES
  rpc,          \* where reader r is
  files_found,  \* reader.lua: files_found
  clients,      \* clients[r][i]: the worker whose connection was accepted i-th
  round_robin_next_client_index,
  bcast         \* the client broadcast() sends to next

readerVars == <<rpc, files_found, clients, round_robin_next_client_index, bcast>>

ReaderDead == {"ended", "failed", "panicked"}

ReaderTypeOK ==
  /\ rpc \in [ReaderId -> {"traverse", "broadcast", "report"} \union ReaderDead]
  /\ files_found \in [ReaderId -> 0..Expected]
  /\ clients \in [ReaderId -> [WorkerId -> WorkerId]]
  /\ round_robin_next_client_index \in [ReaderId -> WorkerId]
  /\ bcast \in [ReaderId -> 1..(NWorkers + 1)]
  /\ \A r \in ReaderId :
       /\ rpc[r] = "traverse" => files_found[r] < FilesLimit /\ bcast[r] = 1
       /\ rpc[r] = "broadcast" => bcast[r] <= NWorkers

\* The workers connect in any order; accept() numbers them as they come.
AcceptOrders ==
  {f \in [WorkerId -> WorkerId] : \A i, j \in WorkerId : f[i] = f[j] => i = j}

ReaderInit ==
  /\ rpc = [r \in ReaderId |-> "traverse"]
  /\ files_found = [r \in ReaderId |-> 0]
  /\ clients \in [ReaderId -> AcceptOrders]
  /\ round_robin_next_client_index = [r \in ReaderId |-> 1]
  /\ bcast = [r \in ReaderId |-> 1]

\* Where reader r's next packet goes.
Target(r) ==
  CASE rpc[r] = "traverse"  -> FileStream(r, clients[r][round_robin_next_client_index[r]])
    [] rpc[r] = "broadcast" -> FileStream(r, clients[r][bcast[r]])
    [] OTHER                -> ResultStream(r)

HasMoreFiles(r) == rpc[r] = "traverse" /\ files_found[r] < NFiles

Sending(r) == HasMoreFiles(r) \/ rpc[r] \in {"broadcast", "report"}

\* Mutant of NextClient: the index is never wrapped.
NextClientUnwrapped(i) == i + 1

\* Index after i among the accepted clients, wrapping to the first.
NextClient(i) == IF i + 1 > NWorkers THEN 1 ELSE i + 1

\* The traverse callback: count the file, send it, stop at the limit.
OnFile(r) ==
  LET n == files_found[r] + 1
  IN  /\ HasMoreFiles(r)
      /\ Send(Target(r), FilePacket(<<r, n>>))
      /\ files_found' = [files_found EXCEPT ![r] = n]
      /\ round_robin_next_client_index' =
           [round_robin_next_client_index EXCEPT ![r] = NextClient(@)]
      /\ rpc' = [rpc EXCEPT ![r] = IF n >= FilesLimit THEN "broadcast" ELSE @]
      /\ UNCHANGED <<clients, bcast>>

\* fs.traverse returns true: readdir finds nothing more before the limit is
\* reached.
TraverseEnd(r) ==
  /\ rpc[r] = "traverse"
  /\ files_found[r] = NFiles
  /\ rpc' = [rpc EXCEPT ![r] = "broadcast"]
  /\ UNCHANGED <<files_found, clients, round_robin_next_client_index, bcast>>
  /\ UNCHANGED streamVars

\* fs.traverse returns nil, or its callback raises: SRCDIR cannot be opened, a
\* path in it is too long, stat fails, or, with read_files, a file cannot be
\* read.  That depends on the file system alone and may be met before, between
\* or after the files.  The assertion on the result ends the thread: nobody is
\* told how many files there are.
TraverseFails(r) ==
  /\ rpc[r] = "traverse"
  /\ rpc' = [rpc EXCEPT ![r] = "failed"]
  /\ UNCHANGED <<files_found, clients, round_robin_next_client_index, bcast>>
  /\ UNCHANGED streamVars

\* Mutant of Broadcast: only the first client is told.
BroadcastFirstOnly(r) ==
  /\ rpc[r] = "broadcast"
  /\ Send(Target(r), ResultPacket(files_found[r]))
  /\ bcast' = [bcast EXCEPT ![r] = @ + 1]
  /\ rpc' = [rpc EXCEPT ![r] = "report"]
  /\ UNCHANGED <<files_found, clients, round_robin_next_client_index>>

\* workers:broadcast, one client at a time.
Broadcast(r) ==
  /\ rpc[r] = "broadcast"
  /\ Send(Target(r), ResultPacket(files_found[r]))
  /\ bcast' = [bcast EXCEPT ![r] = @ + 1]
  /\ rpc' = [rpc EXCEPT ![r] = IF bcast[r] = NWorkers THEN "report" ELSE @]
  /\ UNCHANGED <<files_found, clients, round_robin_next_client_index>>

\* reporter:send, the last statement of the thread.
ReportFound(r) ==
  /\ rpc[r] = "report"
  /\ Send(Target(r), ResultPacket(files_found[r]))
  /\ rpc' = [rpc EXCEPT ![r] = "ended"]
  /\ UNCHANGED <<files_found, clients, round_robin_next_client_index, bcast>>

\* The peer is closed: send fails, the assertion in send_w_buf ends the thread.
\* Its locals, counted on in the meantime, are never read again.
ReaderEpipe(r) ==
  /\ Sending(r)
  /\ Target(r) \in shut
  /\ rpc' = [rpc EXCEPT ![r] = "panicked"]
  /\ UNCHANGED <<files_found, clients, round_robin_next_client_index, bcast>>
  /\ UNCHANGED streamVars

ReaderStep(r) ==
  \/ OnFile(r)
  \/ TraverseEnd(r)
  \/ TraverseFails(r)
  \/ Broadcast(r)
  \/ ReportFound(r)
  \/ ReaderEpipe(r)

ReaderBlocked(r) == rpc[r] \in ReaderDead \/ (Sending(r) /\ SendBlocked(Target(r)))
=============================================================================
