--------------------------- MODULE PacketStream ---------------------------
(***************************************************************************)
(* One connection, byte by byte: a UnixSocketClient that sends packets     *)
(* with blocking sends, the kernel's socket buffer, and a UnixSocketClient *)
(* that receives them from an edge-triggered epoll loop, chunk by chunk,   *)
(* and cuts the bytes into packets with net.splitby.                       *)
(*                                                                         *)
(* Packets are JSON texts, in which cjson escapes control characters: no   *)
(* byte of a payload is the separator or NUL.                              *)
(***************************************************************************)
EXTENDS Naturals, Sequences, SequencesExt

CONSTANTS
  Packets,    \* the payloads to send: sequences of bytes
  BufferSize, \* bytes the socket holds before send waits
  ChunkSize,  \* UNIX_SOCKET_RECV_BUF_LEN
  Sep,        \* the byte of packet_sep
  Bytes,      \* the bytes of payloads
  MaxSignals  \* bound: signals that interrupt a send

ASSUME PacketStreamAssumption ==
  /\ Packets \in Seq(Seq(Bytes))
  /\ BufferSize \in Nat \ {0}
  /\ ChunkSize \in Nat \ {0}
  /\ Sep \notin Bytes
  /\ MaxSignals \in Nat

VARIABLES
  spc,       \* sender: "idle", "sending" or "dead" (an assertion failed)
  sent,      \* packets send_w_buf has been through with
  w_buf,     \* bytes of the running send the kernel has not taken yet
  copied,    \* how many it has taken
  socket,    \* bytes sent and not received
  edge,      \* the epoll set has an edge to report
  rpc,       \* receiver: "wait", "recv", "split" or "closed"
  r_buf,     \* bytes received and not cut off yet
  delivered, \* payloads handed to on_packet
  last,      \* the packet on which on_packet returns true
  signals    \* signals so far

senderVars == <<spc, sent, w_buf, copied, signals>>
receiverVars == <<rpc, r_buf, delivered, last>>
vars == <<senderVars, socket, edge, receiverVars>>

TypeOK ==
  /\ spc \in {"idle", "sending", "dead"}
  /\ sent \in 0..Len(Packets)
  /\ w_buf \in Seq(Bytes \union {Sep})
  /\ copied \in Nat
  /\ socket \in Seq(Bytes \union {Sep}) /\ Len(socket) <= BufferSize
  /\ edge \in BOOLEAN
  /\ rpc \in {"wait", "recv", "split", "closed"}
  /\ r_buf \in Seq(Bytes \union {Sep})
  /\ delivered \in Seq(Seq(Bytes))
  /\ last \in 1..(Len(Packets) + 1)
  /\ signals \in 0..MaxSignals

Init ==
  /\ spc = "idle" /\ sent = 0 /\ w_buf = <<>> /\ copied = 0
  /\ socket = <<>> /\ edge = FALSE
  /\ rpc = "wait" /\ r_buf = <<>> /\ delivered = <<>>
  /\ last \in 1..(Len(Packets) + 1)
  /\ signals = 0

----------------------------------------------------------------------------
(* The sender *)

\* Mutant of StartSend: the packet goes out without its separator.
StartSendBare ==
  /\ spc = "idle"
  /\ sent < Len(Packets)
  /\ spc' = "sending"
  /\ w_buf' = Packets[sent + 1]
  /\ copied' = 0
  /\ UNCHANGED <<sent, signals, socket, edge, receiverVars>>

\* send: the packet and its separator are appended to w_buf.
StartSend ==
  /\ spc = "idle"
  /\ sent < Len(Packets)
  /\ spc' = "sending"
  /\ w_buf' = Append(Packets[sent + 1], Sep)
  /\ copied' = 0
  /\ UNCHANGED <<sent, signals, socket, edge, receiverVars>>

\* The kernel takes as many bytes as there is room for; every arrival is an
\* edge for the receiver.
Copy ==
  /\ spc = "sending" /\ w_buf # <<>> /\ rpc # "closed"
  /\ \E n \in 1..Len(w_buf) :
       /\ Len(socket) + n <= BufferSize
       /\ socket' = socket \o SubSeq(w_buf, 1, n)
       /\ w_buf' = SubSeq(w_buf, n + 1, Len(w_buf))
       /\ copied' = copied + n
  /\ edge' = TRUE
  /\ UNCHANGED <<spc, sent, signals, receiverVars>>

\* All was taken: len == #self.w_buf.
SendReturns ==
  /\ spc = "sending" /\ w_buf = <<>>
  /\ spc' = "idle"
  /\ sent' = sent + 1
  /\ UNCHANGED <<w_buf, copied, signals, socket, edge, receiverVars>>

\* EPIPE: the receiver has closed its end.
SendBroken ==
  /\ spc = "sending" /\ w_buf # <<>> /\ rpc = "closed"
  /\ spc' = "dead"
  /\ UNCHANGED <<sent, w_buf, copied, signals, socket, edge, receiverVars>>

\* Mutant of Interrupted: the rest of a short send is taken for sent.
InterruptedUnnoticed ==
  /\ spc = "sending" /\ w_buf # <<>> /\ rpc # "closed"
  /\ signals < MaxSignals
  /\ signals' = signals + 1
  /\ IF copied > 0 THEN w_buf' = <<>> ELSE UNCHANGED w_buf
  /\ UNCHANGED <<spc, sent, copied, socket, edge, receiverVars>>

\* A signal ends the system call: with a short count if bytes were taken,
\* which fails the assertion, else with EINTR, and it is tried again.
Interrupted ==
  /\ spc = "sending" /\ w_buf # <<>> /\ rpc # "closed"
  /\ signals < MaxSignals
  /\ signals' = signals + 1
  /\ spc' = IF copied > 0 THEN "dead" ELSE "sending"
  /\ UNCHANGED <<sent, w_buf, copied, socket, edge, receiverVars>>

----------------------------------------------------------------------------
(* The receiver *)

\* epoll_wait reports the edge and onread calls recv.
Wait ==
  /\ rpc = "wait" /\ edge
  /\ edge' = FALSE
  /\ rpc' = "recv"
  /\ UNCHANGED <<senderVars, socket, r_buf, delivered, last>>

Least(m, n) == IF m <= n THEN m ELSE n

\* Mutant of Recv: the rest kept from earlier chunks is overwritten.
RecvOverwriting ==
  /\ rpc = "recv" /\ socket # <<>>
  /\ LET n == Least(ChunkSize, Len(socket))
     IN /\ r_buf' = SubSeq(socket, 1, n)
        /\ socket' = SubSeq(socket, n + 1, Len(socket))
  /\ rpc' = "split"
  /\ UNCHANGED <<senderVars, edge, delivered, last>>

Recv ==
  /\ rpc = "recv" /\ socket # <<>>
  /\ LET n == Least(ChunkSize, Len(socket))
     IN /\ r_buf' = r_buf \o SubSeq(socket, 1, n)
        /\ socket' = SubSeq(socket, n + 1, Len(socket))
  /\ rpc' = "split"
  /\ UNCHANGED <<senderVars, edge, delivered, last>>

\* EAGAIN: recv returns and the loop waits for the next edge.
RecvNothing ==
  /\ rpc = "recv" /\ socket = <<>>
  /\ rpc' = "wait"
  /\ UNCHANGED <<senderVars, socket, edge, r_buf, delivered, last>>

\* strchr: where the first separator is, or 0.
SepPos(buf) == SelectInSeq(buf, LAMBDA b : b = Sep)

\* Mutant of SplitPacket: the separator goes with the payload.
SplitPacketWhole ==
  /\ rpc = "split"
  /\ LET pos == SepPos(r_buf)
     IN /\ pos > 0
        /\ delivered' = Append(delivered, SubSeq(r_buf, 1, pos))
        /\ r_buf' = SubSeq(r_buf, pos + 1, Len(r_buf))
  /\ IF Len(delivered') = last
     THEN rpc' = "closed" /\ socket' = <<>> /\ edge' = FALSE
     ELSE UNCHANGED <<rpc, socket, edge>>
  /\ UNCHANGED <<senderVars, last>>

\* One turn of the loop in splitby; when on_packet returns true, onhup closes
\* the socket and what is left in it and in r_buf is dropped.
SplitPacket ==
  /\ rpc = "split"
  /\ LET pos == SepPos(r_buf)
     IN /\ pos > 0
        /\ delivered' = Append(delivered, SubSeq(r_buf, 1, pos - 1))
        /\ r_buf' = SubSeq(r_buf, pos + 1, Len(r_buf))
  /\ IF Len(delivered') = last
     THEN rpc' = "closed" /\ socket' = <<>> /\ edge' = FALSE
     ELSE UNCHANGED <<rpc, socket, edge>>
  /\ UNCHANGED <<senderVars, last>>

\* Mutant of SplitDone: recv returns after one chunk.
SplitDoneOnce ==
  /\ rpc = "split"
  /\ SepPos(r_buf) = 0
  /\ rpc' = "wait"
  /\ UNCHANGED <<senderVars, socket, edge, r_buf, delivered, last>>

\* No separator is left: the loop of recv goes on with the next chunk.
SplitDone ==
  /\ rpc = "split"
  /\ SepPos(r_buf) = 0
  /\ rpc' = "recv"
  /\ UNCHANGED <<senderVars, socket, edge, r_buf, delivered, last>>

Sender == StartSend \/ Copy \/ SendReturns \/ SendBroken
Receiver == Wait \/ Recv \/ RecvNothing \/ SplitPacket \/ SplitDone

Next == Sender \/ Interrupted \/ Receiver

\* Both threads are scheduled; signals need not come.
Spec == Init /\ [][Next]_vars /\ WF_vars(Sender) /\ WF_vars(Receiver)

----------------------------------------------------------------------------
(* Properties *)

\* The bytes of the first n packets.
Wire[n \in 0..Len(Packets)] ==
  IF n = 0 THEN <<>> ELSE Wire[n - 1] \o Append(Packets[n], Sep)

\* Of the packet being sent, what the kernel has taken.
Begun == IF spc = "idle" THEN <<>> ELSE SubSeq(Append(Packets[sent + 1], Sep), 1, copied)

\* What is on its way is what is missing: the packets delivered, the bytes in
\* r_buf and those in the socket are together the packets sent and the first
\* bytes of the one being sent, wherever chunks and signals cut the stream.
BytesInOrder ==
  rpc # "closed" => Wire[Len(delivered)] \o r_buf \o socket = Wire[sent] \o Begun

\* The byte stream implements the queue of packets that the threads rely on; a
\* packet counts as sent once the kernel has its separator.
Fifo == INSTANCE PacketFifo WITH
  sent <- IF spc = "sending" /\ w_buf = <<>> THEN sent + 1 ELSE sent,
  open <- rpc # "closed"

ImplementsFifo == Fifo!Spec

\* Every packet sent is delivered, unless the receiver hangs up before it.
AllDelivered ==
  \A n \in 1..Len(Packets) : sent = n ~> (Len(delivered) >= n \/ rpc = "closed")
=============================================================================
