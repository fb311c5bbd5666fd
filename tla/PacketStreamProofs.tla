-------------------------- MODULE PacketStreamProofs --------------------------
(***************************************************************************)
(* A connection is the queue of packets that the threads rely on, for any  *)
(* packets, any sizes of chunks and of the socket's buffer, any number of  *)
(* signals and a hangup at any packet.                                     *)
(***************************************************************************)
EXTENDS PacketStream, SequenceTheorems, WellFoundedInduction, NaturalsInduction, TLAPS

Data == Seq(Bytes \union {Sep})

\* Packet n as it is sent.
Framed(n) == Append(Packets[n], Sep)

\* How many packets send was called with.
Started == IF spc = "idle" THEN sent ELSE sent + 1

\* How many packets are sent as far as the kernel is concerned.
Handed == IF spc = "sending" /\ w_buf = <<>> THEN sent + 1 ELSE sent

\* The packets started are those delivered and the bytes in the three buffers.
WireInv ==
  rpc # "closed" => Wire[Len(delivered)] \o (r_buf \o (socket \o w_buf)) = Wire[Started]

\* What the kernel has of a packet and what it has not taken yet is the packet.
SendInv ==
  /\ spc = "idle" => w_buf = <<>>
  /\ spc = "dead" => w_buf # <<>>
  /\ spc # "idle" =>
       /\ sent < Len(Packets)
       /\ copied <= Len(Framed(sent + 1))
       /\ w_buf = SubSeq(Framed(sent + 1), copied + 1, Len(Framed(sent + 1)))

StreamInv == TypeOK /\ SendInv /\ WireInv /\ Len(delivered) <= Handed

-----------------------------------------------------------------------------
(* Induction and sequences. *)

\* A set of natural numbers that is not empty has a least one.
LEMMA NatMin ==
  ASSUME NEW T \in SUBSET Nat, T # {}
  PROVE  \E n \in T : \A m \in T : n <= m
<1>1. PICK n \in T : \A m \in T : <<m, n>> \notin OpToRel(<, Nat)
  BY NatLessThanWellFounded, WFMin
<1>2. \A m \in T : ~(m < n)
  BY <1>1 DEF OpToRel
<1> QED
  BY <1>2

\* Where the first separator is.
LEMMA SepPosition ==
  ASSUME NEW buf \in Data
  PROVE  \/ SepPos(buf) = 0 /\ \A i \in 1..Len(buf) : buf[i] # Sep
         \/ /\ SepPos(buf) \in 1..Len(buf) /\ buf[SepPos(buf)] = Sep
            /\ \A i \in 1..Len(buf) : buf[i] = Sep => SepPos(buf) <= i
<1> DEFINE I == {i \in 1..Len(buf) : buf[i] = Sep}
<1>0. SepPos(buf) = IF I # {} THEN Min(I) ELSE 0
  BY DEF SepPos, SelectInSeq
<1>1. CASE I = {}
  BY <1>0, <1>1
<1>2. CASE I # {}
  <2>1. I \in SUBSET Nat
    OBVIOUS
  <2>2. \E n \in I : \A m \in I : n <= m
    BY <1>2, <2>1, NatMin
  <2>3. Min(I) \in I /\ \A m \in I : Min(I) <= m
    BY <2>2 DEF Min
  <2> QED
    BY <1>0, <1>2, <2>3
<1> QED
  BY <1>1, <1>2

\* Packets and their frames are sequences of bytes.
LEMMA FramedType ==
  /\ Len(Packets) \in Nat
  /\ \A n \in 1..Len(Packets) :
       /\ Packets[n] \in Seq(Bytes) /\ Packets[n] \in Data /\ Framed(n) \in Data
       /\ Len(Framed(n)) = Len(Packets[n]) + 1
<1>1. Packets \in Seq(Seq(Bytes))
  BY PacketStreamAssumption
<1>2. ASSUME NEW n \in 1..Len(Packets)
      PROVE  /\ Packets[n] \in Seq(Bytes) /\ Packets[n] \in Data /\ Framed(n) \in Data
             /\ Len(Framed(n)) = Len(Packets[n]) + 1
  <2>1. Packets[n] \in Seq(Bytes)
    BY <1>1, ElementOfSeq
  <2>2. Packets[n] \in Data
    BY <2>1, SeqMonotonic DEF Data
  <2> QED
    BY <2>1, <2>2, AppendProperties DEF Framed, Data
<1> QED
  BY <1>1, <1>2, LenProperties

\* The bytes of a packet more.
LEMMA WireDef ==
  /\ Wire[0] = <<>>
  /\ \A n \in 1..Len(Packets) : Wire[n] = Wire[n - 1] \o Framed(n)
<1> DEFINE Value(g, i) == IF i = 0 THEN <<>> ELSE g[i - 1] \o Framed(i)
           Upto(n, g) == g = [i \in 0..n |-> Value(g, i)]
           T == {n \in Nat : ~\E g : Upto(n, g)}
<1>1. T \in SUBSET Nat /\ \A n \in Nat : n \in T <=> ~\E g : Upto(n, g)
  OBVIOUS
<1>2. 0 \notin T
  <2>1. PICK h : h = [i \in 0..0 |-> <<>>]
    OBVIOUS
  <2>2. Upto(0, h)
    BY <2>1
  <2> QED
    BY <1>1, <2>2
<1>3. ASSUME NEW m \in Nat, m \notin T PROVE m + 1 \notin T
  <2>1. PICK g : Upto(m, g)
    BY <1>1, <1>3
  <2>2. PICK h : h = [i \in 0..(m + 1) |-> Value(g, i)]
    OBVIOUS
  <2>3. \A i \in 0..m : g[i] = h[i]
    <3>1. \A i \in 0..m : g[i] = Value(g, i)
      BY <2>1
    <3>2. \A i \in 0..(m + 1) : h[i] = Value(g, i)
      BY <2>2
    <3>3. \A i \in 0..m : i \in 0..(m + 1)
      OBVIOUS
    <3> HIDE DEF Value
    <3> QED
      BY <3>1, <3>2, <3>3
  <2>4. \A i \in 0..(m + 1) : i # 0 => i - 1 \in 0..m
    OBVIOUS
  <2>5. \A i \in 0..(m + 1) : Value(h, i) = Value(g, i)
    BY <2>3, <2>4
  <2>6. Upto(m + 1, h)
    BY <2>2, <2>5
  <2> QED
    BY <1>1, <2>6
<1> HIDE DEF T
<1>4. T = {}
  <2> SUFFICES ASSUME T # {} PROVE FALSE
    OBVIOUS
  <2>1. PICK n \in T : \A m \in T : n <= m
    BY <1>1, NatMin
  <2>2. n \in Nat /\ n # 0
    BY <1>1, <1>2, <2>1
  <2>3. PICK m \in Nat : n = m + 1
    BY <2>2
  <2>4. m \notin T
    BY <2>1, <2>3
  <2> QED
    BY <1>3, <2>1, <2>3, <2>4
<1>5. PICK N \in Nat : N = Len(Packets)
  BY FramedType
<1>6. \E g : Upto(N, g)
  BY <1>1, <1>4
<1>7. Wire = CHOOSE g : Upto(N, g)
  BY <1>5 DEF Wire, Framed
<1>8. Upto(N, Wire)
  BY <1>6, <1>7
<1>9. \A n \in 0..N : Wire[n] = Value(Wire, n)
  BY <1>8
<1>10. 0 \in 0..N /\ \A n \in 1..N : n \in 0..N /\ n # 0
  OBVIOUS
<1> QED
  BY <1>5, <1>9, <1>10

\* The bytes of packets are bytes.
LEMMA WireType == \A n \in 0..Len(Packets) : Wire[n] \in Data
<1> DEFINE T == {n \in 0..Len(Packets) : Wire[n] \notin Data}
<1> SUFFICES ASSUME T # {} PROVE FALSE
  OBVIOUS
<1>1. PICK N \in Nat : N = Len(Packets)
  BY FramedType
<1>2. T \in SUBSET Nat /\ \A n \in 0..N : n \in T <=> Wire[n] \notin Data
  BY <1>1
<1>3. T \subseteq 0..N
  BY <1>1
<1> HIDE DEF T
<1>4. PICK n \in T : \A m \in T : n <= m
  BY <1>2, NatMin
<1>5. n \in 0..N /\ Wire[n] \notin Data
  BY <1>2, <1>3
<1>6. CASE n = 0
  BY <1>5, <1>6, WireDef, EmptySeq DEF Data
<1>7. CASE n # 0
  <2>1. n \in 1..N /\ n - 1 \in 0..N /\ ~(n <= n - 1)
    BY <1>5, <1>7
  <2>2. Wire[n - 1] \in Data
    BY <1>2, <1>4, <2>1
  <2>3. Wire[n] = Wire[n - 1] \o Framed(n) /\ Framed(n) \in Data
    BY <1>1, <2>1, WireDef, FramedType
  <2>4. Wire[n - 1] \o Framed(n) \in Data
    BY <2>2, <2>3, ConcatProperties DEF Data
  <2> QED
    BY <1>5, <2>3, <2>4
<1> QED
  BY <1>6, <1>7

\* Concatenation of data is data.
LEMMA DataConcat == \A a, b \in Data : a \o b \in Data
BY ConcatProperties DEF Data

\* Concatenation of data is associative.
LEMMA DataAssociative == \A a, b, c \in Data : (a \o b) \o c = a \o (b \o c)
<1> SUFFICES ASSUME NEW a \in Data, NEW b \in Data, NEW c \in Data
             PROVE  (a \o b) \o c = a \o (b \o c)
  OBVIOUS
<1>1. PICK S : S = Bytes \union {Sep}
  OBVIOUS
<1>2. a \in Seq(S) /\ b \in Seq(S) /\ c \in Seq(S)
  BY <1>1 DEF Data
<1> QED
  BY <1>2, ConcatAssociative

\* Four pieces of the stream, however they are held together.
LEMMA Regroup ==
  \A a, b, c, d \in Data : a \o (b \o (c \o d)) = ((a \o b) \o c) \o d
<1> SUFFICES ASSUME NEW a \in Data, NEW b \in Data, NEW c \in Data, NEW d \in Data
             PROVE  a \o (b \o (c \o d)) = ((a \o b) \o c) \o d
  OBVIOUS
<1>1. PICK v \in Data : v = c \o d
  BY DataConcat
<1>2. (a \o b) \o v = a \o (b \o v)
  BY DataAssociative, SMTT(30)
<1>3. PICK u \in Data : u = a \o b
  BY DataConcat
<1>4. (u \o c) \o d = u \o (c \o d)
  BY DataAssociative
<1> QED
  BY <1>1, <1>2, <1>3, <1>4

\* Fewer packets are a prefix of more.
LEMMA WirePrefix ==
  ASSUME NEW m \in 0..Len(Packets)
  PROVE  \A n \in m..Len(Packets) : \E R \in Data : Wire[n] = Wire[m] \o R
<1> DEFINE T == {n \in m..Len(Packets) : ~\E R \in Data : Wire[n] = Wire[m] \o R}
<1> SUFFICES ASSUME T # {} PROVE FALSE
  OBVIOUS
<1>1. PICK N \in Nat : N = Len(Packets)
  BY FramedType
<1>2. m \in Nat /\ m <= N
  BY <1>1
<1>3. \A n \in m..N : n \in T <=> ~\E R \in Data : Wire[n] = Wire[m] \o R
  BY <1>1
<1>4. T \subseteq m..N /\ T \in SUBSET Nat
  BY <1>1, <1>2
<1> HIDE DEF T
<1>5. PICK n \in T : \A i \in T : n <= i
  BY <1>4, NatMin
<1>6. n \in m..N /\ ~\E R \in Data : Wire[n] = Wire[m] \o R
  BY <1>3, <1>4
<1>7. CASE n = m
  <2>1. Wire[m] \in Data
    BY WireType
  <2>2. <<>> \in Data /\ Wire[m] = Wire[m] \o <<>>
    BY <2>1, EmptySeq, ConcatEmptySeq DEF Data
  <2> QED
    BY <1>6, <1>7, <2>2
<1>8. CASE n # m
  <2>1. n \in 1..N /\ n - 1 \in m..N /\ ~(n <= n - 1)
    BY <1>2, <1>6, <1>8
  <2>2. PICK R \in Data : Wire[n - 1] = Wire[m] \o R
    BY <1>3, <1>5, <2>1
  <2>3. Wire[n] = Wire[n - 1] \o Framed(n) /\ Framed(n) \in Data
    BY <1>1, <2>1, WireDef, FramedType
  <2>4. Wire[m] \in Data
    BY WireType
  <2>5. R \o Framed(n) \in Data
    BY <2>3, DataConcat
  <2>6. (Wire[m] \o R) \o Framed(n) = Wire[m] \o (R \o Framed(n))
    BY <2>3, <2>4, DataAssociative
  <2> QED
    BY <1>6, <2>2, <2>3, <2>5, <2>6
<1> QED
  BY <1>7, <1>8

\* A sequence is its two parts.
LEMMA Parts ==
  ASSUME NEW s \in Data, NEW n \in 0..Len(s)
  PROVE  /\ SubSeq(s, 1, n) \in Data /\ Len(SubSeq(s, 1, n)) = n
         /\ SubSeq(s, n + 1, Len(s)) \in Data
         /\ Len(SubSeq(s, n + 1, Len(s))) = Len(s) - n
         /\ \A i \in 1..n : SubSeq(s, 1, n)[i] = s[i]
         /\ \A i \in 1..(Len(s) - n) : SubSeq(s, n + 1, Len(s))[i] = s[n + i]
         /\ s = SubSeq(s, 1, n) \o SubSeq(s, n + 1, Len(s))
<1>1. PICK N \in Nat : N = Len(s) /\ \A i \in 1..N : s[i] \in Bytes \union {Sep}
  BY LenProperties, ElementOfSeq DEF Data
<1>2. n \in Nat /\ n <= N
  BY <1>1
<1>3. /\ SubSeq(s, 1, n) \in Data /\ Len(SubSeq(s, 1, n)) = n
      /\ \A i \in 1..n : SubSeq(s, 1, n)[i] = s[i]
  BY <1>1, <1>2, SubSeqProperties DEF Data
<1>4. /\ SubSeq(s, n + 1, N) \in Data /\ Len(SubSeq(s, n + 1, N)) = N - n
      /\ \A i \in 1..(N - n) : SubSeq(s, n + 1, N)[i] = s[n + i]
  <2>1. \A i \in (n + 1)..N : s[i] \in Bytes \union {Sep}
    BY <1>1, <1>2
  <2>2. /\ SubSeq(s, n + 1, N) \in Data
        /\ Len(SubSeq(s, n + 1, N)) = IF n + 1 <= N THEN N - (n + 1) + 1 ELSE 0
        /\ \A i \in 1..(N - (n + 1) + 1) : SubSeq(s, n + 1, N)[i] = s[(n + 1) + i - 1]
    BY <1>1, <1>2, <2>1, SubSeqProperties DEF Data
  <2>3. N - (n + 1) + 1 = N - n /\ \A i \in 1..(N - n) : (n + 1) + i - 1 = n + i
    BY <1>1, <1>2
  <2>4. (IF n + 1 <= N THEN N - n ELSE 0) = N - n
    BY <1>1, <1>2
  <2> QED
    BY <2>2, <2>3, <2>4
<1>5. s = SubSeq(s, 1, n) \o SubSeq(s, n + 1, N)
  <2>1. SubSeq(s, 1, n) \o SubSeq(s, n + 1, N) = SubSeq(s, 1, N)
    <3>1. 1 \in 1..(Len(s) + 1) /\ n \in (1 - 1)..Len(s) /\ N \in n..Len(s)
      BY <1>1, <1>2
    <3> QED
      BY <3>1, ConcatAdjacentSubSeq DEF Data
  <2>2. SubSeq(s, 1, N) = s
    BY <1>1, SubSeqFull DEF Data
  <2> QED
    BY <2>1, <2>2
<1> QED
  BY <1>1, <1>3, <1>4, <1>5

\* The buffer's first packet, and what is behind it.
FirstOf(buf) == SubSeq(buf, 1, SepPos(buf) - 1)
RestOf(buf) == SubSeq(buf, SepPos(buf) + 1, Len(buf))

\* What is cut off at the first separator is the first payload.
LEMMA Cut ==
  \A n \in 1..Len(Packets) : \A X, Y, Z, W \in Data :
    W = X \o Y /\ W = Framed(n) \o Z /\ SepPos(X) > 0 =>
      FirstOf(X) = Packets[n] /\ RestOf(X) \in Data /\ Z = RestOf(X) \o Y
<1> SUFFICES ASSUME NEW n \in 1..Len(Packets),
                    NEW X \in Data, NEW Y \in Data, NEW Z \in Data, NEW W \in Data,
                    W = X \o Y, W = Framed(n) \o Z, SepPos(X) > 0
             PROVE  FirstOf(X) = Packets[n] /\ RestOf(X) \in Data /\ Z = RestOf(X) \o Y
  BY ZenonT(30)
<1>0. PICK P \in Seq(Bytes), F \in Data : P = Packets[n] /\ F = Framed(n) /\ F = Append(P, Sep)
  BY FramedType DEF Framed
<1>1. PICK pos : pos = SepPos(X)
  OBVIOUS
<1>2. PICK L \in Nat : L = Len(P)
  BY LenProperties
<1>3. PICK N \in Nat : N = Len(X)
  BY LenProperties DEF Data
<1>4. /\ pos \in 1..N /\ X[pos] = Sep
      /\ \A i \in 1..N : X[i] = Sep => pos <= i
  BY <1>1, <1>3, SepPosition
<1>5. /\ Len(F) = L + 1 /\ F[L + 1] = Sep
      /\ \A i \in 1..L : F[i] = P[i] /\ P[i] # Sep
  <2>1. P \in Data
    BY SeqMonotonic DEF Data
  <2>2. Len(F) = L + 1 /\ F[L + 1] = Sep /\ \A i \in 1..L : F[i] = P[i]
    BY <1>0, <1>2, <2>1, AppendProperties DEF Data
  <2>3. \A i \in 1..L : P[i] \in Bytes
    BY <1>2, ElementOfSeq
  <2> QED
    BY <2>2, <2>3, PacketStreamAssumption
<1>6. \A i \in 1..N : (X \o Y)[i] = X[i]
  <2>1. Len(Y) \in Nat
    BY LenProperties DEF Data
  <2>2. \A i \in 1..(N + Len(Y)) : (X \o Y)[i] = IF i <= N THEN X[i] ELSE Y[i - N]
    BY <1>3, ConcatProperties DEF Data
  <2>3. \A i \in 1..N : i \in 1..(N + Len(Y)) /\ i <= N
    BY <2>1
  <2> QED
    BY <2>2, <2>3
<1>7. \A i \in 1..(L + 1) : (F \o Z)[i] = F[i]
  <2>1. Len(Z) \in Nat
    BY LenProperties DEF Data
  <2>2. \A i \in 1..(Len(F) + Len(Z)) : (F \o Z)[i] = IF i <= Len(F) THEN F[i] ELSE Z[i - Len(F)]
    BY ConcatProperties DEF Data
  <2>3. \A i \in 1..((L + 1) + Len(Z)) : (F \o Z)[i] = IF i <= L + 1 THEN F[i] ELSE Z[i - (L + 1)]
    BY <1>5, <2>2
  <2>4. L + 1 \in Nat /\ \A i \in 1..(L + 1) : i \in 1..((L + 1) + Len(Z)) /\ i <= L + 1
    BY <2>1
  <2> QED
    BY <2>3, <2>4
<1>8. \A i \in 1..N : i \in 1..(L + 1) => X[i] = F[i]
  BY <1>0, <1>6, <1>7
<1>9. pos = L + 1
  <2>1. ~(pos <= L)
    <3> SUFFICES ASSUME pos <= L PROVE FALSE
      OBVIOUS
    <3>1. pos \in 1..L /\ pos \in 1..(L + 1)
      BY <1>4
    <3> QED
      BY <1>4, <1>5, <1>8, <3>1
  <2>2. ~(pos > L + 1)
    <3> SUFFICES ASSUME pos > L + 1 PROVE FALSE
      OBVIOUS
    <3>1. L + 1 \in 1..N /\ L + 1 \in 1..(L + 1) /\ ~(pos <= L + 1)
      BY <1>4
    <3> QED
      BY <1>4, <1>5, <1>8, <3>1
  <2> QED
    BY <1>4, <2>1, <2>2
<1>10. L \in 0..Len(X) /\ L + 1 \in 0..Len(X)
  BY <1>3, <1>4, <1>9
<1>11. SubSeq(X, 1, L) = P
  <2>1. /\ SubSeq(X, 1, L) \in Data /\ Len(SubSeq(X, 1, L)) = L
        /\ \A i \in 1..L : SubSeq(X, 1, L)[i] = X[i]
    BY <1>10, Parts
  <2>2. \A i \in 1..L : i \in 1..(L + 1) /\ i \in 1..N
    BY <1>3, <1>10
  <2>3. \A i \in 1..L : SubSeq(X, 1, L)[i] = P[i]
    BY <1>5, <1>8, <2>1, <2>2
  <2>4. P \in Data
    BY SeqMonotonic DEF Data
  <2> QED
    BY <1>2, <2>1, <2>3, <2>4, SeqEqual DEF Data
<1>12. SubSeq(X, 1, L + 1) = F
  <2>1. /\ SubSeq(X, 1, L + 1) \in Data /\ Len(SubSeq(X, 1, L + 1)) = L + 1
        /\ \A i \in 1..(L + 1) : SubSeq(X, 1, L + 1)[i] = X[i]
    BY <1>10, Parts
  <2>2. \A i \in 1..(L + 1) : i \in 1..N
    BY <1>3, <1>10
  <2>3. \A i \in 1..(L + 1) : SubSeq(X, 1, L + 1)[i] = F[i]
    BY <1>8, <2>1, <2>2
  <2> QED
    BY <1>5, <2>1, <2>3, SeqEqual DEF Data
<1>13. PICK X2 : X2 = SubSeq(X, (L + 1) + 1, Len(X))
  OBVIOUS
<1>14. X2 \in Data /\ X = F \o X2
  BY <1>10, <1>12, <1>13, Parts
<1>15. F \o (X2 \o Y) = F \o Z /\ X2 \o Y \in Data
  <2>1. X2 \o Y \in Data
    BY <1>14, DataConcat
  <2>2. (F \o X2) \o Y = F \o (X2 \o Y)
    BY <1>14, DataAssociative, ZenonT(30)
  <2> QED
    BY <1>0, <1>14, <2>1, <2>2
<1>16. X2 \o Y = Z
  BY <1>15, ConcatSimplifications DEF Data
<1>17. pos - 1 = L
  BY <1>9
<1> QED
  BY <1>0, <1>1, <1>3, <1>4, <1>9, <1>11, <1>13, <1>14, <1>16, <1>17
     DEF FirstOf, RestOf

-----------------------------------------------------------------------------
(* The invariant holds. *)

\* What the invariant says of the types of the pieces.
LEMMA Pieces ==
  ASSUME TypeOK, SendInv, Len(delivered) <= Handed
  PROVE  /\ r_buf \in Data /\ socket \in Data /\ w_buf \in Data
         /\ sent \in 0..Len(Packets) /\ Started \in 0..Len(Packets)
         /\ Handed \in sent..Started
         /\ Len(delivered) \in 0..Handed /\ Len(delivered) \in 0..Len(Packets)
         /\ Wire[Len(delivered)] \in Data
         /\ Wire[sent] \in Data /\ Wire[Started] \in Data
<1>1. PICK N \in Nat : N = Len(Packets)
  BY FramedType
<1>2. sent \in 0..N /\ (spc # "idle" => sent < N)
  BY <1>1 DEF TypeOK, SendInv
<1>3. Started \in 0..N /\ Handed \in sent..Started
  BY <1>2 DEF Started, Handed
<1>4. Len(delivered) \in Nat
  BY LenProperties DEF TypeOK
<1>5. Len(delivered) \in 0..Handed /\ Len(delivered) \in 0..N
  BY <1>2, <1>3, <1>4
<1>6. r_buf \in Data /\ socket \in Data /\ w_buf \in Data
  BY DEF TypeOK, Data
<1> QED
  BY <1>1, <1>2, <1>3, <1>5, <1>6, WireType

\* Nothing is on its way at first.
LEMMA StreamInit == ASSUME Init PROVE StreamInv
<1>1. Len(Packets) \in Nat
  BY FramedType
<1>2. TypeOK
  <2>1. <<>> \in Seq(Bytes \union {Sep}) /\ <<>> \in Seq(Seq(Bytes)) /\ Len(<<>>) = 0
    BY EmptySeq
  <2>2. BufferSize \in Nat /\ 0 <= BufferSize /\ 0 \in 0..MaxSignals
    BY PacketStreamAssumption
  <2>3. 0 \in 0..Len(Packets) /\ 0 \in Nat
    BY <1>1
  <2> QED
    BY <2>1, <2>2, <2>3 DEF Init, TypeOK
<1>3. SendInv
  BY DEF Init, SendInv
<1>4. WireInv
  <2>1. <<>> \in Data /\ <<>> \o <<>> = <<>> /\ Len(<<>>) = 0
    BY EmptySeq, ConcatEmptySeq DEF Data
  <2>2. r_buf = <<>> /\ socket = <<>> /\ w_buf = <<>> /\ delivered = <<>> /\ sent = 0 /\ spc = "idle"
    BY DEF Init
  <2> QED
    BY <2>1, <2>2, WireDef DEF WireInv, Started
<1>5. Len(delivered) <= Handed
  BY EmptySeq DEF Init, Handed
<1> QED
  BY <1>2, <1>3, <1>4, <1>5 DEF StreamInv

\* send puts a packet more under way.
LEMMA StartSendInv == ASSUME StreamInv, StartSend PROVE StreamInv'
<1> USE DEF StreamInv
<1>1. PICK N \in Nat : N = Len(Packets)
  BY FramedType
<1>2. PICK F \in Data : F = Framed(sent + 1) /\ sent + 1 \in 1..N /\ Len(F) = Len(Packets[sent + 1]) + 1
  <2>1. sent + 1 \in 1..N
    BY <1>1 DEF StartSend, TypeOK
  <2> QED
    BY <1>1, <2>1, FramedType
<1>3. /\ spc = "idle" /\ spc' = "sending" /\ sent' = sent /\ copied' = 0 /\ w_buf = <<>> /\ w_buf' = F
      /\ r_buf' = r_buf /\ socket' = socket /\ delivered' = delivered /\ rpc' = rpc
  BY <1>2 DEF StartSend, Framed, SendInv, receiverVars
<1>4. r_buf \in Data /\ socket \in Data /\ w_buf \in Data /\ Wire[Len(delivered)] \in Data
  BY Pieces
<1>5. TypeOK'
  BY <1>2, <1>3 DEF TypeOK, Data, StartSend, receiverVars
<1>6. Len(F) \in Nat /\ SubSeq(F, 1, Len(F)) = F /\ F # <<>>
  <2>1. Len(F) \in Nat /\ SubSeq(F, 1, Len(F)) = F
    BY LenProperties, SubSeqFull DEF Data
  <2>2. F # <<>>
    <3>1. Packets[sent + 1] \in Data
      BY <1>1, <1>2, FramedType
    <3> QED
      BY <1>2, <3>1, AppendProperties DEF Framed, Data
  <2> QED
    BY <2>1, <2>2
<1>7. SendInv'
  <2>0. sent \in Nat
    BY <1>1 DEF TypeOK
  <2>1. 0 <= Len(F) /\ 0 + 1 = 1 /\ sent < N
    BY <1>2, <1>6, <2>0
  <2>2. Framed(sent + 1)' = F
    BY <1>2, <1>3 DEF Framed
  <2>3. w_buf' = SubSeq(F, copied' + 1, Len(F))
    BY <1>3, <1>6, <2>1
  <2> QED
    BY <1>1, <1>2, <1>3, <1>6, <2>1, <2>2, <2>3 DEF SendInv, Framed
<1>8. WireInv'
  <2> SUFFICES ASSUME rpc # "closed"
               PROVE  Wire[Len(delivered)] \o (r_buf \o (socket \o F)) = Wire[sent + 1]
    BY <1>3 DEF WireInv, Started
  <2>1. Wire[Len(delivered)] \o (r_buf \o (socket \o w_buf)) = Wire[sent]
    BY <1>3 DEF WireInv, Started
  <2>2. socket \o w_buf = socket
    BY <1>3, <1>4, ConcatEmptySeq DEF Data
  <2>3. Wire[sent + 1] = Wire[sent] \o F
    <3>1. sent \in Nat
      BY <1>1 DEF TypeOK
    <3>2. (sent + 1) - 1 = sent
      BY <3>1
    <3> QED
      BY <1>1, <1>2, <3>2, WireDef
  <2>4. PICK D \in Data : D = Wire[Len(delivered)]
    BY <1>4
  <2>5. PICK r \in Data, t \in Data : r = r_buf /\ t = socket
    BY <1>4
  <2>6. D \o (r \o (t \o F)) = ((D \o r) \o t) \o F
    <3>1. \A x, y \in Data : D \o (r \o (x \o y)) = ((D \o r) \o x) \o y
      BY Regroup
    <3> QED
      BY <3>1
  <2>7. (D \o r) \o t = D \o (r \o t)
    BY DataAssociative
  <2> QED
    BY <2>1, <2>2, <2>3, <2>4, <2>5, <2>6, <2>7
<1>9. (Len(delivered) <= Handed)'
  <2>1. Handed' = Handed
    BY <1>3, <1>6 DEF Handed
  <2> QED
    BY <1>3, <2>1
<1> QED
  BY <1>5, <1>7, <1>8, <1>9

\* The bytes the kernel takes go from the end of one buffer to the next.
LEMMA CopyInv == ASSUME StreamInv, Copy PROVE StreamInv'
<1> USE DEF StreamInv
<1>1. PICK N \in Nat : N = Len(Packets)
  BY FramedType
<1>2. r_buf \in Data /\ socket \in Data /\ w_buf \in Data /\ Wire[Len(delivered)] \in Data
  BY Pieces
<1>3. /\ spc = "sending" /\ w_buf # <<>> /\ spc' = spc /\ sent' = sent /\ rpc # "closed"
      /\ r_buf' = r_buf /\ delivered' = delivered /\ rpc' = rpc /\ last' = last
      /\ edge' = TRUE /\ signals' = signals
  BY DEF Copy, receiverVars
<1>4. PICK n \in 1..Len(w_buf) :
        /\ Len(socket) + n <= BufferSize
        /\ socket' = socket \o SubSeq(w_buf, 1, n)
        /\ w_buf' = SubSeq(w_buf, n + 1, Len(w_buf))
        /\ copied' = copied + n
  BY DEF Copy
<1>5. PICK A : A = SubSeq(w_buf, 1, n)
  OBVIOUS
<1>6. PICK B : B = SubSeq(w_buf, n + 1, Len(w_buf))
  OBVIOUS
<1>7. PICK L \in Nat : L = Len(w_buf)
  BY <1>2, LenProperties DEF Data
<1>8. /\ A \in Data /\ Len(A) = n /\ B \in Data /\ Len(B) = L - n /\ w_buf = A \o B
      /\ \A i \in 1..(L - n) : B[i] = w_buf[n + i]
  <2>1. n \in 0..Len(w_buf)
    BY <1>4, <1>7
  <2> QED
    BY <1>2, <1>5, <1>6, <1>7, <2>1, Parts
<1>9. socket' \in Data /\ Len(socket') <= BufferSize
  <2>1. socket \o A \in Data /\ Len(socket \o A) = Len(socket) + n
    BY <1>2, <1>8, ConcatProperties DEF Data
  <2> QED
    BY <1>4, <1>5, <2>1
<1>10. copied \in Nat /\ n \in Nat /\ copied + n \in Nat
  BY <1>4, <1>7 DEF TypeOK
<1>11. TypeOK'
  BY <1>3, <1>4, <1>6, <1>8, <1>9, <1>10 DEF TypeOK, Data
<1>12. PICK F \in Data : F = Framed(sent + 1) /\ sent < N
  <2>1. sent + 1 \in 1..N
    BY <1>1, <1>3 DEF SendInv, TypeOK
  <2>2. sent < N
    BY <1>1, <1>3 DEF SendInv
  <2> QED
    BY <1>1, <2>1, <2>2, FramedType
<1>13. PICK M \in Nat : M = Len(F)
  BY LenProperties DEF Data
<1>14. copied \in 0..M /\ w_buf = SubSeq(F, copied + 1, M)
  BY <1>3, <1>10, <1>12, <1>13 DEF SendInv
<1>15. L = M - copied /\ \A i \in 1..(M - copied) : w_buf[i] = F[copied + i]
  BY <1>7, <1>13, <1>14, Parts
<1>16. copied + n \in 0..M
  BY <1>4, <1>7, <1>14, <1>15
<1>17. B = SubSeq(F, (copied + n) + 1, M)
  <2>1. PICK C : C = SubSeq(F, (copied + n) + 1, M)
    OBVIOUS
  <2>2. /\ C \in Data /\ Len(C) = M - (copied + n)
        /\ \A i \in 1..(M - (copied + n)) : C[i] = F[(copied + n) + i]
    BY <1>13, <1>16, <2>1, Parts
  <2>3. Len(B) = M - (copied + n) /\ L - n = M - (copied + n)
    BY <1>8, <1>10, <1>15
  <2>4. \A i \in 1..(M - (copied + n)) :
          n + i \in 1..(M - copied) /\ copied + (n + i) = (copied + n) + i
    BY <1>10
  <2>5. ASSUME NEW i \in 1..(M - (copied + n)) PROVE B[i] = C[i]
    <3>1. i \in 1..(L - n)
      BY <2>3
    <3>2. PICK k \in 1..(M - copied) : k = n + i /\ copied + k = (copied + n) + i
      BY <2>4
    <3>3. B[i] = w_buf[k] /\ w_buf[k] = F[copied + k]
      BY <1>8, <1>15, <3>1, <3>2
    <3> QED
      BY <2>2, <3>2, <3>3
  <2> QED
    BY <1>8, <2>1, <2>2, <2>3, <2>5, SeqEqual DEF Data
<1>18. SendInv'
  <2>1. Framed(sent + 1)' = F
    BY <1>3, <1>12 DEF Framed
  <2>2. copied' <= M
    BY <1>4, <1>16
  <2>4. w_buf' = SubSeq(F, copied' + 1, M)
    BY <1>4, <1>6, <1>17
  <2>3. spc' = "sending" /\ sent' < Len(Packets)
    BY <1>1, <1>3, <1>12
  <2> QED
    BY <1>3, <1>13, <2>1, <2>2, <2>3, <2>4 DEF SendInv
<1>19. WireInv'
  <2>1. socket' \o w_buf' = socket \o w_buf
    <3>1. PICK t \in Data : t = socket
      BY <1>2
    <3>2. (t \o A) \o B = t \o (A \o B)
      BY <1>8, DataAssociative
    <3> QED
      BY <1>4, <1>5, <1>6, <1>8, <3>1, <3>2
  <2> QED
    BY <1>3, <2>1 DEF WireInv, Started
<1>20. (Len(delivered) <= Handed)'
  <2>1. sent \in Nat /\ Len(delivered) \in Nat
    BY Pieces, <1>1, LenProperties DEF TypeOK
  <2>2. Handed = sent /\ Handed' \in {sent, sent + 1}
    BY <1>3 DEF Handed
  <2> QED
    BY <1>3, <2>1, <2>2
<1> QED
  BY <1>11, <1>18, <1>19, <1>20

\* The frame of the packet being sent is of the same bytes after the step.
LEMMA SameSend ==
  ASSUME SendInv, UNCHANGED <<spc, sent, w_buf, copied>>
  PROVE  SendInv' /\ Started' = Started /\ Handed' = Handed
BY DEF SendInv, Started, Handed, Framed

\* A send that returns leaves nothing behind.
LEMMA SendReturnsInv == ASSUME StreamInv, SendReturns PROVE StreamInv'
<1> USE DEF StreamInv
<1>1. PICK N \in Nat : N = Len(Packets)
  BY FramedType
<1>2. sent \in 0..N /\ sent < N
  BY <1>1 DEF SendReturns, SendInv, TypeOK
<1>3. sent + 1 \in 0..N
  BY <1>2
<1>4. TypeOK'
  BY <1>1, <1>3 DEF SendReturns, TypeOK, receiverVars
<1>5. SendInv'
  BY DEF SendReturns, SendInv
<1>6. WireInv'
  BY DEF SendReturns, WireInv, Started, receiverVars
<1>7. (Len(delivered) <= Handed)'
  BY DEF SendReturns, Handed, receiverVars
<1> QED
  BY <1>4, <1>5, <1>6, <1>7

\* A failed assertion leaves the bytes where they are.
LEMMA SendFailsInv == ASSUME StreamInv, SendBroken \/ Interrupted PROVE StreamInv'
<1> USE DEF StreamInv
<1>1. /\ UNCHANGED <<sent, w_buf, copied, socket, r_buf, delivered, rpc>>
      /\ spc = "sending" /\ w_buf # <<>> /\ spc' \in {"sending", "dead"}
  BY DEF SendBroken, Interrupted, receiverVars
<1>2. signals' \in 0..MaxSignals
  BY PacketStreamAssumption DEF SendBroken, Interrupted, TypeOK
<1>3. TypeOK'
  BY <1>1, <1>2 DEF TypeOK, SendBroken, Interrupted, receiverVars
<1>4. SendInv'
  BY <1>1 DEF SendInv, Framed
<1>5. WireInv'
  BY <1>1 DEF WireInv, Started
<1>6. (Len(delivered) <= Handed)'
  BY <1>1 DEF Handed
<1> QED
  BY <1>3, <1>4, <1>5, <1>6

\* Waiting, and finding no byte or no separator, moves nothing.
LEMMA IdleInv == ASSUME StreamInv, Wait \/ RecvNothing \/ SplitDone \/ UNCHANGED vars PROVE StreamInv'
<1> USE DEF StreamInv
<1>1. /\ UNCHANGED <<spc, sent, w_buf, copied, signals, socket, r_buf, delivered, last>>
      /\ edge' \in BOOLEAN /\ rpc' \in {"wait", "recv", "split", "closed"}
      /\ rpc' = "closed" => rpc = "closed"
      /\ rpc = "closed" => rpc' = "closed"
  BY DEF Wait, RecvNothing, SplitDone, vars, senderVars, receiverVars, TypeOK
<1>2. TypeOK'
  BY <1>1 DEF TypeOK
<1>3. SendInv' /\ Started' = Started /\ Handed' = Handed
  BY <1>1, SameSend
<1>4. WireInv'
  BY <1>1, <1>3 DEF WireInv
<1> QED
  BY <1>1, <1>2, <1>3, <1>4

\* The bytes received go from the socket to the end of r_buf.
LEMMA RecvInv == ASSUME StreamInv, Recv PROVE StreamInv'
<1> USE DEF StreamInv
<1>1. r_buf \in Data /\ socket \in Data /\ w_buf \in Data /\ Wire[Len(delivered)] \in Data
  BY Pieces
<1>2. /\ UNCHANGED <<spc, sent, w_buf, copied, signals, delivered, last, edge>>
      /\ rpc = "recv" /\ rpc' = "split"
  BY DEF Recv, senderVars
<1>3. PICK n : /\ n = Least(ChunkSize, Len(socket))
               /\ r_buf' = r_buf \o SubSeq(socket, 1, n)
               /\ socket' = SubSeq(socket, n + 1, Len(socket))
  BY DEF Recv
<1>4. PICK L \in Nat : L = Len(socket) /\ L <= BufferSize
  BY <1>1, LenProperties DEF Data, TypeOK
<1>5. n \in 0..L
  BY <1>3, <1>4, PacketStreamAssumption DEF Least
<1>6. PICK A \in Data : A = SubSeq(socket, 1, n)
  BY <1>1, <1>4, <1>5, Parts
<1>7. PICK B \in Data : B = SubSeq(socket, n + 1, Len(socket)) /\ Len(B) = L - n /\ socket = A \o B
  BY <1>1, <1>4, <1>5, <1>6, Parts
<1>8. Len(B) <= BufferSize
  BY <1>4, <1>5, <1>7, PacketStreamAssumption
<1>9. r_buf \o A \in Data
  BY <1>1, <1>6, DataConcat
<1>10. TypeOK'
  BY <1>2, <1>3, <1>6, <1>7, <1>8, <1>9 DEF TypeOK, Data
<1>11. SendInv' /\ Started' = Started /\ Handed' = Handed
  BY <1>2, SameSend
<1>12. WireInv'
  <2>1. (r_buf \o A) \o (B \o w_buf) = r_buf \o (A \o (B \o w_buf))
    <3>1. PICK v \in Data : v = B \o w_buf
      BY <1>1, <1>7, DataConcat
    <3>2. PICK r \in Data : r = r_buf
      BY <1>1
    <3>3. (r \o A) \o v = r \o (A \o v)
      BY DataAssociative
    <3> QED
      BY <3>1, <3>2, <3>3
  <2>2. A \o (B \o w_buf) = (A \o B) \o w_buf
    BY <1>1, <1>6, <1>7, DataAssociative, ZenonT(30)
  <2>3. r_buf' \o (socket' \o w_buf') = r_buf \o (socket \o w_buf)
    BY <1>2, <1>3, <1>6, <1>7, <2>1, <2>2
  <2> QED
    BY <1>2, <1>11, <2>3 DEF WireInv
<1> QED
  BY <1>2, <1>10, <1>11, <1>12

\* What splitby cuts off is the next packet sent.
LEMMA SplitEffect ==
  ASSUME StreamInv, SplitPacket
  PROVE  /\ Len(delivered) + 1 \in 1..Handed
         /\ delivered' = Append(delivered, Packets[Len(delivered) + 1])
         /\ r_buf' \in Data
         /\ Wire[Len(delivered) + 1] \o (r_buf' \o (socket \o w_buf)) = Wire[Started]
<1> USE DEF StreamInv
<1>1. PICK N \in Nat : N = Len(Packets)
  BY FramedType
<1>2. PICK d \in Nat : d = Len(delivered)
  BY LenProperties DEF TypeOK
<1>3. PICK s \in 0..N : s = Started
  BY Pieces, <1>1
<1>4. PICK h : h = Handed /\ h \in sent..s /\ d <= h
  BY Pieces, <1>2, <1>3
<1>5. sent \in 0..N
  BY <1>1 DEF TypeOK
<1>6. r_buf \in Data /\ socket \in Data /\ w_buf \in Data /\ Wire[d] \in Data
  BY Pieces, <1>2
<1>7. /\ rpc = "split" /\ SepPos(r_buf) > 0
      /\ delivered' = Append(delivered, SubSeq(r_buf, 1, SepPos(r_buf) - 1))
      /\ r_buf' = SubSeq(r_buf, SepPos(r_buf) + 1, Len(r_buf))
  BY DEF SplitPacket
<1>8. PICK Y \in Data : Y = socket \o w_buf
  BY <1>6, DataConcat
<1>9. Wire[d] \o (r_buf \o Y) = Wire[s] /\ r_buf \o Y \in Data
  BY <1>2, <1>3, <1>6, <1>7, <1>8, DataConcat DEF WireInv
<1>10. d < s
  <2> SUFFICES ASSUME ~(d < s) PROVE FALSE
    OBVIOUS
  <2>1. d = s
    BY <1>3, <1>4, <1>5
  <2>2. Wire[d] \o (r_buf \o Y) = Wire[d]
    BY <1>9, <2>1
  <2>3. r_buf \o Y = <<>>
    BY <1>6, <1>9, <2>2, ConcatSimplifications DEF Data
  <2>4. r_buf = <<>>
    BY <1>6, <1>8, <2>3, ConcatSimplifications DEF Data
  <2>5. Len(r_buf) = 0 /\ SepPos(r_buf) \notin 1..0
    BY <2>4, EmptySeq
  <2>6. SepPos(r_buf) = 0
    BY <1>6, <2>5, SepPosition
  <2> QED
    BY <1>7, <2>6
<1>11. d + 1 \in 1..N /\ d + 1 \in 0..N /\ s \in (d + 1)..N /\ (d + 1) - 1 = d
  BY <1>3, <1>10
<1>12. PICK R \in Data : Wire[s] = Wire[d + 1] \o R
  BY <1>1, <1>11, WirePrefix
<1>13. PICK F \in Data : F = Framed(d + 1)
  BY <1>1, <1>11, FramedType
<1>14. Wire[d + 1] = Wire[d] \o F
  BY <1>1, <1>11, <1>13, WireDef
<1>15. r_buf \o Y = F \o R
  <2>1. (Wire[d] \o F) \o R = Wire[d] \o (F \o R)
    <3>1. PICK D \in Data : D = Wire[d]
      BY <1>6
    <3>2. (D \o F) \o R = D \o (F \o R)
      BY DataAssociative
    <3> QED
      BY <3>1, <3>2
  <2>2. Wire[d] \o (r_buf \o Y) = Wire[d] \o (F \o R) /\ F \o R \in Data
    BY <1>9, <1>12, <1>13, <1>14, <2>1, DataConcat
  <2> QED
    BY <1>6, <1>9, <2>2, ConcatSimplifications DEF Data
<1>16. PICK P \in Seq(Bytes) : P = Packets[d + 1] /\ F = Append(P, Sep)
  BY <1>1, <1>11, <1>13, FramedType DEF Framed
<1>17. /\ SubSeq(r_buf, 1, SepPos(r_buf) - 1) = P
       /\ r_buf' \in Data /\ r_buf' \o Y = R
  <2>1. PICK X \in Data, W \in Data :
          X = r_buf /\ W = X \o Y /\ W = F \o R /\ SepPos(X) > 0
    BY <1>6, <1>7, <1>9, <1>15
  <2>2. PICK k \in 1..Len(Packets) : k = d + 1 /\ W = Framed(k) \o R
    BY <1>1, <1>11, <1>13, <2>1
  <2>3. FirstOf(X) = Packets[k] /\ RestOf(X) \in Data /\ R = RestOf(X) \o Y
    <3>1. \A x, y, z, v \in Data :
            v = x \o y /\ v = Framed(k) \o z /\ SepPos(x) > 0 =>
              FirstOf(x) = Packets[k] /\ RestOf(x) \in Data /\ z = RestOf(x) \o y
      BY Cut
    <3>2. \A y, z, v \in Data :
            v = X \o y /\ v = Framed(k) \o z =>
              FirstOf(X) = Packets[k] /\ RestOf(X) \in Data /\ z = RestOf(X) \o y
      BY <2>1, <3>1
    <3> QED
      BY <2>1, <2>2, <3>2
  <2> QED
    BY <1>7, <1>16, <2>1, <2>2, <2>3 DEF FirstOf, RestOf
<1>18. d + 1 <= h
  <2> SUFFICES ASSUME ~(d + 1 <= h) PROVE FALSE
    OBVIOUS
  <2>1. h = d /\ h < s
    BY <1>4, <1>5, <1>10
  <2>2. spc # "idle" /\ s = sent + 1 /\ (h = sent \/ h = sent + 1)
    BY <1>3, <1>4, <2>1 DEF Started, Handed
  <2>3. h = sent
    BY <1>5, <2>1, <2>2
  <2>4. w_buf # <<>>
    BY <1>4, <1>5, <2>2, <2>3 DEF Handed, SendInv, TypeOK
  <2>5. Wire[s] \o R = Wire[s] /\ Wire[s] \in Data
    BY <1>1, <1>12, <2>1, <2>2, <2>3, WireType
  <2>6. R = <<>>
    BY <2>5, ConcatSimplifications DEF Data
  <2>7. Y = <<>>
    BY <1>17, <2>6, ConcatSimplifications DEF Data
  <2>8. w_buf = <<>>
    <3>1. PICK t \in Data, w \in Data : t = socket /\ w = w_buf /\ t \o w = <<>>
      BY <1>6, <1>8, <2>7
    <3>2. w = <<>>
      BY <3>1, ConcatSimplifications DEF Data
    <3> QED
      BY <3>1, <3>2
  <2> QED
    BY <2>4, <2>8
<1>19. d + 1 \in 1..h
  BY <1>4, <1>5, <1>18
<1> QED
  BY <1>2, <1>3, <1>4, <1>7, <1>8, <1>12, <1>16, <1>17, <1>19

\* A packet goes from the front of r_buf to the end of delivered.
LEMMA SplitPacketInv == ASSUME StreamInv, SplitPacket PROVE StreamInv'
<1> USE DEF StreamInv
<1>1. PICK N \in Nat : N = Len(Packets)
  BY FramedType
<1>2. PICK d \in Nat : d = Len(delivered)
  BY LenProperties DEF TypeOK
<1>3. /\ UNCHANGED <<spc, sent, w_buf, copied, signals, last>>
      /\ \/ UNCHANGED <<rpc, socket, edge>>
         \/ rpc' = "closed" /\ socket' = <<>> /\ edge' = FALSE
  BY DEF SplitPacket, senderVars
<1>4. SendInv' /\ Started' = Started /\ Handed' = Handed
  BY <1>3, SameSend
<1>5. Handed \in 0..N
  BY Pieces, <1>1
<1>6. PICK P \in Seq(Bytes) : P = Packets[d + 1] /\ delivered' = Append(delivered, P)
  <2>1. d + 1 \in 1..N
    BY <1>2, <1>5, SplitEffect
  <2> QED
    BY <1>1, <1>2, <2>1, FramedType, SplitEffect
<1>7. delivered' \in Seq(Seq(Bytes)) /\ Len(delivered') = d + 1
  BY <1>2, <1>6, AppendProperties DEF TypeOK
<1>8. TypeOK'
  <2>1. <<>> \in Seq(Bytes \union {Sep}) /\ Len(<<>>) = 0 /\ 0 <= BufferSize
    BY EmptySeq, PacketStreamAssumption
  <2>2. r_buf' \in Seq(Bytes \union {Sep})
    BY SplitEffect DEF Data
  <2> QED
    BY <1>3, <1>7, <2>1, <2>2 DEF TypeOK
<1>9. WireInv'
  BY <1>2, <1>3, <1>4, <1>7, SplitEffect DEF WireInv
<1>10. (Len(delivered) <= Handed)'
  BY <1>2, <1>4, <1>5, <1>7, SplitEffect
<1> QED
  BY <1>4, <1>8, <1>9, <1>10

\* Every step keeps the invariant.
LEMMA StreamNext == ASSUME StreamInv, [Next]_vars PROVE StreamInv'
BY StartSendInv, CopyInv, SendReturnsInv, SendFailsInv, IdleInv, RecvInv, SplitPacketInv
   DEF Next, Sender, Receiver

\* The invariant holds in every state.
LEMMA StreamAlways == Spec => []StreamInv
<1>1. Init => StreamInv
  BY StreamInit
<1>2. StreamInv /\ [Next]_vars => StreamInv'
  BY StreamNext
<1> QED
  BY <1>1, <1>2, PTL DEF Spec

-----------------------------------------------------------------------------
(* What it gives. *)

\* The buffers hold bytes, the socket no more of them than fit, and what has
\* been delivered are payloads.
THEOREM StreamTypes == Spec => []TypeOK
<1>1. StreamInv => TypeOK
  BY DEF StreamInv
<1> QED
  BY <1>1, StreamAlways, PTL

\* BytesInOrder holds: the bytes that are on their way are exactly those that
\* are missing, however the stream is cut into chunks.
THEOREM NoByteIsLost == Spec => []BytesInOrder
<1>1. ASSUME StreamInv PROVE BytesInOrder
  <2> USE <1>1 DEF StreamInv
  <2> SUFFICES ASSUME rpc # "closed"
               PROVE  Wire[Len(delivered)] \o r_buf \o socket = Wire[sent] \o Begun
    BY DEF BytesInOrder
  <2>1. /\ r_buf \in Data /\ socket \in Data /\ w_buf \in Data
        /\ Wire[Len(delivered)] \in Data /\ Wire[sent] \in Data
    BY Pieces
  <2>2. PICK W \in Data : W = (Wire[Len(delivered)] \o r_buf) \o socket
    BY <2>1, DataConcat
  <2>3. W \o w_buf = Wire[Started]
    <3>1. PICK D \in Data, r \in Data : D = Wire[Len(delivered)] /\ r = r_buf
      BY <2>1
    <3>2. PICK t \in Data, w \in Data : t = socket /\ w = w_buf
      BY <2>1
    <3>3. \A x, y \in Data : D \o (r \o (x \o y)) = ((D \o r) \o x) \o y
      BY Regroup
    <3>4. D \o (r \o (t \o w)) = ((D \o r) \o t) \o w
      BY <3>3
    <3> QED
      BY <2>2, <3>1, <3>2, <3>4 DEF WireInv
  <2>4. CASE spc = "idle"
    <3>1. w_buf = <<>> /\ Started = sent /\ Begun = <<>>
      BY <2>4 DEF SendInv, Started, Begun
    <3>2. W \o <<>> = W /\ Wire[sent] \o <<>> = Wire[sent]
      BY <2>1, <2>2, ConcatEmptySeq DEF Data
    <3> QED
      BY <2>2, <2>3, <3>1, <3>2
  <2>5. CASE spc # "idle"
    <3>1. PICK N \in Nat : N = Len(Packets)
      BY FramedType
    <3>2. sent + 1 \in 1..N /\ (sent + 1) - 1 = sent /\ Started = sent + 1
      BY <2>5, <3>1 DEF SendInv, TypeOK, Started
    <3>3. PICK F \in Data : F = Framed(sent + 1)
      BY <3>1, <3>2, FramedType
    <3>4. Wire[Started] = Wire[sent] \o F
      BY <3>1, <3>2, <3>3, WireDef
    <3>5. copied \in 0..Len(F) /\ w_buf = SubSeq(F, copied + 1, Len(F))
      <4>1. Len(F) \in Nat
        BY LenProperties DEF Data
      <4> QED
        BY <2>5, <3>3, <4>1 DEF SendInv, TypeOK
    <3>6. PICK A \in Data : A = SubSeq(F, 1, copied) /\ F = A \o w_buf
      BY <3>5, Parts
    <3>7. Begun = A
      BY <2>5, <3>3, <3>6 DEF Begun, Framed
    <3>8. (Wire[sent] \o A) \o w_buf = Wire[sent] \o (A \o w_buf)
      <4>1. PICK D \in Data, w \in Data : D = Wire[sent] /\ w = w_buf
        BY <2>1
      <4>2. (D \o A) \o w = D \o (A \o w)
        BY DataAssociative, ZenonT(30)
      <4> QED
        BY <4>1, <4>2
    <3>9. W \o w_buf = (Wire[sent] \o A) \o w_buf /\ Wire[sent] \o A \in Data
      BY <2>1, <2>3, <3>4, <3>6, <3>8, DataConcat
    <3>10. W = Wire[sent] \o A
      <4>1. PICK V \in Data, w \in Data : V = Wire[sent] \o A /\ w = w_buf /\ W \o w = V \o w
        BY <2>1, <3>9
      <4>2. W = V
        BY <4>1, ConcatSimplifications DEF Data
      <4> QED
        BY <4>1, <4>2
    <3> QED
      BY <2>2, <3>7, <3>10
  <2> QED
    BY <2>4, <2>5
<1> QED
  BY <1>1, StreamAlways, PTL

\* ImplementsFifo holds: a connection is a queue of whole packets.  Taking the
\* last byte of a packet sends it, cutting it off delivers it, and all other
\* steps change neither.
THEOREM StreamIsFifo == Spec => ImplementsFifo
<1> DEFINE Abstract == <<Handed, delivered, rpc # "closed">>
<1>1. ASSUME Init PROVE Fifo!Init
  BY <1>1 DEF Init, Fifo!Init
<1>2. ASSUME StreamInv, [Next]_vars
      PROVE  [Fifo!Next]_<<IF spc = "sending" /\ w_buf = <<>> THEN sent + 1 ELSE sent, delivered, rpc # "closed">>
  <2> USE <1>2 DEF StreamInv
  <2> SUFFICES [Fifo!Next]_Abstract
    BY DEF Handed
  <2>0. sent \in Nat
    BY FramedType DEF TypeOK
  <2>1. CASE StartSend
    <3>1. w_buf' # <<>> /\ spc = "idle" /\ sent' = sent /\ delivered' = delivered /\ rpc' = rpc
      <4>1. sent + 1 \in 1..Len(Packets)
        BY <2>1, FramedType DEF StartSend, TypeOK
      <4>2. Packets[sent + 1] \in Data
        BY <4>1, FramedType
      <4> QED
        BY <2>1, <4>2, AppendProperties DEF StartSend, Data, receiverVars
    <3> QED
      BY <3>1 DEF Handed
  <2>2. CASE Copy
    <3>1. /\ spc = "sending" /\ w_buf # <<>> /\ rpc # "closed" /\ spc' = spc /\ sent' = sent
          /\ delivered' = delivered /\ rpc' = rpc /\ sent < Len(Packets)
      BY <2>2 DEF Copy, receiverVars, SendInv
    <3>2. CASE w_buf' = <<>>
      <4>1. Handed = sent /\ Handed' = sent + 1
        BY <3>1, <3>2 DEF Handed
      <4>2. Fifo!Send
        BY <3>1, <4>1 DEF Fifo!Send, Handed
      <4> QED
        BY <4>2 DEF Fifo!Next
    <3>3. CASE w_buf' # <<>>
      BY <3>1, <3>3 DEF Handed
    <3> QED
      BY <3>2, <3>3
  <2>3. CASE SendReturns
    BY <2>3 DEF SendReturns, Handed, receiverVars
  <2>4. CASE SendBroken \/ Interrupted
    BY <2>4 DEF SendBroken, Interrupted, Handed, receiverVars
  <2>5. CASE Wait \/ Recv \/ RecvNothing \/ SplitDone \/ UNCHANGED vars
    BY <2>5 DEF Wait, Recv, RecvNothing, SplitDone, Handed, senderVars, receiverVars, vars
  <2>6. CASE SplitPacket
    <3>1. UNCHANGED <<spc, sent, w_buf>> /\ rpc = "split"
      BY <2>6 DEF SplitPacket, senderVars
    <3>2. Len(delivered) < Handed /\ delivered' = Append(delivered, Packets[Len(delivered) + 1])
      <4>1. Len(delivered) \in Nat /\ Handed \in Nat
        BY <2>0, LenProperties DEF TypeOK, Handed
      <4>2. Len(delivered) + 1 \in 1..Handed
        BY <2>6, SplitEffect
      <4> QED
        BY <2>6, <4>1, <4>2, SplitEffect
    <3>3. Fifo!Deliver
      BY <3>1, <3>2 DEF Fifo!Deliver, Handed
    <3> QED
      BY <3>3 DEF Fifo!Next
  <2> QED
    BY <1>2, <2>1, <2>2, <2>3, <2>4, <2>5, <2>6 DEF Next, Sender, Receiver
<1>3. Spec => Fifo!Spec
  BY <1>1, <1>2, StreamAlways, PTL DEF Spec, Fifo!Spec
<1> QED
  BY <1>3 DEF ImplementsFifo

=============================================================================
