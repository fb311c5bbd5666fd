---------------------------- MODULE StartupProofs ----------------------------
(***************************************************************************)
(* The connection phase, for any number of readers and workers: what the   *)
(* programs of the threads are, types, that every socket path leads to its *)
(* server while that is open, that each server has exactly the threads     *)
(* that called it, once each, and that the reporter and the workers begin  *)
(* only when everybody is connected.                                       *)
(***************************************************************************)
EXTENDS Startup, SequenceTheorems, FiniteSetTheorems, TLAPS

\* Where in its owner's program a server socket is bound.
BindAt(s) == IF s = ReporterForWorkers THEN NReaders + 5 ELSE 2

\* How many connections its owner accepts.
Amount(s) == IF s = ReporterForReaders THEN NReaders ELSE NWorkers

Kinds == {"unlink", "bind", "listen", "accept", "connect"}

\* What the proofs need to know of a program P of thread t: which calls on which
\* server are where.
ProgramFacts(t, P) ==
  /\ P \in Seq(Kinds \X Server)
  /\ \A i \in 1..Len(P) :
       /\ P[i][1] \in {"unlink", "bind", "listen"} => Owner(P[i][2]) = t
       /\ P[i][1] = "unlink" => i = BindAt(P[i][2]) - 1
       /\ P[i][1] = "bind" => i = BindAt(P[i][2])
       /\ P[i][1] = "listen" => i = BindAt(P[i][2]) + 1
       /\ \A s \in Server : Owner(s) = t /\ i = BindAt(s) => P[i] = <<"bind", s>>
  /\ \A i, j \in 1..Len(P) : P[i][1] = "connect" /\ P[i] = P[j] => i = j
  /\ \A i \in 1..Len(P) :
       /\ P[i] = <<"connect", ReporterForReaders>> => t \in Reader /\ i = Len(P)
       /\ P[i] = <<"connect", ReporterForWorkers>> => t \in Worker /\ i = Len(P)
  /\ t \in Worker => Len(P) >= 1 /\ P[Len(P)] = <<"connect", ReporterForWorkers>>
  /\ t = Reporter => Len(P) = NReaders + NWorkers + 6
  /\ \A s \in Server : Owner(s) = t =>
       \A k \in 1..Amount(s) : P[BindAt(s) + 1 + k] = <<"accept", s>>

\* The calls of listen and accept on one server.
LEMMA ServeCalls ==
  ASSUME NEW s \in Server, NEW n \in Nat
  PROVE  /\ Serve(s, n) \in Seq(Kinds \X Server)
         /\ Len(Serve(s, n)) = n + 3
         /\ Serve(s, n)[1] = <<"unlink", s>>
         /\ Serve(s, n)[2] = <<"bind", s>>
         /\ Serve(s, n)[3] = <<"listen", s>>
         /\ \A i \in 4..(n + 3) : Serve(s, n)[i] = <<"accept", s>>
<1> DEFINE first == <<<<"unlink", s>>, <<"bind", s>>, <<"listen", s>>>>
           second == [i \in 1..n |-> <<"accept", s>>]
<1>1. first \in Seq(Kinds \X Server) /\ Len(first) = 3
  BY DEF Kinds
<1>2. second \in Seq(Kinds \X Server) /\ Len(second) = n
  BY DEF Kinds
<1>3. Serve(s, n) = first \o second
  BY DEF Serve
<1> HIDE DEF second
<1>4. \A i \in 1..n : second[i] = <<"accept", s>>
  BY DEF second
<1> QED BY <1>1, <1>2, <1>3, <1>4, ConcatProperties

\* Two sequences, one after the other.
LEMMA Join ==
  ASSUME NEW S, NEW p \in Seq(S), NEW q \in Seq(S)
  PROVE  /\ p \o q \in Seq(S)
         /\ Len(p \o q) = Len(p) + Len(q)
         /\ \A i \in 1..Len(p) : (p \o q)[i] = p[i]
         /\ \A i \in 1..Len(q) : (p \o q)[Len(p) + i] = q[i]
<1>1. \A i \in 1..(Len(p) + Len(q)) : (p \o q)[i] = IF i <= Len(p) THEN p[i] ELSE q[i - Len(p)]
  BY ConcatProperties
<1>2. p \o q \in Seq(S) /\ Len(p \o q) = Len(p) + Len(q) /\ Len(p) \in Nat /\ Len(q) \in Nat
  BY ConcatProperties
<1> DEFINE m == Len(p)
           n == Len(q)
<1>3. m \in Nat /\ n \in Nat
  BY <1>2
<1> HIDE DEF m, n
<1>4. \A i \in 1..n : m + i \in 1..(m + n) /\ m + i - m = i /\ ~ (m + i <= m)
  BY <1>3
<1>5. \A i \in 1..Len(q) : (p \o q)[Len(p) + i] = q[i]
  BY <1>1, <1>4 DEF m, n
<1>6. \A i \in 1..Len(p) : (p \o q)[i] = p[i]
  BY <1>1, <1>2
<1> QED BY <1>2, <1>5, <1>6

\* The program of a reader.
LEMMA ReaderFacts == ASSUME NEW r \in Reader PROVE ProgramFacts(r, ReaderProgram(r))
<1>1. /\ r \in Server /\ ReporterForReaders \in Server
      /\ NWorkers \in Nat /\ 1 \in Nat /\ NWorkers + 3 \in Nat
  BY StartupAssumption DEF Reader, Server, ReporterForReaders
<1>2. PICK a : a = Serve(r, NWorkers)
  OBVIOUS
<1>3. PICK b : b = <<<<"connect", ReporterForReaders>>>>
  OBVIOUS
<1>4. b \in Seq(Kinds \X Server) /\ Len(b) = 1 /\ b[1] = <<"connect", ReporterForReaders>>
  BY <1>1, <1>3 DEF Kinds
<1>5. /\ a \in Seq(Kinds \X Server) /\ Len(a) = NWorkers + 3
      /\ a[1] = <<"unlink", r>> /\ a[2] = <<"bind", r>> /\ a[3] = <<"listen", r>>
      /\ \A i \in 4..(NWorkers + 3) : a[i] = <<"accept", r>>
  BY <1>1, <1>2, ServeCalls
<1>6. PICK P : P = a \o b
  OBVIOUS
<1>7. /\ P \in Seq(Kinds \X Server)
      /\ Len(P) = NWorkers + 3 + 1
      /\ \A i \in 1..(NWorkers + 3) : P[i] = a[i]
      /\ P[NWorkers + 3 + 1] = b[1]
  <2>1. PICK C : C = Kinds \X Server
    OBVIOUS
  <2>2. PICK m \in Nat : m = NWorkers + 3
    BY <1>1
  <2>3. PICK n \in Nat : n = 1
    OBVIOUS
  <2>4. a \in Seq(C) /\ b \in Seq(C) /\ Len(a) = m /\ Len(b) = n
    BY <1>4, <1>5, <2>1, <2>2, <2>3
  <2>5. /\ a \o b \in Seq(C)
        /\ Len(a \o b) = m + n
        /\ \A i \in 1..m : (a \o b)[i] = a[i]
        /\ \A i \in 1..n : (a \o b)[m + i] = b[i]
    <3>1. a \in Seq(C) /\ b \in Seq(C)
      BY <2>4
    <3>2. /\ a \o b \in Seq(C)
          /\ Len(a \o b) = Len(a) + Len(b)
          /\ \A i \in 1..Len(a) : (a \o b)[i] = a[i]
          /\ \A i \in 1..Len(b) : (a \o b)[Len(a) + i] = b[i]
      BY <3>1, Join
    <3> QED BY <2>4, <3>2
  <2> QED BY <1>6, <2>1, <2>2, <2>3, <2>5, SMTT(30)
<1>8. /\ P[1] = <<"unlink", r>> /\ P[2] = <<"bind", r>> /\ P[3] = <<"listen", r>>
      /\ \A i \in 4..(NWorkers + 3) : P[i] = <<"accept", r>>
      /\ P[NWorkers + 4] = <<"connect", ReporterForReaders>>
      /\ Len(P) = NWorkers + 4
  BY <1>1, <1>4, <1>5, <1>7
<1>9. BindAt(r) = 2 /\ Owner(r) = r /\ \A s \in Server : Owner(s) = r => s = r
  BY StartupAssumption DEF BindAt, Owner, Reader, ReporterForWorkers, Reporter
<1>10. ASSUME NEW i \in 1..(NWorkers + 4)
       PROVE  /\ P[i][1] \in {"unlink", "bind", "listen"} => Owner(P[i][2]) = r
              /\ P[i][1] = "unlink" => i = BindAt(P[i][2]) - 1
              /\ P[i][1] = "bind" => i = BindAt(P[i][2])
              /\ P[i][1] = "listen" => i = BindAt(P[i][2]) + 1
              /\ \A s \in Server : Owner(s) = r /\ i = BindAt(s) => P[i] = <<"bind", s>>
              /\ P[i][1] = "connect" => i = NWorkers + 4
  <2>1. i = 1 \/ i = 2 \/ i = 3 \/ i \in 4..(NWorkers + 3) \/ i = NWorkers + 4
    BY <1>1
  <2>2. CASE i = 1
    BY <1>8, <1>9, <2>2
  <2>3. CASE i = 2
    BY <1>8, <1>9, <2>3
  <2>4. CASE i = 3
    BY <1>8, <1>9, <2>4
  <2>5. CASE i \in 4..(NWorkers + 3)
    BY <1>1, <1>8, <1>9, <2>5
  <2>6. CASE i = NWorkers + 4
    BY <1>1, <1>8, <1>9, <2>6, StartupAssumption
  <2> QED BY <2>1, <2>2, <2>3, <2>4, <2>5, <2>6
<1>11. ReaderProgram(r) = P
  BY <1>2, <1>3, <1>6 DEF ReaderProgram
<1>12. r \notin Worker /\ r # Reporter /\ ReporterForReaders # ReporterForWorkers
  BY StartupAssumption DEF Reader, Worker, Reporter, ReporterForReaders, ReporterForWorkers
<1>13. \A i \in 1..(NWorkers + 4) :
         /\ P[i] = <<"connect", ReporterForReaders>> => r \in Reader /\ i = NWorkers + 4
         /\ P[i] # <<"connect", ReporterForWorkers>>
  BY <1>8, <1>10, <1>12
<1>14. \A k \in 1..Amount(r) : P[BindAt(r) + 1 + k] = <<"accept", r>>
  <2>1. Amount(r) = NWorkers
    BY StartupAssumption DEF Amount, Reader, ReporterForReaders
  <2>2. \A k \in 1..NWorkers : 3 + k \in 4..(NWorkers + 3)
    BY <1>1
  <2> QED BY <1>8, <1>9, <2>1, <2>2
<1>15. \A s \in Server : Owner(s) = r =>
         \A k \in 1..Amount(s) : P[BindAt(s) + 1 + k] = <<"accept", s>>
  BY <1>9, <1>14
<1> QED BY <1>7, <1>8, <1>10, <1>11, <1>12, <1>13, <1>15 DEF ProgramFacts

\* The program of a worker.
LEMMA WorkerFacts == ASSUME NEW w \in Worker PROVE ProgramFacts(w, WorkerProgram)
<1>1. /\ WorkerProgram \in Seq(Kinds \X Server)
      /\ Len(WorkerProgram) = NReaders + 1
      /\ \A i \in 1..(NReaders + 1) : WorkerProgram[i] = <<"connect", i>>
  BY StartupAssumption
     DEF WorkerProgram, Kinds, Server, ReaderForWorkers, ReporterForWorkers
<1>2. \A s \in Server : Owner(s) # w
  BY StartupAssumption DEF Owner, Reader, Worker, Reporter, Server
<1>3. w \in Worker /\ w # Reporter /\ NReaders \in Nat /\ NReaders >= 1
  BY StartupAssumption DEF Worker, Reporter
<1>4. ReporterForWorkers = NReaders + 1 /\ ReporterForReaders = NReaders + 2
  BY DEF ReporterForWorkers, ReporterForReaders
<1> QED BY <1>1, <1>2, <1>3, <1>4 DEF ProgramFacts

\* The program of the reporter.
LEMMA ReporterFacts == ProgramFacts(Reporter, ReporterProgram)
<1>1. /\ ReporterForWorkers \in Server /\ ReporterForReaders \in Server
      /\ ReporterForWorkers # ReporterForReaders
      /\ NReaders \in Nat /\ NWorkers \in Nat /\ NReaders >= 1
      /\ NReaders + 3 \in Nat /\ NWorkers + 3 \in Nat
  BY StartupAssumption DEF Server, ReporterForReaders, ReporterForWorkers
<1>2. PICK a : a = Serve(ReporterForReaders, NReaders)
  OBVIOUS
<1>3. PICK b : b = Serve(ReporterForWorkers, NWorkers)
  OBVIOUS
<1>4. /\ a \in Seq(Kinds \X Server) /\ Len(a) = NReaders + 3
      /\ a[1] = <<"unlink", ReporterForReaders>>
      /\ a[2] = <<"bind", ReporterForReaders>>
      /\ a[3] = <<"listen", ReporterForReaders>>
      /\ \A i \in 4..(NReaders + 3) : a[i] = <<"accept", ReporterForReaders>>
  BY <1>1, <1>2, ServeCalls
<1>5. /\ b \in Seq(Kinds \X Server) /\ Len(b) = NWorkers + 3
      /\ b[1] = <<"unlink", ReporterForWorkers>>
      /\ b[2] = <<"bind", ReporterForWorkers>>
      /\ b[3] = <<"listen", ReporterForWorkers>>
      /\ \A i \in 4..(NWorkers + 3) : b[i] = <<"accept", ReporterForWorkers>>
  BY <1>1, <1>3, ServeCalls
<1>6. PICK P : P = a \o b
  OBVIOUS
<1>7. PICK m \in Nat : m = NReaders + 3
  BY <1>1
<1>8. PICK n \in Nat : n = NWorkers + 3
  BY <1>1
<1>9. /\ P \in Seq(Kinds \X Server)
      /\ Len(P) = m + n
      /\ \A i \in 1..m : P[i] = a[i]
      /\ \A i \in 1..n : P[m + i] = b[i]
  <2>1. PICK C : C = Kinds \X Server
    OBVIOUS
  <2>2. a \in Seq(C) /\ b \in Seq(C) /\ Len(a) = m /\ Len(b) = n
    BY <1>4, <1>5, <1>7, <1>8, <2>1
  <2>3. /\ a \o b \in Seq(C)
        /\ Len(a \o b) = m + n
        /\ \A i \in 1..m : (a \o b)[i] = a[i]
        /\ \A i \in 1..n : (a \o b)[m + i] = b[i]
    <3>1. a \in Seq(C) /\ b \in Seq(C)
      BY <2>2
    <3>2. /\ a \o b \in Seq(C)
          /\ Len(a \o b) = Len(a) + Len(b)
          /\ \A i \in 1..Len(a) : (a \o b)[i] = a[i]
          /\ \A i \in 1..Len(b) : (a \o b)[Len(a) + i] = b[i]
      BY <3>1, Join
    <3> QED BY <2>2, <3>2
  <2> QED BY <1>6, <2>1, <2>3
<1>10. /\ Owner(ReporterForReaders) = Reporter /\ Owner(ReporterForWorkers) = Reporter
       /\ BindAt(ReporterForReaders) = 2 /\ BindAt(ReporterForWorkers) = m + 2
       /\ \A s \in Server : Owner(s) = Reporter => s \in {ReporterForReaders, ReporterForWorkers}
  BY <1>7, StartupAssumption
     DEF BindAt, Owner, Reader, ReporterForWorkers, ReporterForReaders, Reporter, Server
<1>11. ASSUME NEW i \in 1..(m + n)
       PROVE  /\ P[i][1] \in {"unlink", "bind", "listen"} => Owner(P[i][2]) = Reporter
              /\ P[i][1] = "unlink" => i = BindAt(P[i][2]) - 1
              /\ P[i][1] = "bind" => i = BindAt(P[i][2])
              /\ P[i][1] = "listen" => i = BindAt(P[i][2]) + 1
              /\ \A s \in Server : Owner(s) = Reporter /\ i = BindAt(s) => P[i] = <<"bind", s>>
              /\ P[i][1] # "connect"
  <2>1. CASE i \in 1..m
    <3>1. P[i] = a[i]
      BY <1>9, <2>1
    <3>2. m >= 4 /\ (i = 1 \/ i = 2 \/ i = 3 \/ i \in 4..m)
      BY <1>1, <1>7, <2>1
    <3> QED BY <1>4, <1>7, <1>10, <3>1, <3>2
  <2>2. CASE i \in (m + 1)..(m + n)
    <3>1. PICK j \in 1..n : i = m + j
      BY <2>2
    <3>2. P[i] = b[j]
      BY <1>9, <2>2, <3>1
    <3>3. m >= 4 /\ (j = 1 \/ j = 2 \/ j = 3 \/ j \in 4..n)
      BY <1>1, <1>7, <3>1
    <3> QED BY <1>5, <1>8, <1>10, <3>1, <3>2, <3>3
  <2> QED BY <2>1, <2>2
<1>12. ReporterProgram = P
  BY <1>2, <1>3, <1>6 DEF ReporterProgram
<1>13. \A k \in 1..NReaders : P[3 + k] = <<"accept", ReporterForReaders>>
  <2> TAKE k \in 1..NReaders
  <2>1. 3 + k \in 1..m /\ 3 + k \in 4..(NReaders + 3)
    BY <1>1, <1>7
  <2> QED BY <1>4, <1>9, <2>1
<1>14. \A k \in 1..NWorkers : P[m + 3 + k] = <<"accept", ReporterForWorkers>>
  <2> TAKE k \in 1..NWorkers
  <2>1. PICK j : j = 3 + k
    OBVIOUS
  <2>2. j \in 1..n /\ j \in 4..(NWorkers + 3) /\ m + 3 + k = m + j
    BY <1>1, <1>8, <2>1
  <2> QED BY <1>5, <1>9, <2>2
<1>15. \A s \in Server : Owner(s) = Reporter =>
         \A k \in 1..Amount(s) : P[BindAt(s) + 1 + k] = <<"accept", s>>
  <2>1. Amount(ReporterForReaders) = NReaders /\ Amount(ReporterForWorkers) = NWorkers
    BY <1>1 DEF Amount
  <2>2. \A k \in 1..NReaders : 2 + 1 + k = 3 + k
    BY <1>1
  <2>3. \A k \in 1..NWorkers : m + 2 + 1 + k = m + 3 + k
    BY <1>1
  <2> QED BY <1>10, <1>13, <1>14, <2>1, <2>2, <2>3
<1>16. Reporter \notin Reader /\ Reporter \notin Worker
  BY StartupAssumption DEF Reader, Worker, Reporter
<1>17. m + n = NReaders + NWorkers + 6
  BY <1>1, <1>7, <1>8
<1>18. \A i \in 1..(m + n) : P[i] # <<"connect", ReporterForReaders>>
                          /\ P[i] # <<"connect", ReporterForWorkers>>
  BY <1>11
<1> QED BY <1>9, <1>11, <1>12, <1>15, <1>16, <1>17, <1>18 DEF ProgramFacts

\* The program of any thread.
LEMMA Programs == ASSUME NEW t \in Thread PROVE ProgramFacts(t, Program(t))
<1>1. t \in Reader \/ t \in Worker \/ t = Reporter
  BY StartupAssumption DEF Thread, Reader, Worker, Reporter
<1>2. t \in Worker => t \notin Reader
  BY StartupAssumption DEF Reader, Worker
<1>3. Reporter \notin Reader /\ Reporter \notin Worker
  BY StartupAssumption DEF Reader, Worker, Reporter
<1> QED BY <1>1, <1>2, <1>3, ReaderFacts, WorkerFacts, ReporterFacts DEF Program

----------------------------------------------------------------------------
(* The invariant. *)

\* Main starts no thread once it has left Cluster:init.
MainInv ==
  /\ main = "starting" => started < Reporter
  /\ main = "gone" => started = 0

\* A path leads to the server of its number, to a stale file, or nowhere.
NamesInv == \A p \in Server : names[p] \in {p, NoFile, Stale}

\* The stage of a server is told by the call its owner has come to, until the
\* finaliser of that thread closes it.
StageInv ==
  \A s \in Server :
    /\ stage[s] = "none" <=> at[Owner(s)] <= BindAt(s)
    /\ stage[s] = "listening" => at[Owner(s)] > BindAt(s) + 1
    /\ stage[s] = "closed" => Owner(s) \in ended

IInv == TypeOK /\ MainInv /\ NamesInv /\ StageInv /\ ServersReachable

\* Numbers of threads, servers and paths.
LEMMA Numbers ==
  /\ Reporter \in Nat /\ Reporter >= 1 /\ Reporter \in Thread
  /\ NoFile \notin Server /\ Stale \notin Server
  /\ \A s \in Server : Owner(s) \in Thread /\ BindAt(s) \in Nat /\ BindAt(s) >= 2
  /\ \A s \in Server : PathOf(s) = s
BY StartupAssumption
   DEF Reporter, Thread, Server, NoFile, Stale, Owner, Reader, BindAt,
       ReporterForWorkers, PathOf, ReaderForWorkers

\* The call a thread has come to.
LEMMA CurrentCall ==
  ASSUME NEW t \in Thread, at[t] \in Nat \ {0}, ~Connected(t)
  PROVE  /\ On(t) \in Server
         /\ Call(t) \in {"unlink", "bind", "listen"} => Owner(On(t)) = t
         /\ Call(t) = "unlink" => at[t] = BindAt(On(t)) - 1
         /\ Call(t) = "bind" => at[t] = BindAt(On(t))
         /\ Call(t) = "listen" => at[t] = BindAt(On(t)) + 1
         /\ \A s \in Server : Owner(s) = t /\ at[t] = BindAt(s)
                                => Call(t) = "bind" /\ On(t) = s
<1>1. PICK P : P = Program(t)
  OBVIOUS
<1>2. PICK i : i = at[t]
  OBVIOUS
<1>3. ProgramFacts(t, P)
  BY <1>1, Programs
<1>4. i \in 1..Len(P) /\ P \in Seq(Kinds \X Server)
  BY <1>1, <1>2, <1>3, LenProperties DEF Connected, ProgramFacts
<1>5. P[i] \in Kinds \X Server
  BY <1>4
<1>6. Call(t) = P[i][1] /\ On(t) = P[i][2] /\ On(t) \in Server
  BY <1>1, <1>2, <1>5 DEF Call, On
<1> QED BY <1>2, <1>3, <1>4, <1>6 DEF ProgramFacts

----------------------------------------------------------------------------
(* Steps preserve it, one part at a time. *)

\* The initial states.
LEMMA InitIInv == Init => IInv
<1> SUFFICES ASSUME Init PROVE IInv
  OBVIOUS
<1>1. TypeOK
  BY Numbers, StartupAssumption DEF Init, TypeOK
<1>2. MainInv /\ NamesInv /\ ServersReachable
  BY Numbers DEF Init, MainInv, NamesInv, ServersReachable
<1>3. StageInv
  BY Numbers DEF Init, StageInv
<1> QED BY <1>1, <1>2, <1>3 DEF IInv

\* Types.
LEMMA TypeStep == IInv /\ [Next]_vars => TypeOK'
<1> SUFFICES ASSUME TypeOK, MainInv, NamesInv, [Next]_vars PROVE TypeOK'
  BY DEF IInv
<1> USE DEF TypeOK
<1>1. CASE StartThread
  BY <1>1, Numbers DEF StartThread, MainInv
<1>2. CASE StartFails
  BY <1>2, StartupAssumption DEF StartFails, threadVars
<1>3. CASE Work
  BY <1>3 DEF Work
<1>4. CASE Finalise
  BY <1>4, Numbers DEF Finalise
<1>5. ASSUME Vanish, names' \in [Server -> Server \union {NoFile, Stale}] PROVE TypeOK'
  BY <1>5, Numbers DEF Vanish
<1>6. CASE MainReturns
  BY <1>5, <1>6 DEF MainReturns
<1>7. CASE Interrupt
  BY <1>7 DEF Interrupt, threadVars
<1>8. CASE Kill
  BY <1>5, <1>8 DEF Kill
<1>9. CASE RunAgain
  BY <1>9, StartupAssumption DEF RunAgain, threadVars
<1>10. ASSUME NEW t \in Thread, Steps(t) \/ Raise(t) \/ GiveUp(t) PROVE TypeOK'
  <2> at[t] + 1 \in Nat \ {0}
    OBVIOUS
  <2>1. CASE Unlink(t)
    <3>1. at' \in [Thread -> Nat \ {0}]
      BY <2>1 DEF Unlink, Advance
    <3>2. names' \in [Server -> Server \union {NoFile, Stale}]
      BY <2>1 DEF Unlink
    <3> QED BY <2>1, <3>1, <3>2 DEF Unlink
  <2>2. CASE Bind(t)
    <3>1. On(t) \in Server
      BY <2>2, CurrentCall DEF Bind, Calls
    <3>2. at' \in [Thread -> Nat \ {0}]
      BY <2>2 DEF Bind
    <3>3. names' \in [Server -> Server \union {NoFile, Stale}]
      BY <2>2, <3>1 DEF Bind
    <3>4. stage' \in [Server -> {"none", "bound", "listening", "closed"}]
      BY <2>2 DEF Bind
    <3>5. ended' \subseteq Thread
      BY <2>2 DEF Bind
    <3> QED BY <2>2, <3>2, <3>3, <3>4, <3>5 DEF Bind
  <2>3. CASE Listen(t)
    <3>1. at' \in [Thread -> Nat \ {0}]
      BY <2>3 DEF Listen, Advance
    <3>2. stage' \in [Server -> {"none", "bound", "listening", "closed"}]
      BY <2>3 DEF Listen
    <3> QED BY <2>3, <3>1, <3>2 DEF Listen
  <2>4. CASE Accept(t)
    <3>1. On(t) \in Server
      BY <2>4, CurrentCall DEF Accept, Calls
    <3>2. clients' \in [Server -> Seq(Thread)] /\ waiting' \in [Server -> Seq(Thread)]
      BY <2>4, <3>1, HeadTailProperties, AppendProperties DEF Accept
    <3>3. at' \in [Thread -> Nat \ {0}]
      BY <2>4 DEF Accept, Advance
    <3> QED BY <2>4, <3>2, <3>3 DEF Accept
  <2>5. CASE Connect(t)
    <3>1. waiting' \in [Server -> Seq(Thread)]
      BY <2>5, AppendProperties DEF Connect
    <3>2. at' \in [Thread -> Nat \ {0}]
      BY <2>5 DEF Connect, Advance
    <3> QED BY <2>5, <3>1, <3>2 DEF Connect
  <2>6. CASE ConnectLater(t)
    BY <2>6 DEF ConnectLater
  <2>7. CASE Wake(t)
    BY <2>7 DEF Wake
  <2>8. CASE Raise(t)
    BY <2>8, StartupAssumption DEF Raise
  <2>9. CASE GiveUp(t)
    BY <2>9 DEF GiveUp
  <2> QED BY <1>10, <2>1, <2>2, <2>3, <2>4, <2>5, <2>6, <2>7, <2>8, <2>9 DEF Steps
<1>11. CASE UNCHANGED vars
  BY <1>11 DEF vars, threadVars
<1> QED BY <1>1, <1>2, <1>3, <1>4, <1>6, <1>7, <1>8, <1>9, <1>10, <1>11 DEF Next

\* What main does.
LEMMA MainStep == IInv /\ [Next]_vars => MainInv'
<1> SUFFICES ASSUME TypeOK, MainInv, [Next]_vars PROVE MainInv'
  BY DEF IInv
<1> USE DEF MainInv
<1>1. CASE StartThread
  BY <1>1, Numbers DEF StartThread, TypeOK
<1>2. CASE StartFails \/ Interrupt \/ Finalise
  BY <1>2 DEF StartFails, Interrupt, Finalise
<1>3. CASE MainReturns \/ Kill
  BY <1>3 DEF MainReturns, Kill, Vanish
<1>4. CASE RunAgain
  BY <1>4, Numbers DEF RunAgain, threadVars
<1>5. CASE Work \/ UNCHANGED vars
  BY <1>5 DEF Work, vars, threadVars
<1>6. ASSUME NEW t \in Thread, Steps(t) \/ Raise(t) \/ GiveUp(t) PROVE MainInv'
  BY <1>6 DEF Steps, Unlink, Bind, Listen, Accept, Connect, ConnectLater, Wake, Raise, GiveUp
<1> QED BY <1>1, <1>2, <1>3, <1>4, <1>5, <1>6 DEF Next

\* The directory.
LEMMA NamesStep == IInv /\ [Next]_vars => NamesInv'
<1> SUFFICES ASSUME TypeOK, NamesInv, [Next]_vars PROVE NamesInv'
  BY DEF IInv
<1> USE DEF NamesInv
<1>1. CASE UNCHANGED names
  BY <1>1
<1>2. CASE Finalise
  BY <1>2 DEF Finalise
<1>3. CASE Kill
  BY <1>3 DEF Kill
<1>4. ASSUME NEW t \in Thread, Unlink(t) PROVE NamesInv'
  BY <1>4 DEF Unlink, TypeOK
<1>5. ASSUME NEW t \in Thread, Bind(t) PROVE NamesInv'
  <2>1. On(t) \in Server
    BY <1>5, CurrentCall DEF Bind, Calls, TypeOK
  <2> QED BY <1>5, <2>1, Numbers DEF Bind, TypeOK
<1>6. CASE Next /\ names' # names
  BY <1>2, <1>3, <1>4, <1>5, <1>6
     DEF Next, Steps, StartThread, StartFails, Work, MainReturns, Interrupt, RunAgain,
         Listen, Accept, Connect, ConnectLater, Wake, Raise, GiveUp
<1> QED BY <1>1, <1>6 DEF vars

\* A thread that advances past anything but a bind leaves the servers where they
\* are.
LEMMA AdvanceStages ==
  ASSUME TypeOK, StageInv, NEW t \in Thread, ~Connected(t), Call(t) # "bind", Advance(t),
         NEW s \in Server
  PROVE  /\ at'[Owner(s)] <= BindAt(s) <=> at[Owner(s)] <= BindAt(s)
         /\ at[Owner(s)] > BindAt(s) + 1 => at'[Owner(s)] > BindAt(s) + 1
<1>1. at[t] \in Nat \ {0} /\ BindAt(s) \in Nat /\ Owner(s) \in Thread
  BY Numbers DEF TypeOK
<1>2. CASE Owner(s) = t
  <2>1. at'[t] = at[t] + 1
    BY DEF Advance, TypeOK
  <2>2. at[t] # BindAt(s)
    BY <1>1, <1>2, CurrentCall
  <2> QED BY <1>1, <1>2, <2>1, <2>2
<1>3. CASE Owner(s) # t
  <2>1. at'[Owner(s)] = at[Owner(s)]
    BY <1>1, <1>3 DEF Advance, TypeOK
  <2> QED BY <2>1
<1> QED BY <1>2, <1>3

\* The stages of the servers.
LEMMA StageStep == IInv /\ [Next]_vars => StageInv'
<1> SUFFICES ASSUME TypeOK, StageInv, [Next]_vars PROVE StageInv'
  BY DEF IInv
<1>1. ASSUME UNCHANGED <<stage, at>>, ended \subseteq ended' PROVE StageInv'
  BY <1>1 DEF StageInv
<1>2. CASE Finalise
  <2> PICK t \in Thread : t = started - joined /\ t \in ended
    BY <1>2 DEF Finalise, TypeOK
  <2>1. \A s \in Server : stage'[s] = IF Owner(s) = t /\ stage[s] # "none" THEN "closed" ELSE stage[s]
    BY <1>2 DEF Finalise
  <2>2. at' = at /\ ended' = ended
    BY <1>2 DEF Finalise
  <2> QED BY <2>1, <2>2 DEF StageInv
<1>3. CASE MainReturns \/ Kill
  BY <1>3, Numbers DEF MainReturns, Kill, Vanish, StageInv
<1>4. ASSUME NEW t \in Thread, Unlink(t) \/ Accept(t) \/ Connect(t) PROVE StageInv'
  <2>1. ~Connected(t) /\ Call(t) # "bind" /\ Advance(t)
    BY <1>4 DEF Unlink, Accept, Connect, Calls
  <2>2. stage' = stage /\ ended' = ended
    BY <1>4 DEF Unlink, Accept, Connect
  <2> SUFFICES ASSUME NEW s \in Server
               PROVE  /\ stage'[s] = "none" <=> at'[Owner(s)] <= BindAt(s)
                      /\ stage'[s] = "listening" => at'[Owner(s)] > BindAt(s) + 1
                      /\ stage'[s] = "closed" => Owner(s) \in ended'
    BY DEF StageInv
  <2>3. /\ at'[Owner(s)] <= BindAt(s) <=> at[Owner(s)] <= BindAt(s)
        /\ at[Owner(s)] > BindAt(s) + 1 => at'[Owner(s)] > BindAt(s) + 1
    BY <2>1, AdvanceStages
  <2> QED BY <2>2, <2>3 DEF StageInv
<1>5. ASSUME NEW t \in Thread, Bind(t) PROVE StageInv'
  <2>1. PICK b : b = On(t)
    OBVIOUS
  <2>2. b \in Server /\ Owner(b) = t /\ at[t] = BindAt(b) /\ at[t] \in Nat
    BY <1>5, <2>1, CurrentCall DEF Bind, Calls, TypeOK
  <2>3. CASE names[PathOf(b)] # NoFile
    BY <1>1, <1>5, <2>1, <2>3 DEF Bind
  <2>4. CASE names[PathOf(b)] = NoFile
    <3>1. /\ stage' = [stage EXCEPT ![b] = "bound"]
          /\ at' = [at EXCEPT ![t] = @ + 1]
          /\ ended' = ended
      BY <1>5, <2>1, <2>4 DEF Bind
    <3> SUFFICES ASSUME NEW s \in Server
                 PROVE  /\ stage'[s] = "none" <=> at'[Owner(s)] <= BindAt(s)
                        /\ stage'[s] = "listening" => at'[Owner(s)] > BindAt(s) + 1
                        /\ stage'[s] = "closed" => Owner(s) \in ended'
      BY DEF StageInv
    <3>2. Owner(s) \in Thread /\ BindAt(s) \in Nat /\ at[Owner(s)] \in Nat
      BY Numbers DEF TypeOK
    <3>3. CASE s = b
      <4>1. stage'[s] = "bound" /\ at'[Owner(s)] = at[t] + 1
        BY <2>2, <3>1, <3>3 DEF TypeOK
      <4> QED BY <2>2, <3>3, <4>1
    <3>4. CASE s # b /\ Owner(s) = t
      <4>1. at[t] # BindAt(s)
        BY <1>5, <2>1, <3>4, CurrentCall DEF Bind, Calls, TypeOK
      <4>2. stage'[s] = stage[s] /\ at'[Owner(s)] = at[t] + 1
        BY <3>1, <3>4 DEF TypeOK
      <4> QED BY <2>2, <3>1, <3>2, <3>4, <4>1, <4>2 DEF StageInv
    <3>5. CASE s # b /\ Owner(s) # t
      <4>1. stage'[s] = stage[s] /\ at'[Owner(s)] = at[Owner(s)]
        BY <3>1, <3>2, <3>5 DEF TypeOK
      <4> QED BY <3>1, <4>1 DEF StageInv
    <3> QED BY <3>3, <3>4, <3>5
  <2> QED BY <2>3, <2>4
<1>6. ASSUME NEW t \in Thread, Listen(t) PROVE StageInv'
  <2>1. PICK b : b = On(t)
    OBVIOUS
  <2>2. b \in Server /\ Owner(b) = t /\ at[t] = BindAt(b) + 1 /\ at[t] \in Nat /\ BindAt(b) \in Nat
    BY <1>6, <2>1, CurrentCall, Numbers DEF Listen, Calls, TypeOK
  <2>3. ~Connected(t) /\ Call(t) # "bind" /\ Advance(t)
    BY <1>6 DEF Listen, Calls
  <2>4. stage' = [stage EXCEPT ![b] = "listening"] /\ ended' = ended
    BY <1>6, <2>1 DEF Listen
  <2> SUFFICES ASSUME NEW s \in Server
               PROVE  /\ stage'[s] = "none" <=> at'[Owner(s)] <= BindAt(s)
                      /\ stage'[s] = "listening" => at'[Owner(s)] > BindAt(s) + 1
                      /\ stage'[s] = "closed" => Owner(s) \in ended'
    BY DEF StageInv
  <2>5. CASE s = b
    <3>1. stage'[s] = "listening" /\ at'[Owner(s)] = BindAt(s) + 2
      BY <2>2, <2>3, <2>4, <2>5 DEF Advance, TypeOK
    <3> QED BY <2>2, <2>5, <3>1
  <2>6. CASE s # b
    <3>1. stage'[s] = stage[s]
      BY <2>4, <2>6 DEF TypeOK
    <3>2. /\ at'[Owner(s)] <= BindAt(s) <=> at[Owner(s)] <= BindAt(s)
          /\ at[Owner(s)] > BindAt(s) + 1 => at'[Owner(s)] > BindAt(s) + 1
      BY <2>3, AdvanceStages
    <3> QED BY <2>4, <3>1, <3>2 DEF StageInv
  <2> QED BY <2>5, <2>6
<1>7. CASE StartThread \/ StartFails \/ Work \/ Interrupt \/ RunAgain \/ UNCHANGED vars
  BY <1>1, <1>7 DEF StartThread, StartFails, Work, Interrupt, RunAgain, vars, threadVars, TypeOK
<1>8. ASSUME NEW t \in Thread, ConnectLater(t) \/ Wake(t) \/ Raise(t) \/ GiveUp(t) PROVE StageInv'
  BY <1>1, <1>8 DEF ConnectLater, Wake, Raise, GiveUp
<1> QED BY <1>2, <1>3, <1>4, <1>5, <1>6, <1>7, <1>8 DEF Next, Steps

\* Unlinking and binding leave the paths of open servers alone.
LEMMA ReachStep == IInv /\ [Next]_vars => ServersReachable'
<1> SUFFICES ASSUME IInv, [Next]_vars, NEW s \in Server, stage'[s] \in {"bound", "listening"}
             PROVE  names'[s] = s
  BY Numbers DEF ServersReachable
<1> USE DEF IInv
<1>1. stage[s] \in {"bound", "listening"} => names[s] = s
  BY Numbers DEF ServersReachable
<1>2. CASE UNCHANGED <<stage, names>>
  BY <1>1, <1>2
<1>3. CASE Finalise
  <2>1. stage'[s] = stage[s] /\ names'[s] = names[s]
    BY <1>3, Numbers DEF Finalise, TypeOK
  <2> QED BY <1>1, <2>1
<1>4. CASE MainReturns \/ Kill
  BY <1>4 DEF MainReturns, Kill, Vanish
<1>5. ASSUME NEW t \in Thread, Unlink(t) PROVE names'[s] = s
  <2>1. PICK b : b = On(t)
    OBVIOUS
  <2>2. b \in Server /\ Owner(b) = t /\ at[t] = BindAt(b) - 1
    BY <1>5, <2>1, CurrentCall DEF Unlink, Calls, TypeOK
  <2>3. stage[b] = "none"
    BY <2>2, Numbers DEF StageInv
  <2>4. stage' = stage /\ names' = [names EXCEPT ![b] = NoFile]
    BY <1>5, <2>1, <2>2, Numbers DEF Unlink
  <2> QED BY <1>1, <2>3, <2>4 DEF TypeOK
<1>6. ASSUME NEW t \in Thread, Bind(t) PROVE names'[s] = s
  <2>1. PICK b : b = On(t)
    OBVIOUS
  <2>2. b \in Server /\ PathOf(b) = b
    BY <1>6, <2>1, CurrentCall, Numbers DEF Bind, Calls, TypeOK
  <2>3. \/ stage' = stage /\ names' = names
        \/ stage' = [stage EXCEPT ![b] = "bound"] /\ names' = [names EXCEPT ![b] = b]
    BY <1>6, <2>1, <2>2 DEF Bind
  <2> QED BY <1>1, <2>2, <2>3 DEF TypeOK
<1>7. ASSUME NEW t \in Thread, Listen(t) PROVE names'[s] = s
  <2>1. PICK b : b = On(t)
    OBVIOUS
  <2>2. b \in Server /\ Owner(b) = t /\ at[t] = BindAt(b) + 1 /\ t \notin ended
    BY <1>7, <2>1, CurrentCall DEF Listen, Calls, Runs, TypeOK
  <2>3. stage[b] \in {"bound", "listening"}
    BY <2>2, Numbers DEF StageInv, TypeOK
  <2>4. stage' = [stage EXCEPT ![b] = "listening"] /\ names' = names
    BY <1>7, <2>1 DEF Listen
  <2>5. stage[s] \in {"bound", "listening"}
    BY <2>3, <2>4 DEF TypeOK
  <2> QED BY <1>1, <2>4, <2>5
<1>8. CASE StartThread \/ StartFails \/ Work \/ Interrupt \/ RunAgain \/ UNCHANGED vars
  BY <1>2, <1>8 DEF StartThread, StartFails, Work, Interrupt, RunAgain, vars, threadVars
<1>9. ASSUME NEW t \in Thread,
             Accept(t) \/ Connect(t) \/ ConnectLater(t) \/ Wake(t) \/ Raise(t) \/ GiveUp(t)
      PROVE  names'[s] = s
  BY <1>2, <1>9 DEF Accept, Connect, ConnectLater, Wake, Raise, GiveUp
<1> QED BY <1>3, <1>4, <1>5, <1>6, <1>7, <1>8, <1>9 DEF Next, Steps

\* The invariant holds in every reachable state.
LEMMA Invariant == Spec => []IInv
<1>1. IInv /\ [Next]_vars => IInv'
  BY TypeStep, MainStep, NamesStep, StageStep, ReachStep DEF IInv
<1> QED BY InitIInv, <1>1, PTL DEF Spec

----------------------------------------------------------------------------
(* The theorems. *)

\* The variables have their types in every reachable state.
THEOREM StartupTypeCorrect == Spec => []TypeOK
<1>1. IInv => TypeOK
  BY DEF IInv
<1> QED BY Invariant, <1>1, PTL

\* Whatever was in the directory, whichever calls fail and whenever the user hits
\* ^C: the path of an open server socket leads to that server.
THEOREM Reachable == Spec => []ServersReachable
<1>1. IInv => ServersReachable
  BY DEF IInv
<1> QED BY Invariant, <1>1, PTL

-----------------------------------------------------------------------------
(* The connections: who called each server, and when the threads begin. *)

\* Accepting moves the first waiting thread to the end of the accepted ones.
LEMMA HeadMoves ==
  ASSUME NEW S, NEW c \in Seq(S), NEW w \in Seq(S), w # <<>>
  PROVE  Append(c, Head(w)) \o Tail(w) = c \o w
<1>1. PICK h : h = Head(w)
  OBVIOUS
<1>2. PICK r : r = Tail(w)
  OBVIOUS
<1>3. h \in S /\ r \in Seq(S) /\ Len(r) = Len(w) - 1 /\ Len(w) \in Nat /\ Len(w) >= 1
      /\ (\A i \in 1..Len(r) : r[i] = w[i + 1]) /\ w[1] = h
  BY <1>1, <1>2, HeadTailProperties, LenProperties, EmptySeq
<1>4. <<h>> \in Seq(S) /\ Len(<<h>>) = 1 /\ <<h>>[1] = h
  BY <1>3
<1>5. <<h>> \o r = w
  <2>1. PICK v : v = <<h>> \o r
    OBVIOUS
  <2>2. /\ v \in Seq(S) /\ Len(v) = Len(<<h>>) + Len(r)
        /\ \A i \in 1..Len(<<h>>) : v[i] = <<h>>[i]
        /\ \A i \in 1..Len(r) : v[Len(<<h>>) + i] = r[i]
    BY <1>3, <1>4, <2>1, Join
  <2>3. Len(v) = Len(w) /\ v[1] = w[1] /\ \A i \in 1..Len(r) : v[1 + i] = w[i + 1]
    BY <1>3, <1>4, <2>2
  <2>4. ASSUME NEW i \in 1..Len(v) PROVE v[i] = w[i]
    <3>1. CASE i = 1
      BY <2>3, <3>1
    <3>2. CASE i # 1
      <4>1. PICK j \in 1..Len(r) : i = 1 + j /\ i = j + 1
        BY <1>3, <2>3, <3>2
      <4> QED BY <2>3, <4>1
    <3> QED BY <3>1, <3>2
  <2>5. v = w
    BY <2>2, <2>3, <2>4, SeqEqual
  <2> QED BY <2>1, <2>5
<1>6. Append(c, h) = c \o <<h>>
  BY <1>3, AppendIsConcat
<1>7. (c \o <<h>>) \o r = c \o (<<h>> \o r)
  BY <1>3, <1>4, ConcatAssociative, SMTT(30)
<1> QED BY <1>1, <1>2, <1>5, <1>6, <1>7

\* A new connection is appended to all of them.
LEMMA AppendMoves ==
  ASSUME NEW S, NEW c \in Seq(S), NEW w \in Seq(S), NEW x \in S
  PROVE  c \o Append(w, x) = Append(c \o w, x)
<1>1. <<x>> \in Seq(S) /\ c \o w \in Seq(S)
  BY ConcatProperties
<1>2. Append(w, x) = w \o <<x>> /\ Append(c \o w, x) = (c \o w) \o <<x>>
  BY <1>1, AppendIsConcat
<1>3. (c \o w) \o <<x>> = c \o (w \o <<x>>)
  BY <1>1, ConcatAssociative
<1> QED BY <1>2, <1>3

\* Appending a new value keeps a sequence free of repetitions.
LEMMA AppendInjectiveNew ==
  ASSUME NEW S, NEW p \in Seq(S), NEW x \in S, IsInjective(p), x \notin Range(p)
  PROVE  IsInjective(Append(p, x)) /\ Range(Append(p, x)) = Range(p) \union {x}
<1>1. PICK q : q = Append(p, x)
  OBVIOUS
<1>2. PICK n \in Nat : n = Len(p)
  BY LenProperties
<1>3. q \in Seq(S) /\ Len(q) = n + 1 /\ (\A i \in 1..n : q[i] = p[i]) /\ q[n + 1] = x
  BY <1>1, <1>2, AppendProperties
<1>4. DOMAIN p = 1..n /\ DOMAIN q = 1..(n + 1)
  BY <1>2, <1>3, LenProperties
<1>5. ASSUME NEW i \in 1..(n + 1), NEW j \in 1..(n + 1), q[i] = q[j] PROVE i = j
  <2>1. \A k \in 1..n : p[k] # x
    BY <1>4 DEF Range
  <2>2. \A k \in 1..(n + 1) : k \in 1..n \/ k = n + 1
    OBVIOUS
  <2>3. CASE i \in 1..n /\ j \in 1..n
    BY <1>3, <1>4, <1>5, <2>3 DEF IsInjective
  <2> QED BY <1>3, <1>5, <2>1, <2>2, <2>3
<1>6. Range(q) = Range(p) \union {x}
  <2>1. \A y : y \in Range(q) <=> \E k \in 1..(n + 1) : q[k] = y
    BY <1>4 DEF Range
  <2>2. \A y : y \in Range(p) <=> \E k \in 1..n : p[k] = y
    BY <1>4 DEF Range
  <2>3. \A k \in 1..n : k \in 1..(n + 1)
    OBVIOUS
  <2>4. n + 1 \in 1..(n + 1) /\ \A k \in 1..(n + 1) : k \in 1..n \/ k = n + 1
    OBVIOUS
  <2> QED BY <1>3, <2>1, <2>2, <2>3, <2>4
<1> QED BY <1>1, <1>4, <1>5, <1>6 DEF IsInjective

----------------------------------------------------------------------------
(* Who has called whom. *)

\* A call other than connect changes nothing of it.
LEMMA OtherCall ==
  ASSUME TypeOK, NEW t \in Thread, Call(t) # "connect", Advance(t),
         NEW u \in Thread, NEW s \in Server
  PROVE  HasCalled(u, s)' <=> HasCalled(u, s)
<1>1. at[u] \in Nat \ {0} /\ at' = [at EXCEPT ![t] = at[t] + 1]
  BY DEF TypeOK, Advance
<1>2. CASE u # t
  <2>1. at'[u] = at[u]
    BY <1>1, <1>2 DEF TypeOK
  <2> QED BY <2>1 DEF HasCalled
<1>3. CASE u = t
  <2>1. at'[u] = at[u] + 1
    BY <1>1, <1>3 DEF TypeOK
  <2>2. Program(u)[at[u]] # <<"connect", PathOf(s)>>
    BY <1>3 DEF Call
  <2>3. \A i : i \in 1..(at'[u] - 1) <=> i \in 1..(at[u] - 1) \/ i = at[u]
    BY <1>1, <2>1
  <2> QED BY <2>2, <2>3 DEF HasCalled
<1> QED BY <1>2, <1>3

\* connect is a first call, and adds the thread to those that called its path.
LEMMA ConnectCall ==
  ASSUME TypeOK, NEW t \in Thread, ~Connected(t), Call(t) = "connect", Advance(t),
         NEW u \in Thread, NEW s \in Server
  PROVE  /\ HasCalled(u, s)' <=> HasCalled(u, s) \/ (u = t /\ On(t) = s)
         /\ u = t /\ On(t) = s => ~HasCalled(u, s)
<1>1. at[u] \in Nat \ {0} /\ at' = [at EXCEPT ![t] = at[t] + 1] /\ PathOf(s) = s
  BY Numbers DEF TypeOK, Advance
<1>2. CASE u # t
  <2>1. at'[u] = at[u]
    BY <1>1, <1>2 DEF TypeOK
  <2> QED BY <1>2, <2>1 DEF HasCalled
<1>3. CASE u = t
  <2>1. PICK P : P = Program(t)
    OBVIOUS
  <2>2. PICK k \in Nat \ {0} : k = at[t]
    BY <1>1, <1>3
  <2>3. at'[t] = k + 1
    BY <1>1, <2>2 DEF TypeOK
  <2>4. ProgramFacts(t, P)
    BY <2>1, Programs
  <2>5. k \in 1..Len(P) /\ P \in Seq(Kinds \X Server)
    BY <2>1, <2>2, <2>4, LenProperties DEF Connected, ProgramFacts
  <2>6. P[k] \in Kinds \X Server
    BY <2>5
  <2>7. P[k] = <<"connect", On(t)>>
    BY <2>1, <2>2, <2>6 DEF Call, On
  <2>8. HasCalled(t, s) <=> \E i \in 1..(k - 1) : P[i] = <<"connect", s>>
    BY <1>1, <2>1, <2>2 DEF HasCalled
  <2>9. HasCalled(t, s)' <=> \E i \in 1..k : P[i] = <<"connect", s>>
    <3>1. at'[t] - 1 = k
      BY <2>2, <2>3
    <3> QED BY <1>1, <2>1, <3>1 DEF HasCalled
  <2>10. \A i : i \in 1..k <=> i \in 1..(k - 1) \/ i = k
    BY <2>2
  <2>11. On(t) = s => \A i \in 1..(k - 1) : P[i] # <<"connect", s>>
    <3> SUFFICES ASSUME On(t) = s, NEW i \in 1..(k - 1), P[i] = <<"connect", s>> PROVE FALSE
      OBVIOUS
    <3>1. i \in 1..Len(P) /\ i # k /\ P[i] = P[k] /\ P[i][1] = "connect"
      BY <2>5, <2>7, LenProperties
    <3> QED BY <2>4, <2>5, <3>1 DEF ProgramFacts
  <2> QED BY <1>3, <2>7, <2>8, <2>9, <2>10, <2>11
<1> QED BY <1>2, <1>3

\* What RightPeers says of one server.
PeersOf(s) == clients[s] \o waiting[s]
PeersRight(s) ==
  /\ IsInjective(PeersOf(s))
  /\ Range(PeersOf(s)) = {t \in Thread : HasCalled(t, s)}

\* Steps preserve it.
LEMMA PeersStep == IInv /\ RightPeers /\ [Next]_vars => RightPeers'
<1> SUFFICES ASSUME IInv, RightPeers, [Next]_vars, NEW s \in Server PROVE PeersRight(s)'
  BY DEF RightPeers, PeersRight, PeersOf
<1> USE DEF IInv
<1>1. PeersRight(s)
  BY DEF RightPeers, PeersRight, PeersOf
<1>2. clients[s] \in Seq(Thread) /\ waiting[s] \in Seq(Thread)
  BY DEF TypeOK
<1>3. ASSUME PeersOf(s)' = PeersOf(s), \A u \in Thread : HasCalled(u, s)' <=> HasCalled(u, s)
      PROVE  PeersRight(s)'
  BY <1>1, <1>3 DEF PeersRight
<1>4. CASE UNCHANGED <<clients, waiting, at>>
  BY <1>3, <1>4 DEF PeersOf, HasCalled
<1>5. CASE MainReturns \/ Kill
  <2>1. clients'[s] = <<>> /\ waiting'[s] = <<>> /\ \A u \in Thread : at'[u] = 1
    BY <1>5 DEF MainReturns, Kill, Vanish
  <2>2. PeersOf(s)' = <<>>
    BY <2>1 DEF PeersOf
  <2>3. IsInjective(<<>>) /\ Range(<<>>) = {}
    BY DEF IsInjective, Range
  <2>4. \A u \in Thread : ~HasCalled(u, s)'
    BY <2>1 DEF HasCalled
  <2> QED BY <2>2, <2>3, <2>4 DEF PeersRight
<1>6. ASSUME NEW t \in Thread, Unlink(t) \/ Listen(t) PROVE PeersRight(s)'
  <2>1. Call(t) # "connect" /\ Advance(t) /\ clients' = clients /\ waiting' = waiting
    BY <1>6 DEF Unlink, Listen, Calls
  <2> QED BY <1>3, <2>1, OtherCall DEF PeersOf
<1>7. ASSUME NEW t \in Thread, Bind(t) PROVE PeersRight(s)'
  <2>1. Call(t) # "connect" /\ clients' = clients /\ waiting' = waiting
    BY <1>7 DEF Bind, Calls
  <2>2. Advance(t) \/ at' = at
    BY <1>7 DEF Bind, Advance
  <2>3. CASE Advance(t)
    BY <1>3, <2>1, <2>3, OtherCall DEF PeersOf
  <2>4. CASE at' = at
    BY <1>4, <2>1, <2>4
  <2> QED BY <2>2, <2>3, <2>4
<1>8. ASSUME NEW t \in Thread, Accept(t) PROVE PeersRight(s)'
  <2>1. Call(t) # "connect" /\ Advance(t)
    BY <1>8 DEF Accept, Calls
  <2>2. CASE On(t) = s
    <3>1. /\ waiting[s] # <<>>
          /\ clients'[s] = Append(clients[s], Head(waiting[s]))
          /\ waiting'[s] = Tail(waiting[s])
      BY <1>8, <2>2 DEF Accept, TypeOK
    <3>2. clients'[s] \o waiting'[s] = clients[s] \o waiting[s]
      BY <1>2, <3>1, HeadMoves
    <3> QED BY <1>3, <2>1, <3>2, OtherCall DEF PeersOf
  <2>3. CASE On(t) # s
    <3>1. clients'[s] = clients[s] /\ waiting'[s] = waiting[s]
      BY <1>8, <2>3 DEF Accept, TypeOK
    <3> QED BY <1>3, <2>1, <3>1, OtherCall DEF PeersOf
  <2> QED BY <2>2, <2>3
<1>9. ASSUME NEW t \in Thread, Connect(t) PROVE PeersRight(s)'
  <2>1. PICK p : p = On(t)
    OBVIOUS
  <2>2. ~Connected(t) /\ Call(t) = "connect" /\ Advance(t) /\ names[p] \in Server
    BY <1>9, <2>1 DEF Connect, Calls, Listening
  <2>3. p \in Server
    BY <2>1, <2>2, CurrentCall DEF TypeOK
  <2>4. names[p] = p
    BY <2>2, <2>3, Numbers DEF NamesInv
  <2>5. clients' = clients /\ waiting' = [waiting EXCEPT ![p] = Append(waiting[p], t)]
    BY <1>9, <2>1, <2>4 DEF Connect
  <2>6. \A u \in Thread : HasCalled(u, s)' <=> HasCalled(u, s) \/ (u = t /\ p = s)
    BY <2>1, <2>2, ConnectCall
  <2>7. CASE p = s
    <3>1. PeersOf(s)' = Append(PeersOf(s), t)
      <4>1. clients'[s] = clients[s] /\ waiting'[s] = Append(waiting[s], t)
        BY <2>5, <2>7 DEF TypeOK
      <4>2. PICK c, w : c = clients[s] /\ w = waiting[s]
        OBVIOUS
      <4>3. c \o Append(w, t) = Append(c \o w, t)
        <5>1. c \in Seq(Thread) /\ w \in Seq(Thread) /\ t \in Thread
          BY <1>2, <4>2
        <5> QED BY <5>1, AppendMoves
      <4> QED BY <4>1, <4>2, <4>3 DEF PeersOf
    <3>2. ~HasCalled(t, s)
      <4>1. On(t) = s
        BY <2>1, <2>7
      <4>2. t = t /\ On(t) = s => ~HasCalled(t, s)
        BY <2>2, ConnectCall
      <4> QED BY <4>1, <4>2
    <3>3. PeersOf(s) \in Seq(Thread) /\ IsInjective(PeersOf(s)) /\ t \notin Range(PeersOf(s))
      BY <1>1, <1>2, <3>2, ConcatProperties DEF PeersOf, PeersRight
    <3>4. IsInjective(PeersOf(s)') /\ Range(PeersOf(s)') = Range(PeersOf(s)) \union {t}
      BY <3>1, <3>3, AppendInjectiveNew
    <3>5. {u \in Thread : HasCalled(u, s)'} = {u \in Thread : HasCalled(u, s)} \union {t}
      BY <2>6, <2>7
    <3> QED BY <1>1, <3>4, <3>5 DEF PeersRight
  <2>8. CASE p # s
    <3>1. clients'[s] = clients[s] /\ waiting'[s] = waiting[s]
      BY <2>5, <2>8 DEF TypeOK
    <3> QED BY <1>3, <2>6, <2>8, <3>1 DEF PeersOf
  <2> QED BY <2>7, <2>8
<1>10. CASE StartThread \/ StartFails \/ Work \/ Finalise \/ Interrupt \/ RunAgain \/ UNCHANGED vars
  BY <1>4, <1>10 DEF StartThread, StartFails, Work, Finalise, Interrupt, RunAgain, vars, threadVars
<1>11. ASSUME NEW t \in Thread, ConnectLater(t) \/ Wake(t) \/ Raise(t) \/ GiveUp(t)
       PROVE  PeersRight(s)'
  BY <1>4, <1>11 DEF ConnectLater, Wake, Raise, GiveUp
<1> QED BY <1>5, <1>6, <1>7, <1>8, <1>9, <1>10, <1>11 DEF Next, Steps

\* It holds at the start, when there are no connections.
LEMMA InitPeers == Init => RightPeers
<1> SUFFICES ASSUME Init, NEW s \in Server
             PROVE  /\ IsInjective(clients[s] \o waiting[s])
                    /\ Range(clients[s] \o waiting[s]) = {t \in Thread : HasCalled(t, s)}
  BY DEF RightPeers
<1>1. clients[s] \o waiting[s] = <<>>
  BY DEF Init
<1>2. IsInjective(<<>>) /\ Range(<<>>) = {}
  BY DEF IsInjective, Range
<1>3. \A u \in Thread : ~HasCalled(u, s)
  BY DEF HasCalled, Init
<1> QED BY <1>1, <1>2, <1>3

\* No reader serves another reader's worker, none serves a worker twice, and
\* nobody is connected to a socket of a process that was killed.
THEOREM PeersAreRight == Spec => []RightPeers
BY InitPeers, PeersStep, Invariant, PTL DEF Spec

----------------------------------------------------------------------------
(* Who begins last.  A thread is called only after it has begun to listen, and *)
(* listens to the workers, or calls anybody, only after it has accepted all    *)
(* its clients; counting them tells who they are.                              *)

AtInv == \A t \in Thread : at[t] <= Len(Program(t)) + 1

CalledInv ==
  \A s \in Server : (\E t \in Thread : HasCalled(t, s)) => at[Owner(s)] > BindAt(s) + 1

CountInv ==
  \A s \in Server : \A k \in 0..Amount(s) :
    at[Owner(s)] >= BindAt(s) + 2 + k => Len(clients[s]) >= k

OrderInv == AtInv /\ CalledInv /\ CountInv

\* After a bind and a listen come the accepts.
LEMMA CurrentAccept ==
  ASSUME NEW t \in Thread, at[t] \in Nat \ {0}, NEW s \in Server, Owner(s) = t,
         NEW k \in 1..Amount(s), at[t] = BindAt(s) + 1 + k
  PROVE  Call(t) = "accept" /\ On(t) = s
<1>1. Program(t)[at[t]] = <<"accept", s>>
  BY Programs DEF ProgramFacts
<1> QED BY <1>1 DEF Call, On

\* Amounts and lengths are numbers.
LEMMA MoreNumbers ==
  /\ \A s \in Server : Amount(s) \in Nat
  /\ \A t \in Thread : Len(Program(t)) \in Nat
<1>1. ASSUME NEW t \in Thread PROVE Len(Program(t)) \in Nat
  <2>1. Program(t) \in Seq(Kinds \X Server)
    BY Programs DEF ProgramFacts
  <2> QED BY <2>1, LenProperties
<1> QED BY <1>1, StartupAssumption DEF Amount

\* No thread goes past the end of its program.
LEMMA AtStep == IInv /\ AtInv /\ [Next]_vars => AtInv'
<1> SUFFICES ASSUME TypeOK, AtInv, [Next]_vars PROVE AtInv'
  BY DEF IInv
<1> USE DEF AtInv
<1>1. CASE at' = at
  BY <1>1
<1>2. CASE MainReturns \/ Kill
  BY <1>2, MoreNumbers DEF MainReturns, Kill, Vanish
<1>3. ASSUME NEW t \in Thread, at' = [at EXCEPT ![t] = @ + 1], ~Connected(t) PROVE AtInv'
  <2>1. at[t] <= Len(Program(t)) /\ at[t] \in Nat
    <3>1. at[t] \in Nat /\ Len(Program(t)) \in Nat
      BY MoreNumbers DEF TypeOK
    <3>2. ~(at[t] > Len(Program(t)))
      BY <1>3 DEF Connected
    <3> QED BY <3>1, <3>2
  <2>2. \A u \in Thread : at'[u] = IF u = t THEN at[t] + 1 ELSE at[u]
    BY <1>3 DEF TypeOK
  <2> QED BY <2>1, <2>2, MoreNumbers
<1>4. ASSUME NEW t \in Thread, Steps(t) \/ Raise(t) \/ GiveUp(t)
      PROVE  at' = at \/ (at' = [at EXCEPT ![t] = @ + 1] /\ ~Connected(t))
  BY <1>4
     DEF Steps, Unlink, Bind, Listen, Accept, Connect, ConnectLater, Wake, Raise, GiveUp,
         Advance, Calls
<1>5. CASE StartThread \/ StartFails \/ Work \/ Finalise \/ Interrupt \/ RunAgain \/ UNCHANGED vars
  BY <1>1, <1>5 DEF StartThread, StartFails, Work, Finalise, Interrupt, RunAgain, vars, threadVars
<1> QED BY <1>1, <1>2, <1>3, <1>4, <1>5 DEF Next

\* What a step does to the indices: all threads start anew, or at most one goes on.
LEMMA AtMoves ==
  ASSUME TypeOK, [Next]_vars
  PROVE  \/ MainReturns \/ Kill
         \/ \A u \in Thread : at'[u] >= at[u]
<1>1. \A u \in Thread : at[u] \in Nat
  BY DEF TypeOK
<1>2. CASE at' = at
  BY <1>1, <1>2
<1>3. ASSUME NEW t \in Thread, at' = [at EXCEPT ![t] = @ + 1]
      PROVE  \A u \in Thread : at'[u] >= at[u]
  <2>1. \A u \in Thread : at'[u] = IF u = t THEN at[t] + 1 ELSE at[u]
    BY <1>3 DEF TypeOK
  <2> QED BY <1>1, <2>1
<1>4. ASSUME NEW t \in Thread, Steps(t) \/ Raise(t) \/ GiveUp(t)
      PROVE  at' = at \/ at' = [at EXCEPT ![t] = @ + 1]
  BY <1>4
     DEF Steps, Unlink, Bind, Listen, Accept, Connect, ConnectLater, Wake, Raise, GiveUp, Advance
<1>5. CASE StartThread \/ StartFails \/ Work \/ Finalise \/ Interrupt \/ RunAgain \/ UNCHANGED vars
  BY <1>2, <1>5 DEF StartThread, StartFails, Work, Finalise, Interrupt, RunAgain, vars, threadVars
<1> QED BY <1>2, <1>3, <1>4, <1>5 DEF Next

\* Nobody is called before it listens.
LEMMA CalledStep == IInv /\ CalledInv /\ [Next]_vars => CalledInv'
<1> SUFFICES ASSUME IInv, CalledInv, [Next]_vars, NEW s \in Server, NEW u \in Thread,
                    HasCalled(u, s)'
             PROVE  at'[Owner(s)] > BindAt(s) + 1
  BY DEF CalledInv
<1> USE DEF IInv
<1>1. Owner(s) \in Thread /\ BindAt(s) \in Nat /\ at[Owner(s)] \in Nat
  BY Numbers DEF TypeOK
<1>2. CASE MainReturns \/ Kill
  <2>1. at'[u] = 1
    BY <1>2 DEF MainReturns, Kill, Vanish
  <2> QED BY <2>1 DEF HasCalled
<1>3. ASSUME \A v \in Thread : at'[v] >= at[v], at' \in [Thread -> Nat \ {0}] PROVE at'[Owner(s)] > BindAt(s) + 1
  <2>1. CASE HasCalled(u, s)
    BY <1>1, <1>3, <2>1 DEF CalledInv
  <2>2. CASE ~HasCalled(u, s)
    <3>1. at'[u] # at[u]
      BY <2>2 DEF HasCalled
    <3>2. PICK t \in Thread : Unlink(t) \/ Bind(t) \/ Listen(t) \/ Accept(t) \/ Connect(t)
      <4>1. ~(MainReturns \/ Kill)
        <5> SUFFICES ASSUME MainReturns \/ Kill PROVE FALSE
          OBVIOUS
        <5>1. at'[u] = 1
          BY DEF MainReturns, Kill, Vanish
        <5> QED BY <5>1 DEF HasCalled
      <4> QED BY <3>1, <4>1
              DEF Next, Steps, StartThread, StartFails, Work, Finalise, Interrupt, RunAgain,
                  ConnectLater, Wake, Raise, GiveUp, vars, threadVars
    <3>3. ~Connected(t) /\ (Advance(t) \/ at' = at)
      BY <3>2 DEF Unlink, Bind, Listen, Accept, Connect, Calls, Advance
    <3>4. Advance(t)
      BY <3>1, <3>3
    <3>5. Call(t) = "connect"
      BY <2>2, <3>4, OtherCall
    <3>6. Connect(t)
      BY <3>2, <3>5 DEF Unlink, Bind, Listen, Accept, Calls
    <3>7. u = t /\ On(t) = s
      BY <2>2, <3>3, <3>4, <3>5, ConnectCall
    <3>8. names[s] \in Server /\ stage[names[s]] = "listening"
      BY <3>6, <3>7 DEF Connect, Listening
    <3>9. names[s] = s
      BY <3>8, Numbers DEF NamesInv
    <3> QED BY <1>1, <1>3, <3>8, <3>9 DEF StageInv
  <2> QED BY <2>1, <2>2
<1>4. at' \in [Thread -> Nat \ {0}]
  BY TypeStep DEF TypeOK
<1> QED BY <1>2, <1>3, <1>4, AtMoves

\* Every accept adds a client.
LEMMA CountStep == IInv /\ CountInv /\ [Next]_vars => CountInv'
<1> SUFFICES ASSUME IInv, CountInv, [Next]_vars, NEW s \in Server, NEW k \in 0..Amount(s),
                    at'[Owner(s)] >= BindAt(s) + 2 + k
             PROVE  Len(clients'[s]) >= k
  BY DEF CountInv
<1> USE DEF IInv
<1>1. Owner(s) \in Thread /\ BindAt(s) \in Nat /\ at[Owner(s)] \in Nat \ {0} /\ Amount(s) \in Nat
  BY Numbers, MoreNumbers DEF TypeOK
<1>2. clients[s] \in Seq(Thread) /\ Len(clients[s]) \in Nat /\ waiting[s] \in Seq(Thread)
  BY LenProperties DEF TypeOK
<1>3. CASE MainReturns \/ Kill
  <2>1. at'[Owner(s)] = 1
    BY <1>1, <1>3 DEF MainReturns, Kill, Vanish
  <2> QED BY <1>1, <2>1
<1>4. CASE clients'[s] = clients[s] /\ at'[Owner(s)] = at[Owner(s)]
  BY <1>4 DEF CountInv
<1>5. ASSUME NEW t \in Thread, Unlink(t) \/ Bind(t) \/ Listen(t) \/ Accept(t) \/ Connect(t)
      PROVE  Len(clients'[s]) >= k
  <2>1. at' = at \/ at' = [at EXCEPT ![t] = @ + 1]
    BY <1>5 DEF Unlink, Bind, Listen, Accept, Connect, Advance
  <2>2. CASE Accept(t) /\ On(t) = s
    <3>1. waiting[s] # <<>> /\ clients'[s] = Append(clients[s], Head(waiting[s]))
      BY <2>2 DEF Accept, TypeOK
    <3>2. Len(clients'[s]) = Len(clients[s]) + 1
      <4>1. Head(waiting[s]) \in Thread
        BY <1>2, <3>1, HeadTailProperties
      <4> QED BY <1>2, <3>1, <4>1, AppendProperties
    <3>3. at'[Owner(s)] <= at[Owner(s)] + 1
      <4>1. \A u \in Thread : at'[u] = at[u] \/ at'[u] = at[u] + 1
        BY <2>1 DEF TypeOK
      <4> QED BY <1>1, <4>1
    <3>4. at'[Owner(s)] \in Nat
      BY <1>1, TypeStep DEF TypeOK
    <3>5. k >= 1 => k - 1 \in 0..Amount(s) /\ at[Owner(s)] >= BindAt(s) + 2 + (k - 1)
      BY <1>1, <3>3, <3>4
    <3>6. k >= 1 => Len(clients[s]) >= k - 1
      BY <3>5 DEF CountInv
    <3> QED BY <1>1, <1>2, <3>2, <3>6
  <2>3. CASE ~(Accept(t) /\ On(t) = s)
    <3>1. clients'[s] = clients[s]
      BY <1>5, <2>3 DEF Unlink, Bind, Listen, Accept, Connect, TypeOK
    <3>2. CASE Owner(s) # t \/ at' = at
      <4>1. at'[Owner(s)] = at[Owner(s)]
        BY <1>1, <2>1, <3>2 DEF TypeOK
      <4> QED BY <1>4, <3>1, <4>1
    <3>3. CASE Owner(s) = t /\ at' # at
      <4>1. at'[t] = at[t] + 1
        BY <2>1, <3>3 DEF TypeOK
      <4>2. CASE k = 0
        BY <1>2, <3>1, <4>2
      <4>3. CASE k >= 1
        <5>1. at[t] # BindAt(s) + 1 + k
          <6> SUFFICES ASSUME at[t] = BindAt(s) + 1 + k PROVE FALSE
            OBVIOUS
          <6>1. Call(t) = "accept" /\ On(t) = s
            BY <1>1, <3>3, <4>3, CurrentAccept
          <6> QED BY <1>5, <2>3, <6>1 DEF Unlink, Bind, Listen, Connect, Calls
        <5>2. at[t] >= BindAt(s) + 2 + k
          BY <1>1, <3>3, <4>1, <5>1
        <5> QED BY <3>1, <3>3, <5>2 DEF CountInv
      <4> QED BY <1>1, <4>2, <4>3
    <3> QED BY <3>2, <3>3
  <2> QED BY <2>2, <2>3
<1>6. CASE StartThread \/ StartFails \/ Work \/ Finalise \/ Interrupt \/ RunAgain \/ UNCHANGED vars
  BY <1>4, <1>6 DEF StartThread, StartFails, Work, Finalise, Interrupt, RunAgain, vars, threadVars
<1>7. ASSUME NEW t \in Thread, ConnectLater(t) \/ Wake(t) \/ Raise(t) \/ GiveUp(t)
      PROVE  Len(clients'[s]) >= k
  BY <1>4, <1>7 DEF ConnectLater, Wake, Raise, GiveUp
<1> QED BY <1>3, <1>5, <1>6, <1>7 DEF Next, Steps

\* Nothing has happened at the start.
LEMMA InitOrder == Init => OrderInv
<1> SUFFICES ASSUME Init PROVE OrderInv
  OBVIOUS
<1>1. \A t \in Thread : at[t] = 1
  BY DEF Init
<1>2. AtInv
  BY <1>1, MoreNumbers DEF AtInv
<1>3. CalledInv
  BY <1>1 DEF CalledInv, HasCalled
<1>4. CountInv
  <2> SUFFICES ASSUME NEW s \in Server, NEW k \in 0..Amount(s)
               PROVE  ~(at[Owner(s)] >= BindAt(s) + 2 + k)
    BY DEF CountInv
  <2>1. at[Owner(s)] = 1 /\ BindAt(s) \in Nat /\ Amount(s) \in Nat
    BY <1>1, Numbers, MoreNumbers
  <2> QED BY <2>1
<1> QED BY <1>2, <1>3, <1>4 DEF OrderInv

\* When a server has accepted all its clients and only members of a set of that
\* size call it, all of the set have called.
LEMMA AllHaveCalled ==
  ASSUME IInv, RightPeers, CountInv, NEW s \in Server,
         at[Owner(s)] >= BindAt(s) + 2 + Amount(s),
         NEW T \in SUBSET Thread, IsFiniteSet(T), Cardinality(T) = Amount(s),
         \A u \in Thread : HasCalled(u, s) => u \in T
  PROVE  \A u \in T : HasCalled(u, s)
<1>1. PICK c : c = clients[s]
  OBVIOUS
<1>2. PICK w : w = waiting[s]
  OBVIOUS
<1>3. PICK p : p = c \o w
  OBVIOUS
<1>4. c \in Seq(Thread) /\ w \in Seq(Thread)
  BY <1>1, <1>2 DEF IInv, TypeOK
<1>5. p \in Seq(Thread) /\ Len(p) = Len(c) + Len(w)
  BY <1>3, <1>4, ConcatProperties
<1>6. Amount(s) \in Nat /\ Len(c) \in Nat /\ Len(w) \in Nat
  BY <1>4, LenProperties, MoreNumbers
<1>7. Len(c) >= Amount(s)
  BY <1>1, <1>6 DEF CountInv
<1>8. PICK n \in Nat : n = Len(p) /\ n >= Amount(s)
  BY <1>5, <1>6, <1>7
<1>9. IsInjective(p) /\ Range(p) = {u \in Thread : HasCalled(u, s)}
  BY <1>1, <1>2, <1>3 DEF RightPeers
<1>10. p \in [1..n -> T]
  <2>1. p \in [1..n -> Thread]
    BY <1>5, <1>8, LenProperties
  <2>2. \A i \in 1..n : p[i] \in Range(p)
    BY <2>1 DEF Range
  <2>3. \A i \in 1..n : p[i] \in T
    BY <1>9, <2>2
  <2> QED BY <2>1, <2>3
<1>11. p \in Injection(1..n, T)
  BY <1>9, <1>10 DEF Injection
<1>12. Cardinality(1..n) <= Cardinality(T)
       /\ (Cardinality(1..n) = Cardinality(T) <=> p \in Surjection(1..n, T))
  BY <1>11, FS_Injection
<1>13. Cardinality(1..n) = n
  BY FS_Interval
<1>14. p \in Surjection(1..n, T)
  BY <1>6, <1>8, <1>12, <1>13
<1>15. \A u \in T : \E i \in 1..n : p[i] = u
  BY <1>14 DEF Surjection
<1>16. \A u \in T : u \in Range(p)
  BY <1>10, <1>15 DEF Range
<1> QED BY <1>9, <1>16

\* To have called the reporter is to have made one's last call.
LEMMA LastCalls ==
  ASSUME IInv, AtInv, NEW u \in Thread
  PROVE  /\ HasCalled(u, ReporterForReaders) => u \in Reader /\ Connected(u)
         /\ HasCalled(u, ReporterForWorkers) => u \in Worker /\ Connected(u)
         /\ u \in Worker /\ Connected(u) => HasCalled(u, ReporterForWorkers)
<1>1. PICK P : P = Program(u)
  OBVIOUS
<1>2. PICK n \in Nat : n = Len(P)
  BY <1>1, MoreNumbers
<1>3. PICK k \in Nat \ {0} : k = at[u]
  BY DEF IInv, TypeOK
<1>4. k <= n + 1
  BY <1>1, <1>2, <1>3 DEF AtInv
<1>5. ProgramFacts(u, P)
  BY <1>1, Programs
<1>6. /\ \A i \in 1..n :
           /\ P[i] = <<"connect", ReporterForReaders>> => u \in Reader /\ i = n
           /\ P[i] = <<"connect", ReporterForWorkers>> => u \in Worker /\ i = n
      /\ u \in Worker => n >= 1 /\ P[n] = <<"connect", ReporterForWorkers>>
  BY <1>2, <1>5 DEF ProgramFacts
<1>7. ReporterForReaders \in Server /\ ReporterForWorkers \in Server
  BY StartupAssumption DEF Server, ReporterForReaders, ReporterForWorkers
<1>8. \A s \in Server : HasCalled(u, s) <=> \E i \in 1..(k - 1) : P[i] = <<"connect", s>>
  BY <1>1, <1>3, Numbers DEF HasCalled
<1>9. Connected(u) <=> k > n
  BY <1>1, <1>2, <1>3 DEF Connected
<1>10. \A i \in 1..(k - 1) : i \in 1..n /\ (i = n => k > n)
  BY <1>4
<1>11. k > n /\ n >= 1 => n \in 1..(k - 1)
  OBVIOUS
<1> QED BY <1>6, <1>7, <1>8, <1>9, <1>10, <1>11

\* The order in which threads begin follows from the invariants.
LEMMA StartOrder == IInv /\ RightPeers /\ OrderInv => ReportersStartLast
<1> SUFFICES ASSUME IInv, RightPeers, AtInv, CalledInv, CountInv PROVE ReportersStartLast
  BY DEF OrderInv
<1>1. PICK n \in Nat : n = at[Reporter]
  BY Numbers DEF IInv, TypeOK
<1>2. /\ NReaders \in Nat /\ NWorkers \in Nat /\ NReaders >= 1 /\ NWorkers >= 1
      /\ ReporterForReaders \in Server /\ ReporterForWorkers \in Server
      /\ Owner(ReporterForReaders) = Reporter /\ Owner(ReporterForWorkers) = Reporter
      /\ BindAt(ReporterForReaders) = 2 /\ BindAt(ReporterForWorkers) = NReaders + 5
      /\ Amount(ReporterForReaders) = NReaders /\ Amount(ReporterForWorkers) = NWorkers
  BY StartupAssumption
     DEF Server, ReporterForReaders, ReporterForWorkers, Owner, Reader, Reporter, BindAt, Amount
<1>3. /\ Reader \in SUBSET Thread /\ IsFiniteSet(Reader) /\ Cardinality(Reader) = NReaders
      /\ Worker \in SUBSET Thread /\ IsFiniteSet(Worker) /\ Cardinality(Worker) = NWorkers
  <2>1. IsFiniteSet(1..NReaders) /\ Cardinality(1..NReaders) = NReaders
    BY <1>2, FS_Interval
  <2>2. /\ IsFiniteSet((NReaders + 1)..(NReaders + NWorkers))
        /\ Cardinality((NReaders + 1)..(NReaders + NWorkers)) = NWorkers
    <3>1. PICK a \in Int, b \in Int : a = NReaders + 1 /\ b = NReaders + NWorkers
      BY <1>2
    <3>2. IsFiniteSet(a..b) /\ Cardinality(a..b) = IF a > b THEN 0 ELSE b - a + 1
      BY FS_Interval
    <3> QED BY <1>2, <3>1, <3>2
  <2> QED BY <1>2, <2>1, <2>2 DEF Reader, Worker, Thread, Reporter
<1>4. n >= NReaders + 4 => \A r \in Reader : Connected(r)
  <2> SUFFICES ASSUME n >= NReaders + 4 PROVE \A r \in Reader : Connected(r)
    OBVIOUS
  <2>1. at[Owner(ReporterForReaders)] >= BindAt(ReporterForReaders) + 2 + Amount(ReporterForReaders)
    BY <1>1, <1>2
  <2>2. \A u \in Thread : HasCalled(u, ReporterForReaders) => u \in Reader
    BY LastCalls
  <2>3. \A u \in Reader : HasCalled(u, ReporterForReaders)
    BY <1>2, <1>3, <2>1, <2>2, AllHaveCalled
  <2> QED BY <1>3, <2>3, LastCalls
<1>5. n >= NReaders + NWorkers + 7 => \A w \in Worker : Connected(w)
  <2> SUFFICES ASSUME n >= NReaders + NWorkers + 7 PROVE \A w \in Worker : Connected(w)
    OBVIOUS
  <2>1. at[Owner(ReporterForWorkers)] >= BindAt(ReporterForWorkers) + 2 + Amount(ReporterForWorkers)
    BY <1>1, <1>2
  <2>2. \A u \in Thread : HasCalled(u, ReporterForWorkers) => u \in Worker
    BY LastCalls
  <2>3. \A u \in Worker : HasCalled(u, ReporterForWorkers)
    BY <1>2, <1>3, <2>1, <2>2, AllHaveCalled
  <2> QED BY <1>3, <2>3, LastCalls
<1>6. ASSUME NEW w \in Worker, Connected(w) PROVE \A r \in Reader : Connected(r)
  <2>1. w \in Thread /\ HasCalled(w, ReporterForWorkers)
    BY <1>3, <1>6, LastCalls
  <2>2. n > NReaders + 5 + 1
    BY <1>1, <1>2, <2>1 DEF CalledInv
  <2> QED BY <1>2, <1>4, <2>2
<1>7. ASSUME Connected(Reporter) PROVE \A t \in Thread : Connected(t)
  <2>1. Len(Program(Reporter)) = NReaders + NWorkers + 6
    BY Numbers, Programs DEF ProgramFacts
  <2>2. n > NReaders + NWorkers + 6
    BY <1>1, <1>7, <2>1 DEF Connected
  <2>3. \A t \in Thread : t \in Reader \/ t \in Worker \/ t = Reporter
    BY <1>2 DEF Thread, Reader, Worker, Reporter
  <2> QED BY <1>2, <1>4, <1>5, <1>7, <2>2, <2>3
<1> QED BY <1>6, <1>7 DEF ReportersStartLast

\* No worker reads before every reader has all its connections, and the reporter
\* is the last to begin, so no packet reaches an end that nobody will watch.
THEOREM ReporterIsLast == Spec => []ReportersStartLast
<1>1. OrderInv /\ IInv /\ [Next]_vars => OrderInv'
  BY AtStep, CalledStep, CountStep DEF OrderInv
<1>2. Spec => []OrderInv
  BY InitOrder, <1>1, Invariant, PTL DEF Spec
<1> QED BY <1>2, StartOrder, Invariant, PeersAreRight, PTL
=============================================================================
