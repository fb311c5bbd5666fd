--------------------------- MODULE LuaThreadProofs ---------------------------
(***************************************************************************)
(* The invariants of LuaThread, for any number of threads and calls.  All  *)
(* of them rest on what the field `state' says: when the script may trust  *)
(* DEAD, and for how long it may trust RUNNING.                            *)
(***************************************************************************)
EXTENDS LuaThread, TLAPS

\* A thread that left Lua by itself is marked, and a marked one that did not is
\* cancelled.
MarkedInv ==
  \A t \in Thread :
    /\ tpc[t] # "lua" /\ t \notin cancelled => state[t] = "DEAD"
    /\ tpc[t] = "lua" /\ state[t] = "DEAD" => t \in cancelled
    /\ t \in cancelled => state[t] = "DEAD" \/ (mpc = "mark" /\ arg = t)

\* What was done to a thread's handle shows in its state, except in the middle
\* of stop.
HandleInv ==
  /\ \A t \in Thread :
       /\ handle[t] # "joinable" =>
            state[t] = "DEAD" \/ (mpc \in {"cancel", "mark"} /\ arg = t)
       /\ t \in cancelled => handle[t] # "joinable"
  /\ mpc \in {"cancel", "mark"} => handle[arg] # "joinable"
  /\ mpc = "mark" => arg \in cancelled
  /\ mpc \in {"join", "gcjoin"} => handle[arg] = "joinable"

\* The finalisers leave only marked threads behind.
CollectedInv ==
  /\ \A t \in closed : state[t] = "DEAD"
  /\ mpc = "gcclose" => state[arg] = "DEAD"
  /\ mpc \in {"gc", "gcjoin", "gcclose"} => \A t \in Live : t > arg => state[t] = "DEAD"
  /\ mpc = "end" => \A t \in Live : state[t] = "DEAD"

ThreadInv == TypeOK /\ MarkedInv /\ HandleInv /\ CollectedInv

\* The invariant holds of a script that has just begun.
LEMMA InitThreadInv == Init => ThreadInv
  BY LuaThreadAssumption
  DEF Init, ThreadInv, TypeOK, MarkedInv, HandleInv, CollectedInv, Thread, Live, MainPc

\* thread.start, thread.stop and thread.join keep it.
LEMMA CallsThreadInv ==
  ASSUME ThreadInv,
         \/ Start \/ StopDetach \/ StopCancel \/ StopMark \/ JoinReturns
         \/ \E t \in Live : Stop(t) \/ Join(t)
  PROVE  ThreadInv'
<1> USE LuaThreadAssumption DEF ThreadInv, MainPc, Thread, Live
<1>1. CASE Start
  BY <1>1 DEF Start, TypeOK, MarkedInv, HandleInv, CollectedInv
<1>2. CASE StopDetach
  BY <1>2 DEF StopDetach, TypeOK, MarkedInv, HandleInv, CollectedInv
<1>3. CASE StopCancel
  BY <1>3 DEF StopCancel, TypeOK, MarkedInv, HandleInv, CollectedInv
<1>4. CASE StopMark
  BY <1>4 DEF StopMark, TypeOK, MarkedInv, HandleInv, CollectedInv
<1>5. CASE JoinReturns
  BY <1>5 DEF JoinReturns, Joined, TypeOK, MarkedInv, HandleInv, CollectedInv
<1>6. ASSUME NEW t \in Live, Stop(t) PROVE ThreadInv'
  BY <1>6 DEF Stop, TypeOK, MarkedInv, HandleInv, CollectedInv
<1>7. ASSUME NEW t \in Live, Join(t) PROVE ThreadInv'
  BY <1>7 DEF Join, TypeOK, MarkedInv, HandleInv, CollectedInv
<1> QED BY <1>1, <1>2, <1>3, <1>4, <1>5, <1>6, <1>7

\* lua_close and the finalisers keep it.
LEMMA CloseThreadInv ==
  ASSUME ThreadInv, Close \/ Collect \/ CollectJoined \/ CollectClose
  PROVE  ThreadInv'
<1> USE LuaThreadAssumption DEF ThreadInv, MainPc, Thread, Live
<1>1. CASE Close
  BY <1>1 DEF Close, TypeOK, MarkedInv, HandleInv, CollectedInv
<1>2. CASE Collect
  BY <1>2 DEF Collect, TypeOK, MarkedInv, HandleInv, CollectedInv
<1>3. CASE CollectJoined
  BY <1>3 DEF CollectJoined, Joined, TypeOK, MarkedInv, HandleInv, CollectedInv
<1>4. CASE CollectClose
  BY <1>4 DEF CollectClose, TypeOK, MarkedInv, HandleInv, CollectedInv
<1> QED BY <1>1, <1>2, <1>3, <1>4

\* The threads keep it.
LEMMA BodyThreadInv ==
  ASSUME ThreadInv, NEW t \in Live, Body(t)
  PROVE  ThreadInv'
<1> USE LuaThreadAssumption DEF ThreadInv, MainPc, Thread, Live
<1>1. CASE End(t)
  BY <1>1 DEF End, scriptVars, TypeOK, MarkedInv, HandleInv, CollectedInv
<1>2. CASE Exit(t)
  BY <1>2 DEF Exit, scriptVars, TypeOK, MarkedInv, HandleInv, CollectedInv
<1>3. CASE Cancelled(t)
  BY <1>3 DEF Cancelled, scriptVars, TypeOK, MarkedInv, HandleInv, CollectedInv
<1> QED BY <1>1, <1>2, <1>3 DEF Body

\* Every reachable state of a script and its threads satisfies the invariant.
THEOREM ThreadInvariant == Spec => []ThreadInv
<1>1. ASSUME ThreadInv, [Next]_vars PROVE ThreadInv'
  <2>1. CASE Script
    BY <1>1, <2>1, CallsThreadInv, CloseThreadInv DEF Script
  <2>2. CASE \E t \in Live : Body(t)
    BY <1>1, <2>2, BodyThreadInv
  <2>3. CASE UNCHANGED vars
    BY <1>1, <2>3
       DEF vars, scriptVars, ThreadInv, TypeOK, MarkedInv, HandleInv, CollectedInv, Live
  <2> QED BY <1>1, <2>1, <2>2, <2>3 DEF Next
<1> QED BY InitThreadInv, <1>1, PTL DEF Spec

\* Type correctness: states, handles and phases have their types, and the
\* finalisers go no further than the last thread.
THEOREM ThreadTypeCorrect == Spec => []TypeOK
<1>1. ThreadInv => TypeOK
  BY DEF ThreadInv
<1> QED BY ThreadInvariant, <1>1, PTL

\* A Lua state is never closed under a thread that runs Lua code in it and was
\* not stopped (lua_thread_gc, lua_thread_on_end).
THEOREM ClosedAfterThread == Spec => []ClosedAfterItsThread
<1>1. ThreadInv => ClosedAfterItsThread
  BY DEF ThreadInv, TypeOK, MarkedInv, CollectedInv, ClosedAfterItsThread
<1> QED BY ThreadInvariant, <1>1, PTL

\* pthread_join is never called twice for a thread, nor after pthread_detach
\* (lua_thread_stop, lua_thread_join, lua_thread_gc).
THEOREM JoinsJoinable == Spec => []JoinsOnlyJoinable
<1>1. ThreadInv => JoinsOnlyJoinable
  BY DEF ThreadInv, HandleInv, JoinsOnlyJoinable
<1> QED BY ThreadInvariant, <1>1, PTL

\* Closing the main Lua state leaves no thread running that the script has not
\* stopped (lua_close, lua_thread_gc).
THEOREM NoneLeftRunning == Spec => []LeftEnded
<1>1. ThreadInv => LeftEnded
  BY LuaThreadAssumption
     DEF ThreadInv, TypeOK, MarkedInv, HandleInv, CollectedInv, LeftEnded, Live, Thread
<1> QED BY ThreadInvariant, <1>1, PTL
=============================================================================
