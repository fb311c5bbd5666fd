----------------------------- MODULE LuaThread -----------------------------
(***************************************************************************)
(* lua-thread: the thread objects of a Lua script.  The script creates     *)
(* threads and may stop or join each of them at any time, any number of    *)
(* times; when its Lua state is closed, the finalisers of the objects wait *)
(* for the threads and close their Lua states.  Every system call and      *)
(* every access to the shared field `state' is a step of its own.          *)
(***************************************************************************)
EXTENDS Integers

CONSTANTS
  NThreads,  \* how many threads the script wants
  MaxCalls   \* bound: calls of stop and join

ASSUME LuaThreadAssumption ==
  /\ NThreads \in Nat \ {0}
  /\ MaxCalls \in Nat

Thread == 1..NThreads

VARIABLES
  created,   \* threads started so far
  mpc,       \* where the script is
  arg,       \* the thread its call is about
  calls,     \* calls of stop and join so far
  state,     \* state[t]: "RUNNING" or "DEAD", the field of lua_ud_thread
  tpc,       \* tpc[t]: "lua" runs Lua code, "dying" between the change of
             \*   state and pthread_exit, "over"
  handle,    \* handle[t]: "joinable", "detached" or "joined"
  cancelled, \* threads pthread_cancel was called for
  closed     \* threads whose Lua state is closed

scriptVars == <<created, mpc, arg, calls>>
vars == <<scriptVars, state, tpc, handle, cancelled, closed>>

MainPc == {"script", "detach", "cancel", "mark", "join",
           "gc", "gcjoin", "gcclose", "end"}

TypeOK ==
  /\ created \in 0..NThreads
  /\ mpc \in MainPc
  /\ arg \in 0..NThreads
  /\ mpc \notin {"script", "end"} => arg \in 1..created
  /\ calls \in 0..MaxCalls
  /\ state \in [Thread -> {"RUNNING", "DEAD"}]
  /\ tpc \in [Thread -> {"lua", "dying", "over"}]
  /\ handle \in [Thread -> {"joinable", "detached", "joined"}]
  /\ cancelled \subseteq Thread
  /\ closed \subseteq Thread

Init ==
  /\ created = 0
  /\ mpc = "script"
  /\ arg = 0
  /\ calls = 0
  /\ state = [t \in Thread |-> "RUNNING"]
  /\ tpc = [t \in Thread |-> "lua"]
  /\ handle = [t \in Thread |-> "joinable"]
  /\ cancelled = {}
  /\ closed = {}

Live == 1..created

\* lua_thread_start: everything is ready before pthread_create.
Start ==
  /\ mpc = "script"
  /\ created < NThreads
  /\ created' = created + 1
  /\ UNCHANGED <<mpc, arg, calls, state, tpc, handle, cancelled, closed>>

\* lua_thread_stop looks at the state first.
Stop(t) ==
  /\ mpc = "script"
  /\ calls < MaxCalls
  /\ calls' = calls + 1
  /\ IF state[t] = "RUNNING"
     THEN mpc' = "detach" /\ arg' = t
     ELSE UNCHANGED <<mpc, arg>>
  /\ UNCHANGED <<created, state, tpc, handle, cancelled, closed>>

StopDetach ==
  /\ mpc = "detach"
  /\ handle' = [handle EXCEPT ![arg] = "detached"]
  /\ mpc' = "cancel"
  /\ UNCHANGED <<created, arg, calls, state, tpc, cancelled, closed>>

StopCancel ==
  /\ mpc = "cancel"
  /\ cancelled' = cancelled \union {arg}
  /\ mpc' = "mark"
  /\ UNCHANGED <<created, arg, calls, state, tpc, handle, closed>>

\* Mutant of StopMark: the state is left to the thread.
StopMarkNothing ==
  /\ mpc = "mark"
  /\ mpc' = "script"
  /\ UNCHANGED <<created, arg, calls, state, tpc, handle, cancelled, closed>>

\* The thread will not get to the change of state any more.
StopMark ==
  /\ mpc = "mark"
  /\ state' = [state EXCEPT ![arg] = "DEAD"]
  /\ mpc' = "script"
  /\ UNCHANGED <<created, arg, calls, tpc, handle, cancelled, closed>>

\* lua_thread_join waits for a thread it finds running.
Join(t) ==
  /\ mpc = "script"
  /\ calls < MaxCalls
  /\ calls' = calls + 1
  /\ IF state[t] = "RUNNING"
     THEN mpc' = "join" /\ arg' = t
     ELSE UNCHANGED <<mpc, arg>>
  /\ UNCHANGED <<created, state, tpc, handle, cancelled, closed>>

\* pthread_join returns when the thread is over.
Joined(before, after) ==
  /\ mpc = before
  /\ tpc[arg] = "over"
  /\ handle' = [handle EXCEPT ![arg] = "joined"]
  /\ mpc' = after
  /\ UNCHANGED <<created, arg, calls, state, tpc, cancelled, closed>>

JoinReturns == Joined("join", "script")

\* lua_close: the objects are finalised in the reverse order of creation.
Close ==
  /\ mpc = "script"
  /\ mpc' = IF created = 0 THEN "end" ELSE "gc"
  /\ arg' = created
  /\ UNCHANGED <<created, calls, state, tpc, handle, cancelled, closed>>

\* Mutant of Collect: the state is not looked at, the join is left out.
CollectAtOnce ==
  /\ mpc = "gc"
  /\ mpc' = "gcclose"
  /\ UNCHANGED <<created, arg, calls, state, tpc, handle, cancelled, closed>>

\* Mutant of Collect: the state is not looked at, every thread is joined.
CollectAlways ==
  /\ mpc = "gc"
  /\ mpc' = "gcjoin"
  /\ UNCHANGED <<created, arg, calls, state, tpc, handle, cancelled, closed>>

\* lua_thread_gc looks at the state.
Collect ==
  /\ mpc = "gc"
  /\ mpc' = IF state[arg] = "RUNNING" THEN "gcjoin" ELSE "gcclose"
  /\ UNCHANGED <<created, arg, calls, state, tpc, handle, cancelled, closed>>

CollectJoined == Joined("gcjoin", "gcclose")

\* Mutant of CollectClose: one finaliser too many.
CollectClosePast ==
  /\ mpc = "gcclose"
  /\ closed' = closed \union {arg}
  /\ mpc' = IF arg = 0 THEN "end" ELSE "gc"
  /\ arg' = arg - 1
  /\ UNCHANGED <<created, calls, state, tpc, handle, cancelled>>

CollectClose ==
  /\ mpc = "gcclose"
  /\ closed' = closed \union {arg}
  /\ mpc' = IF arg = 1 THEN "end" ELSE "gc"
  /\ arg' = arg - 1
  /\ UNCHANGED <<created, calls, state, tpc, handle, cancelled>>

\* lua_thread_on_end after the last Lua code of the thread: compare and swap...
End(t) ==
  /\ tpc[t] = "lua"
  /\ tpc' = [tpc EXCEPT ![t] = "dying"]
  /\ state' = [state EXCEPT ![t] = "DEAD"]
  /\ UNCHANGED <<scriptVars, handle, cancelled, closed>>

\* ...and pthread_exit.
Exit(t) ==
  /\ tpc[t] = "dying"
  /\ tpc' = [tpc EXCEPT ![t] = "over"]
  /\ UNCHANGED <<scriptVars, state, handle, cancelled, closed>>

\* Cancellation is deferred: it ends the thread at some later system call.
Cancelled(t) ==
  /\ t \in cancelled
  /\ tpc[t] # "over"
  /\ tpc' = [tpc EXCEPT ![t] = "over"]
  /\ UNCHANGED <<scriptVars, state, handle, cancelled, closed>>

Script ==
  \/ Start \/ Close
  \/ \E t \in Live : Stop(t) \/ Join(t)
  \/ StopDetach \/ StopCancel \/ StopMark \/ JoinReturns
  \/ Collect \/ CollectJoined \/ CollectClose

Body(t) == End(t) \/ Exit(t) \/ Cancelled(t)

Next == Script \/ \E t \in Live : Body(t)

Spec == Init /\ [][Next]_vars

----------------------------------------------------------------------------
(* Properties *)

\* A Lua state is closed under a thread that still runs Lua code only if the
\* script has stopped the thread: stop marks it dead at once, cancellation is
\* deferred, and lua_thread_gc does not wait for the dead.
ClosedAfterItsThread ==
  \A t \in closed : tpc[t] = "lua" => t \in cancelled

\* pthread_join is never called for a thread that was detached or joined
\* before, however stop, join and the finaliser follow each other.
JoinsOnlyJoinable ==
  mpc \in {"join", "gcjoin"} => handle[arg] = "joinable"

\* When lua_close is done, the only threads nobody has joined or detached are
\* those that came to their end by themselves (their pthread is leaked).
LeftEnded ==
  mpc = "end" =>
    \A t \in Live : handle[t] = "joinable" => tpc[t] # "lua" /\ t \notin cancelled
=============================================================================
