----------------------------- MODULE Traverse -----------------------------
(***************************************************************************)
(* fs.traverse: the recursive walk with which a reader finds its files.    *)
(* The C recursion is a stack of frames; its levels share the descriptors  *)
(* of the process, the Lua stack of one C call and the should_stop flag.   *)
(*                                                                         *)
(* A path is the sequence of the positions of its names in their           *)
(* directories.  A directory may be reached through several paths, and     *)
(* even contain itself: on file systems that report DT_UNKNOWN, stat       *)
(* follows symbolic links.                                                 *)
(***************************************************************************)
EXTENDS Naturals, Sequences, SequencesExt

CONSTANTS
  NDirs,    \* directories; SRCDIR is the first
  Trees,    \* the contents of the directories, [Dir -> Seq(Entry)]
  Quotas,   \* how many descriptors the process has left
  Limits,   \* files_limit of the reader, which its callback applies
  PathMax,  \* the longest path
  MinStack  \* LUA_MINSTACK: free slots of the Lua stack in a C function

Dir == 1..NDirs
Root == 1

\* A regular file with the length of its name, a directory, a name that is
\* skipped (., .. and .DS_Store), something else, and an entry that stat fails
\* on.
Entry == ({"file"} \X {1, 2}) \union ({"dir"} \X Dir)
           \union {<<"skipped", 0>>, <<"other", 0>>, <<"lost", 0>>}

ASSUME TraverseAssumption ==
  /\ NDirs \in Nat \ {0}
  /\ Trees \subseteq [Dir -> Seq(Entry)]
  /\ Quotas \subseteq Nat
  /\ Limits \subseteq Nat \ {0}
  /\ PathMax \in Nat
  /\ MinStack \in Nat

VARIABLES
  tree, quota, limit, \* the input, which does not change
  frames,  \* levels of the recursion: directory, its path, entries read
  calling, \* the directory the next level is about to open, or none
  opened,  \* directories opened; none is closed
  slots,   \* values on the Lua stack that nested calls returned
  stop,    \* should_stop
  found,   \* paths given to the callback
  failed,  \* paths of directories whose walk returned an error
  result   \* "running", "true" or "error"

inputs == <<tree, quota, limit>>
vars == <<inputs, frames, calling, opened, slots, stop, found, failed, result>>

None == [dir |-> 0, path |-> <<>>]

TypeOK ==
  /\ tree \in Trees /\ quota \in Quotas /\ limit \in Limits
  /\ frames \in Seq([dir : Dir, path : Seq(Nat), read : Nat])
  /\ calling \in [dir : Dir \union {0}, path : Seq(Nat)]
  /\ opened \in 0..quota
  /\ slots \in Nat
  /\ stop \in BOOLEAN
  /\ found \in Seq(Seq(Nat))
  /\ \A p \in failed : p \in Seq(Nat)
  /\ result \in {"running", "true", "error"}

Init ==
  /\ tree \in Trees /\ quota \in Quotas /\ limit \in Limits
  /\ frames = <<>>
  /\ calling = [dir |-> Root, path |-> <<>>]
  /\ opened = 0
  /\ slots = 0
  /\ stop = FALSE
  /\ found = <<>>
  /\ failed = {}
  /\ result = "running"

Top == frames[Len(frames)]
Current == tree[Top.dir][Top.read + 1]
CurrentPath == Append(Top.path, Top.read + 1)

\* Every name but that of a long file counts as one, its separator included.
NameLength(entry) == IF entry[1] = "file" THEN entry[2] ELSE 1
TooLong == Len(Top.path) + NameLength(Current) > PathMax

Reading == result = "running" /\ calling = None
HasEntry == Reading /\ ~stop /\ Top.read < Len(tree[Top.dir])
NextEntry == [frames EXCEPT ![Len(frames)].read = @ + 1]

\* A level returns n values; those of nested levels stay on the Lua stack, and
\* only those of the first one are looked at by the reader.
Return(n, outer, value) ==
  /\ frames' = outer
  /\ slots' = slots + n
  /\ result' = IF outer = <<>> THEN value ELSE "running"

\* Mutant of OpenFails: opendir is tried again.
OpenFailsAgain ==
  /\ calling # None
  /\ UNCHANGED vars

\* opendir may fail at any time: no permission, the directory is gone, ...
OpenFails ==
  /\ calling # None
  /\ Return(3, frames, "error")
  /\ failed' = failed \union {calling.path}
  /\ calling' = None
  /\ UNCHANGED <<inputs, opened, stop, found>>

\* It can succeed only while the process has a descriptor left.
Open ==
  /\ calling # None
  /\ opened < quota
  /\ opened' = opened + 1
  /\ frames' = Append(frames, [dir |-> calling.dir, path |-> calling.path, read |-> 0])
  /\ calling' = None
  /\ UNCHANGED <<inputs, slots, stop, found, failed, result>>

\* Mutant of Skip: break for continue.
SkipBreaks ==
  /\ HasEntry
  /\ Current[1] = "skipped" \/ (~TooLong /\ Current[1] = "other")
  /\ frames' = [frames EXCEPT ![Len(frames)].read = Len(tree[Top.dir])]
  /\ UNCHANGED <<inputs, calling, opened, slots, stop, found, failed, result>>

\* ., .. and .DS_Store are passed over before their length is looked at, what
\* is neither a directory nor a regular file after that.
Skip ==
  /\ HasEntry
  /\ Current[1] = "skipped" \/ (~TooLong /\ Current[1] = "other")
  /\ frames' = NextEntry
  /\ UNCHANGED <<inputs, calling, opened, slots, stop, found, failed, result>>

\* A path that is too long or that stat fails on ends the walk of its
\* directory, whatever follows in it.
EntryFails ==
  /\ HasEntry
  /\ Current[1] # "skipped"
  /\ TooLong \/ Current[1] = "lost"
  /\ Return(3, Front(frames), "error")
  /\ failed' = failed \union {Top.path}
  /\ UNCHANGED <<inputs, calling, opened, stop, found>>

\* Mutant of Enter: what is no file is taken for a directory.
EnterUnchecked ==
  /\ HasEntry /\ ~TooLong
  /\ Current[1] # "file"
  /\ calling' = [dir |-> Current[2], path |-> CurrentPath]
  /\ frames' = NextEntry
  /\ UNCHANGED <<inputs, opened, slots, stop, found, failed, result>>

\* The nested call; nothing looks at what it returns.
Enter ==
  /\ HasEntry /\ ~TooLong
  /\ Current[1] = "dir"
  /\ calling' = [dir |-> Current[2], path |-> CurrentPath]
  /\ frames' = NextEntry
  /\ UNCHANGED <<inputs, opened, slots, stop, found, failed, result>>

\* The callback of the reader returns true when it has files_limit files.
OnFile ==
  /\ HasEntry /\ ~TooLong
  /\ Current[1] = "file"
  /\ found' = Append(found, CurrentPath)
  /\ stop' = (Len(found') >= limit)
  /\ frames' = NextEntry
  /\ UNCHANGED <<inputs, calling, opened, slots, failed, result>>

\* Mutant of EndDir: the flag is local to a level.
EndDirStopsItself ==
  /\ Reading
  /\ stop \/ Top.read = Len(tree[Top.dir])
  /\ Return(1, Front(frames), "true")
  /\ stop' = FALSE
  /\ UNCHANGED <<inputs, calling, opened, found, failed>>

EndDir ==
  /\ Reading
  /\ stop \/ Top.read = Len(tree[Top.dir])
  /\ Return(1, Front(frames), "true")
  /\ UNCHANGED <<inputs, calling, opened, stop, found, failed>>

Next == Open \/ OpenFails \/ Skip \/ EntryFails \/ Enter \/ OnFile \/ EndDir

Spec == Init /\ [][Next]_vars /\ WF_vars(Next)

----------------------------------------------------------------------------
(* Properties *)

\* Whether a path leads through these directories to a name in the last one.
LeadsThrough(path, dirs) ==
  /\ dirs[1] = Root
  /\ \A i \in 1..Len(path) : path[i] \in DOMAIN tree[dirs[i]]
  /\ \A i \in 1..(Len(path) - 1) : tree[dirs[i]][path[i]] = <<"dir", dirs[i + 1]>>

\* The path of a regular file, if it is not too long.
IsFile(path) ==
  LET n == Len(path)
  IN /\ n > 0
     /\ \E dirs \in [1..n -> Dir] :
          /\ LeadsThrough(path, dirs)
          /\ tree[dirs[n]][path[n]][1] = "file"
          /\ n - 1 + NameLength(tree[dirs[n]][path[n]]) <= PathMax

Positions == UNION {DOMAIN tree[d] : d \in Dir}
Paths == UNION {[1..n -> Positions] : n \in 1..PathMax}

\* The callback is called at most once for a path, only for files, and never
\* again once it has returned true, at whatever depth it did.
FoundOnce ==
  /\ Len(found) <= limit
  /\ \A i, j \in 1..Len(found) : i # j => found[i] # found[j]
  /\ \A i \in 1..Len(found) : IsFile(found[i])

\* A walk that returns true has found every file it had no reason to miss: it
\* was stopped, or the file is below a directory whose walk returned an error,
\* at once or half-way.  These are the files the reader's assert on the result
\* does not notice.
Complete ==
  result = "true" /\ ~stop =>
    \A p \in Paths :
      IsFile(p) => \/ p \in ToSet(found)
                   \/ \E q \in failed : IsPrefix(q, p)

\* The walk ends, even when directories contain each other.
EventuallyReturns == <>(result # "running")

\* "Whenever Lua calls C, it ensures that the stack has space for at least
\* LUA_MINSTACK extra slots" (the Lua manual, section 4.2), and fs.traverse asks
\* for no more: the values left on the stack by nested calls fit into these.
StackHasRoom == slots <= MinStack
=============================================================================
