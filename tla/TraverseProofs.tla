---------------------------- MODULE TraverseProofs ----------------------------
(***************************************************************************)
(* The walk of fs.traverse gives its callback every path of a file once,   *)
(* misses none without a reason and recurses no deeper than the longest    *)
(* path, for any tree, limit and number of descriptors.                    *)
(***************************************************************************)
EXTENDS Traverse, SequenceTheorems, WellFoundedInduction, NaturalsInduction, TLAPS

Frame == [dir : Dir, path : Seq(Nat), read : Nat]

\* The entry of the directory of level k that was read last is a directory d.
Entered(k, d) ==
  /\ frames[k].read \in DOMAIN tree[frames[k].dir]
  /\ tree[frames[k].dir][frames[k].read] = <<"dir", d>>

\* The path is that of the entries read last in the first n levels.
IsPathTo(path, n) == Len(path) = n /\ \A j \in 1..n : path[j] = frames[j].read

\* The levels of the recursion are a chain of directories from the root, and
\* their paths say so.
ChainInv ==
  /\ \A k \in 1..Len(frames) : IsPathTo(frames[k].path, k - 1)
  /\ frames # <<>> => frames[1].dir = Root
  /\ \A k \in 1..(Len(frames) - 1) : Entered(k, frames[k + 1].dir)
  /\ calling # None =>
       /\ calling.dir \in Dir
       /\ IsPathTo(calling.path, Len(frames))
       /\ IF frames = <<>> THEN calling.dir = Root ELSE Entered(Len(frames), calling.dir)

\* The walk runs as long as there is something to do.
RunInv ==
  /\ result = "running" <=> (calling # None \/ frames # <<>>)
  /\ stop <=> Len(found) >= limit
  /\ Len(found) <= limit

ShapeInv == TypeOK /\ ChainInv /\ RunInv

\* The recursion is bounded: every level holds a descriptor of its own, and
\* none is deeper than the longest path; a level reads inside its directory.
DepthInv ==
  /\ Len(frames) <= opened /\ opened <= quota
  /\ Len(frames) <= PathMax + 1
  /\ calling # None => Len(frames) <= PathMax
  /\ \A k \in 1..Len(frames) : frames[k].read <= Len(tree[frames[k].dir])

\* The walk is past this path: at some level it has read an entry behind it, or
\* the path leads through the entry that the last level has just dealt with.
Past(p) ==
  \E k \in 1..Len(frames) :
    /\ k <= Len(p)
    /\ \A j \in 1..(k - 1) : p[j] = frames[j].read
    /\ \/ p[k] < frames[k].read
       \/ p[k] = frames[k].read /\ k = Len(frames) /\ calling = None

FoundInv ==
  /\ \A i, j \in 1..Len(found) : i # j => found[i] # found[j]
  /\ \A i \in 1..Len(found) : IsFile(found[i])
  /\ result = "running" => \A i \in 1..Len(found) : Past(found[i])

\* The reasons why a path that the walk is past may not have been found.
Accounted(p) == p \in ToSet(found) \/ \E q \in failed : IsPrefix(q, p)

MissInv ==
  result # "error" /\ ~stop =>
    \A p \in Paths : IsFile(p) /\ (result = "running" => Past(p)) => Accounted(p)

-----------------------------------------------------------------------------
(* Trees, levels and paths. *)

\* What kinds of entries there are.
LEMMA EntryKinds ==
  ASSUME NEW e \in Entry
  PROVE  /\ e[1] \in {"file", "dir", "skipped", "other", "lost"}
         /\ e[1] = "dir" => e[2] \in Dir /\ e = <<"dir", e[2]>>
BY DEF Entry

\* A directory is a sequence of entries.
LEMMA TreeType ==
  ASSUME TypeOK, NEW d \in Dir
  PROVE  /\ tree[d] \in Seq(Entry)
         /\ Len(tree[d]) \in Nat /\ DOMAIN tree[d] = 1..Len(tree[d])
         /\ \A i \in DOMAIN tree[d] : tree[d][i] \in Entry
<1>1. tree[d] \in Seq(Entry)
  BY TraverseAssumption DEF TypeOK
<1> QED
  BY <1>1, LenProperties, ElementOfSeq

\* The levels of the recursion.
LEMMA FramesType ==
  ASSUME TypeOK
  PROVE  /\ Len(frames) \in Nat /\ frames \in Seq(Frame)
         /\ frames = <<>> <=> Len(frames) = 0
         /\ \A k \in 1..Len(frames) :
              /\ frames[k] \in Frame /\ frames[k].dir \in Dir
              /\ frames[k].path \in Seq(Nat) /\ frames[k].read \in Nat
<1>1. frames \in Seq(Frame)
  BY DEF TypeOK, Frame
<1>2. Len(frames) \in Nat /\ \A k \in 1..Len(frames) : frames[k] \in Frame
  BY <1>1, LenProperties, ElementOfSeq
<1>3. frames = <<>> <=> Len(frames) = 0
  BY <1>1, <1>2, EmptySeq
<1> QED
  BY <1>1, <1>2, <1>3 DEF Frame

\* The last level reads an entry.
LEMMA LastLevel ==
  ASSUME ShapeInv, Reading
  PROVE  /\ Len(frames) \in Nat \ {0} /\ Len(frames) \in 1..Len(frames) /\ frames # <<>>
         /\ Top = frames[Len(frames)]
         /\ Top.dir \in Dir /\ Top.path \in Seq(Nat) /\ Top.read \in Nat
         /\ Len(tree[Top.dir]) \in Nat /\ DOMAIN tree[Top.dir] = 1..Len(tree[Top.dir])
         /\ calling = None /\ result = "running"
         /\ HasEntry => Top.read + 1 \in DOMAIN tree[Top.dir] /\ Current \in Entry
<1>1. TypeOK /\ calling = None /\ result = "running" /\ frames # <<>>
  BY DEF ShapeInv, Reading, RunInv
<1>2. Len(frames) \in Nat \ {0} /\ Len(frames) \in 1..Len(frames)
  BY <1>1, FramesType
<1>3. Top.dir \in Dir /\ Top.path \in Seq(Nat) /\ Top.read \in Nat
  BY <1>1, <1>2, FramesType DEF Top
<1>4. /\ Len(tree[Top.dir]) \in Nat /\ DOMAIN tree[Top.dir] = 1..Len(tree[Top.dir])
      /\ \A i \in DOMAIN tree[Top.dir] : tree[Top.dir][i] \in Entry
  BY <1>1, <1>3, TreeType
<1>5. HasEntry => Top.read + 1 \in DOMAIN tree[Top.dir]
  BY <1>3, <1>4 DEF HasEntry
<1>6. HasEntry => Current \in Entry
  BY <1>4, <1>5 DEF Current
<1> QED
  BY <1>1, <1>2, <1>3, <1>4, <1>5, <1>6 DEF Top

\* The levels once the last one has read another entry.
LEMMA Advance ==
  ASSUME ShapeInv, HasEntry, frames' = NextEntry
  PROVE  /\ frames' \in Seq(Frame) /\ Len(frames') = Len(frames) /\ frames' # <<>>
         /\ \A k \in 1..Len(frames) :
              /\ frames'[k].dir = frames[k].dir /\ frames'[k].path = frames[k].path
              /\ k # Len(frames) => frames'[k] = frames[k]
         /\ frames'[Len(frames)].read = frames[Len(frames)].read + 1
<1>1. TypeOK /\ frames # <<>> /\ Len(frames) \in 1..Len(frames)
  BY LastLevel DEF HasEntry, ShapeInv
<1>2. PICK n : n = Len(frames)
  OBVIOUS
<1>3. PICK e \in Frame :
        /\ e = [frames[n] EXCEPT !.read = @ + 1]
        /\ e.dir = frames[n].dir /\ e.path = frames[n].path /\ e.read = frames[n].read + 1
  <2>1. PICK f \in Frame : f = frames[n]
    BY <1>1, <1>2, FramesType
  <2>2. f.read + 1 \in Nat
    BY DEF Frame
  <2>3. PICK e : e = [f EXCEPT !.read = @ + 1]
    OBVIOUS
  <2>4. e \in Frame /\ e.dir = f.dir /\ e.path = f.path /\ e.read = f.read + 1
    BY <2>2, <2>3 DEF Frame
  <2> QED
    BY <2>1, <2>3, <2>4
<1>4. frames' = [frames EXCEPT ![n] = e]
  BY <1>2, <1>3 DEF NextEntry
<1>5. frames \in Seq(Frame) /\ n \in 1..Len(frames)
  BY <1>1, <1>2, FramesType
<1>6. /\ frames' \in Seq(Frame) /\ Len(frames') = Len(frames)
      /\ \A j \in 1..Len(frames) : frames'[j] = IF j = n THEN e ELSE frames[j]
  BY <1>4, <1>5, ExceptSeq
<1>7. frames' # <<>>
  BY <1>1, <1>5, <1>6, EmptySeq
<1> QED
  BY <1>2, <1>3, <1>5, <1>6, <1>7

\* The levels once the last one has returned.
LEMMA Pop ==
  ASSUME ShapeInv, Reading, frames' = Front(frames)
  PROVE  /\ frames' \in Seq(Frame) /\ Len(frames') = Len(frames) - 1
         /\ \A k \in 1..(Len(frames) - 1) : frames'[k] = frames[k]
         /\ frames' = <<>> <=> Len(frames) = 1
<1>1. TypeOK /\ frames # <<>> /\ Len(frames) \in Nat \ {0}
  BY LastLevel DEF ShapeInv
<1>2. PICK m \in Nat : m = Len(frames) - 1 /\ Len(frames) = m + 1
  BY <1>1
<1>3. frames \in Seq(Frame) /\ \A k \in 1..(m + 1) : frames[k] \in Frame
  BY <1>1, <1>2, FramesType
<1>4. \A k \in 1..m : frames[k] \in Frame
  BY <1>3
<1>5. /\ SubSeq(frames, 1, m) \in Seq(Frame)
      /\ Len(SubSeq(frames, 1, m)) = IF 1 <= m THEN m - 1 + 1 ELSE 0
      /\ \A k \in 1..(m - 1 + 1) : SubSeq(frames, 1, m)[k] = frames[1 + k - 1]
  BY <1>4, SubSeqProperties
<1>6. (IF 1 <= m THEN m - 1 + 1 ELSE 0) = m /\ m - 1 + 1 = m /\ \A k \in 1..m : 1 + k - 1 = k
  BY <1>2
<1>7. frames' = SubSeq(frames, 1, m)
  BY <1>2 DEF Front
<1>8. frames' \in Seq(Frame) /\ Len(frames') = m /\ \A k \in 1..m : frames'[k] = frames[k]
  BY <1>5, <1>6, <1>7
<1>9. frames' = <<>> <=> m = 0
  BY <1>2, <1>8, EmptySeq
<1> QED
  BY <1>2, <1>8, <1>9

\* The levels once a directory has been opened.
LEMMA Push ==
  ASSUME ShapeInv, calling # None,
         frames' = Append(frames, [dir |-> calling.dir, path |-> calling.path, read |-> 0])
  PROVE  /\ frames' \in Seq(Frame) /\ Len(frames') = Len(frames) + 1 /\ frames' # <<>>
         /\ \A k \in 1..Len(frames) : frames'[k] = frames[k]
         /\ frames'[Len(frames) + 1].dir = calling.dir
         /\ frames'[Len(frames) + 1].path = calling.path
         /\ frames'[Len(frames) + 1].read = 0
<1>1. frames \in Seq(Frame)
  BY FramesType DEF ShapeInv
<1>2. PICK e \in Frame :
        /\ e = [dir |-> calling.dir, path |-> calling.path, read |-> 0]
        /\ e.dir = calling.dir /\ e.path = calling.path /\ e.read = 0
  <2>1. PICK e : e = [dir |-> calling.dir, path |-> calling.path, read |-> 0]
    OBVIOUS
  <2>2. calling.dir \in Dir /\ calling.path \in Seq(Nat)
    BY DEF ShapeInv, ChainInv, TypeOK
  <2>3. e \in Frame
    BY <2>1, <2>2 DEF Frame
  <2> QED
    BY <2>1, <2>3
<1>3. frames' = Append(frames, e)
  BY <1>2
<1> QED
  BY <1>1, <1>2, <1>3, AppendProperties

-----------------------------------------------------------------------------
(* The levels are a chain. *)

\* Reading another entry keeps the chain.
LEMMA AdvanceChain ==
  ASSUME ShapeInv, HasEntry, frames' = NextEntry, UNCHANGED tree
  PROVE  /\ \A k \in 1..Len(frames') : IsPathTo(frames[k].path, k - 1)'
         /\ frames'[1].dir = Root
         /\ \A k \in 1..(Len(frames') - 1) : Entered(k, frames[k + 1].dir)'
         /\ frames'[Len(frames)].read \in DOMAIN tree'[frames'[Len(frames)].dir]
         /\ tree'[frames'[Len(frames)].dir][frames'[Len(frames)].read] = Current
<1>1. PICK n \in Nat \ {0} : n = Len(frames) /\ Top = frames[n] /\ frames # <<>>
  BY LastLevel DEF HasEntry
<1>2. /\ Len(frames') = n
      /\ \A k \in 1..n : /\ frames'[k].dir = frames[k].dir /\ frames'[k].path = frames[k].path
                         /\ k # n => frames'[k] = frames[k]
      /\ frames'[n].read = frames[n].read + 1
  BY <1>1, Advance
<1>3. \A k \in 1..Len(frames') : IsPathTo(frames[k].path, k - 1)'
  <2>1. ASSUME NEW k \in 1..n PROVE IsPathTo(frames[k].path, k - 1)'
    <3>1. IsPathTo(frames[k].path, k - 1)
      BY <1>1 DEF ShapeInv, ChainInv
    <3>2. \A j \in 1..(k - 1) : j \in 1..n /\ j # n
      OBVIOUS
    <3>3. \A j \in 1..(k - 1) : frames'[j] = frames[j]
      BY <1>2, <3>2
    <3>4. frames'[k].path = frames[k].path
      BY <1>2
    <3> QED
      BY <3>1, <3>3, <3>4 DEF IsPathTo
  <2> QED
    BY <1>2, <2>1
<1>4. frames'[1].dir = Root
  <2>1. 1 \in 1..n
    BY <1>1
  <2> QED
    BY <1>1, <1>2, <2>1 DEF ShapeInv, ChainInv
<1>5. \A k \in 1..(Len(frames') - 1) : Entered(k, frames[k + 1].dir)'
  <2>1. ASSUME NEW k \in 1..(n - 1) PROVE Entered(k, frames[k + 1].dir)'
    <3>1. Entered(k, frames[k + 1].dir)
      BY <1>1 DEF ShapeInv, ChainInv
    <3>2. k \in 1..n /\ k # n /\ k + 1 \in 1..n
      OBVIOUS
    <3>3. frames'[k] = frames[k] /\ frames'[k + 1].dir = frames[k + 1].dir
      BY <1>2, <3>2
    <3> QED
      BY <3>1, <3>3 DEF Entered
  <2> QED
    BY <1>2, <2>1
<1>6. Top.read + 1 \in DOMAIN tree[Top.dir]
  BY LastLevel DEF HasEntry
<1>7. frames'[n].dir = Top.dir /\ frames'[n].read = Top.read + 1
  BY <1>1, <1>2
<1> QED
  BY <1>1, <1>3, <1>4, <1>5, <1>6, <1>7 DEF Current

\* Returning to the level before keeps it too.
LEMMA PopChain ==
  ASSUME ShapeInv, Reading, frames' = Front(frames), calling' = None, UNCHANGED tree
  PROVE  ChainInv'
<1>0. Len(frames) \in Nat \ {0}
  BY LastLevel
<1>1. PICK m \in Nat : m = Len(frames) - 1 /\ Len(frames) = m + 1
  BY <1>0
<1>2. Len(frames') = m /\ \A k \in 1..m : frames'[k] = frames[k]
  BY <1>1, Pop
<1>3. frames # <<>> /\ (frames' = <<>> <=> m = 0)
  BY <1>1, LastLevel, Pop
<1>4. \A k \in 1..Len(frames') : IsPathTo(frames[k].path, k - 1)'
  <2>1. ASSUME NEW k \in 1..m PROVE IsPathTo(frames[k].path, k - 1)'
    <3>1. IsPathTo(frames[k].path, k - 1)
      BY <1>1 DEF ShapeInv, ChainInv
    <3>2. \A j \in 1..(k - 1) : j \in 1..m
      OBVIOUS
    <3>3. frames'[k] = frames[k] /\ \A j \in 1..(k - 1) : frames'[j] = frames[j]
      BY <1>2, <3>2
    <3> QED
      BY <3>1, <3>3 DEF IsPathTo
  <2> QED
    BY <1>2, <2>1
<1>5. frames' # <<>> => frames'[1].dir = Root
  <2>1. frames' # <<>> => 1 \in 1..m
    BY <1>3
  <2> QED
    BY <1>2, <1>3, <2>1 DEF ShapeInv, ChainInv
<1>6. \A k \in 1..(Len(frames') - 1) : Entered(k, frames[k + 1].dir)'
  <2>1. ASSUME NEW k \in 1..(m - 1) PROVE Entered(k, frames[k + 1].dir)'
    <3>1. k \in 1..m /\ k + 1 \in 1..m
      OBVIOUS
    <3>2. Entered(k, frames[k + 1].dir)
      BY <1>1, <3>1 DEF ShapeInv, ChainInv
    <3>3. frames'[k] = frames[k] /\ frames'[k + 1] = frames[k + 1]
      BY <1>2, <3>1
    <3> QED
      BY <3>2, <3>3 DEF Entered
  <2> QED
    BY <1>2, <2>1
<1> QED
  BY <1>4, <1>5, <1>6 DEF ChainInv, None

\* So does opening the directory that is called for.
LEMMA PushChain ==
  ASSUME ShapeInv, calling # None, calling' = None, UNCHANGED tree,
         frames' = Append(frames, [dir |-> calling.dir, path |-> calling.path, read |-> 0])
  PROVE  ChainInv'
<1>1. PICK n \in Nat : n = Len(frames)
  BY FramesType DEF ShapeInv
<1>2. /\ Len(frames') = n + 1 /\ frames' # <<>>
      /\ \A k \in 1..n : frames'[k] = frames[k]
      /\ frames'[n + 1].dir = calling.dir /\ frames'[n + 1].path = calling.path
  BY <1>1, Push
<1>3. \A k \in 1..Len(frames') : IsPathTo(frames[k].path, k - 1)'
  <2>1. ASSUME NEW k \in 1..n PROVE IsPathTo(frames[k].path, k - 1)'
    <3>1. IsPathTo(frames[k].path, k - 1)
      BY <1>1 DEF ShapeInv, ChainInv
    <3>2. \A j \in 1..(k - 1) : j \in 1..n
      OBVIOUS
    <3>3. frames'[k] = frames[k] /\ \A j \in 1..(k - 1) : frames'[j] = frames[j]
      BY <1>2, <3>2
    <3> QED
      BY <3>1, <3>3 DEF IsPathTo
  <2>2. IsPathTo(frames[n + 1].path, n)'
    <3>1. IsPathTo(calling.path, n)
      BY <1>1 DEF ShapeInv, ChainInv
    <3> QED
      BY <1>2, <3>1 DEF IsPathTo
  <2>3. (n + 1) - 1 = n /\ \A k \in 1..(n + 1) : k \in 1..n \/ k = n + 1
    OBVIOUS
  <2> QED
    BY <1>2, <2>1, <2>2, <2>3
<1>4. frames'[1].dir = Root
  <2>1. CASE n = 0
    BY <1>1, <1>2, <2>1, FramesType DEF ShapeInv, ChainInv
  <2>2. CASE n # 0
    <3>1. 1 \in 1..n /\ frames # <<>>
      BY <1>1, <2>2, FramesType DEF ShapeInv
    <3> QED
      BY <1>2, <3>1 DEF ShapeInv, ChainInv
  <2> QED
    BY <2>1, <2>2
<1>5. \A k \in 1..(Len(frames') - 1) : Entered(k, frames[k + 1].dir)'
  <2>1. ASSUME NEW k \in 1..n PROVE Entered(k, frames[k + 1].dir)'
    <3>1. CASE k = n
      <4>1. frames # <<>>
        BY <1>1, FramesType DEF ShapeInv
      <4>2. Entered(n, calling.dir)
        BY <1>1, <4>1 DEF ShapeInv, ChainInv
      <4> QED
        BY <1>2, <3>1, <4>2 DEF Entered
    <3>2. CASE k # n
      <4>1. k \in 1..(n - 1) /\ k + 1 \in 1..n
        BY <3>2
      <4>2. Entered(k, frames[k + 1].dir)
        BY <1>1, <4>1 DEF ShapeInv, ChainInv
      <4> QED
        BY <1>2, <4>1, <4>2 DEF Entered
    <3> QED
      BY <3>1, <3>2
  <2>2. (n + 1) - 1 = n
    OBVIOUS
  <2> QED
    BY <1>2, <2>1, <2>2
<1> QED
  BY <1>3, <1>4, <1>5 DEF ChainInv

\* The paths of the entry being read and of the directories are sequences of
\* numbers.
LEMMA CurrentPathType ==
  ASSUME ShapeInv, HasEntry
  PROVE  /\ CurrentPath \in Seq(Nat) /\ Len(CurrentPath) = Len(frames)
         /\ \A j \in 1..(Len(frames) - 1) : CurrentPath[j] = frames[j].read
         /\ CurrentPath[Len(frames)] = frames[Len(frames)].read + 1
<1>0. Len(frames) \in Nat \ {0} /\ Top = frames[Len(frames)]
  BY LastLevel DEF HasEntry
<1>1. PICK m \in Nat : m = Len(frames) - 1 /\ Len(frames) = m + 1
  BY <1>0
<1>2. Top.path \in Seq(Nat) /\ Top.read + 1 \in Nat /\ Top.read = frames[m + 1].read
  BY <1>0, <1>1, LastLevel DEF HasEntry
<1>3. IsPathTo(Top.path, m)
  <2>1. Len(frames) \in 1..Len(frames)
    BY <1>0
  <2> QED
    BY <1>0, <1>1, <2>1 DEF ShapeInv, ChainInv
<1>4. PICK P \in Seq(Nat), r \in Nat : P = Top.path /\ r = Top.read + 1 /\ CurrentPath = Append(P, r)
  BY <1>2 DEF CurrentPath
<1>5. /\ CurrentPath \in Seq(Nat) /\ Len(CurrentPath) = Len(P) + 1
      /\ \A j \in 1..Len(P) : CurrentPath[j] = P[j]
      /\ CurrentPath[Len(P) + 1] = r
  BY <1>4, AppendProperties
<1>6. Len(P) = m /\ \A j \in 1..m : P[j] = frames[j].read
  BY <1>3, <1>4 DEF IsPathTo
<1> QED
  BY <1>1, <1>2, <1>4, <1>5, <1>6

\* At first the root is called for.
LEMMA ShapeInit == ASSUME Init PROVE ShapeInv
<1>1. <<>> \in Seq(Nat) /\ <<>> \in Seq(Frame) /\ <<>> \in Seq(Seq(Nat)) /\ Len(<<>>) = 0
  BY EmptySeq
<1>2. 1 \in Dir /\ quota \in Nat /\ limit \in Nat \ {0} /\ 0 \in 0..quota
  BY TraverseAssumption DEF Init, Dir
<1>3. calling \in [dir : Dir \union {0}, path : Seq(Nat)]
  BY <1>1, <1>2 DEF Init, Root
<1>4. TypeOK
  BY <1>1, <1>2, <1>3 DEF Init, TypeOK, Frame
<1>5. calling # None /\ calling.dir = 1 /\ calling.path = <<>>
  BY DEF Init, None, Root
<1>6. \A n : ~(n \in 1..0) /\ ~(n \in 1..(0 - 1))
  OBVIOUS
<1>7. ChainInv
  BY <1>1, <1>2, <1>5, <1>6 DEF Init, ChainInv, IsPathTo, Root
<1>8. RunInv
  <2>1. Len(found) = 0 /\ ~(0 >= limit) /\ 0 <= limit
    BY <1>1, <1>2 DEF Init
  <2>2. stop = FALSE /\ result = "running"
    BY DEF Init
  <2>3. ~(Len(found) >= limit) /\ Len(found) <= limit
    BY <2>1
  <2>4. stop <=> Len(found) >= limit
    BY <2>2, <2>3
  <2> QED
    BY <1>5, <2>2, <2>3, <2>4, Zenon DEF RunInv
<1> QED
  BY <1>4, <1>7, <1>8 DEF ShapeInv

\* Entries that are skipped.
LEMMA SkipShape == ASSUME ShapeInv, Skip PROVE ShapeInv'
<1>1. /\ HasEntry /\ frames' = NextEntry /\ UNCHANGED <<inputs, calling, opened, slots, stop, found, failed, result>>
      /\ calling = None
  BY LastLevel DEF Skip, HasEntry
<1>2. frames' \in Seq(Frame) /\ Len(frames') = Len(frames) /\ frames' # <<>> /\ frames # <<>>
  BY <1>1, Advance, LastLevel DEF HasEntry
<1>3. TypeOK'
  BY <1>1, <1>2 DEF ShapeInv, TypeOK, Frame, inputs
<1>4. ChainInv'
  BY <1>1, AdvanceChain DEF ChainInv, inputs
<1>5. RunInv'
  BY <1>1, <1>2 DEF ShapeInv, RunInv, inputs
<1> QED
  BY <1>3, <1>4, <1>5 DEF ShapeInv

\* Files, until there are enough of them.
LEMMA OnFileShape == ASSUME ShapeInv, OnFile PROVE ShapeInv'
<1>1. /\ HasEntry /\ frames' = NextEntry /\ UNCHANGED <<inputs, calling, opened, slots, failed, result>>
      /\ calling = None /\ found' = Append(found, CurrentPath) /\ stop' = (Len(found') >= limit)
      /\ ~stop
  BY LastLevel DEF OnFile, HasEntry
<1>2. frames' \in Seq(Frame) /\ Len(frames') = Len(frames) /\ frames' # <<>> /\ frames # <<>>
  BY <1>1, Advance, LastLevel DEF HasEntry
<1>3. CurrentPath \in Seq(Nat) /\ found \in Seq(Seq(Nat)) /\ limit \in Nat
  BY <1>1, CurrentPathType, TraverseAssumption DEF ShapeInv, TypeOK
<1>4. found' \in Seq(Seq(Nat)) /\ Len(found') = Len(found) + 1 /\ Len(found) \in Nat
  BY <1>1, <1>3, AppendProperties, LenProperties
<1>5. TypeOK'
  BY <1>1, <1>2, <1>4 DEF ShapeInv, TypeOK, Frame, inputs
<1>6. ChainInv'
  BY <1>1, AdvanceChain DEF ChainInv, inputs
<1>7. RunInv'
  <2>0. ~(Len(found) >= limit)
    BY <1>1 DEF ShapeInv, RunInv
  <2>1. Len(found) < limit
    BY <1>3, <1>4, <2>0
  <2>2. Len(found') <= limit'
    BY <1>1, <1>3, <1>4, <2>1 DEF inputs
  <2> QED
    BY <1>1, <1>2, <2>2 DEF ShapeInv, RunInv, inputs
<1> QED
  BY <1>5, <1>6, <1>7 DEF ShapeInv

\* Directories: the next level is called for.
LEMMA EnterShape == ASSUME ShapeInv, Enter PROVE ShapeInv'
<1>1. /\ HasEntry /\ frames' = NextEntry /\ UNCHANGED <<inputs, opened, slots, stop, found, failed, result>>
      /\ calling = None /\ Current[1] = "dir" /\ calling' = [dir |-> Current[2], path |-> CurrentPath]
  BY LastLevel DEF Enter, HasEntry
<1>2. frames' \in Seq(Frame) /\ Len(frames') = Len(frames) /\ frames' # <<>> /\ frames # <<>>
  BY <1>1, Advance, LastLevel DEF HasEntry
<1>3. Current[2] \in Dir /\ Current = <<"dir", Current[2]>>
  BY <1>1, LastLevel, EntryKinds DEF HasEntry
<1>4. PICK n \in Nat \ {0} : n = Len(frames)
  BY <1>1, LastLevel DEF HasEntry
<1>5. /\ CurrentPath \in Seq(Nat) /\ Len(CurrentPath) = n
      /\ \A j \in 1..(n - 1) : CurrentPath[j] = frames[j].read
      /\ CurrentPath[n] = frames[n].read + 1
  BY <1>1, <1>4, CurrentPathType
<1>6. calling' \in [dir : Dir \union {0}, path : Seq(Nat)] /\ calling' # None
      /\ calling'.dir = Current[2] /\ calling'.path = CurrentPath
  BY <1>1, <1>3, <1>5 DEF None, Dir
<1>7. TypeOK'
  BY <1>1, <1>2, <1>6 DEF ShapeInv, TypeOK, Frame, inputs
<1>8. ChainInv'
  <2>1. IsPathTo(calling.path, Len(frames))'
    <3>1. ASSUME NEW j \in 1..n PROVE CurrentPath[j] = frames'[j].read
      <4>1. CASE j = n
        BY <1>1, <1>4, <1>5, <4>1, Advance
      <4>2. CASE j # n
        <5>1. j \in 1..(n - 1)
          BY <4>2
        <5>2. frames'[j] = frames[j]
          BY <1>1, <1>4, <4>2, Advance
        <5> QED
          BY <1>5, <5>1, <5>2
      <4> QED
        BY <4>1, <4>2
    <3> QED
      BY <1>2, <1>4, <1>5, <1>6, <3>1 DEF IsPathTo
  <2>2. Entered(Len(frames), calling.dir)'
    BY <1>1, <1>2, <1>3, <1>4, <1>6, AdvanceChain DEF Entered, inputs
  <2> QED
    BY <1>1, <1>2, <1>3, <1>6, <2>1, <2>2, AdvanceChain DEF ChainInv, inputs
<1>9. RunInv'
  BY <1>1, <1>2, <1>6 DEF ShapeInv, RunInv, inputs
<1> QED
  BY <1>7, <1>8, <1>9 DEF ShapeInv

\* A directory is opened.
LEMMA OpenShape == ASSUME ShapeInv, Open PROVE ShapeInv'
<1>1. /\ calling # None /\ calling' = None /\ opened < quota /\ opened' = opened + 1
      /\ frames' = Append(frames, [dir |-> calling.dir, path |-> calling.path, read |-> 0])
      /\ UNCHANGED <<inputs, slots, stop, found, failed, result>>
  BY DEF Open
<1>2. frames' \in Seq(Frame) /\ frames' # <<>>
  BY <1>1, Push
<1>3. opened' \in 0..quota'
  BY <1>1, TraverseAssumption DEF ShapeInv, TypeOK, inputs
<1>4. None \in [dir : Dir \union {0}, path : Seq(Nat)]
  BY EmptySeq DEF None
<1>5. TypeOK'
  BY <1>1, <1>2, <1>3, <1>4 DEF ShapeInv, TypeOK, Frame, inputs
<1>6. ChainInv'
  BY <1>1, PushChain DEF inputs
<1>7. RunInv'
  BY <1>1, <1>2 DEF ShapeInv, RunInv, inputs
<1> QED
  BY <1>5, <1>6, <1>7 DEF ShapeInv

\* A directory is not opened: the level before goes on.
LEMMA OpenFailsShape == ASSUME ShapeInv, OpenFails PROVE ShapeInv'
<1>1. /\ calling # None /\ calling' = None /\ frames' = frames /\ slots' = slots + 3
      /\ result' = (IF frames = <<>> THEN "error" ELSE "running")
      /\ failed' = failed \union {calling.path}
      /\ UNCHANGED <<inputs, opened, stop, found>>
  BY DEF OpenFails, Return
<1>2. None \in [dir : Dir \union {0}, path : Seq(Nat)]
  BY EmptySeq DEF None
<1>3. TypeOK'
  <2>1. calling.path \in Seq(Nat)
    BY DEF ShapeInv, TypeOK
  <2> QED
    BY <1>1, <1>2, <2>1 DEF ShapeInv, TypeOK, inputs
<1>4. ChainInv'
  BY <1>1 DEF ShapeInv, ChainInv, IsPathTo, Entered, inputs
<1>5. RunInv'
  BY <1>1 DEF ShapeInv, RunInv, inputs
<1> QED
  BY <1>3, <1>4, <1>5 DEF ShapeInv

\* A level returns, at the end of its directory or before.
LEMMA ReturnShape == ASSUME ShapeInv, EndDir \/ EntryFails PROVE ShapeInv'
<1>1. /\ Reading /\ calling = None /\ frames' = Front(frames)
      /\ \E n \in Nat : slots' = slots + n
      /\ \E v \in {"true", "error"} : result' = IF Front(frames) = <<>> THEN v ELSE "running"
      /\ \E Q \in SUBSET {Top.path} : failed' = failed \union Q
      /\ UNCHANGED <<inputs, calling, opened, stop, found>>
  <2>1. CASE EndDir
    <3>1. failed' = failed \union {} /\ {} \in SUBSET {Top.path}
      BY <2>1 DEF EndDir
    <3> QED
      BY <2>1, <3>1, LastLevel DEF EndDir, Return
  <2>2. CASE EntryFails
    BY <2>2, LastLevel DEF EntryFails, Return, HasEntry
  <2> QED
    BY <2>1, <2>2
<1>2. frames' \in Seq(Frame)
  BY <1>1, Pop
<1>3. Top.path \in Seq(Nat)
  BY <1>1, LastLevel
<1>4. TypeOK'
  <2>1. slots' \in Nat /\ result' \in {"running", "true", "error"}
    BY <1>1 DEF ShapeInv, TypeOK
  <2>2. \A p \in failed' : p \in Seq(Nat)
    BY <1>1, <1>3 DEF ShapeInv, TypeOK
  <2> QED
    BY <1>1, <1>2, <2>1, <2>2 DEF ShapeInv, TypeOK, Frame, inputs
<1>5. ChainInv'
  BY <1>1, PopChain DEF inputs
<1>6. RunInv'
  BY <1>1 DEF ShapeInv, RunInv, inputs
<1> QED
  BY <1>4, <1>5, <1>6 DEF ShapeInv

\* Every step keeps the shape of the walk.
LEMMA ShapeNext == ASSUME ShapeInv, [Next]_vars PROVE ShapeInv'
<1>1. CASE UNCHANGED vars
  BY <1>1 DEF ShapeInv, TypeOK, ChainInv, RunInv, IsPathTo, Entered, vars, inputs
<1> QED
  BY <1>1, SkipShape, OnFileShape, EnterShape, OpenShape, OpenFailsShape, ReturnShape DEF Next

\* Reading another entry adds no level.
LEMMA AdvanceDepth ==
  ASSUME ShapeInv, DepthInv, HasEntry, frames' = NextEntry, UNCHANGED tree
  PROVE  /\ Len(frames') = Len(frames)
         /\ \A k \in 1..Len(frames') : frames'[k].read <= Len(tree'[frames'[k].dir])
<1>1. PICK n \in Nat \ {0} : n = Len(frames) /\ Top = frames[n]
  BY LastLevel DEF HasEntry
<1>2. /\ Len(frames') = n
      /\ \A k \in 1..n : frames'[k].dir = frames[k].dir /\ (k # n => frames'[k] = frames[k])
      /\ frames'[n].read = frames[n].read + 1
  BY <1>1, Advance
<1>3. Top.read < Len(tree[Top.dir]) /\ Top.read \in Nat /\ Len(tree[Top.dir]) \in Nat
  BY LastLevel DEF HasEntry
<1>4. frames'[n].read <= Len(tree'[frames'[n].dir])
  BY <1>1, <1>2, <1>3
<1>5. ASSUME NEW k \in 1..n, k # n PROVE frames'[k].read <= Len(tree'[frames'[k].dir])
  BY <1>1, <1>2, <1>5 DEF DepthInv
<1> QED
  BY <1>1, <1>2, <1>4, <1>5

\* Every step keeps the recursion within its bounds: a level that calls for
\* the next one has a path that is not too long.
LEMMA DepthNext ==
  ASSUME ShapeInv, ShapeInv', DepthInv, [Next]_vars
  PROVE  DepthInv'
<1>0. /\ Len(frames) \in Nat /\ opened \in Nat /\ quota \in Nat /\ PathMax \in Nat
      /\ opened' \in Nat
  BY FramesType, TraverseAssumption DEF ShapeInv, TypeOK
<1>1. opened' <= quota'
  BY TraverseAssumption DEF ShapeInv, TypeOK
<1>2. ASSUME Skip \/ OnFile PROVE DepthInv'
  <2>1. /\ HasEntry /\ frames' = NextEntry /\ UNCHANGED <<tree, quota, opened, calling>>
        /\ calling = None
    BY <1>2, LastLevel DEF Skip, OnFile, HasEntry, inputs
  <2>2. /\ Len(frames') = Len(frames)
        /\ \A k \in 1..Len(frames') : frames'[k].read <= Len(tree'[frames'[k].dir])
    BY <2>1, AdvanceDepth
  <2> QED
    BY <1>1, <2>1, <2>2 DEF DepthInv
<1>3. ASSUME Enter PROVE DepthInv'
  <2>1. /\ HasEntry /\ frames' = NextEntry /\ UNCHANGED <<tree, quota, opened>>
        /\ Current[1] = "dir" /\ ~TooLong
    BY <1>3, LastLevel DEF Enter, HasEntry, inputs
  <2>2. /\ Len(frames') = Len(frames)
        /\ \A k \in 1..Len(frames') : frames'[k].read <= Len(tree'[frames'[k].dir])
    BY <2>1, AdvanceDepth
  <2>3. Len(Top.path) = Len(frames) - 1
    <3>1. Len(frames) \in 1..Len(frames) /\ Top = frames[Len(frames)]
      BY <2>1, LastLevel DEF HasEntry
    <3> QED
      BY <3>1 DEF ShapeInv, ChainInv, IsPathTo
  <2>4. ~(Len(frames) - 1 + 1 > PathMax)
    BY <2>1, <2>3 DEF TooLong, NameLength
  <2>5. Len(frames) <= PathMax
    BY <1>0, <2>4
  <2> QED
    BY <1>0, <1>1, <2>1, <2>2, <2>5 DEF DepthInv
<1>4. ASSUME Open PROVE DepthInv'
  <2>1. /\ calling # None /\ calling' = None /\ opened' = opened + 1 /\ tree' = tree
        /\ frames' = Append(frames, [dir |-> calling.dir, path |-> calling.path, read |-> 0])
    BY <1>4 DEF Open, inputs
  <2>2. PICK n \in Nat : n = Len(frames)
    BY <1>0
  <2>3. /\ Len(frames') = n + 1 /\ \A k \in 1..n : frames'[k] = frames[k]
        /\ frames'[n + 1].dir = calling.dir /\ frames'[n + 1].read = 0
    BY <2>1, <2>2, Push
  <2>4. n <= PathMax /\ n <= opened
    BY <2>1, <2>2 DEF DepthInv
  <2>5. Len(frames') <= opened' /\ Len(frames') <= PathMax + 1
    BY <1>0, <2>1, <2>3, <2>4
  <2>6. calling.dir \in Dir
    BY <2>1 DEF ShapeInv, ChainInv
  <2>7. Len(tree[calling.dir]) \in Nat
    BY <2>6, TreeType DEF ShapeInv
  <2>8. ASSUME NEW k \in 1..(n + 1) PROVE frames'[k].read <= Len(tree'[frames'[k].dir])
    <3>1. CASE k = n + 1
      BY <2>1, <2>3, <2>7, <3>1
    <3>2. CASE k # n + 1
      <4>1. k \in 1..n
        BY <3>2
      <4> QED
        BY <2>1, <2>2, <2>3, <4>1 DEF DepthInv
    <3> QED
      BY <3>1, <3>2
  <2> QED
    BY <1>1, <2>1, <2>3, <2>5, <2>8 DEF DepthInv
<1>5. ASSUME OpenFails PROVE DepthInv'
  BY <1>1, <1>5 DEF OpenFails, Return, DepthInv, inputs
<1>6. ASSUME EndDir \/ EntryFails PROVE DepthInv'
  <2>1. /\ Reading /\ calling' = None /\ frames' = Front(frames)
        /\ UNCHANGED <<tree, quota, opened>>
    BY <1>6, LastLevel DEF EndDir, EntryFails, HasEntry, Return, Reading, inputs
  <2>2. PICK m \in Nat : m = Len(frames) - 1 /\ Len(frames) = m + 1
    BY <2>1, LastLevel
  <2>3. Len(frames') = m /\ \A k \in 1..m : frames'[k] = frames[k]
    BY <2>1, <2>2, Pop
  <2>4. Len(frames') <= opened' /\ Len(frames') <= PathMax + 1
    BY <1>0, <2>1, <2>2, <2>3 DEF DepthInv
  <2>5. ASSUME NEW k \in 1..m PROVE frames'[k].read <= Len(tree'[frames'[k].dir])
    <3>1. k \in 1..Len(frames)
      BY <2>2
    <3> QED
      BY <2>1, <2>3, <3>1 DEF DepthInv
  <2> QED
    BY <1>1, <2>1, <2>3, <2>4, <2>5 DEF DepthInv
<1>7. ASSUME UNCHANGED vars PROVE DepthInv'
  BY <1>7 DEF DepthInv, vars, inputs
<1> QED
  BY <1>2, <1>3, <1>4, <1>5, <1>6, <1>7 DEF Next

-----------------------------------------------------------------------------
(* What the walk is past. *)

\* Whether a path is that of a file depends on the tree alone.
LEMMA FileStays == ASSUME UNCHANGED tree PROVE \A p : IsFile(p)' <=> IsFile(p)
BY DEF IsFile, LeadsThrough

\* A file that is given to the callback is one.
LEMMA CurrentIsFile ==
  ASSUME ShapeInv, HasEntry, ~TooLong, Current[1] = "file"
  PROVE  IsFile(CurrentPath)
<1>1. PICK n \in Nat \ {0} : n = Len(frames) /\ Top = frames[n] /\ frames # <<>>
  BY LastLevel DEF HasEntry
<1>2. PICK P \in Seq(Nat) :
        /\ P = CurrentPath /\ Len(P) = n /\ P[n] = frames[n].read + 1
        /\ \A j \in 1..(n - 1) : P[j] = frames[j].read
  BY <1>1, CurrentPathType
<1>3. PICK dirs : dirs = [k \in 1..n |-> frames[k].dir]
  OBVIOUS
<1>4. dirs \in [1..n -> Dir] /\ \A k \in 1..n : dirs[k] = frames[k].dir
  BY <1>1, <1>3, FramesType DEF ShapeInv
<1>5. 1 \in 1..n /\ n \in 1..n
  BY <1>1
<1>6. P[n] \in DOMAIN tree[dirs[n]] /\ tree[dirs[n]][P[n]] = Current
  BY <1>1, <1>2, <1>4, <1>5, LastLevel DEF Current, HasEntry
<1>7. dirs[1] = Root
  BY <1>1, <1>4, <1>5 DEF ShapeInv, ChainInv
<1>8. ASSUME NEW i \in 1..(n - 1)
      PROVE  P[i] \in DOMAIN tree[dirs[i]] /\ tree[dirs[i]][P[i]] = <<"dir", dirs[i + 1]>>
  <2>1. i \in 1..n /\ i + 1 \in 1..n
    OBVIOUS
  <2>2. Entered(i, frames[i + 1].dir)
    BY <1>1 DEF ShapeInv, ChainInv
  <2> QED
    BY <1>2, <1>4, <2>1, <2>2 DEF Entered
<1>9. LeadsThrough(P, dirs)
  <2>1. \A i \in 1..n : i = n \/ i \in 1..(n - 1)
    OBVIOUS
  <2> QED
    BY <1>2, <1>6, <1>7, <1>8, <2>1 DEF LeadsThrough
<1>10. n - 1 + NameLength(tree[dirs[n]][P[n]]) <= PathMax
  <2>1. IsPathTo(frames[n].path, n - 1)
    BY <1>1, <1>5 DEF ShapeInv, ChainInv
  <2>2. Len(Top.path) = n - 1
    BY <1>1, <2>1 DEF IsPathTo
  <2>3. NameLength(Current) \in Nat
    BY LastLevel DEF HasEntry, NameLength, Entry
  <2> QED
    BY <1>6, <2>2, <2>3, TraverseAssumption DEF TooLong
<1>11. n > 0
  BY <1>1
<1> QED
  BY <1>2, <1>4, <1>6, <1>9, <1>10, <1>11 DEF IsFile

\* What is read next is new.
LEMMA CurrentIsNew ==
  ASSUME ShapeInv, HasEntry, NEW p \in Seq(Nat), Past(p)
  PROVE  p # CurrentPath
<1> SUFFICES ASSUME p = CurrentPath PROVE FALSE
  OBVIOUS
<1>1. PICK n \in Nat \ {0} : n = Len(frames)
  BY LastLevel DEF HasEntry
<1>2. /\ Len(p) = n /\ p[n] = frames[n].read + 1
      /\ \A j \in 1..(n - 1) : p[j] = frames[j].read
  BY <1>1, CurrentPathType
<1>3. PICK k \in 1..n : p[k] < frames[k].read \/ (p[k] = frames[k].read /\ k = n)
  BY <1>1 DEF Past
<1>4. frames[k].read \in Nat
  BY <1>1, FramesType DEF ShapeInv
<1>5. CASE k = n
  BY <1>2, <1>3, <1>4, <1>5
<1>6. CASE k # n
  <2>1. k \in 1..(n - 1)
    BY <1>6
  <2> QED
    BY <1>2, <1>3, <1>4, <1>6, <2>1
<1> QED
  BY <1>5, <1>6

\* Reading on, the walk stays past what it was past.
LEMMA PastAdvance ==
  ASSUME ShapeInv, HasEntry, frames' = NextEntry, NEW p \in Seq(Nat), Past(p)
  PROVE  Past(p)'
<1>1. PICK n \in Nat \ {0} : n = Len(frames)
  BY LastLevel DEF HasEntry
<1>2. PICK k \in 1..n :
        /\ k <= Len(p) /\ \A j \in 1..(k - 1) : p[j] = frames[j].read
        /\ p[k] < frames[k].read \/ (p[k] = frames[k].read /\ k = n)
  BY <1>1 DEF Past
<1>3. /\ Len(frames') = n /\ \A j \in 1..n : j # n => frames'[j] = frames[j]
      /\ frames'[n].read = frames[n].read + 1
  BY <1>1, Advance
<1>4. \A j \in 1..(k - 1) : j \in 1..n /\ j # n
  OBVIOUS
<1>5. \A j \in 1..(k - 1) : p[j] = frames'[j].read
  BY <1>2, <1>3, <1>4
<1>6. p[k] < frames'[k].read
  <2>1. frames[k].read \in Nat
    BY <1>1, FramesType DEF ShapeInv
  <2>2. p[k] \in Nat
    <3>1. Len(p) \in Nat
      BY LenProperties
    <3>2. k \in 1..Len(p)
      BY <1>2, <3>1
    <3> QED
      BY <3>2, ElementOfSeq
  <2>3. CASE k = n
    BY <1>2, <1>3, <2>1, <2>2, <2>3
  <2>4. CASE k # n
    BY <1>2, <1>3, <2>4
  <2> QED
    BY <2>3, <2>4
<1> QED
  BY <1>2, <1>3, <1>5, <1>6 DEF Past

\* Entering and leaving directories as well.
LEMMA PastPush ==
  ASSUME ShapeInv, Open, NEW p, Past(p)
  PROVE  Past(p)'
<1>1. PICK n \in Nat : n = Len(frames)
  BY FramesType DEF ShapeInv
<1>2. calling # None /\ Len(frames') = n + 1 /\ \A j \in 1..n : frames'[j] = frames[j]
  BY <1>1, Push DEF Open
<1>3. PICK k \in 1..n :
        k <= Len(p) /\ p[k] < frames[k].read /\ \A j \in 1..(k - 1) : p[j] = frames[j].read
  BY <1>1, <1>2 DEF Past
<1>4. k \in 1..(n + 1) /\ \A j \in 1..(k - 1) : j \in 1..n
  OBVIOUS
<1>5. p[k] < frames'[k].read /\ \A j \in 1..(k - 1) : p[j] = frames'[j].read
  BY <1>2, <1>3, <1>4
<1> QED
  BY <1>2, <1>3, <1>4, <1>5 DEF Past

\* What the walk is past stays so when it leaves a directory.
LEMMA PastPop ==
  ASSUME ShapeInv, EndDir \/ EntryFails, NEW p, Past(p), Len(p) \in Nat, Len(frames) # 1
  PROVE  Past(p)'
<1>1. Reading /\ frames' = Front(frames) /\ calling' = None
  BY LastLevel DEF EndDir, EntryFails, Return, HasEntry, Reading
<1>2. PICK n \in Nat \ {0} : n = Len(frames) /\ n # 1
  BY <1>1, LastLevel
<1>3. PICK m \in Nat \ {0} : m = Len(frames) - 1 /\ Len(frames) = m + 1
  <2>1. n - 1 \in Nat \ {0} /\ n = (n - 1) + 1
    BY <1>2
  <2> QED
    BY <1>2, <2>1
<1>4. Len(frames') = m /\ \A j \in 1..m : frames'[j] = frames[j]
  BY <1>1, <1>3, Pop
<1>5. PICK k \in 1..(m + 1) :
        /\ k <= Len(p) /\ \A j \in 1..(k - 1) : p[j] = frames[j].read
        /\ p[k] < frames[k].read \/ (p[k] = frames[k].read /\ k = m + 1)
  BY <1>3 DEF Past
<1>6. CASE k = m + 1
  <2>1. m \in 1..m /\ m <= Len(p) /\ m \in 1..(k - 1)
    BY <1>3, <1>5, <1>6
  <2>2. p[m] = frames'[m].read
    BY <1>4, <1>5, <2>1
  <2>3. \A j \in 1..(m - 1) : j \in 1..m /\ j \in 1..(k - 1)
    BY <1>6
  <2>4. \A j \in 1..(m - 1) : p[j] = frames'[j].read
    BY <1>4, <1>5, <2>3
  <2> QED
    BY <1>1, <1>4, <2>1, <2>2, <2>4 DEF Past
<1>7. CASE k # m + 1
  <2>1. k \in 1..m /\ \A j \in 1..(k - 1) : j \in 1..m
    BY <1>7
  <2>2. p[k] < frames'[k].read /\ \A j \in 1..(k - 1) : p[j] = frames'[j].read
    BY <1>4, <1>5, <1>7, <2>1
  <2> QED
    BY <1>4, <1>5, <2>1, <2>2 DEF Past
<1> QED
  BY <1>6, <1>7

\* The files found.
LEMMA FoundType ==
  ASSUME ShapeInv
  PROVE  /\ found \in Seq(Seq(Nat)) /\ Len(found) \in Nat
         /\ \A i \in 1..Len(found) : found[i] \in Seq(Nat) /\ Len(found[i]) \in Nat
<1>1. found \in Seq(Seq(Nat))
  BY DEF ShapeInv, TypeOK
<1> QED
  BY <1>1, LenProperties, ElementOfSeq

\* Steps that find nothing: the walk stays past what it has found.
LEMMA FoundKept ==
  ASSUME ShapeInv, FoundInv, UNCHANGED <<tree, found>>,
         result' = "running" =>
           \A p \in Seq(Nat) : Len(p) \in Nat /\ Past(p) => Past(p)',
         result' = "running" => result = "running"
  PROVE  FoundInv'
<1>1. /\ \A i, j \in 1..Len(found') : i # j => found'[i] # found'[j]
      /\ \A i \in 1..Len(found') : IsFile(found[i])'
  BY FileStays DEF FoundInv
<1>2. result' = "running" => \A i \in 1..Len(found') : Past(found[i])'
  <2> SUFFICES ASSUME result' = "running", NEW i \in 1..Len(found') PROVE Past(found[i])'
    OBVIOUS
  <2>1. PICK p \in Seq(Nat) : p = found[i] /\ p = found'[i] /\ Len(p) \in Nat
    BY FoundType
  <2>2. Past(p)
    BY <2>1 DEF FoundInv
  <2>3. Past(p)'
    BY <2>1, <2>2
  <2> QED
    BY <2>1, <2>3 DEF Past
<1> QED
  BY <1>1, <1>2 DEF FoundInv

\* No file is found twice.
LEMMA FoundNext == ASSUME ShapeInv, FoundInv, [Next]_vars PROVE FoundInv'
<1>1. ASSUME Skip \/ Enter PROVE FoundInv'
  <2>1. /\ HasEntry /\ frames' = NextEntry /\ UNCHANGED <<tree, found>>
        /\ result' = "running" => result = "running"
    BY <1>1 DEF Skip, Enter, inputs
  <2> QED
    BY <2>1, PastAdvance, FoundKept
<1>2. ASSUME OnFile PROVE FoundInv'
  <2>1. /\ HasEntry /\ ~TooLong /\ Current[1] = "file" /\ frames' = NextEntry
        /\ found' = Append(found, CurrentPath) /\ UNCHANGED <<inputs, calling, result>>
        /\ result = "running" /\ calling = None
    BY <1>2, LastLevel DEF OnFile, HasEntry
  <2>2. PICK n \in Nat : n = Len(found) /\ \A i \in 1..n : found[i] \in Seq(Nat)
    BY FoundType
  <2>3. PICK q \in Seq(Nat) : q = CurrentPath
    BY <2>1, CurrentPathType
  <2>4. Len(found') = n + 1 /\ found'[n + 1] = q /\ \A i \in 1..n : found'[i] = found[i]
    BY <2>1, <2>2, <2>3, FoundType, AppendProperties
  <2>5. \A i \in 1..(n + 1) : i \in 1..n \/ i = n + 1
    OBVIOUS
  <2>6. \A i \in 1..n : found[i] # q /\ Past(found[i])
    BY <2>1, <2>2, <2>3, CurrentIsNew DEF FoundInv
  <2>7. \A i, j \in 1..Len(found') : i # j => found'[i] # found'[j]
    BY <2>2, <2>4, <2>5, <2>6 DEF FoundInv
  <2>8. \A i \in 1..Len(found') : IsFile(found[i])'
    <3>1. ASSUME NEW p, IsFile(p) PROVE IsFile(p)'
      BY <2>1, <3>1, FileStays DEF inputs
    <3>2. IsFile(q)'
      BY <2>1, <2>3, <3>1, CurrentIsFile
    <3>3. \A i \in 1..n : IsFile(found[i])
      BY <2>2 DEF FoundInv
    <3> SUFFICES ASSUME NEW i \in 1..(n + 1) PROVE IsFile(found[i])'
      BY <2>4
    <3>4. PICK p : p = found'[i] /\ IsFile(p)'
      BY <2>4, <2>5, <3>1, <3>2, <3>3
    <3> QED
      BY <3>4 DEF IsFile, LeadsThrough
  <2>9. \A i \in 1..Len(found') : Past(found[i])'
    <3>1. PICK m \in Nat \ {0} : m = Len(frames)
      BY <2>1, LastLevel DEF HasEntry
    <3>2. /\ Len(frames') = m /\ frames'[m].read = frames[m].read + 1
          /\ \A j \in 1..m : j # m => frames'[j] = frames[j]
      BY <2>1, <3>1, Advance
    <3>3. /\ Len(q) = m /\ q[m] = frames'[m].read
          /\ \A j \in 1..(m - 1) : q[j] = frames[j].read
      BY <2>1, <2>3, <3>1, <3>2, CurrentPathType
    <3>4. m \in 1..m /\ m <= m /\ \A j \in 1..(m - 1) : j \in 1..m /\ j # m
      BY <3>1
    <3>5. \A j \in 1..(m - 1) : q[j] = frames'[j].read
      BY <3>2, <3>3, <3>4
    <3>6. Past(q)'
      BY <2>1, <3>2, <3>3, <3>4, <3>5 DEF Past
    <3> SUFFICES ASSUME NEW i \in 1..(n + 1) PROVE Past(found[i])'
      BY <2>4
    <3>7. ASSUME NEW k \in 1..n PROVE Past(found[k])'
      <4>1. PICK p \in Seq(Nat) : p = found[k] /\ p = found'[k]
        BY <2>2, <2>4
      <4>2. Past(p)'
        BY <2>1, <2>6, <4>1, PastAdvance
      <4> QED
        BY <4>1, <4>2 DEF Past
    <3>8. CASE i = n + 1
      BY <2>4, <3>6, <3>8 DEF Past
    <3> QED
      BY <2>5, <3>7, <3>8
  <2> QED
    BY <2>7, <2>8, <2>9 DEF FoundInv
<1>3. ASSUME Open PROVE FoundInv'
  <2>1. UNCHANGED <<tree, found, result>>
    BY <1>3 DEF Open, inputs
  <2> QED
    BY <1>3, <2>1, PastPush, FoundKept
<1>4. ASSUME OpenFails PROVE FoundInv'
  <2>1. /\ UNCHANGED <<tree, found, frames>> /\ calling # None
        /\ result = "running"
    BY <1>4 DEF OpenFails, Return, inputs, ShapeInv, RunInv
  <2>2. ASSUME NEW p, Past(p) PROVE Past(p)'
    BY <2>1, <2>2 DEF Past
  <2> QED
    BY <2>1, <2>2, FoundKept
<1>5. ASSUME EndDir \/ EntryFails PROVE FoundInv'
  <2>1. /\ UNCHANGED <<tree, found>> /\ Reading /\ frames' = Front(frames) /\ result = "running"
        /\ result' = "running" => frames' # <<>>
    BY <1>5 DEF EndDir, EntryFails, HasEntry, Reading, Return, inputs
  <2>2. result' = "running" => Len(frames) # 1
    BY <2>1, Pop
  <2> QED
    BY <1>5, <2>1, <2>2, PastPop, FoundKept
<1>6. ASSUME UNCHANGED vars PROVE FoundInv'
  <2>1. ASSUME NEW p, Past(p) PROVE Past(p)'
    BY <1>6, <2>1 DEF Past, vars
  <2> QED
    BY <1>6, <2>1, FoundKept DEF vars, inputs
<1> QED
  BY <1>1, <1>2, <1>3, <1>4, <1>5, <1>6 DEF Next

-----------------------------------------------------------------------------
(* What the walk misses. *)

\* A set of natural numbers that is not empty has a least one.
LEMMA LeastNumber ==
  ASSUME NEW T \in SUBSET Nat, T # {}
  PROVE  \E n \in T : \A m \in T : n <= m
<1>1. PICK n \in T : \A m \in T : <<m, n>> \notin OpToRel(<, Nat)
  BY NatLessThanWellFounded, WFMin
<1>2. \A m \in T : ~(m < n)
  BY <1>1 DEF OpToRel
<1> QED
  BY <1>2

\* Paths are sequences of positions, which begin with 1.
LEMMA PathType ==
  ASSUME TypeOK, NEW p \in Paths
  PROVE  p \in Seq(Nat) /\ Len(p) \in Nat /\ \A i \in 1..Len(p) : p[i] \in Nat /\ p[i] >= 1
<1>1. PICK n \in 1..PathMax : p \in [1..n -> Positions]
  BY DEF Paths
<1>2. Positions \subseteq Nat \ {0}
  BY TreeType DEF Positions
<1>3. n \in Nat
  BY <1>1, TraverseAssumption
<1>4. p \in [1..n -> Nat]
  BY <1>1, <1>2
<1>5. p \in Seq(Nat)
  BY <1>3, <1>4, SeqDef
<1>6. DOMAIN p = 1..Len(p) /\ Len(p) \in Nat
  BY <1>5, LenProperties
<1>7. \A i \in 1..Len(p) : p[i] \in Positions
  BY <1>1, <1>6
<1> QED
  BY <1>2, <1>5, <1>6, <1>7

\* A path that agrees with the entries read leads through the same directories.
LEMMA SameDirs ==
  ASSUME ShapeInv, NEW p, Len(p) \in Nat, NEW dirs, LeadsThrough(p, dirs),
         NEW m \in 1..Len(frames), m <= Len(p), \A j \in 1..(m - 1) : p[j] = frames[j].read
  PROVE  \A k \in 1..m : dirs[k] = frames[k].dir
<1>1. PICK n \in Nat \ {0} : n = Len(frames) /\ frames # <<>>
  BY FramesType DEF ShapeInv
<1>2. m \in 1..n /\ m \in Nat
  BY <1>1
<1>3. PICK T \in SUBSET Nat : \A k : k \in T <=> k \in 1..m /\ dirs[k] # frames[k].dir
  <2>1. PICK T : T = {k \in 1..m : dirs[k] # frames[k].dir}
    OBVIOUS
  <2>2. \A k : k \in T <=> k \in 1..m /\ dirs[k] # frames[k].dir
    BY <2>1
  <2>3. T \subseteq 1..m
    BY <2>2
  <2>4. T \in SUBSET Nat
    BY <1>2, <2>3
  <2> QED
    BY <2>2, <2>4
<1>4. T = {}
  <2> SUFFICES ASSUME T # {} PROVE FALSE
    OBVIOUS
  <2>1. PICK k \in T : \A i \in T : k <= i
    BY LeastNumber
  <2>2. k \in 1..m /\ dirs[k] # frames[k].dir
    BY <1>3
  <2>3. CASE k = 1
    BY <1>1, <2>2, <2>3 DEF ShapeInv, ChainInv, LeadsThrough
  <2>4. CASE k # 1
    <3>1. PICK i \in 1..m : k = i + 1 /\ ~(k <= i) /\ i \in 1..(m - 1)
      <4>1. k - 1 \in 1..m /\ k = (k - 1) + 1 /\ ~(k <= k - 1) /\ k - 1 \in 1..(m - 1)
        BY <1>2, <2>2, <2>4
      <4> QED
        BY <4>1
    <3>2. dirs[i] = frames[i].dir
      BY <1>3, <2>1, <3>1
    <3>3. i \in 1..(Len(frames) - 1) /\ i \in 1..(Len(p) - 1)
      BY <1>1, <1>2, <3>1
    <3>4. Entered(i, frames[k].dir)
      BY <3>1, <3>3 DEF ShapeInv, ChainInv
    <3>5. tree[frames[i].dir][frames[i].read] = <<"dir", frames[k].dir>>
      BY <3>4 DEF Entered
    <3>6. tree[dirs[i]][p[i]] = <<"dir", dirs[k]>>
      BY <3>1, <3>3 DEF LeadsThrough
    <3>7. <<"dir", dirs[k]>> = <<"dir", frames[k].dir>>
      BY <3>1, <3>2, <3>5, <3>6
    <3> QED
      BY <2>2, <3>7
  <2> QED
    BY <2>3, <2>4
<1> QED
  BY <1>3, <1>4

\* A path through the entries read is behind the last of them.
LEMMA Behind ==
  ASSUME NEW p \in Seq(Nat), NEW q \in Seq(Nat), NEW m \in Nat, m <= Len(p),
         IsPathTo(q, m), \A j \in 1..m : p[j] = frames[j].read
  PROVE  IsPrefix(q, p)
<1>1. Len(q) = m /\ \A j \in 1..m : q[j] = frames[j].read
  BY DEF IsPathTo
<1>2. PICK l \in Nat : l = Len(p)
  BY LenProperties
<1>3. \A i \in 1..m : i \in 1..l
  BY <1>2
<1>4. \A i \in 1..m : p[i] \in Nat /\ q[i] \in Nat
  BY <1>1, <1>2, <1>3, ElementOfSeq
<1>5. /\ SubSeq(p, 1, m) \in Seq(Nat) /\ Len(SubSeq(p, 1, m)) = (IF 1 <= m THEN m - 1 + 1 ELSE 0)
      /\ \A i \in 1..(m - 1 + 1) : SubSeq(p, 1, m)[i] = p[1 + i - 1]
  BY <1>4, SubSeqProperties
<1>6. /\ SubSeq(q, 1, m) \in Seq(Nat) /\ Len(SubSeq(q, 1, m)) = (IF 1 <= m THEN m - 1 + 1 ELSE 0)
      /\ \A i \in 1..(m - 1 + 1) : SubSeq(q, 1, m)[i] = q[1 + i - 1]
  BY <1>4, SubSeqProperties
<1>7. (IF 1 <= m THEN m - 1 + 1 ELSE 0) = m /\ m - 1 + 1 = m /\ \A i \in 1..m : 1 + i - 1 = i
  OBVIOUS
<1>8. /\ SubSeq(p, 1, m) \in Seq(Nat) /\ Len(SubSeq(p, 1, m)) = m
      /\ SubSeq(q, 1, m) \in Seq(Nat) /\ Len(SubSeq(q, 1, m)) = m
      /\ \A i \in 1..m : SubSeq(p, 1, m)[i] = SubSeq(q, 1, m)[i]
  <2>1. \A i \in 1..m : SubSeq(p, 1, m)[i] = p[i] /\ SubSeq(q, 1, m)[i] = q[i]
    BY <1>5, <1>6, <1>7
  <2>2. \A i \in 1..m : p[i] = q[i]
    BY <1>1
  <2> QED
    BY <1>5, <1>6, <1>7, <2>1, <2>2
<1>9. SubSeq(p, 1, m) = SubSeq(q, 1, m)
  BY <1>8, SeqEqual
<1> QED
  BY <1>1, <1>9 DEF IsPrefix

\* Once the last level has read all of its directory, the walk is past every
\* path into it.
LEMMA PastAtEnd ==
  ASSUME ShapeInv, Reading, Top.read = Len(tree[Top.dir]), NEW p \in Paths, IsFile(p),
         Len(frames) <= Len(p), \A j \in 1..(Len(frames) - 1) : p[j] = frames[j].read
  PROVE  Past(p)
<1>1. PICK n \in Nat \ {0} : n = Len(frames) /\ n \in 1..n /\ Top = frames[n] /\ calling = None
  BY LastLevel
<1>2. Len(p) \in Nat /\ \A i \in 1..Len(p) : p[i] \in Nat
  BY PathType DEF ShapeInv
<1>3. PICK dirs \in [1..Len(p) -> Dir] : LeadsThrough(p, dirs)
  BY DEF IsFile
<1>4. dirs[n] = Top.dir
  <2>1. n <= Len(p) /\ \A j \in 1..(n - 1) : p[j] = frames[j].read
    BY <1>1
  <2>2. \A k \in 1..n : dirs[k] = frames[k].dir
    BY <1>1, <1>2, <1>3, <2>1, SameDirs, SMTT(30)
  <2> QED
    BY <1>1, <2>2
<1>5. n \in 1..Len(p)
  BY <1>1, <1>2
<1>6. p[n] \in DOMAIN tree[Top.dir]
  BY <1>3, <1>4, <1>5 DEF LeadsThrough
<1>7. p[n] <= Top.read /\ Top.read \in Nat /\ p[n] \in Nat
  BY <1>2, <1>5, <1>6, LastLevel
<1>8. p[n] < frames[n].read \/ p[n] = frames[n].read
  BY <1>1, <1>7
<1> QED
  BY <1>1, <1>8 DEF Past

\* The file at a path through an entry that is no directory is that entry.
LEMMA OnlyFile ==
  ASSUME ShapeInv, HasEntry, NEW p \in Paths, IsFile(p), Len(frames) <= Len(p),
         \A j \in 1..(Len(frames) - 1) : p[j] = frames[j].read,
         p[Len(frames)] = frames[Len(frames)].read + 1, Current[1] # "dir"
  PROVE  Current[1] = "file" /\ p = CurrentPath
<1>1. PICK n \in Nat \ {0} : n = Len(frames) /\ n \in 1..n /\ Top = frames[n]
  BY LastLevel DEF HasEntry
<1>2. p \in Seq(Nat) /\ Len(p) \in Nat
  BY PathType DEF ShapeInv
<1>3. PICK dirs \in [1..Len(p) -> Dir] :
        LeadsThrough(p, dirs) /\ tree[dirs[Len(p)]][p[Len(p)]][1] = "file"
  BY DEF IsFile
<1>4. dirs[n] = Top.dir
  <2>1. n <= Len(p) /\ \A j \in 1..(n - 1) : p[j] = frames[j].read
    BY <1>1
  <2>2. \A k \in 1..n : dirs[k] = frames[k].dir
    BY <1>1, <1>2, <1>3, <2>1, SameDirs
  <2> QED
    BY <1>1, <2>2
<1>5. tree[dirs[n]][p[n]] = Current
  BY <1>1, <1>4 DEF Current
<1>6. Len(p) = n
  <2> SUFFICES ASSUME Len(p) # n PROVE FALSE
    OBVIOUS
  <2>1. n \in 1..(Len(p) - 1)
    BY <1>1, <1>2
  <2>2. tree[dirs[n]][p[n]] = <<"dir", dirs[n + 1]>>
    BY <1>3, <2>1 DEF LeadsThrough
  <2> QED
    BY <1>5, <2>2
<1>7. Current[1] = "file"
  BY <1>3, <1>5, <1>6
<1>8. PICK q \in Seq(Nat) :
        /\ q = CurrentPath /\ Len(q) = n /\ q[n] = frames[n].read + 1
        /\ \A j \in 1..(n - 1) : q[j] = frames[j].read
  BY <1>1, CurrentPathType
<1>9. \A j \in 1..n : j \in 1..(n - 1) \/ j = n
  OBVIOUS
<1>10. \A j \in 1..n : p[j] = q[j]
  BY <1>1, <1>8, <1>9
<1>11. p = q
  BY <1>2, <1>6, <1>8, <1>10, SeqEqual
<1> QED
  BY <1>7, <1>8, <1>11

\* Steps after which no reason to miss a file is gone.
LEMMA MissKept ==
  ASSUME ShapeInv, MissInv, UNCHANGED tree, result = "running", ~stop' => ~stop,
         ToSet(found) \subseteq ToSet(found'), failed \subseteq failed',
         result' # "error" /\ ~stop' =>
           \A p \in Paths : IsFile(p) /\ (result' = "running" => Past(p)') =>
             Past(p) \/ Accounted(p)'
  PROVE  MissInv'
<1>1. Paths' = Paths /\ \A p : IsFile(p)' <=> IsFile(p)
  BY FileStays DEF Paths, Positions
<1> SUFFICES ASSUME result' # "error", ~stop', NEW p \in Paths, IsFile(p),
                    result' = "running" => Past(p)'
             PROVE  Accounted(p)'
  BY <1>1 DEF MissInv
<1>2. Accounted(p) => Accounted(p)'
  BY DEF Accounted
<1>3. Past(p) => Accounted(p)
  BY DEF MissInv
<1> QED
  BY <1>2, <1>3

\* What the callback was given stays found.
LEMMA FoundGrows ==
  ASSUME ShapeInv, HasEntry, found' = Append(found, CurrentPath)
  PROVE  ToSet(found) \subseteq ToSet(found') /\ CurrentPath \in ToSet(found')
<1>1. PICK n \in Nat : n = Len(found) /\ DOMAIN found = 1..n
  BY FoundType, LenProperties
<1>2. PICK q \in Seq(Nat) : q = CurrentPath
  BY CurrentPathType
<1>3. /\ found' \in Seq(Seq(Nat)) /\ Len(found') = n + 1
      /\ found'[n + 1] = q /\ \A i \in 1..n : found'[i] = found[i]
  BY <1>1, <1>2, FoundType, AppendProperties
<1>4. DOMAIN found' = 1..(n + 1) /\ n + 1 \in 1..(n + 1) /\ \A i \in 1..n : i \in 1..(n + 1)
  BY <1>3, LenProperties
<1> QED
  BY <1>1, <1>2, <1>3, <1>4 DEF ToSet

\* Reading an entry, the walk gets past a file only by finding it.
LEMMA MissAdvance ==
  ASSUME ShapeInv, Skip \/ Enter \/ OnFile, NEW p \in Paths, IsFile(p), Past(p)'
  PROVE  Past(p) \/ Accounted(p)'
<1>1. HasEntry /\ frames' = NextEntry /\ calling = None
  BY LastLevel DEF Skip, Enter, OnFile, HasEntry
<1>2. PICK n \in Nat \ {0} : n = Len(frames) /\ n \in 1..n
  BY <1>1, LastLevel DEF HasEntry
<1>3. /\ Len(frames') = n /\ frames'[n].read = frames[n].read + 1
      /\ \A j \in 1..n : j # n => frames'[j] = frames[j]
  BY <1>1, <1>2, Advance
<1>4. PICK k \in 1..n :
        /\ k <= Len(p) /\ \A j \in 1..(k - 1) : p[j] = frames'[j].read
        /\ p[k] < frames'[k].read \/ (p[k] = frames'[k].read /\ k = n /\ calling' = None)
  BY <1>3 DEF Past
<1>5. \A j \in 1..(k - 1) : j \in 1..n /\ j # n
  OBVIOUS
<1>6. \A j \in 1..(k - 1) : p[j] = frames[j].read
  BY <1>3, <1>4, <1>5
<1>7. CASE k # n
  BY <1>2, <1>3, <1>4, <1>6, <1>7 DEF Past
<1>8. CASE k = n
  <2>1. frames[n].read \in Nat /\ p[n] \in Nat
    <3>1. Len(p) \in Nat /\ \A i \in 1..Len(p) : p[i] \in Nat
      BY PathType DEF ShapeInv
    <3>2. n \in 1..Len(p)
      BY <1>2, <1>4, <1>8, <3>1
    <3> QED
      BY <1>2, <3>1, <3>2, FramesType DEF ShapeInv
  <2>2. CASE p[n] <= frames[n].read
    <3>1. p[n] < frames[n].read \/ p[n] = frames[n].read
      BY <2>1, <2>2
    <3> QED
      BY <1>1, <1>2, <1>4, <1>6, <1>8, <3>1 DEF Past
  <2>3. CASE ~(p[n] <= frames[n].read)
    <3>1. p[n] = frames[n].read + 1 /\ calling' = None
      BY <1>3, <1>4, <1>8, <2>1, <2>3
    <3>2. ~Enter
      <4> SUFFICES ASSUME Enter PROVE FALSE
        OBVIOUS
      <4>1. Current[2] \in Dir /\ calling'.dir = Current[2]
        BY <1>1, LastLevel, EntryKinds DEF Enter, HasEntry
      <4> QED
        BY <3>1, <4>1 DEF None, Dir
    <3>3. Current[1] # "dir"
      BY <3>2 DEF Skip, OnFile
    <3>4. Current[1] = "file" /\ p = CurrentPath
      BY <1>1, <1>2, <1>4, <1>6, <1>8, <3>1, <3>3, OnlyFile
    <3>5. found' = Append(found, CurrentPath)
      BY <3>2, <3>4 DEF Skip, OnFile
    <3>6. p \in ToSet(found')
      BY <1>1, <3>4, <3>5, FoundGrows
    <3> QED
      BY <3>6 DEF Accounted
  <2> QED
    BY <2>2, <2>3
<1> QED
  BY <1>7, <1>8

\* Opening a directory, it gets past nothing.
LEMMA MissOpen ==
  ASSUME ShapeInv, Open, NEW p \in Paths, Past(p)'
  PROVE  Past(p)
<1>1. PICK n \in Nat : n = Len(frames)
  BY FramesType DEF ShapeInv
<1>2. /\ calling # None /\ Len(frames') = n + 1 /\ frames'[n + 1].read = 0
      /\ \A j \in 1..n : frames'[j] = frames[j]
  BY <1>1, Push DEF Open
<1>3. PICK k \in 1..(n + 1) :
        /\ k <= Len(p) /\ \A j \in 1..(k - 1) : p[j] = frames'[j].read
        /\ p[k] < frames'[k].read \/ (p[k] = frames'[k].read /\ k = n + 1)
  BY <1>2 DEF Past
<1>4. k # n + 1
  <2> SUFFICES ASSUME k = n + 1 PROVE FALSE
    OBVIOUS
  <2>1. Len(p) \in Nat /\ \A i \in 1..Len(p) : p[i] \in Nat /\ p[i] >= 1
    BY PathType DEF ShapeInv
  <2>2. k \in 1..Len(p)
    BY <1>3, <2>1
  <2>3. p[k] \in Nat /\ p[k] >= 1
    BY <2>1, <2>2
  <2> QED
    BY <1>2, <1>3, <2>3
<1>5. k \in 1..n /\ \A j \in 1..(k - 1) : j \in 1..n
  BY <1>4
<1>6. p[k] < frames[k].read /\ \A j \in 1..(k - 1) : p[j] = frames[j].read
  BY <1>2, <1>3, <1>4, <1>5
<1> QED
  BY <1>1, <1>3, <1>5, <1>6 DEF Past

\* Failing to open one, it gets past what is in it.
LEMMA MissOpenFails ==
  ASSUME ShapeInv, OpenFails, NEW p \in Paths, Past(p)'
  PROVE  Past(p) \/ Accounted(p)'
<1>1. PICK n \in Nat : n = Len(frames)
  BY FramesType DEF ShapeInv
<1>2. calling # None /\ frames' = frames /\ failed' = failed \union {calling.path}
  BY DEF OpenFails, Return
<1>3. PICK k \in 1..n :
        /\ k <= Len(p) /\ \A j \in 1..(k - 1) : p[j] = frames[j].read
        /\ p[k] < frames[k].read \/ (p[k] = frames[k].read /\ k = n)
  BY <1>1, <1>2 DEF Past
<1>4. CASE p[k] < frames[k].read
  BY <1>1, <1>3, <1>4 DEF Past
<1>5. CASE p[k] = frames[k].read /\ k = n
  <2>1. IsPathTo(calling.path, n) /\ calling.path \in Seq(Nat) /\ p \in Seq(Nat)
    BY <1>1, <1>2, PathType DEF ShapeInv, ChainInv, TypeOK
  <2>2. \A j \in 1..n : j \in 1..(k - 1) \/ j = k
    BY <1>5
  <2>3. \A j \in 1..n : p[j] = frames[j].read
    BY <1>3, <1>5, <2>2
  <2>4. IsPrefix(calling.path, p)
    BY <1>3, <1>5, <2>1, <2>3, Behind
  <2> QED
    BY <1>2, <2>4 DEF Accounted
<1> QED
  BY <1>3, <1>4, <1>5

\* Returning, a level is past what is in its directory: it has read all of it,
\* or the directory counts as failed.
LEMMA MissReturn ==
  ASSUME ShapeInv, EndDir \/ EntryFails, NEW p \in Paths, IsFile(p),
         result' # "error", ~stop', result' = "running" => Past(p)'
  PROVE  Past(p) \/ Accounted(p)'
<1>1. /\ Reading /\ frames' = Front(frames) /\ calling = None /\ calling' = None
      /\ EndDir => ~stop /\ Top.read = Len(tree[Top.dir])
      /\ EntryFails => failed' = failed \union {Top.path}
      /\ \/ EndDir
         \/ frames' # <<>>
      /\ result' = "running" <=> frames' # <<>>
  BY LastLevel DEF EndDir, EntryFails, Return, HasEntry, Reading
<1>2. PICK n \in Nat \ {0} : n = Len(frames) /\ n \in 1..n /\ Top = frames[n]
  BY <1>1, LastLevel
<1>3. PICK m \in Nat : n = m + 1 /\ m = n - 1
  BY <1>2
<1>4. Len(frames') = m /\ (\A j \in 1..m : frames'[j] = frames[j]) /\ (frames' = <<>> <=> m = 0)
  BY <1>1, <1>2, <1>3, Pop
<1>5. p \in Seq(Nat) /\ Len(p) \in Nat
  BY PathType DEF ShapeInv
<1>6. ASSUME m <= Len(p), \A j \in 1..m : p[j] = frames[j].read PROVE Past(p) \/ Accounted(p)'
  <2>1. CASE EntryFails
    <3>1. IsPathTo(Top.path, m) /\ Top.path \in Seq(Nat)
      BY <1>1, <1>2, <1>3, LastLevel DEF ShapeInv, ChainInv
    <3>2. IsPrefix(Top.path, p)
      BY <1>5, <1>6, <3>1, Behind
    <3> QED
      BY <1>1, <2>1, <3>2 DEF Accounted
  <2>2. CASE EndDir
    <3>1. n <= Len(p)
      <4> SUFFICES ASSUME ~(n <= Len(p)) PROVE FALSE
        OBVIOUS
      <4>1. Len(p) = m
        BY <1>3, <1>5, <1>6
      <4>2. PICK dirs \in [1..Len(p) -> Dir] :
              Len(p) > 0 /\ LeadsThrough(p, dirs) /\ tree[dirs[Len(p)]][p[Len(p)]][1] = "file"
        BY DEF IsFile
      <4>3. m \in 1..Len(frames) /\ m \in 1..m /\ m \in 1..(Len(frames) - 1)
        BY <1>2, <1>3, <4>1, <4>2
      <4>4. \A j \in 1..(m - 1) : p[j] = frames[j].read
        BY <1>6
      <4>5. \A k \in 1..m : dirs[k] = frames[k].dir
        BY <1>6, <4>1, <4>2, <4>3, <4>4, SameDirs
      <4>6. Entered(m, frames[m + 1].dir)
        BY <4>3 DEF ShapeInv, ChainInv
      <4>7. tree[dirs[m]][p[m]] = <<"dir", frames[m + 1].dir>>
        BY <1>6, <4>3, <4>5, <4>6 DEF Entered
      <4> QED
        BY <4>1, <4>2, <4>7
    <3>2. Len(frames) <= Len(p) /\ \A j \in 1..(Len(frames) - 1) : p[j] = frames[j].read
      BY <1>2, <1>3, <1>6, <3>1
    <3> QED
      BY <1>1, <2>2, <3>2, PastAtEnd
  <2> QED
    BY <2>1, <2>2
<1>7. CASE m = 0
  <2>1. 0 <= Len(p) /\ \A j \in 1..0 : p[j] = frames[j].read
    BY <1>5
  <2> QED
    BY <1>6, <1>7, <2>1
<1>8. CASE m # 0
  <2>1. Past(p)'
    BY <1>1, <1>4, <1>8
  <2>2. PICK k \in 1..m :
          /\ k <= Len(p) /\ \A j \in 1..(k - 1) : p[j] = frames'[j].read
          /\ p[k] < frames'[k].read \/ (p[k] = frames'[k].read /\ k = m)
    BY <1>4, <2>1 DEF Past
  <2>3. \A j \in 1..k : j \in 1..m
    OBVIOUS
  <2>4. /\ \A j \in 1..(k - 1) : p[j] = frames[j].read
        /\ p[k] < frames[k].read \/ (p[k] = frames[k].read /\ k = m)
    <3>1. \A j \in 1..(k - 1) : j \in 1..m
      OBVIOUS
    <3> QED
      BY <1>4, <2>2, <3>1
  <2>5. CASE p[k] < frames[k].read
    <3>1. k \in 1..Len(frames)
      BY <1>2, <1>3
    <3> QED
      BY <2>2, <2>4, <2>5, <3>1 DEF Past
  <2>6. CASE p[k] = frames[k].read /\ k = m
    <3>1. \A j \in 1..m : j \in 1..(k - 1) \/ j = k
      BY <2>6
    <3>2. \A j \in 1..m : p[j] = frames[j].read
      BY <2>4, <2>6, <3>1
    <3> QED
      BY <1>6, <2>2, <2>6, <3>2
  <2> QED
    BY <2>4, <2>5, <2>6
<1> QED
  BY <1>7, <1>8

\* Every file is found or has a reason not to be.
LEMMA MissNext == ASSUME ShapeInv, MissInv, [Next]_vars PROVE MissInv'
<1>1. ASSUME Skip \/ Enter \/ OnFile PROVE MissInv'
  <2>1. /\ HasEntry /\ UNCHANGED <<tree, failed, result>> /\ result = "running" /\ ~stop
        /\ found' = found \/ found' = Append(found, CurrentPath)
    BY <1>1 DEF Skip, Enter, OnFile, inputs, HasEntry, Reading
  <2>2. ToSet(found) \subseteq ToSet(found')
    BY <2>1, FoundGrows
  <2>3. \A p \in Paths : IsFile(p) /\ (result' = "running" => Past(p)') => Past(p) \/ Accounted(p)'
    BY <1>1, <2>1, MissAdvance
  <2> QED
    BY <2>1, <2>2, <2>3, MissKept
<1>2. ASSUME Open PROVE MissInv'
  <2>1. UNCHANGED <<tree, failed, found, stop, result>> /\ result = "running"
    BY <1>2 DEF Open, inputs, ShapeInv, RunInv
  <2>2. \A p \in Paths : IsFile(p) /\ (result' = "running" => Past(p)') => Past(p) \/ Accounted(p)'
    BY <1>2, <2>1, MissOpen
  <2> QED
    BY <2>1, <2>2, MissKept
<1>3. ASSUME OpenFails PROVE MissInv'
  <2>1. /\ UNCHANGED <<tree, found, stop>> /\ result = "running" /\ failed \subseteq failed'
        /\ result' # "error" => result' = "running"
    BY <1>3 DEF OpenFails, Return, inputs, ShapeInv, RunInv
  <2>2. result' # "error" =>
          \A p \in Paths : IsFile(p) /\ (result' = "running" => Past(p)') => Past(p) \/ Accounted(p)'
    BY <1>3, <2>1, MissOpenFails
  <2> QED
    BY <2>1, <2>2, MissKept
<1>4. ASSUME EndDir \/ EntryFails PROVE MissInv'
  <2>1. UNCHANGED <<tree, found, stop>> /\ result = "running" /\ failed \subseteq failed'
    BY <1>4 DEF EndDir, EntryFails, HasEntry, Reading, inputs
  <2>2. result' # "error" /\ ~stop' =>
          \A p \in Paths : IsFile(p) /\ (result' = "running" => Past(p)') => Past(p) \/ Accounted(p)'
    BY <1>4, MissReturn
  <2> QED
    BY <2>1, <2>2, MissKept
<1>5. ASSUME UNCHANGED vars PROVE MissInv'
  <2>1. UNCHANGED <<tree, frames, calling, stop, found, failed, result>>
    BY <1>5 DEF vars, inputs
  <2>2. Paths' = Paths /\ \A p : IsFile(p)' <=> IsFile(p)
    BY <2>1, FileStays DEF Paths, Positions
  <2>3. \A p : (Past(p)' <=> Past(p)) /\ (Accounted(p)' <=> Accounted(p))
    BY <2>1 DEF Past, Accounted
  <2> QED
    BY <2>1, <2>2, <2>3 DEF MissInv
<1> QED
  BY <1>1, <1>2, <1>3, <1>4, <1>5 DEF Next

-----------------------------------------------------------------------------
(* What it gives. *)

\* The type invariant: levels, paths, counters and results are of their types,
\* and no more directories are open than there are descriptors.
THEOREM WalkTypes == Spec => []TypeOK
<1>1. Init => ShapeInv
  BY ShapeInit
<1>2. ShapeInv /\ [Next]_vars => ShapeInv'
  BY ShapeNext
<1>3. ShapeInv => TypeOK
  BY DEF ShapeInv
<1> QED
  BY <1>1, <1>2, <1>3, PTL DEF Spec

\* The levels of the recursion are a chain of directories from SRCDIR on, each
\* entered through the entry the one before has read last and reading inside
\* its directory, their paths say so, each has a directory open, and there are
\* never more than a path of PathMax has names, plus SRCDIR: the recursion of
\* lua_fs_traverse_worker is bounded although directories may contain each
\* other.
THEOREM LevelsAreNested == Spec => [](ChainInv /\ DepthInv)
<1>1. Init => ShapeInv /\ DepthInv
  <2>1. ASSUME Init PROVE DepthInv
    <3>1. /\ frames = <<>> /\ Len(frames) = 0 /\ opened = 0
          /\ quota \in Nat /\ PathMax \in Nat
      BY <2>1, EmptySeq, TraverseAssumption DEF Init
    <3> QED
      BY <3>1 DEF DepthInv
  <2> QED
    BY <2>1, ShapeInit
<1>2. ShapeInv /\ DepthInv /\ [Next]_vars => ShapeInv' /\ DepthInv'
  BY ShapeNext, DepthNext
<1>3. ShapeInv /\ DepthInv => ChainInv /\ DepthInv
  BY DEF ShapeInv
<1> QED
  BY <1>1, <1>2, <1>3, PTL DEF Spec

\* FoundOnce holds: the callback is given paths of files only, no path twice,
\* and none after it has returned true.  A file that several paths lead to,
\* through directories that contain each other, is given under each of them.
THEOREM FilesAreFoundOnce == Spec => []FoundOnce
<1>1. Init => ShapeInv /\ FoundInv
  <2>1. ASSUME Init PROVE FoundInv
    <3>1. found = <<>> /\ Len(found) = 0
      BY <2>1, EmptySeq DEF Init
    <3> QED
      BY <3>1 DEF FoundInv
  <2> QED
    BY <2>1, ShapeInit
<1>2. ShapeInv /\ FoundInv /\ [Next]_vars => ShapeInv' /\ FoundInv'
  BY ShapeNext, FoundNext
<1>3. ShapeInv /\ FoundInv => FoundOnce
  BY DEF ShapeInv, RunInv, FoundInv, FoundOnce
<1> QED
  BY <1>1, <1>2, <1>3, PTL DEF Spec

\* Complete holds: a walk that returns true without having been stopped has
\* found every path of a file but those below a directory whose walk returned
\* an error: it could not be opened, or a too long path or a failed stat ended
\* it half-way.
THEOREM NoFileIsMissed == Spec => []Complete
<1>1. Init => ShapeInv /\ MissInv
  <2>1. ASSUME Init PROVE MissInv
    <3>1. frames = <<>> /\ Len(frames) = 0 /\ result = "running"
      BY <2>1, EmptySeq DEF Init
    <3>2. \A p : ~Past(p)
      BY <3>1 DEF Past
    <3> QED
      BY <3>1, <3>2 DEF MissInv
  <2> QED
    BY <2>1, ShapeInit
<1>2. ShapeInv /\ MissInv /\ [Next]_vars => ShapeInv' /\ MissInv'
  BY ShapeNext, MissNext
<1>3. MissInv => Complete
  BY DEF MissInv, Complete, Accounted
<1> QED
  BY <1>1, <1>2, <1>3, PTL DEF Spec

=============================================================================
