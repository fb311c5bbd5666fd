---------------------------- MODULE MCTraverse ----------------------------
(* Small trees with cycles, and a wide one. *)
EXTENDS Traverse

Entries ==
  {<<"file", 1>>, <<"file", 2>>, <<"dir", 1>>, <<"dir", 2>>}
    \union {<<"skipped", 0>>, <<"other", 0>>, <<"lost", 0>>}
SmallTrees == [Dir -> UNION {[1..n -> Entries] : n \in 0..2}]

WideTree == {[d \in Dir |-> IF d = Root THEN [i \in 1..20 |-> <<"dir", 2>>] ELSE <<>>]}
=============================================================================
