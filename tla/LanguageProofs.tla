--------------------------- MODULE LanguageProofs ---------------------------
(***************************************************************************)
(* The detector looks up exactly the neighbouring words of a text and      *)
(* never reads outside its buffers, for texts of any length, any tables of *)
(* pairs and any limits.                                                   *)
(***************************************************************************)
EXTENDS Language, FiniteSetTheorems, SequenceTheorems, WellFoundedInduction, NaturalsInduction, TLAPS

Text == Seq(Symbol)

\* How many members of S are at most i.
Rank(S, i) == Cardinality({j \in S : j <= i})

-----------------------------------------------------------------------------
(* Sets of positions in order. *)

\* A set of natural numbers that is not empty has a least one.
LEMMA LeastOf ==
  ASSUME NEW T \in SUBSET Nat, T # {}
  PROVE  \E n \in T : \A m \in T : n <= m
<1>1. PICK n \in T : \A m \in T : <<m, n>> \notin OpToRel(<, Nat)
  BY NatLessThanWellFounded, WFMin
<1>2. \A m \in T : ~(m < n)
  BY <1>1 DEF OpToRel
<1> QED
  BY <1>2

\* Counting up to the next number.
LEMMA RankStep ==
  ASSUME NEW n \in Nat, NEW S \in SUBSET (1..n)
  PROVE  /\ IsFiniteSet(S) /\ Cardinality(S) \in Nat
         /\ \A i \in Nat : Rank(S, i) \in Nat /\ Rank(S, i) <= Cardinality(S)
         /\ Rank(S, 0) = 0
         /\ Rank(S, n) = Cardinality(S)
         /\ \A i \in Nat :
              Rank(S, i + 1) = IF i + 1 \in S THEN Rank(S, i) + 1 ELSE Rank(S, i)
<1>0. \A j \in S : j \in Nat /\ 1 <= j /\ j <= n
  OBVIOUS
<1>1. IsFiniteSet(S) /\ Cardinality(S) \in Nat
  <2>1. IsFiniteSet(1..n)
    BY FS_Interval
  <2> QED
    BY <2>1, FS_Subset, FS_CardinalityType
<1>2. ASSUME NEW i \in Nat PROVE /\ IsFiniteSet({j \in S : j <= i})
                                 /\ Rank(S, i) \in Nat /\ Rank(S, i) <= Cardinality(S)
  <2>1. {j \in S : j <= i} \in SUBSET S
    OBVIOUS
  <2>2. IsFiniteSet({j \in S : j <= i}) /\ Cardinality({j \in S : j <= i}) <= Cardinality(S)
    BY <1>1, <2>1, FS_Subset
  <2> QED
    BY <2>2, FS_CardinalityType DEF Rank
<1>3. Rank(S, 0) = 0
  <2>1. {j \in S : j <= 0} = {}
    <3>1. \A j \in S : ~(j <= 0)
      BY <1>0
    <3> QED
      BY <3>1
  <2> QED
    BY <2>1, FS_EmptySet DEF Rank
<1>4. Rank(S, n) = Cardinality(S)
  <2>1. {j \in S : j <= n} = S
    BY <1>0
  <2> QED
    BY <2>1 DEF Rank
<1>5. ASSUME NEW i \in Nat
      PROVE  Rank(S, i + 1) = IF i + 1 \in S THEN Rank(S, i) + 1 ELSE Rank(S, i)
  <2>1. CASE i + 1 \in S
    <3>1. /\ {j \in S : j <= i + 1} = {j \in S : j <= i} \cup {i + 1}
          /\ i + 1 \notin {j \in S : j <= i}
      <4>1. /\ \A j \in S : j <= i + 1 <=> (j <= i \/ j = i + 1)
            /\ ~(i + 1 <= i) /\ i + 1 <= i + 1
        BY <1>0
      <4> QED
        BY <2>1, <4>1
    <3> QED
      BY <1>2, <2>1, <3>1, FS_AddElement DEF Rank
  <2>2. CASE i + 1 \notin S
    <3>1. {j \in S : j <= i + 1} = {j \in S : j <= i}
      <4>1. \A j \in S : j <= i + 1 <=> (j <= i \/ j = i + 1)
        BY <1>0
      <4> QED
        BY <2>2, <4>1
    <3> QED
      BY <2>2, <3>1 DEF Rank
  <2> QED
    BY <2>1, <2>2
<1> QED
  BY <1>1, <1>2, <1>3, <1>4, <1>5

\* Counting further counts no less, and more if there is a member in between.
LEMMA RankGrows ==
  ASSUME NEW n \in Nat, NEW S \in SUBSET (1..n), NEW i \in Nat, NEW j \in Nat, i <= j
  PROVE  /\ Rank(S, i) <= Rank(S, j)
         /\ i < j /\ j \in S => Rank(S, i) < Rank(S, j)
<1>0. \A k \in S : k \in Nat
  OBVIOUS
<1>1. ASSUME NEW a \in Nat, NEW b \in Nat, a <= b PROVE Rank(S, a) <= Rank(S, b)
  <2>1. IsFiniteSet({k \in S : k <= b})
    <3>1. {k \in S : k <= b} \in SUBSET S
      OBVIOUS
    <3> QED
      BY <3>1, RankStep, FS_Subset
  <2>2. {k \in S : k <= a} \in SUBSET {k \in S : k <= b}
    <3>1. \A k \in S : k <= a => k <= b
      BY <1>0, <1>1
    <3> QED
      BY <3>1
  <2> QED
    BY <2>1, <2>2, FS_Subset DEF Rank
<1>2. ASSUME i < j, j \in S PROVE Rank(S, i) < Rank(S, j)
  <2>1. PICK m \in Nat : j = m + 1
    <3>1. j - 1 \in Nat /\ j = (j - 1) + 1
      BY <1>2
    <3> QED
      BY <3>1
  <2>2. Rank(S, j) = Rank(S, m) + 1 /\ Rank(S, m) \in Nat /\ Rank(S, i) \in Nat
    BY <1>2, <2>1, RankStep
  <2>3. Rank(S, i) <= Rank(S, m)
    BY <1>1, <1>2, <2>1
  <2> QED
    BY <2>2, <2>3
<1> QED
  BY <1>1, <1>2

\* Different members have different ranks.
LEMMA RankSame ==
  ASSUME NEW n \in Nat, NEW S \in SUBSET (1..n), NEW i \in S, NEW j \in S
  PROVE  /\ i \in Nat /\ j \in Nat
         /\ Rank(S, i) = Rank(S, j) => i = j
         /\ Rank(S, i) < Rank(S, j) <=> i < j
<1>1. i \in Nat /\ j \in Nat
  OBVIOUS
<1>2. Rank(S, i) \in Nat /\ Rank(S, j) \in Nat
  BY <1>1, RankStep
<1>3. /\ i < j => Rank(S, i) < Rank(S, j)
      /\ j < i => Rank(S, j) < Rank(S, i)
  <2>1. ASSUME i < j PROVE Rank(S, i) < Rank(S, j)
    <3>1. i <= j
      BY <1>1, <2>1
    <3> QED
      BY <1>1, <2>1, <3>1, RankGrows
  <2>2. ASSUME j < i PROVE Rank(S, j) < Rank(S, i)
    <3>1. j <= i
      BY <1>1, <2>2
    <3> QED
      BY <1>1, <2>2, <3>1, RankGrows
  <2> QED
    BY <2>1, <2>2
<1> QED
  BY <1>1, <1>2, <1>3

\* The members are numbered by their ranks.
LEMMA NthRank ==
  ASSUME NEW n \in Nat, NEW S \in SUBSET (1..n)
  PROVE  /\ \A k \in 1..Cardinality(S) : Nth(S, k) \in S /\ Rank(S, Nth(S, k)) = k
         /\ \A i \in S : Rank(S, i) \in 1..Cardinality(S) /\ Nth(S, Rank(S, i)) = i
<1>1. ASSUME NEW k \in 1..Cardinality(S) PROVE Nth(S, k) \in S /\ Rank(S, Nth(S, k)) = k
  <2> DEFINE T == {i \in Nat : Rank(S, i) >= k}
  <2>0. k \in Nat /\ k >= 1 /\ k <= Cardinality(S)
    BY RankStep
  <2>1. n \in T
    BY <2>0, RankStep
  <2>2. PICK i \in T : \A m \in T : i <= m
    BY <2>1, LeastOf
  <2>3. i # 0 /\ i \in Nat
    BY <2>0, <2>2, RankStep
  <2>4. PICK m \in Nat : i = m + 1
    <3>1. i - 1 \in Nat /\ i = (i - 1) + 1
      BY <2>3
    <3> QED
      BY <3>1
  <2>5. m \notin T
    BY <2>2, <2>4
  <2>6. Rank(S, m) \in Nat /\ Rank(S, m) < k /\ Rank(S, i) >= k
    BY <2>0, <2>2, <2>5, RankStep
  <2>7. i \in S /\ Rank(S, i) = k
    <3>1. Rank(S, m + 1) = IF m + 1 \in S THEN Rank(S, m) + 1 ELSE Rank(S, m)
      BY RankStep
    <3> QED
      BY <2>0, <2>4, <2>6, <3>1
  <2> HIDE DEF T
  <2>8. \E j \in S : Cardinality({l \in S : l <= j}) = k
    BY <2>7 DEF Rank
  <2> QED
    BY <2>8 DEF Nth, Rank
<1>2. ASSUME NEW i \in S PROVE Rank(S, i) \in 1..Cardinality(S) /\ Nth(S, Rank(S, i)) = i
  <2>1. i \in Nat /\ 0 < i
    OBVIOUS
  <2>2. /\ Rank(S, i) \in Nat /\ Rank(S, i) <= Cardinality(S) /\ Rank(S, 0) = 0
        /\ Cardinality(S) \in Nat
    BY <2>1, RankStep
  <2>3. Rank(S, 0) < Rank(S, i)
    <3>1. 0 \in Nat /\ 0 <= i
      BY <2>1
    <3> QED
      BY <2>1, <3>1, RankGrows
  <2>4. Rank(S, i) \in 1..Cardinality(S)
    BY <2>2, <2>3
  <2>5. Nth(S, Rank(S, i)) \in S /\ Rank(S, Nth(S, Rank(S, i))) = Rank(S, i)
    BY <1>1, <2>4
  <2> QED
    BY <2>4, <2>5, RankSame
<1> QED
  BY <1>1, <1>2

\* A list of all members in increasing order is their numbering.
LEMMA Listed ==
  ASSUME NEW n \in Nat, NEW S \in SUBSET (1..n), NEW m \in Nat, NEW f \in [1..m -> S],
         \A i, j \in 1..m : i < j => f[i] < f[j],
         \A x \in S : \E i \in 1..m : f[i] = x
  PROVE  Cardinality(S) = m /\ \A k \in 1..m : Nth(S, k) = f[k]
<1>1. \A x \in S : x \in Nat
  OBVIOUS
<1>2. \A i, j \in 1..m : f[i] <= f[j] <=> i <= j
  <2> SUFFICES ASSUME NEW i \in 1..m, NEW j \in 1..m PROVE f[i] <= f[j] <=> i <= j
    OBVIOUS
  <2>1. f[i] \in Nat /\ f[j] \in Nat
    BY <1>1
  <2>2. (i < j => f[i] < f[j]) /\ (j < i => f[j] < f[i]) /\ (i = j => f[i] = f[j])
    OBVIOUS
  <2> QED
    BY <2>1, <2>2
<1>3. \A i, j \in 1..m : f[i] = f[j] => i = j
  <2> SUFFICES ASSUME NEW i \in 1..m, NEW j \in 1..m, f[i] = f[j] PROVE i = j
    OBVIOUS
  <2>1. f[i] \in Nat /\ f[j] \in Nat
    BY <1>1
  <2>2. i <= j /\ j <= i
    BY <1>2, <2>1
  <2> QED
    BY <2>2
<1>4. ASSUME NEW k \in 1..m
      PROVE  Cardinality({j \in S : j <= f[k]}) = k
  <2> DEFINE T == {j \in S : j <= f[k]}
             g == [i \in 1..k |-> f[i]]
  <2>1. \A i \in 1..k : i \in 1..m /\ i <= k
    OBVIOUS
  <2>2. \A i \in 1..k : f[i] \in T
    BY <1>2, <2>1
  <2>3. \A x \in T : \E i \in 1..k : f[i] = x
    <3> SUFFICES ASSUME NEW x \in T PROVE \E i \in 1..k : f[i] = x
      OBVIOUS
    <3>1. PICK i \in 1..m : f[i] = x
      OBVIOUS
    <3>2. i <= k
      BY <1>2, <3>1
    <3>3. i \in 1..k
      BY <3>2
    <3> QED
      BY <3>1, <3>3
  <2>4. \A i, j \in 1..k : g[i] = g[j] => i = j
    BY <1>3, <2>1
  <2> HIDE DEF T
  <2>5. g \in [1..k -> T] /\ \A x \in T : \E i \in 1..k : g[i] = x
    BY <2>2, <2>3
  <2>6. g \in Bijection(1..k, T)
    BY <2>4, <2>5 DEF Bijection, Injection, Surjection, IsInjective
  <2>7. Cardinality(T) = Cardinality(1..k) /\ Cardinality(1..k) = k
    BY <2>6, FS_Interval, FS_Bijection DEF ExistsBijection
  <2> QED
    BY <2>7 DEF T
<1>5. Cardinality(S) = m
  <2>1. f \in Bijection(1..m, S)
    BY <1>3 DEF Bijection, Injection, Surjection, IsInjective
  <2> QED
    BY <2>1, FS_Interval, FS_Bijection DEF ExistsBijection
<1>6. ASSUME NEW k \in 1..m PROVE Nth(S, k) = f[k]
  <2>1. Rank(S, f[k]) = k /\ f[k] \in S
    BY <1>4 DEF Rank
  <2> QED
    BY <2>1, NthRank
<1> QED
  BY <1>5, <1>6

\* What is copied, and where each symbol goes.
LEMMA CopyFacts ==
  ASSUME NEW text \in Text, NEW S \in SUBSET (1..Len(text))
  PROVE  /\ Copy(text, S) \in Text
         /\ Len(Copy(text, S)) = Cardinality(S)
         /\ Cardinality(S) \in Nat
         /\ \A k \in 1..Cardinality(S) : Nth(S, k) \in S /\ Copy(text, S)[k] = text[Nth(S, k)]
         /\ \A i \in S : Rank(S, i) \in 1..Cardinality(S) /\ Copy(text, S)[Rank(S, i)] = text[i]
<1>1. Len(text) \in Nat /\ \A i \in 1..Len(text) : text[i] \in Symbol
  BY DEF Text
<1>2. PICK c \in Nat : c = Cardinality(S)
  BY <1>1, RankStep
<1>3. /\ \A k \in 1..c : Nth(S, k) \in S
      /\ \A i \in S : Rank(S, i) \in 1..c /\ Nth(S, Rank(S, i)) = i
  BY <1>1, <1>2, NthRank
<1>4. Copy(text, S) = [k \in 1..c |-> text[Nth(S, k)]]
  BY <1>2 DEF Copy
<1>5. Copy(text, S) \in [1..c -> Symbol]
  BY <1>1, <1>3, <1>4
<1>6. Copy(text, S) \in Text /\ Len(Copy(text, S)) = c
  BY <1>2, <1>5 DEF Text
<1> QED
  BY <1>2, <1>3, <1>4, <1>6

-----------------------------------------------------------------------------
(* What collapse_whitespace leaves of a text. *)

HasWord(text) == \E i \in 1..Len(text) : text[i] # "sp"

\* What is left of a text: its words and the first space after each.
Left(text) == {i \in 1..Len(text) : text[i] # "sp" \/ (i > 1 /\ text[i - 1] # "sp")}

\* The result of collapse_whitespace.
Delimited(text) == Append(SubSeq(Collapsed(text), 1, TrimmedTo(Collapsed(text))), "sp")

\* Trimming ends at the last character that is no space.
LEMMA Trimmed ==
  ASSUME NEW dst \in Text, HasWord(dst)
  PROVE  /\ TrimmedTo(dst) \in 1..Len(dst)
         /\ dst[TrimmedTo(dst)] # "sp"
         /\ \A i \in 1..Len(dst) : dst[i] # "sp" => i <= TrimmedTo(dst)
<1> DEFINE I == {i \in 1..Len(dst) : dst[i] # "sp"}
<1>0. PICK n \in Nat : n = Len(dst)
  BY DEF Text
<1>1. TrimmedTo(dst) = IF I # {} THEN Max(I) ELSE 0
  BY DEF TrimmedTo, SelectLastInSeq
<1>2. I # {} /\ \A i \in I : i \in Nat /\ i <= n
  <2>1. I # {}
    BY DEF HasWord
  <2>2. \A i \in 1..n : i \in Nat /\ i <= n
    BY <1>0
  <2> QED
    BY <1>0, <2>1, <2>2
<1>3. \E i \in I : \A j \in I : i >= j
  <2> DEFINE D == {d \in Nat : \E i \in I : d = n - i}
  <2>1. \A i \in I : n - i \in D
    <3>1. \A i \in Nat : i <= n => n - i \in Nat
      BY <1>0
    <3> QED
      BY <1>2, <3>1
  <2>2. D # {} /\ D \in SUBSET Nat
    BY <1>2, <2>1
  <2> HIDE DEF D
  <2>3. PICK d \in D : \A e \in D : d <= e
    BY <2>2, LeastOf
  <2>4. PICK i \in I : d = n - i
    BY <2>3 DEF D
  <2>5. ASSUME NEW j \in I PROVE i >= j
    <3>1. n - j \in D
      BY <2>1
    <3>2. n - i <= n - j /\ i \in Nat /\ j \in Nat
      BY <1>2, <2>3, <2>4, <3>1
    <3>3. \A l, a, b \in Nat : l - a <= l - b => a >= b
      OBVIOUS
    <3> QED
      BY <3>2, <3>3
  <2> QED
    BY <2>5
<1>4. Max(I) \in I /\ \A j \in I : Max(I) >= j
  <2> HIDE DEF I
  <2> QED
    BY <1>3 DEF Max
<1>5. TrimmedTo(dst) \in I /\ \A j \in I : TrimmedTo(dst) >= j
  BY <1>1, <1>2, <1>4
<1> QED
  BY <1>0, <1>2, <1>5

\* What follows a single symbol is one position further on.
LEMMA AfterOne ==
  ASSUME NEW S, NEW a \in Seq(S), NEW b \in Seq(S), Len(a) = 1
  PROVE  /\ a \o b \in Seq(S)
         /\ Len(a \o b) = Len(b) + 1
         /\ (a \o b)[1] = a[1]
         /\ \A k \in 1..Len(b) : (a \o b)[k + 1] = b[k]
<1>0. /\ a \o b \in Seq(S) /\ Len(a \o b) = Len(a) + Len(b)
      /\ \A i \in 1..(Len(a) + Len(b)) :
           (a \o b)[i] = IF i <= Len(a) THEN a[i] ELSE b[i - Len(a)]
  BY ConcatProperties
<1>1. a \o b \in Seq(S) /\ Len(a \o b) = Len(b) + 1 /\ (a \o b)[1] = a[1]
  <2>1. 1 \in 1..(Len(a) + Len(b)) /\ 1 <= Len(a) /\ Len(a) + Len(b) = Len(b) + 1
    OBVIOUS
  <2> QED
    BY <1>0, <2>1
<1>2. ASSUME NEW k \in 1..Len(b) PROVE (a \o b)[k + 1] = b[k]
  <2>1. k + 1 \in 1..(Len(a) + Len(b)) /\ ~(k + 1 <= Len(a)) /\ k + 1 - Len(a) = k
    OBVIOUS
  <2> QED
    BY <1>0, <2>1
<1> QED
  BY <1>1, <1>2

\* What is left of the text is in the buffer behind a space.
LEMMA CollapsedFacts ==
  ASSUME NEW text \in Text
  PROVE  /\ Len(text) \in Nat /\ Left(text) \in SUBSET (1..Len(text))
         /\ Cardinality(Left(text)) \in Nat
         /\ Collapsed(text) \in Text
         /\ Len(Collapsed(text)) = Cardinality(Left(text)) + 1
         /\ Collapsed(text)[1] = "sp"
         /\ \A k \in 1..Cardinality(Left(text)) : Collapsed(text)[k + 1] = text[Nth(Left(text), k)]
<1>1. Len(text) \in Nat /\ Left(text) \in SUBSET (1..Len(text))
  <2>1. Len(text) \in Nat
    BY DEF Text
  <2> QED
    BY <2>1 DEF Left
<1>2. PICK c \in Text : c = Copy(text, Left(text))
  BY <1>1, CopyFacts
<1>3. /\ Len(c) = Cardinality(Left(text)) /\ Cardinality(Left(text)) \in Nat
      /\ \A k \in 1..Cardinality(Left(text)) : c[k] = text[Nth(Left(text), k)]
  BY <1>1, <1>2, CopyFacts
<1>4. Collapsed(text) = <<"sp">> \o c
  BY <1>2 DEF Collapsed, Left
<1>5. PICK head \in Text : head = <<"sp">> /\ Len(head) = 1 /\ head[1] = "sp"
  <2>1. "sp" \in Symbol
    BY DEF Symbol
  <2>2. <<"sp">> \in Seq(Symbol)
    BY <2>1
  <2> QED
    BY <2>2 DEF Text
<1>6. /\ head \o c \in Text
      /\ Len(head \o c) = Len(c) + 1
      /\ (head \o c)[1] = "sp"
      /\ \A k \in 1..Len(c) : (head \o c)[k + 1] = c[k]
  <2>1. \A a, b \in Seq(Symbol) :
          Len(a) = 1 => /\ a \o b \in Seq(Symbol)
                        /\ Len(a \o b) = Len(b) + 1
                        /\ (a \o b)[1] = a[1]
                        /\ \A k \in 1..Len(b) : (a \o b)[k + 1] = b[k]
    BY AfterOne
  <2> QED
    BY <1>2, <1>5, <2>1 DEF Text
<1> QED
  BY <1>1, <1>3, <1>4, <1>5, <1>6

\* The delimited words: M characters of what is left between two spaces.
LEMMA DelimitedFacts ==
  ASSUME NEW text \in Text, HasWord(text)
  PROVE  \E M \in 1..Cardinality(Left(text)) :
           /\ TrimmedTo(Collapsed(text)) = M + 1
           /\ Delimited(text) \in Text
           /\ Len(Delimited(text)) = M + 2
           /\ Delimited(text)[1] = "sp"
           /\ Delimited(text)[M + 1] # "sp"
           /\ Delimited(text)[M + 2] = "sp"
           /\ \A k \in 1..M : Delimited(text)[k + 1] = text[Nth(Left(text), k)]
           /\ \A i \in Left(text) : text[i] # "sp" => Rank(Left(text), i) <= M
<1>1. PICK dst \in Text : dst = Collapsed(text)
  BY CollapsedFacts
<1>2. PICK c \in Nat : c = Cardinality(Left(text))
  BY CollapsedFacts
<1>3. /\ Len(text) \in Nat /\ Left(text) \in SUBSET (1..Len(text))
      /\ Len(dst) = c + 1
      /\ dst[1] = "sp"
      /\ \A k \in 1..c : dst[k + 1] = text[Nth(Left(text), k)]
  BY <1>1, <1>2, CollapsedFacts
<1>4. \A i \in Left(text) : /\ Rank(Left(text), i) \in 1..c
                            /\ dst[Rank(Left(text), i) + 1] = text[i]
  BY <1>2, <1>3, NthRank
<1>5. HasWord(dst)
  <2>1. PICK i \in 1..Len(text) : text[i] # "sp"
    BY DEF HasWord
  <2>2. i \in Left(text)
    BY <2>1 DEF Left
  <2>3. PICK k \in 1..c : dst[k + 1] # "sp"
    BY <1>4, <2>1, <2>2
  <2>4. k + 1 \in 1..(c + 1)
    OBVIOUS
  <2> QED
    BY <1>3, <2>3, <2>4 DEF HasWord
<1>6. PICK T \in 1..Len(dst) :
        /\ T = TrimmedTo(dst) /\ dst[T] # "sp"
        /\ \A i \in 1..Len(dst) : dst[i] # "sp" => i <= T
  BY <1>5, Trimmed
<1>7. PICK M \in Nat : T = M + 1
  <2>1. T - 1 \in Nat /\ T = (T - 1) + 1
    OBVIOUS
  <2> QED
    BY <2>1
<1>8. M \in 1..c
  <2>1. T # 1
    BY <1>3, <1>6
  <2>2. T \in 1..(c + 1)
    BY <1>3, <1>6
  <2> QED
    BY <1>2, <1>7, <2>1, <2>2
<1>9. PICK w : w = Append(SubSeq(dst, 1, T), "sp")
  OBVIOUS
<1>10. SubSeq(dst, 1, T) \in Text /\ Len(SubSeq(dst, 1, T)) = T
       /\ \A i \in 1..T : SubSeq(dst, 1, T)[i] = dst[i]
  BY DEF Text
<1>11. w \in Text /\ Len(w) = T + 1 /\ w[T + 1] = "sp" /\ \A i \in 1..T : w[i] = dst[i]
  <2>1. PICK v \in Text : v = SubSeq(dst, 1, T)
    BY <1>10
  <2>2. "sp" \in Symbol
    BY DEF Symbol
  <2>3. \A a \in Seq(Symbol), x \in Symbol :
          /\ Append(a, x) \in Seq(Symbol) /\ Len(Append(a, x)) = Len(a) + 1
          /\ Append(a, x)[Len(a) + 1] = x
          /\ \A i \in 1..Len(a) : Append(a, x)[i] = a[i]
    OBVIOUS
  <2> QED
    BY <1>6, <1>9, <1>10, <2>1, <2>2, <2>3 DEF Text
<1>12. \A k \in 1..M : k + 1 \in 1..T /\ k \in 1..c
  BY <1>2, <1>7, <1>8
<1>13. 1 \in 1..T /\ M + 2 = T + 1
  BY <1>7
<1>14. \A i \in Left(text) : text[i] # "sp" => Rank(Left(text), i) <= M
  <2> SUFFICES ASSUME NEW i \in Left(text), text[i] # "sp" PROVE Rank(Left(text), i) <= M
    OBVIOUS
  <2>1. PICK k \in 1..c : k = Rank(Left(text), i) /\ dst[k + 1] = text[i]
    BY <1>4
  <2>2. k + 1 \in 1..(c + 1)
    OBVIOUS
  <2>3. k + 1 <= T
    BY <1>3, <1>6, <2>1, <2>2
  <2>4. \A a, b \in Nat : a + 1 <= b + 1 => a <= b
    OBVIOUS
  <2>5. k \in Nat
    OBVIOUS
  <2> QED
    BY <1>7, <2>1, <2>3, <2>4, <2>5
<1>15. Delimited(text) = w
  BY <1>1, <1>6, <1>9 DEF Delimited
<1> QED
  BY <1>1, <1>2, <1>3, <1>6, <1>7, <1>8, <1>11, <1>12, <1>13, <1>14, <1>15

-----------------------------------------------------------------------------
(* Words in the text and in what is left of it. *)

\* The member that follows another is the next one in order.
LEMMA NthNext ==
  ASSUME NEW n \in Nat, NEW S \in SUBSET (1..n), NEW k \in 1..Cardinality(S), NEW z \in S,
         Nth(S, k) < z, \A j \in S : Nth(S, k) < j => z <= j
  PROVE  k + 1 \in 1..Cardinality(S) /\ Nth(S, k + 1) = z
<1>1. PICK x \in S : x = Nth(S, k) /\ Rank(S, x) = k
  BY NthRank
<1>2. x \in Nat /\ z \in Nat /\ \A j \in S : j \in Nat
  OBVIOUS
<1>3. PICK y \in Nat : z = y + 1
  <2>1. z - 1 \in Nat /\ z = (z - 1) + 1
    OBVIOUS
  <2> QED
    BY <2>1
<1>4. {j \in S : j <= y} = {j \in S : j <= x}
  <2>1. \A j \in S : j <= y <=> j <= x
    <3> SUFFICES ASSUME NEW j \in S PROVE j <= y <=> j <= x
      OBVIOUS
    <3>1. x < j => z <= j
      BY <1>1
    <3> QED
      BY <1>1, <1>2, <1>3, <3>1
  <2> QED
    BY <2>1
<1>5. Rank(S, y) = k
  BY <1>1, <1>4 DEF Rank
<1>6. Rank(S, z) = k + 1
  BY <1>3, <1>5, RankStep
<1>7. Rank(S, z) \in 1..Cardinality(S) /\ Nth(S, Rank(S, z)) = z
  BY NthRank
<1> QED
  BY <1>6, <1>7

\* Neighbours have neighbouring ranks.
LEMMA RankRun ==
  ASSUME NEW n \in Nat, NEW S \in SUBSET (1..n), NEW a \in Nat, NEW e \in Nat,
         \A k \in a..e : k \in S
  PROVE  \A k \in a..e : Rank(S, k) = Rank(S, a) + (k - a)
<1> DEFINE D == {k \in Nat : a <= k /\ k <= e /\ Rank(S, k) # Rank(S, a) + (k - a)}
<1>1. SUFFICES ASSUME D # {} PROVE FALSE
  OBVIOUS
<1>2. D \in SUBSET Nat
  OBVIOUS
<1>3. PICK k \in D : \A j \in D : k <= j
  BY <1>1, <1>2, LeastOf
<1>4. k \in Nat /\ a <= k /\ k <= e /\ Rank(S, k) # Rank(S, a) + (k - a)
  OBVIOUS
<1>5. Rank(S, a) \in Nat
  BY RankStep
<1>6. k # a
  BY <1>4, <1>5
<1>7. PICK j \in Nat : k = j + 1
  <2>1. k - 1 \in Nat /\ k = (k - 1) + 1
    BY <1>4, <1>6
  <2> QED
    BY <2>1
<1>8. j \notin D /\ a <= j /\ j <= e
  BY <1>3, <1>4, <1>6, <1>7
<1>9. Rank(S, j) = Rank(S, a) + (j - a)
  BY <1>8
<1>10. k \in S
  BY <1>4
<1>11. Rank(S, k) = Rank(S, j) + 1
  BY <1>7, <1>10, RankStep
<1> QED
  BY <1>4, <1>5, <1>7, <1>9, <1>11

\* A word ends before a space or at the end of the text.
LEMMA WordEnds ==
  ASSUME NEW text \in Text, NEW b \in Begins(text)
  PROVE  /\ b \in 1..Len(text) /\ WordEnd(text, b) \in b..Len(text)
         /\ \A k \in b..WordEnd(text, b) : text[k] # "sp"
         /\ WordEnd(text, b) = Len(text) \/ text[WordEnd(text, b) + 1] = "sp"
<1>1. Len(text) \in Nat
  BY DEF Text
<1>2. b \in 1..Len(text) /\ text[b] # "sp" /\ b \in Nat
  BY <1>1 DEF Begins
<1> DEFINE D == {j \in Nat : b <= j /\ j <= Len(text) /\ (j = Len(text) \/ text[j + 1] = "sp")}
<1>3. Len(text) \in D /\ D \in SUBSET Nat
  BY <1>1, <1>2
<1>4. PICK e \in D : \A j \in D : e <= j
  BY <1>3, LeastOf
<1>5. e \in b..Len(text) /\ (e = Len(text) \/ text[e + 1] = "sp") /\ e \in Nat
  BY <1>1, <1>2
<1>6. ASSUME NEW k \in b..e PROVE text[k] # "sp"
  <2> SUFFICES ASSUME text[k] = "sp" PROVE FALSE
    OBVIOUS
  <2>1. k # b /\ k \in Nat /\ b <= k /\ k <= e
    BY <1>2, <1>5
  <2>2. PICK j \in Nat : k = j + 1
    <3>1. k - 1 \in Nat /\ k = (k - 1) + 1
      BY <1>2, <2>1
    <3> QED
      BY <3>1
  <2>3. b <= j /\ j <= Len(text) /\ j < e
    BY <1>1, <1>2, <1>5, <2>1, <2>2
  <2>4. j \in D
    BY <2>2, <2>3
  <2> QED
    BY <1>4, <1>5, <2>3, <2>4
<1> HIDE DEF D
<1>7. \E j \in b..Len(text) :
        /\ \A k \in b..j : text[k] # "sp"
        /\ j = Len(text) \/ text[j + 1] = "sp"
  BY <1>5, <1>6
<1> QED
  BY <1>2, <1>7 DEF WordEnd

\* A space of what is left, unless it is the last, is in front of a word, and
\* in front of each word is one.
LEMMA SpaceBefore ==
  ASSUME NEW text \in Text, NEW M \in 1..Cardinality(Left(text)), NEW w,
         w[1] = "sp", \A k \in 1..M : w[k + 1] = text[Nth(Left(text), k)],
         NEW s \in 1..M
  PROVE  w[s] = "sp" <=> Nth(Left(text), s) \in Begins(text)
<1> DEFINE K == Left(text)
<1>0. Len(text) \in Nat /\ K \in SUBSET (1..Len(text)) /\ Cardinality(K) \in Nat
  BY CollapsedFacts
<1>1. PICK c \in K : c = Nth(K, s) /\ Rank(K, c) = s
  <2>1. s \in 1..Cardinality(K)
    BY <1>0
  <2> QED
    BY <1>0, <2>1, NthRank
<1>2. c \in 1..Len(text) /\ c \in Nat
  BY <1>0
<1>3. text[c] # "sp" \/ (c > 1 /\ text[c - 1] # "sp")
  BY DEF Left
<1>4. ASSUME c \notin Begins(text) PROVE w[s] # "sp"
  <2>1. c > 1 /\ text[c - 1] # "sp"
    BY <1>2, <1>3, <1>4 DEF Begins
  <2>2. PICK d \in Nat : c = d + 1
    BY <1>2, <2>1
  <2>3. d \in 1..Len(text) /\ text[d] # "sp"
    BY <1>0, <1>2, <2>1, <2>2
  <2>4. d \in K
    BY <2>3 DEF Left
  <2>5. Rank(K, c) = Rank(K, d) + 1
    BY <1>0, <2>2, RankStep
  <2>6. Rank(K, d) \in 1..Cardinality(K) /\ Nth(K, Rank(K, d)) = d
    BY <1>0, <2>4, NthRank
  <2>7. PICK r \in Nat : r = Rank(K, d) /\ s = r + 1 /\ r \in 1..M
    BY <1>0, <1>1, <2>5, <2>6
  <2> QED
    BY <2>3, <2>6, <2>7
<1>5. ASSUME w[s] # "sp" PROVE c \notin Begins(text)
  <2>1. s # 1
    BY <1>5
  <2>2. PICK r \in 1..M : s = r + 1
    <3>1. s - 1 \in 1..M /\ s = (s - 1) + 1
      BY <1>0, <2>1
    <3> QED
      BY <3>1
  <2>3. r \in 1..Cardinality(K)
    BY <1>0
  <2>4. PICK p \in K : p = Nth(K, r) /\ Rank(K, p) = r
    BY <1>0, <2>3, NthRank
  <2>5. text[p] # "sp"
    BY <1>5, <2>2, <2>4
  <2>6. p < c /\ p \in Nat
    <3>1. Rank(K, p) < Rank(K, c)
      BY <1>1, <2>2, <2>4
    <3> QED
      BY <1>0, <3>1, RankSame
  <2>7. p + 1 \in 1..Len(text) /\ p + 1 > 1 /\ (p + 1) - 1 = p
    BY <1>0, <1>2, <2>6
  <2>8. p + 1 \in K
    BY <2>5, <2>7 DEF Left
  <2>9. Rank(K, p + 1) = s
    BY <1>0, <2>2, <2>4, <2>6, <2>8, RankStep
  <2>10. c = p + 1
    BY <1>0, <1>1, <2>8, <2>9, RankSame
  <2> QED
    BY <2>5, <2>7, <2>10 DEF Begins
<1> QED
  BY <1>1, <1>4, <1>5

\* The spaces of what is left: one in front of each word, and the last.
LEMMA SpacesAre ==
  ASSUME NEW text \in Text, NEW M \in 1..Cardinality(Left(text)), NEW w,
         Len(w) = M + 2, w[1] = "sp", w[M + 1] # "sp", w[M + 2] = "sp",
         \A k \in 1..M : w[k + 1] = text[Nth(Left(text), k)],
         \A i \in Left(text) : text[i] # "sp" => Rank(Left(text), i) <= M
  PROVE  LET all == Cardinality(Begins(text))
         IN /\ all \in Nat \ {0}
            /\ Spaces(w) \in SUBSET (1..(M + 2))
            /\ Cardinality(Spaces(w)) = all + 1
            /\ \A n \in 1..all :
                 /\ Nth(Begins(text), n) \in Begins(text)
                 /\ Nth(Spaces(w), n) = Rank(Left(text), Nth(Begins(text), n))
                 /\ Nth(Spaces(w), n) \in 1..M
            /\ Nth(Spaces(w), all + 1) = M + 2
<1> DEFINE K == Left(text)
           B == Begins(text)
           S == Spaces(w)
<1>0. Len(text) \in Nat /\ K \in SUBSET (1..Len(text)) /\ Cardinality(K) \in Nat
  BY CollapsedFacts
<1>1. \A b \in B : b \in 1..Len(text) /\ text[b] # "sp" /\ b \in K
  BY DEF Begins, Left
<1>2. B \in SUBSET (1..Len(text))
  BY <1>1
<1>3. PICK m \in Nat : m = Cardinality(B)
  BY <1>0, <1>2, RankStep
<1>4. \A b \in B : Rank(K, b) \in 1..M /\ Nth(K, Rank(K, b)) = b
  <2> SUFFICES ASSUME NEW b \in B PROVE Rank(K, b) \in 1..M /\ Nth(K, Rank(K, b)) = b
    OBVIOUS
  <2>1. Rank(K, b) \in 1..Cardinality(K) /\ Nth(K, Rank(K, b)) = b
    BY <1>0, <1>1, NthRank
  <2>2. Rank(K, b) <= M
    BY <1>1
  <2> QED
    BY <1>0, <2>1, <2>2
<1>5. \A s \in 1..M : w[s] = "sp" <=> Nth(K, s) \in B
  BY SpaceBefore
<1>6. \A s \in 1..M : Rank(K, Nth(K, s)) = s
  <2>1. \A s \in 1..M : s \in 1..Cardinality(K)
    BY <1>0
  <2> QED
    BY <1>0, <2>1, NthRank
<1>7. S \in SUBSET (1..(M + 2)) /\ \A s \in S : w[s] = "sp"
  BY DEF Spaces
<1> DEFINE f == [n \in 1..(m + 1) |-> IF n <= m THEN Rank(K, Nth(B, n)) ELSE M + 2]
<1>8. \A n \in 1..m : Nth(B, n) \in B
  BY <1>0, <1>2, <1>3, NthRank
<1>9. \A n \in 1..m : f[n] = Rank(K, Nth(B, n)) /\ f[n] \in 1..M
  <2>1. \A n \in 1..m : n \in 1..(m + 1) /\ n <= m
    OBVIOUS
  <2> QED
    BY <1>4, <1>8, <2>1
<1>10. f[m + 1] = M + 2
  OBVIOUS
<1>11. \A n \in 1..(m + 1) : n \in 1..m \/ n = m + 1
  OBVIOUS
<1>12. \A s \in 1..M : s \in 1..(M + 2)
  OBVIOUS
<1>13. M + 2 \in 1..(M + 2)
  OBVIOUS
<1>14. f \in [1..(m + 1) -> S]
  <2>1. \A n \in 1..m : f[n] \in S
    BY <1>4, <1>5, <1>8, <1>9, <1>12 DEF Spaces
  <2>2. f[m + 1] \in S
    BY <1>10, <1>13 DEF Spaces
  <2> QED
    BY <1>11, <2>1, <2>2
<1>15. \A i, j \in 1..(m + 1) : i < j => f[i] < f[j]
  <2> SUFFICES ASSUME NEW i \in 1..(m + 1), NEW j \in 1..(m + 1), i < j PROVE f[i] < f[j]
    OBVIOUS
  <2>1. i \in 1..m
    OBVIOUS
  <2>2. CASE j \in 1..m
    <3>1. PICK a \in B, b \in B : a = Nth(B, i) /\ b = Nth(B, j)
      BY <1>8, <2>1, <2>2
    <3>2. Rank(B, a) = i /\ Rank(B, b) = j
      BY <1>0, <1>2, <1>3, <2>1, <2>2, <3>1, NthRank
    <3>3. a < b
      BY <1>0, <1>2, <3>2, RankSame
    <3>4. Rank(K, a) < Rank(K, b)
      BY <1>0, <1>1, <3>3, RankSame
    <3> QED
      BY <1>9, <2>1, <2>2, <3>1, <3>4
  <2>3. CASE j = m + 1
    <3>1. f[i] \in 1..M
      BY <1>9, <2>1
    <3>2. \A x \in 1..M : x < M + 2
      OBVIOUS
    <3> QED
      BY <1>10, <2>3, <3>1, <3>2
  <2> QED
    BY <1>11, <2>2, <2>3
<1>16. \A x \in S : \E i \in 1..(m + 1) : f[i] = x
  <2> SUFFICES ASSUME NEW x \in S PROVE \E i \in 1..(m + 1) : f[i] = x
    OBVIOUS
  <2>1. x \in 1..M \/ x = M + 1 \/ x = M + 2
    BY <1>7
  <2>2. x # M + 1
    BY <1>7
  <2>3. CASE x = M + 2
    <3>1. m + 1 \in 1..(m + 1)
      OBVIOUS
    <3> QED
      BY <1>10, <2>3, <3>1
  <2>4. CASE x \in 1..M
    <3>1. PICK b \in B : b = Nth(K, x) /\ Rank(K, b) = x
      BY <1>5, <1>6, <1>7, <2>4
    <3>2. PICK n \in 1..m : Nth(B, n) = b
      <4>1. Rank(B, b) \in 1..m /\ Nth(B, Rank(B, b)) = b
        BY <1>0, <1>2, <1>3, NthRank
      <4> QED
        BY <4>1
    <3>3. n \in 1..(m + 1)
      OBVIOUS
    <3> QED
      BY <1>9, <3>1, <3>2, <3>3
  <2> QED
    BY <2>1, <2>2, <2>3, <2>4
<1> HIDE DEF f, S
<1>17. m + 1 \in Nat /\ M + 2 \in Nat
  OBVIOUS
<1>18. Cardinality(S) = m + 1 /\ \A k \in 1..(m + 1) : Nth(S, k) = f[k]
  <2>1. PICK p \in Nat, q \in Nat : p = m + 1 /\ q = M + 2
    BY <1>17
  <2>2. S \in SUBSET (1..q) /\ f \in [1..p -> S]
    BY <1>7, <1>14, <2>1
  <2>3. \A i, j \in 1..p : i < j => f[i] < f[j]
    BY <1>15, <2>1
  <2>4. \A x \in S : \E i \in 1..p : f[i] = x
    BY <1>16, <2>1
  <2>5. Cardinality(S) = p /\ \A k \in 1..p : Nth(S, k) = f[k]
    BY ONLY <2>2, <2>3, <2>4, p \in Nat, q \in Nat, Listed, ZenonT(30)
  <2> QED
    BY <2>1, <2>5
<1>19. m # 0
  <2>1. 1 \in 1..M
    OBVIOUS
  <2>2. PICK b : b \in B
    BY <1>5, <2>1
  <2>3. Rank(B, b) \in 1..m
    BY <1>0, <1>2, <1>3, <2>2, NthRank
  <2> QED
    BY <2>3
<1>20. \A n \in 1..m : n \in 1..(m + 1)
  OBVIOUS
<1>21. m + 1 \in 1..(m + 1)
  OBVIOUS
<1>22. \A n \in 1..m : Nth(S, n) = Rank(K, Nth(B, n)) /\ Nth(S, n) \in 1..M
  BY <1>9, <1>18, <1>20
<1>23. Nth(S, m + 1) = M + 2
  BY <1>10, <1>18, <1>21
<1> QED
  BY <1>3, <1>7, <1>8, <1>18, <1>19, <1>22, <1>23 DEF S

\* A part of a text.
LEMMA Sliced ==
  ASSUME NEW text \in Text, NEW b \in 1..Len(text), NEW e \in b..Len(text)
  PROVE  /\ SubSeq(text, b, e) \in Text
         /\ Len(SubSeq(text, b, e)) = (e - b) + 1
         /\ \A j \in 1..((e - b) + 1) : SubSeq(text, b, e)[j] = text[(b + j) - 1]
<1>1. text \in Seq(Symbol) /\ Len(text) \in Nat
  BY DEF Text
<1>2. SubSeq(text, b, e) \in Seq(Symbol) /\ Len(SubSeq(text, b, e)) = (e - b) + 1
  BY <1>1
<1>3. \A j \in 1..((e - b) + 1) : SubSeq(text, b, e)[j] = text[(b + j) - 1]
  BY <1>1
<1> QED
  BY <1>2, <1>3 DEF Text

\* A is in w between the positions x and y, which are next to it.
Between(w, x, y, A) ==
  /\ x \in Nat \ {0} /\ y = x + Len(A) + 1 /\ y <= Len(w)
  /\ w[x] = "sp" /\ w[y] = "sp"
  /\ \A j \in 1..Len(A) : w[x + j] = A[j]

\* Each word of the text is between two neighbouring spaces of what is left.
LEMMA WordBetween ==
  ASSUME NEW text \in Text, NEW M \in 1..Cardinality(Left(text)), NEW w \in Text,
         Len(w) = M + 2, w[1] = "sp", w[M + 1] # "sp", w[M + 2] = "sp",
         \A k \in 1..M : w[k + 1] = text[Nth(Left(text), k)],
         \A i \in Left(text) : text[i] # "sp" => Rank(Left(text), i) <= M,
         NEW n \in 1..Cardinality(Begins(text))
  PROVE  /\ WordsOf(text)[n] \in Text /\ Len(WordsOf(text)[n]) >= 1
         /\ Between(w, Nth(Spaces(w), n), Nth(Spaces(w), n + 1), WordsOf(text)[n])
<1> DEFINE K == Left(text)
           S == Spaces(w)
<1>0. Len(text) \in Nat /\ K \in SUBSET (1..Len(text)) /\ Cardinality(K) \in Nat
  BY CollapsedFacts
<1>1. PICK m \in Nat : m = Cardinality(Begins(text))
  BY SpacesAre
<1>2. /\ S \in SUBSET (1..(M + 2)) /\ Cardinality(S) = m + 1
      /\ Nth(Begins(text), n) \in Begins(text)
      /\ Nth(S, n) = Rank(K, Nth(Begins(text), n))
      /\ Nth(S, n) \in 1..M
  BY <1>1, SpacesAre
<1>3. PICK b \in Begins(text) : b = Nth(Begins(text), n) /\ Nth(S, n) = Rank(K, b)
  BY <1>2
<1>4. PICK e \in b..Len(text) :
        /\ e = WordEnd(text, b) /\ b \in 1..Len(text)
        /\ \A k \in b..e : text[k] # "sp"
        /\ e = Len(text) \/ text[e + 1] = "sp"
  BY WordEnds
<1>5. b \in Nat /\ e \in Nat /\ 1 <= b /\ b <= e /\ e <= Len(text)
  BY <1>0, <1>4
<1>6. \A k \in b..e : k \in 1..Len(text) /\ k \in K
  <2>1. \A k \in b..e : k \in 1..Len(text)
    BY <1>0, <1>5
  <2> QED
    BY <1>4, <2>1 DEF Left
<1>7. PICK x \in 1..M : x = Nth(S, n) /\ x = Rank(K, b)
  BY <1>2, <1>3
<1>8. \A k \in b..e : Rank(K, k) = x + (k - b)
  <2>1. \A k \in b..e : k \in K
    BY <1>6
  <2>2. \A k \in b..e : Rank(K, k) = Rank(K, b) + (k - b)
    BY ONLY <1>0, <1>5, <2>1, RankRun, ZenonT(30)
  <2> QED
    BY ONLY <1>7, <2>2, SMTT(30)
<1>9. PICK len \in Nat : len = (e - b) + 1 /\ len >= 1
  BY <1>5
<1>10. \A j \in 1..len : (b + j) - 1 \in b..e /\ ((b + j) - 1) - b = j - 1
  BY <1>5, <1>9
<1>11. \A j \in 1..len : w[x + j] = text[(b + j) - 1] /\ w[x + j] # "sp" /\ x + j <= M + 1
  <2> SUFFICES ASSUME NEW j \in 1..len
               PROVE  w[x + j] = text[(b + j) - 1] /\ w[x + j] # "sp" /\ x + j <= M + 1
    OBVIOUS
  <2>1. PICK k \in b..e : k = (b + j) - 1 /\ k - b = j - 1
    BY <1>10
  <2>2. PICK r \in Nat : r = Rank(K, k) /\ r = x + (j - 1)
    BY <1>0, <1>5, <1>8, <2>1
  <2>3. r \in 1..Cardinality(K) /\ Nth(K, r) = k
    <3>1. Rank(K, k) \in 1..Cardinality(K) /\ Nth(K, Rank(K, k)) = k
      BY <1>0, <1>6, NthRank
    <3> QED
      BY <2>2, <3>1
  <2>4. r <= M
    BY <1>4, <1>6, <2>2
  <2>5. r \in 1..M /\ r + 1 = x + j
    BY <1>0, <2>2, <2>3, <2>4
  <2>6. w[r + 1] = text[k] /\ text[k] # "sp"
    BY <1>4, <2>3, <2>5
  <2>7. \A a, c \in Nat : a <= c => a + 1 <= c + 1
    OBVIOUS
  <2>8. M \in Nat
    BY <1>0
  <2>9. r + 1 <= M + 1
    BY <2>2, <2>4, <2>7, <2>8
  <2> QED
    BY <2>1, <2>5, <2>6, <2>9
<1>12. PICK z \in Nat : z = x + len + 1
  BY <1>9
<1>13. PICK r \in Nat : r = Rank(K, e) /\ z = r + 2 /\ r \in 1..M
  <2>1. e \in b..e
    BY <1>5
  <2>2. PICK r \in Nat : r = Rank(K, e) /\ r = x + (e - b)
    BY <1>0, <1>5, <1>8, <2>1
  <2>3. r <= M
    BY <1>4, <1>6, <2>1, <2>2
  <2>4. r >= 1
    BY <1>0, <1>5, <2>2
  <2>5. z = r + 2
    BY <1>0, <1>5, <1>9, <1>12, <2>2
  <2>6. r \in 1..M
    BY <1>0, <2>2, <2>3, <2>4
  <2> QED
    BY <2>2, <2>5, <2>6
<1>14. z \in 1..(M + 2) /\ w[z] = "sp"
  <2>0. M \in Nat /\ M <= Cardinality(K) /\ Cardinality(K) \in Nat
    BY <1>0
  <2>1. z \in 1..(M + 2)
    BY ONLY <1>13, <2>0, r \in Nat
  <2>2. CASE r = M
    BY <1>13, <2>2
  <2>3. CASE r # M
    <3>1. r + 1 \in 1..M /\ (r + 1) + 1 = z /\ r + 1 \in 1..Cardinality(K)
      BY ONLY <1>13, <2>0, <2>3, r \in Nat
    <3>2. PICK c \in K : c = Nth(K, r + 1) /\ Rank(K, c) = r + 1
      BY <1>0, <3>1, NthRank
    <3>3. e \in K
      BY <1>5, <1>6
    <3>4. e < c /\ c \in 1..Len(text)
      <4>1. Rank(K, e) < Rank(K, c)
        BY <1>13, <3>2
      <4> QED
        BY ONLY <1>0, c \in K, <3>3, <4>1, RankSame, ZenonT(30)
    <3>5. e # Len(text) /\ e + 1 \in 1..Len(text) /\ e + 1 > 1 /\ (e + 1) - 1 = e
      BY <1>0, <1>5, <3>4
    <3>6. text[e] # "sp" /\ text[e + 1] = "sp"
      BY <1>4, <1>5, <3>5
    <3>7. e + 1 \in K
      BY <3>5, <3>6 DEF Left
    <3>8. Rank(K, e + 1) = r + 1
      BY <1>0, <1>5, <1>13, <3>7, RankStep
    <3>9. c = e + 1
      <4>1. Rank(K, c) = Rank(K, e + 1)
        BY <3>2, <3>8
      <4> QED
        BY <1>0, <3>2, <3>7, <4>1, RankSame
    <3>10. w[z] = text[c]
      BY <3>1, <3>2
    <3> QED
      BY <2>1, <3>6, <3>9, <3>10
  <2> QED
    BY <2>1, <2>2, <2>3
<1>15. z \in S
  BY <1>14 DEF Spaces
<1>16. x < z
  <2>1. x \in Nat
    BY <1>0, <1>7
  <2>2. z = x + len + 1
    BY <1>12
  <2> QED
    BY ONLY <2>1, <2>2, len \in Nat
<1>17. \A j \in S : x < j => z <= j
  <2> SUFFICES ASSUME NEW j \in S, x < j, j < z PROVE FALSE
    BY <1>2, <1>12
  <2>1. j \in Nat /\ w[j] = "sp"
    BY <1>2 DEF Spaces
  <2>2. PICK i \in 1..len : j = x + i
    <3>1. x \in Nat
      BY <1>0, <1>7
    <3>2. z = x + len + 1
      BY <1>12
    <3>3. j - x \in 1..len /\ j = x + (j - x)
      BY ONLY <3>1, <3>2, <2>1, len \in Nat, x < j, j < z, SMTT(30)
    <3> QED
      BY <3>3
  <2> QED
    BY <1>11, <2>1, <2>2
<1>18. Nth(S, n + 1) = z
  <2>1. n \in 1..Cardinality(S)
    BY <1>1, <1>2
  <2>2. M + 2 \in Nat
    BY <1>0
  <2>3. Nth(S, n) < z /\ \A j \in S : Nth(S, n) < j => z <= j
    BY <1>7, <1>16, <1>17
  <2> HIDE DEF S
  <2> QED
    BY <1>2, <1>15, <2>1, <2>2, <2>3, NthNext
<1>19. PICK A : A = WordsOf(text)[n]
  OBVIOUS
<1>20. A = SubSeq(text, b, e)
  BY <1>3, <1>4, <1>19 DEF WordsOf
<1>21. A \in Text /\ Len(A) = len /\ \A j \in 1..len : A[j] = text[(b + j) - 1]
  <2>1. /\ SubSeq(text, b, e) \in Text
        /\ Len(SubSeq(text, b, e)) = (e - b) + 1
        /\ \A j \in 1..((e - b) + 1) : SubSeq(text, b, e)[j] = text[(b + j) - 1]
    BY <1>4, Sliced
  <2> QED
    BY <1>9, <1>20, <2>1
<1>22. x \in Nat \ {0} /\ w[x] = "sp"
  <2>1. x \in Nat \ {0}
    BY <1>0
  <2>2. n \in 1..Cardinality(S) /\ M + 2 \in Nat
    BY <1>0, <1>1, <1>2
  <2>3. Nth(S, n) \in S
    BY <1>2, <2>2, NthRank
  <2> QED
    BY <1>7, <2>1, <2>3 DEF Spaces
<1> QED
  BY <1>7, <1>9, <1>11, <1>12, <1>14, <1>18, <1>19, <1>21, <1>22 DEF Between

-----------------------------------------------------------------------------
(* Pairs of words. *)

\* F is what w holds from position x on.
Piece(w, x, F) ==
  /\ F \in Text /\ x \in Nat \ {0} /\ x + Len(F) <= Len(w) + 1
  /\ \A j \in 1..Len(F) : w[(x + j) - 1] = F[j]

\* Pieces next to each other are one piece.
LEMMA PieceConcat ==
  ASSUME NEW w \in Text, NEW x, NEW F, NEW G, NEW y,
         Piece(w, x, F), Piece(w, y, G), y = x + Len(F)
  PROVE  Piece(w, x, F \o G) /\ Len(F \o G) = Len(F) + Len(G)
<1>1. /\ F \in Seq(Symbol) /\ G \in Seq(Symbol) /\ x \in Nat \ {0} /\ y \in Nat
      /\ y + Len(G) <= Len(w) + 1
  BY DEF Piece, Text
<1>2. PICK m \in Nat, n \in Nat : m = Len(F) /\ n = Len(G)
  BY <1>1
<1>3. /\ F \o G \in Seq(Symbol) /\ Len(F \o G) = m + n
      /\ \A i \in 1..(m + n) : (F \o G)[i] = IF i <= m THEN F[i] ELSE G[i - m]
  BY <1>1, <1>2, ConcatProperties
<1>4. x + (m + n) <= Len(w) + 1
  BY <1>1, <1>2
<1>5. ASSUME NEW j \in 1..(m + n) PROVE w[(x + j) - 1] = (F \o G)[j]
  <2>1. CASE j <= m
    <3>1. j \in 1..m
      BY <2>1
    <3> QED
      BY <1>2, <1>3, <2>1, <3>1 DEF Piece
  <2>2. CASE ~(j <= m)
    <3>1. PICK i \in 1..n : i = j - m /\ (x + j) - 1 = (y + i) - 1
      <4>1. j - m \in 1..n /\ (x + j) - 1 = (y + (j - m)) - 1
        BY <1>1, <1>2, <2>2
      <4> QED
        BY <4>1
    <3>2. w[(y + i) - 1] = G[i]
      BY <1>2 DEF Piece
    <3> QED
      BY <1>3, <2>2, <3>1, <3>2
  <2> QED
    BY <2>1, <2>2
<1> QED
  BY <1>1, <1>2, <1>3, <1>4, <1>5 DEF Piece, Text

\* A piece is what is cut out at its place.
LEMMA PieceIs ==
  ASSUME NEW w \in Text, NEW x, NEW F, NEW z, Piece(w, x, F), Len(F) >= 1, z = (x + Len(F)) - 1
  PROVE  SubSeq(w, x, z) = F
<1>1. /\ w \in Seq(Symbol) /\ F \in Seq(Symbol) /\ x \in Nat \ {0} /\ x + Len(F) <= Len(w) + 1
  BY DEF Piece, Text
<1>2. PICK m \in Nat, n \in Nat : m = Len(F) /\ n = Len(w)
  BY <1>1
<1>3. x \in 1..n /\ z \in x..n /\ (z - x) + 1 = m
  BY <1>1, <1>2
<1>4. PICK C \in Text : C = SubSeq(w, x, z) /\ Len(C) = m
                        /\ \A j \in 1..m : C[j] = w[(x + j) - 1]
  <2>1. x \in 1..Len(w) /\ z \in x..Len(w)
    BY <1>2, <1>3
  <2>2. /\ SubSeq(w, x, z) \in Text
        /\ Len(SubSeq(w, x, z)) = (z - x) + 1
        /\ \A j \in 1..((z - x) + 1) : SubSeq(w, x, z)[j] = w[(x + j) - 1]
    BY <2>1, Sliced
  <2> QED
    BY <1>3, <2>2
<1>5. \A j \in 1..m : C[j] = F[j]
  BY <1>2, <1>4 DEF Piece
<1>6. C \in Seq(Symbol)
  BY <1>4 DEF Text
<1>7. C = F
  BY <1>1, <1>2, <1>4, <1>5, <1>6, SeqEqual
<1> QED
  BY <1>4, <1>7

PairOf(A, B) == <<"sp">> \o A \o <<"sp">> \o B \o <<"sp">>

\* Two words between spaces, looked up together.
LEMMA PairBetween ==
  ASSUME NEW w \in Text, NEW x, NEW y, NEW z, NEW A \in Text, NEW B \in Text,
         Between(w, x, y, A), Between(w, y, z, B)
  PROVE  /\ SubSeq(w, x, z) = PairOf(A, B)
         /\ Len(PairOf(A, B)) = Len(A) + Len(B) + 3
<1>1. PICK sp \in Text : sp = <<"sp">> /\ Len(sp) = 1 /\ sp[1] = "sp"
  <2>1. "sp" \in Symbol
    BY DEF Symbol
  <2>2. <<"sp">> \in Seq(Symbol)
    BY <2>1
  <2> QED
    BY <2>2 DEF Text
<1>2. PICK a \in Nat, b \in Nat, n \in Nat : a = Len(A) /\ b = Len(B) /\ n = Len(w)
  BY DEF Text
<1>3. /\ x \in Nat \ {0} /\ y = x + a + 1 /\ y <= n
      /\ w[x] = "sp" /\ w[y] = "sp" /\ \A j \in 1..a : w[x + j] = A[j]
      /\ y \in Nat \ {0} /\ z = y + b + 1 /\ z <= n
      /\ w[z] = "sp" /\ \A j \in 1..b : w[y + j] = B[j]
  BY <1>2 DEF Between
<1>4. z \in Nat \ {0}
  BY <1>2, <1>3
<1>5. \A v \in Nat \ {0} : v <= n /\ w[v] = "sp" => Piece(w, v, sp)
  <2> SUFFICES ASSUME NEW v \in Nat \ {0}, v <= n, w[v] = "sp" PROVE Piece(w, v, sp)
    OBVIOUS
  <2>1. v + 1 <= n + 1 /\ (v + 1) - 1 = v
    BY <1>2
  <2> QED
    BY <1>1, <1>2, <2>1 DEF Piece
<1>6. Piece(w, x, sp) /\ Piece(w, y, sp) /\ Piece(w, z, sp)
  BY <1>2, <1>3, <1>4, <1>5
<1>7. Piece(w, x + 1, A)
  <2>1. \A j \in 1..a : ((x + 1) + j) - 1 = x + j
    BY <1>2, <1>3
  <2>2. x + 1 \in Nat \ {0} /\ (x + 1) + a <= n + 1
    BY <1>2, <1>3
  <2> QED
    BY <1>2, <1>3, <2>1, <2>2 DEF Piece
<1>8. Piece(w, y + 1, B)
  <2>1. \A j \in 1..b : ((y + 1) + j) - 1 = y + j
    BY <1>2, <1>3
  <2>2. y + 1 \in Nat \ {0} /\ (y + 1) + b <= n + 1
    BY <1>2, <1>3
  <2> QED
    BY <1>2, <1>3, <2>1, <2>2 DEF Piece
<1>9. PICK F1 : F1 = sp \o A /\ Piece(w, x, F1) /\ Len(F1) = a + 1
  <2>1. x + 1 = x + Len(sp) /\ Len(sp) + a = a + 1
    BY <1>1, <1>2
  <2>2. Piece(w, x, sp \o A) /\ Len(sp \o A) = a + 1
    BY <1>2, <1>6, <1>7, <2>1, PieceConcat
  <2> QED
    BY <2>2
<1>10. PICK F2 : F2 = F1 \o sp /\ Piece(w, x, F2) /\ Len(F2) = a + 2
  <2>1. y = x + Len(F1) /\ Len(F1) + Len(sp) = a + 2
    BY <1>1, <1>2, <1>3, <1>9
  <2>2. Piece(w, x, F1 \o sp) /\ Len(F1 \o sp) = a + 2
    <3>1. Piece(w, x, F1) /\ Piece(w, y, sp) /\ y = x + Len(F1)
      BY <1>6, <1>9, <2>1
    <3>2. Piece(w, x, F1 \o sp) /\ Len(F1 \o sp) = Len(F1) + Len(sp)
      BY ONLY <3>1, PieceConcat, w \in Text
    <3> QED
      BY <2>1, <3>2
  <2> QED
    BY <2>2
<1>11. PICK F3 : F3 = F2 \o B /\ Piece(w, x, F3) /\ Len(F3) = a + 2 + b
  <2>1. y + 1 = x + Len(F2) /\ Len(F2) + Len(B) = a + 2 + b
    BY <1>2, <1>3, <1>10
  <2>2. Piece(w, x, F2 \o B) /\ Len(F2 \o B) = a + 2 + b
    <3>1. Piece(w, x, F2) /\ Piece(w, y + 1, B) /\ y + 1 = x + Len(F2)
      BY <1>8, <1>10, <2>1
    <3>2. Piece(w, x, F2 \o B) /\ Len(F2 \o B) = Len(F2) + Len(B)
      BY ONLY <3>1, PieceConcat, w \in Text
    <3> QED
      BY <2>1, <3>2
  <2> QED
    BY <2>2
<1>12. PICK F4 : F4 = F3 \o sp /\ Piece(w, x, F4) /\ Len(F4) = a + b + 3
  <2>1. z = x + Len(F3) /\ Len(F3) + Len(sp) = a + b + 3
    BY <1>1, <1>2, <1>3, <1>11
  <2>2. Piece(w, x, F3 \o sp) /\ Len(F3 \o sp) = a + b + 3
    <3>1. Piece(w, x, F3) /\ Piece(w, z, sp) /\ z = x + Len(F3)
      BY <1>6, <1>11, <2>1
    <3>2. Piece(w, x, F3 \o sp) /\ Len(F3 \o sp) = Len(F3) + Len(sp)
      BY ONLY <3>1, PieceConcat, w \in Text
    <3> QED
      BY <2>1, <3>2
  <2> QED
    BY <2>2
<1>13. Len(F4) >= 1 /\ z = (x + Len(F4)) - 1
  BY <1>2, <1>3, <1>12
<1>14. SubSeq(w, x, z) = F4 /\ F4 \in Text
  BY <1>12, <1>13, PieceIs DEF Piece
<1>15. F4 = PairOf(A, B)
  BY <1>1, <1>9, <1>10, <1>11, <1>12 DEF PairOf
<1> QED
  BY <1>2, <1>12, <1>14, <1>15

\* The pairs looked up are the first pairs of neighbouring words.
LEMMA PairsAre ==
  ASSUME NEW text \in Text, HasWord(text)
  PROVE  LET w == Delimited(text)
             ws == WordsOf(text)
         IN /\ GramCount(w) \in 0..SplitLimit
            /\ GramCount(w) = Least(SplitLimit, Len(ws) - 1)
            /\ GramsIn(w) = {<<"sp">> \o ws[i] \o <<"sp">> \o ws[i + 1] \o <<"sp">> :
                               i \in 1..GramCount(w)}
            /\ \A g \in GramsIn(w) : Len(g) >= 5
            /\ Cardinality(GramsIn(w)) <= GramCount(w)
<1>0. SplitLimit \in Nat \ {0}
  BY LanguageAssumption
<1>1. PICK w \in Text : w = Delimited(text)
  BY DelimitedFacts
<1>2. PICK ws : ws = WordsOf(text)
  OBVIOUS
<1>3. PICK M \in 1..Cardinality(Left(text)) :
        /\ Len(w) = M + 2 /\ w[1] = "sp" /\ w[M + 1] # "sp" /\ w[M + 2] = "sp"
        /\ \A k \in 1..M : w[k + 1] = text[Nth(Left(text), k)]
        /\ \A i \in Left(text) : text[i] # "sp" => Rank(Left(text), i) <= M
  BY <1>1, DelimitedFacts
<1>4. PICK m \in Nat \ {0} : m = Cardinality(Begins(text)) /\ Cardinality(Spaces(w)) = m + 1
  BY <1>3, SpacesAre
<1>5. Len(ws) = m
  BY <1>2, <1>4 DEF WordsOf
<1>6. PICK c : c = GramCount(w)
  OBVIOUS
<1>7. c \in 0..SplitLimit /\ c = Least(SplitLimit, m - 1) /\ c <= m - 1
  BY <1>0, <1>4, <1>6 DEF GramCount, Least
<1>8. c \in Nat
  BY <1>0, <1>7
<1>9. \A n \in 1..m : /\ ws[n] \in Text /\ Len(ws[n]) >= 1
                      /\ Between(w, Nth(Spaces(w), n), Nth(Spaces(w), n + 1), ws[n])
  BY <1>2, <1>3, <1>4, WordBetween
<1> DEFINE Pair(i) == <<"sp">> \o ws[i] \o <<"sp">> \o ws[i + 1] \o <<"sp">>
           Cut(i) == SubSeq(w, Nth(Spaces(w), i), Nth(Spaces(w), i + 2))
<1>10. \A i \in 1..c : Cut(i) = Pair(i) /\ Len(Pair(i)) >= 5
  <2> SUFFICES ASSUME NEW i \in 1..c PROVE Cut(i) = Pair(i) /\ Len(Pair(i)) >= 5
    OBVIOUS
  <2>1. i \in 1..m /\ i + 1 \in 1..m /\ (i + 1) + 1 = i + 2
    BY <1>7, <1>8
  <2>2. PICK A \in Text, B \in Text : A = ws[i] /\ B = ws[i + 1] /\ Len(A) >= 1 /\ Len(B) >= 1
    BY <1>9, <2>1
  <2>3. PICK x, y, z :
          /\ x = Nth(Spaces(w), i) /\ y = Nth(Spaces(w), i + 1) /\ z = Nth(Spaces(w), i + 2)
          /\ Between(w, x, y, A) /\ Between(w, y, z, B)
    BY <1>9, <2>1, <2>2
  <2>4. PICK pair : pair = <<"sp">> \o A \o <<"sp">> \o B \o <<"sp">>
    OBVIOUS
  <2>5. Cut(i) = pair /\ Len(pair) = Len(A) + Len(B) + 3
    <3>1. Between(w, x, y, A) /\ Between(w, y, z, B)
      BY <2>3
    <3>2. SubSeq(w, x, z) = PairOf(A, B) /\ Len(PairOf(A, B)) = Len(A) + Len(B) + 3
      BY <3>1, PairBetween
    <3> QED
      BY <2>3, <2>4, <3>2 DEF PairOf
  <2>6. Pair(i) = pair
    BY <2>2, <2>4
  <2>7. Len(A) \in Nat /\ Len(B) \in Nat
    BY DEF Text
  <2>8. Len(pair) >= 5
    <3>1. \A a, b \in Nat : a >= 1 /\ b >= 1 => a + b + 3 >= 5
      OBVIOUS
    <3>2. Len(A) + Len(B) + 3 >= 5
      BY <2>2, <2>7, <3>1
    <3> QED
      BY <2>5, <3>2
  <2> QED
    BY <2>5, <2>6, <2>8
<1>11. GramsIn(w) = {Cut(i) : i \in 1..c}
  BY <1>6 DEF GramsIn
<1> HIDE DEF Pair, Cut
<1>12. GramsIn(w) = {Pair(i) : i \in 1..c}
  BY <1>10, <1>11
<1>13. Cardinality(GramsIn(w)) <= c
  <2>1. [i \in 1..c |-> Pair(i)] \in Surjection(1..c, GramsIn(w))
    BY <1>12 DEF Surjection
  <2>2. IsFiniteSet(1..c) /\ Cardinality(1..c) = c
    BY <1>8, FS_Interval
  <2> QED
    BY <2>1, <2>2, FS_Surjection
<1>14. \A g \in GramsIn(w) : Len(g) >= 5
  BY <1>10, <1>12
<1> QED
  BY <1>1, <1>2, <1>5, <1>6, <1>7, <1>12, <1>13, <1>14 DEF Pair

-----------------------------------------------------------------------------
(* What the calls leave out of a text. *)

\* None of the symbols of X is in the text.
Free(text, X) == \A i \in 1..Len(text) : text[i] \notin X

\* A copy holds what is copied.
LEMMA CopyFree ==
  ASSUME NEW text \in Text, NEW S \in SUBSET (1..Len(text)), NEW X,
         \A i \in S : text[i] \notin X
  PROVE  Copy(text, S) \in Text /\ Free(Copy(text, S), X)
<1>1. PICK c \in Text : c = Copy(text, S)
  BY CopyFacts
<1>2. \A k \in 1..Len(c) : Nth(S, k) \in S /\ c[k] = text[Nth(S, k)]
  BY <1>1, CopyFacts
<1> QED
  BY <1>1, <1>2 DEF Free

\* strip_tags leaves no < or >.
LEMMA TagsFree ==
  ASSUME NEW text \in Text
  PROVE  StripTags(text) \in Text /\ Free(StripTags(text), {"<", ">"})
<1> DEFINE t == [i \in 1..Len(text) |-> IF text[i] = ">" THEN "sp" ELSE text[i]]
<1>1. Len(text) \in Nat /\ \A i \in 1..Len(text) : text[i] \in Symbol
  BY DEF Text
<1>2. t \in [1..Len(text) -> Symbol]
  BY <1>1 DEF Symbol
<1>3. t \in Text /\ Len(t) = Len(text)
  BY <1>1, <1>2 DEF Text
<1>4. Unindented(text) \in SUBSET (1..Len(text))
  BY DEF Unindented, Untagged
<1>5. \A i \in Unindented(text) : t[i] \notin {"<", ">"}
  BY <1>4 DEF Unindented, Untagged
<1>6. StripTags(text) = Copy(t, Unindented(text))
  BY DEF StripTags
<1> HIDE DEF t
<1> QED
  BY <1>3, <1>4, <1>5, <1>6, CopyFree

\* strip_urls and strip_chars leave no URL and no mark, and bring in nothing.
LEMMA StripFree ==
  ASSUME NEW text \in Text
  PROVE  LET t == WithoutMarks(StripUrls(text))
         IN t \in Text /\ Free(t, {"url", "1"}) /\ \A X : Free(text, X) => Free(t, X)
<1> DEFINE U == {i \in 1..Len(text) : ~InUrl(text, i)}
<1>1. U \in SUBSET (1..Len(text))
  OBVIOUS
<1>2. \A i \in U : text[i] \notin {"url"}
  <2> SUFFICES ASSUME NEW i \in 1..Len(text), text[i] = "url" PROVE InUrl(text, i)
    OBVIOUS
  <2>1. i \in 1..i /\ \A k \in i..i : k = i
    BY DEF Text
  <2> QED
    BY <2>1 DEF InUrl
<1>3. PICK u \in Text : u = StripUrls(text)
  BY <1>1, CopyFacts DEF StripUrls
<1>4. Free(u, {"url"})
  BY <1>1, <1>2, <1>3, CopyFree DEF StripUrls
<1>5. ASSUME NEW X, Free(text, X) PROVE Free(u, X)
  <2>1. \A i \in U : text[i] \notin X
    BY <1>5 DEF Free
  <2> QED
    BY <1>1, <1>3, <2>1, CopyFree DEF StripUrls
<1> DEFINE W == {i \in 1..Len(u) : u[i] \notin {"1"}}
<1>6. W \in SUBSET (1..Len(u))
  OBVIOUS
<1>7. PICK t \in Text : t = WithoutMarks(u) /\ t = Copy(u, W)
  BY <1>6, CopyFacts DEF WithoutMarks, Without
<1> HIDE DEF U
<1>8. ASSUME NEW X, Free(u, X) PROVE Free(t, X)
  <2>1. \A i \in W : u[i] \notin X
    BY <1>8 DEF Free
  <2> QED
    BY <1>6, <1>7, <2>1, CopyFree
<1>9. Free(t, {"1"})
  <2>1. \A i \in W : u[i] \notin {"1"}
    OBVIOUS
  <2> QED
    BY <1>6, <1>7, <2>1, CopyFree
<1>10. Free(t, {"url", "1"})
  BY <1>4, <1>8, <1>9 DEF Free
<1> QED
  BY <1>3, <1>5, <1>7, <1>8, <1>10

\* Nothing is left of an empty text.
LEMMA EmptyText ==
  /\ \A text : Copy(text, {}) = <<>>
  /\ \A X : Without(<<>>, X) = <<>>
  /\ ByteLen(<<>>) = 0
<1>1. Cardinality({}) = 0 /\ 1..0 = {} /\ Len(<<>>) = 0
  BY FS_EmptySet
<1>2. ASSUME NEW text PROVE Copy(text, {}) = <<>>
  BY <1>1 DEF Copy
<1>3. ASSUME NEW X PROVE Without(<<>>, X) = <<>>
  <2>1. {i \in 1..Len(<<>>) : <<>>[i] \notin X} = {}
    BY <1>1
  <2> QED
    BY <1>2, <2>1 DEF Without
<1>4. ByteLen(<<>>) = 0
  <2>1. {i \in 1..Len(<<>>) : <<>>[i] \in {"r", "o"}} = {}
    BY <1>1
  <2> QED
    BY <1>1, <2>1 DEF ByteLen
<1> QED
  BY <1>2, <1>3, <1>4

\* A text of which letters of an alphabet are more than half has a word.
LEMMA MajorityHasWord ==
  ASSUME NEW text \in Text, NEW alphabet,
         2 * Kept(Without(text, {"sp"}), alphabet) > ByteLen(Without(text, {"sp"}))
  PROVE  HasWord(text)
<1> SUFFICES ASSUME ~HasWord(text) PROVE FALSE
  OBVIOUS
<1>1. {i \in 1..Len(text) : text[i] \notin {"sp"}} = {}
  BY DEF HasWord
<1>2. Without(text, {"sp"}) = <<>>
  BY <1>1, EmptyText DEF Without
<1>3. Kept(<<>>, alphabet) = 0
  BY EmptyText DEF Kept
<1> QED
  BY <1>2, <1>3, EmptyText

-----------------------------------------------------------------------------
(* The detector, call by call. *)

\* What every step preserves: what the calls made so far have left out of the
\* text, that it has a word when it is collapsed, and what was made of it then.
LangInv ==
  /\ TypeOK
  /\ lowest >= 1
  /\ stage \in {"normalize", "strip", "classify", "collapse"} => Free(target, {"<", ">"})
  /\ stage \in {"strip", "classify", "collapse"} => Free(target, {"bad", "E"})
  /\ stage \in {"classify", "collapse"} => Free(target, {"1", "url"})
  /\ stage \in {"collapse", "split", "find"} => HasWord(target)
  /\ stage \in {"split", "find"} => words = Delimited(target)
  /\ stage = "find" => grams = GramsIn(words) /\ count = GramCount(words)

\* The symbols of a text, as the type invariant names them.
LEMMA FreeToSet ==
  ASSUME NEW t \in Text, NEW X
  PROVE  Free(t, X) <=> ToSet(t) \cap X = {}
<1>1. DOMAIN t = 1..Len(t)
  BY DEF Text
<1> QED
  BY <1>1 DEF Free, ToSet

\* collapse_whitespace brings in nothing but spaces, and never trims down to
\* the space in front.
LEMMA DelimitedFree ==
  ASSUME NEW text \in Text, HasWord(text), NEW X, "sp" \notin X, Free(text, X)
  PROVE  /\ Delimited(text) \in Seq(Symbol \ X)
         /\ TrimmedTo(Collapsed(text)) \in Nat /\ TrimmedTo(Collapsed(text)) >= 1
<1>1. PICK d \in Text : d = Delimited(text)
  BY DelimitedFacts
<1>2. PICK c \in Nat : c = Cardinality(Left(text))
  BY CollapsedFacts
<1>3. PICK M \in 1..c :
        /\ TrimmedTo(Collapsed(text)) = M + 1
        /\ Len(d) = M + 2 /\ d[1] = "sp" /\ d[M + 2] = "sp"
        /\ \A k \in 1..M : d[k + 1] = text[Nth(Left(text), k)]
  BY <1>1, <1>2, DelimitedFacts
<1>4. \A k \in 1..M : Nth(Left(text), k) \in 1..Len(text)
  <2>1. Left(text) \in SUBSET (1..Len(text))
    BY CollapsedFacts
  <2>2. \A k \in 1..c : Nth(Left(text), k) \in Left(text)
    BY <1>2, <2>1, CopyFacts
  <2>3. \A k \in 1..M : k \in 1..c
    BY <1>2, <1>3
  <2> QED
    BY <2>1, <2>2, <2>3
<1>5. \A k \in 1..M : d[k + 1] \notin X
  BY <1>3, <1>4 DEF Free
<1>6. \A i \in 1..Len(d) : d[i] \in Symbol \ X
  <2> SUFFICES ASSUME NEW i \in 1..Len(d) PROVE d[i] \in Symbol \ X
    OBVIOUS
  <2>1. d[i] \in Symbol
    BY DEF Text
  <2>2. i = 1 \/ i = M + 2 \/ (i - 1 \in 1..M /\ (i - 1) + 1 = i)
    BY <1>2, <1>3
  <2>3. ASSUME i - 1 \in 1..M, (i - 1) + 1 = i PROVE d[i] \notin X
    BY <1>5, <2>3
  <2> QED
    BY <1>3, <2>1, <2>2, <2>3
<1>7. d \in Seq(Symbol \ X)
  <2>1. d \in [1..Len(d) -> Symbol \ X] /\ Len(d) \in Nat
    BY <1>1, <1>6 DEF Text
  <2> QED
    BY <2>1
<1>8. M + 1 \in Nat /\ M + 1 >= 1
  BY <1>2, <1>3
<1> QED
  BY <1>1, <1>3, <1>7, <1>8

\* It holds at first.
LEMMA LangInit == Init => LangInv
<1> SUFFICES ASSUME Init PROVE LangInv
  OBVIOUS
<1>1. content \in Seq(Symbol) /\ target \in Seq(Symbol)
  BY LanguageAssumption DEF Init
<1>2. <<>> \in Seq(Symbol \ {"1", "<", ">", "url", "bad"})
  OBVIOUS
<1>3. grams = {} /\ count = 0 /\ Cardinality({}) = 0 /\ 0 \in 0..SplitLimit
  BY LanguageAssumption, FS_EmptySet DEF Init
<1>4. words \in Seq(Symbol \ {"1", "<", ">", "url", "bad"})
  BY <1>2 DEF Init
<1>5. stage = "clean" /\ isLatin = FALSE /\ lowest = 1 /\ language = "none"
  BY DEF Init
<1>6. Cardinality(grams) <= count /\ count \in 0..SplitLimit
  <2>1. Cardinality(grams) = 0 /\ count = 0
    BY <1>3
  <2> QED
    BY <1>3, <2>1
<1>7. \A g \in grams : Len(g) >= 5
  BY <1>3
<1>8. TypeOK
  BY <1>1, <1>4, <1>5, <1>6, <1>7 DEF TypeOK
<1> QED
  BY <1>5, <1>8 DEF LangInv

\* strip_tags leaves no < and no >.
LEMMA CleanStep == LangInv /\ Clean => LangInv'
<1> SUFFICES ASSUME LangInv, Clean PROVE LangInv'
  OBVIOUS
<1>1. PICK t \in Text : t = StripTags(target) /\ Free(t, {"<", ">"})
  BY TagsFree DEF LangInv, TypeOK, Text
<1>2. target' = t /\ stage' = "normalize"
  BY <1>1 DEF Clean
<1>3. TypeOK'
  BY <1>2 DEF LangInv, TypeOK, Clean, Text
<1> QED
  BY <1>1, <1>2, <1>3 DEF LangInv, Clean

\* normalize leaves no capital, and raises when the text is not UTF-8.
LEMMA NormalizeStep == LangInv /\ Normalize => LangInv'
<1> SUFFICES ASSUME LangInv, Normalize PROVE LangInv'
  OBVIOUS
<1>1. target \in Text /\ Len(target) \in Nat /\ \A i \in 1..Len(target) : target[i] \in Symbol
  BY DEF LangInv, TypeOK, Text
<1>2. PICK t \in Text :
        /\ t = [i \in 1..Len(target) |-> IF target[i] = "E" THEN "e" ELSE target[i]]
        /\ Len(t) = Len(target)
  <2> DEFINE f == [i \in 1..Len(target) |-> IF target[i] = "E" THEN "e" ELSE target[i]]
  <2>1. f \in [1..Len(target) -> Symbol]
    BY <1>1 DEF Symbol
  <2>2. f \in Text /\ Len(f) = Len(target)
    BY <1>1, <2>1 DEF Text
  <2> QED
    BY <2>2
<1>3. target' = t
  BY <1>2 DEF Normalize
<1>4. stage = "normalize" /\ Free(target, {"<", ">"})
  BY DEF LangInv, Normalize
<1>5. Free(t, {"<", ">"})
  BY <1>2, <1>4 DEF Free
<1>6. stage' \in {"raised", "strip"}
  BY DEF Normalize
<1>7. stage' = "strip" => Free(t, {"bad", "E"})
  <2> SUFFICES ASSUME stage' = "strip" PROVE Free(t, {"bad", "E"})
    OBVIOUS
  <2>1. "bad" \notin ToSet(target)
    BY DEF Normalize
  <2>2. ToSet(target) \cap {"bad"} = {}
    BY <2>1
  <2>3. Free(target, {"bad"})
    BY <1>1, <2>2, FreeToSet
  <2> QED
    BY <1>2, <2>3 DEF Free
<1>8. stage' = "strip" => ToSet(t) \cap {"<", ">", "bad", "E"} = {}
  <2>1. stage' = "strip" => Free(t, {"<", ">", "bad", "E"})
    BY <1>5, <1>7 DEF Free
  <2> QED
    BY <2>1, FreeToSet
<1>9. TypeOK'
  BY <1>3, <1>6, <1>8 DEF LangInv, TypeOK, Normalize, Text
<1> QED
  BY <1>3, <1>5, <1>6, <1>7, <1>9 DEF LangInv, Normalize

\* strip_urls and strip_chars leave no URL and no mark.
LEMMA StripStep == LangInv /\ Strip => LangInv'
<1> SUFFICES ASSUME LangInv, Strip PROVE LangInv'
  OBVIOUS
<1>1. target \in Text /\ Free(target, {"<", ">"}) /\ Free(target, {"bad", "E"})
  BY DEF LangInv, TypeOK, Strip, Text
<1>2. PICK t \in Text :
        /\ t = WithoutMarks(StripUrls(target))
        /\ Free(t, {"url", "1"}) /\ \A X : Free(target, X) => Free(t, X)
  BY <1>1, StripFree
<1>3. target' = t /\ stage' = "classify"
  BY <1>2 DEF Strip
<1>4. Free(t, {"<", ">"}) /\ Free(t, {"bad", "E"})
  BY <1>1, <1>2
<1>5. Free(t, {"1", "url"}) /\ Free(t, {"<", ">", "bad", "E"})
  BY <1>2, <1>4 DEF Free
<1>6. ToSet(t) \cap {"<", ">", "bad", "E"} = {}
  BY <1>5, FreeToSet
<1>7. TypeOK'
  BY <1>3, <1>6 DEF LangInv, TypeOK, Strip, Text
<1> QED
  BY <1>3, <1>4, <1>5, <1>7 DEF LangInv, Strip

\* A text of which most letters are of one alphabet has a word.
LEMMA ClassifyStep == LangInv /\ Classify => LangInv'
<1> SUFFICES ASSUME LangInv, Classify PROVE LangInv'
  OBVIOUS
<1>1. target \in Text /\ stage = "classify"
  BY DEF LangInv, TypeOK, Classify, Text
<1>2. PICK letters : letters = Without(target, {"sp"})
  OBVIOUS
<1>3. /\ isLatin' = (2 * Kept(letters, {"e"}) > ByteLen(letters))
      /\ stage' = IF isLatin' \/ 2 * Kept(letters, {"r"}) > ByteLen(letters)
                  THEN "collapse" ELSE "done"
      /\ UNCHANGED <<content, target, lowest, words, grams, count, language>>
  BY <1>2 DEF Classify
<1>4. isLatin' \in BOOLEAN /\ stage' \in {"collapse", "done"}
  BY <1>3
<1>5. stage' = "collapse" => HasWord(target)
  BY <1>1, <1>2, <1>3, MajorityHasWord
<1>6. TypeOK'
  BY <1>3, <1>4 DEF LangInv, TypeOK
<1> QED
  BY <1>1, <1>3, <1>4, <1>5, <1>6 DEF LangInv, HasWord

\* collapse_whitespace of a text that has a word stays in its buffer.
LEMMA CollapseStep == LangInv /\ Collapse => LangInv'
<1> SUFFICES ASSUME LangInv, Collapse PROVE LangInv'
  OBVIOUS
<1>1. /\ target \in Text /\ HasWord(target)
      /\ Free(target, {"<", ">"}) /\ Free(target, {"bad", "E"}) /\ Free(target, {"1", "url"})
  BY DEF LangInv, TypeOK, Collapse, Text
<1>2. Free(target, {"1", "<", ">", "url", "bad"})
  BY <1>1 DEF Free
<1>3. /\ Delimited(target) \in Seq(Symbol \ {"1", "<", ">", "url", "bad"})
      /\ TrimmedTo(Collapsed(target)) \in Nat /\ TrimmedTo(Collapsed(target)) >= 1
  BY <1>1, <1>2, DelimitedFree
<1>4. /\ lowest' = TrimmedTo(Collapsed(target)) /\ words' = Delimited(target)
      /\ stage' = IF lowest' = 0 THEN "undefined" ELSE "split"
      /\ UNCHANGED <<content, target, isLatin, grams, count, language>>
  BY DEF Collapse, Delimited
<1>5. stage' = "split"
  BY <1>3, <1>4
<1>6. TypeOK'
  BY <1>3, <1>4, <1>5 DEF LangInv, TypeOK
<1> QED
  BY <1>1, <1>3, <1>4, <1>5, <1>6 DEF LangInv, HasWord

\* split_2grams takes the pairs from the words.
LEMMA SplitStep == LangInv /\ Split => LangInv'
<1> SUFFICES ASSUME LangInv, Split PROVE LangInv'
  OBVIOUS
<1>1. target \in Text /\ HasWord(target) /\ words = Delimited(target)
  BY DEF LangInv, TypeOK, Split, Text
<1>2. /\ GramCount(words) \in 0..SplitLimit
      /\ \A g \in GramsIn(words) : Len(g) >= 5
      /\ Cardinality(GramsIn(words)) <= GramCount(words)
  BY <1>1, PairsAre
<1>3. /\ grams' = GramsIn(words) /\ count' = GramCount(words) /\ stage' = "find"
      /\ UNCHANGED <<content, target, isLatin, lowest, words, language>>
  BY DEF Split
<1>4. TypeOK'
  BY <1>2, <1>3 DEF LangInv, TypeOK
<1>5. HasWord(target') /\ words' = Delimited(target')
  BY <1>1, <1>3
<1>6. grams' = GramsIn(words') /\ count' = GramCount(words')
  BY <1>3
<1> QED
  BY <1>3, <1>4, <1>5, <1>6 DEF LangInv

\* find_2grams decides.
LEMMA FindStep == LangInv /\ Find => LangInv'
<1> SUFFICES ASSUME LangInv, Find PROVE LangInv'
  OBVIOUS
<1>1. /\ stage' = "done" /\ language' \in {"en", "ru", "none"}
      /\ UNCHANGED <<content, target, isLatin, lowest, words, grams, count>>
  BY DEF Find
<1>2. TypeOK'
  BY <1>1 DEF LangInv, TypeOK
<1> QED
  BY <1>1, <1>2 DEF LangInv

\* Every step preserves it.
LEMMA LangNext == LangInv /\ [Next]_vars => LangInv'
<1> SUFFICES ASSUME LangInv, [Next]_vars PROVE LangInv'
  OBVIOUS
<1>1. CASE UNCHANGED vars
  BY <1>1 DEF vars, LangInv, TypeOK
<1> QED
  BY <1>1, CleanStep, NormalizeStep, StripStep, ClassifyStep, CollapseStep, SplitStep, FindStep
     DEF Next

-----------------------------------------------------------------------------
(* What it gives. *)

\* The detector keeps to its types: past normalize its text has no capital, no
\* tag and no broken byte, the pairs are made of what no call was to remove, and
\* no more are looked up than the limit.
THEOREM TextTypes == Spec => []TypeOK
<1>1. LangInv => TypeOK
  BY DEF LangInv
<1> QED
  BY <1>1, LangInit, LangNext, PTL DEF Spec

\* ReadsInside holds: collapse_whitespace, which trims backwards without a lower
\* bound, is never called by the detector with a text of spaces only.
THEOREM StaysInBuffer == Spec => []ReadsInside
<1>1. LangInv => ReadsInside
  BY DEF LangInv, ReadsInside
<1> QED
  BY <1>1, LangInit, LangNext, PTL DEF Spec

\* GramsOfTheText holds: the pairs that split_2grams takes from one pass over
\* the spaces are exactly the first neighbouring words of the text.
THEOREM GramsAreRight == Spec => []GramsOfTheText
<1>1. LangInv => GramsOfTheText
  <2> SUFFICES ASSUME LangInv, stage = "find" PROVE GramsOfTheText
    BY DEF GramsOfTheText
  <2>1. target \in Text /\ HasWord(target) /\ words = Delimited(target)
    BY DEF LangInv, TypeOK, Text
  <2>2. grams = GramsIn(words) /\ count = GramCount(words)
    BY DEF LangInv
  <2> QED
    BY <2>1, <2>2, PairsAre DEF GramsOfTheText
<1> QED
  BY <1>1, LangInit, LangNext, PTL DEF Spec

=============================================================================
