----------------------- MODULE GamsTextGeneration_proofs -----------------------
(***************************************************************************)
(* Proofs about GamsTextGeneration for any number of cells and shards, any *)
(* limits, batch sizes and numbers of faults.                              *)
(***************************************************************************)
EXTENDS GamsTextGeneration, FiniteSetTheorems, WellFoundedInduction, TLAPS

-----------------------------------------------------------------------------
(* Numbers                                                                 *)

\* A set of numbers that is not empty has a smallest member.
LEMMA Smallest ==
    ASSUME NEW S \in SUBSET Nat, S # {}
    PROVE  \E x \in S : \A y \in S : x <= y
<1>1. PICK x \in S : \A y \in S : <<y, x>> \notin OpToRel(<, Nat)
  BY NatLessThanWellFounded, WFMin
<1>2. ASSUME NEW y \in S PROVE x <= y
  <2>1. <<y, x>> \in Nat \X Nat /\ ~(y < x)
    BY <1>1 DEF OpToRel
  <2> QED
    BY <2>1
<1> QED
  BY <1>2

\* Induction: what holds of 0, and of a number when it holds of the one before.
LEMMA UpTo ==
    ASSUME NEW n \in Nat, NEW S \in SUBSET (0 .. n), 0 \in S,
           \A m \in 1 .. n : m - 1 \in S => m \in S
    PROVE  S = 0 .. n
<1> DEFINE Missing == {m \in 0 .. n : m \notin S}
<1>1. SUFFICES ASSUME Missing # {} PROVE FALSE
  OBVIOUS
<1>2. PICK m \in Missing : \A k \in Missing : m <= k
  <2>1. Missing \in SUBSET Nat
    OBVIOUS
  <2> HIDE DEF Missing
  <2> QED
    BY <1>1, <2>1, Smallest
<1>3. m \in 1 .. n /\ m - 1 \in 0 .. n /\ m - 1 \notin Missing
  BY <1>2
<1>4. m - 1 \in S
  BY <1>3
<1> QED
  BY <1>2, <1>3, <1>4

\* A bounded set of numbers that is not empty has a largest member.
LEMMA Largest ==
    ASSUME NEW S \in SUBSET Nat, S # {}, NEW n \in Nat, \A x \in S : x <= n
    PROVE  \E x \in S : \A y \in S : y <= x
<1> DEFINE T == {k \in Nat : \E x \in S : x + k = n}
<1>1. T # {}
  <2>1. PICK x \in S : TRUE
    OBVIOUS
  <2>2. n - x \in Nat /\ x + (n - x) = n
    BY <2>1
  <2> QED
    BY <2>2
<1>2. PICK k \in T : \A j \in T : k <= j
  BY <1>1, Smallest
<1>3. PICK x \in S : x + k = n
  BY <1>2
<1>4. ASSUME NEW y \in S PROVE y <= x
  <2>1. n - y \in Nat /\ y + (n - y) = n
    OBVIOUS
  <2>2. n - y \in T
    BY <2>1
  <2>3. k <= n - y
    BY <1>2, <2>2
  <2>4. x \in Nat /\ y \in Nat /\ k \in Nat
    BY <1>2, <1>3
  <2> QED
    BY <1>3, <2>3, <2>4
<1> QED
  BY <1>4

-----------------------------------------------------------------------------
(* What is left of a list                                                  *)

\* The step of the recursion in Without.
Longer(list, T, shorter, n) ==
    IF list[n] \in T THEN shorter ELSE Append(shorter, list[n])

\* The recursion defines a function.
LEMMA WithoutExists ==
    ASSUME NEW list \in Seq(Id), NEW T
    PROVE  \E f : f = [n \in 0 .. Len(list) |->
                         IF n = 0 THEN <<>>
                         ELSE IF list[n] \in T THEN f[n - 1] ELSE Append(f[n - 1], list[n])]
<1> DEFINE N == Len(list)
           Is(f, m) == f = [n \in 0 .. m |-> IF n = 0 THEN <<>> ELSE Longer(list, T, f[n - 1], n)]
           S == {m \in 0 .. N : \E f : Is(f, m)}
<1>1. N \in Nat /\ S \in SUBSET (0 .. N)
  OBVIOUS
<1>2. 0 \in S
  <2>1. \E f : Is(f, 0)
    <3> DEFINE g == [n \in 0 .. 0 |-> <<>>]
    <3>1. Is(g, 0)
      OBVIOUS
    <3> HIDE DEF Is, g
    <3> QED
      BY <3>1
  <2> QED
    BY <1>1, <2>1
<1>3. ASSUME NEW m \in 1 .. N, m - 1 \in S PROVE m \in S
  <2>1. PICK f : Is(f, m - 1)
    BY <1>3
  <2> DEFINE g == [n \in 0 .. m |-> IF n < m THEN f[n] ELSE Longer(list, T, f[m - 1], m)]
  <2>2. ASSUME NEW n \in 0 .. m
        PROVE  g[n] = IF n = 0 THEN <<>> ELSE Longer(list, T, g[n - 1], n)
    <3> HIDE DEF g
    <3>0. \A k \in 0 .. m : g[k] = IF k < m THEN f[k] ELSE Longer(list, T, f[m - 1], m)
      BY DEF g
    <3>1. CASE n = m
      <4>1. g[m - 1] = f[m - 1] /\ g[m] = Longer(list, T, f[m - 1], m)
        BY <3>0
      <4> QED
        BY <3>1, <4>1
    <3>2. CASE n # m
      <4>1. n \in 0 .. m - 1 /\ g[n] = f[n] /\ (n # 0 => n - 1 \in 0 .. m /\ g[n - 1] = f[n - 1])
        BY <3>0, <3>2
      <4>2. f[n] = IF n = 0 THEN <<>> ELSE Longer(list, T, f[n - 1], n)
        BY <2>1, <4>1
      <4> QED
        BY <4>1, <4>2
    <3> QED
      BY <3>1, <3>2
  <2>3. g = [n \in 0 .. m |-> IF n = 0 THEN <<>> ELSE Longer(list, T, g[n - 1], n)]
    <3>1. g = [n \in 0 .. m |-> g[n]]
      OBVIOUS
    <3> HIDE DEF g
    <3> QED
      BY <2>2, <3>1
  <2>4. \E h : Is(h, m)
    <3>1. Is(g, m)
      BY <2>3
    <3> HIDE DEF Is, g
    <3> QED
      BY <3>1
  <2> QED
    BY <2>4
<1>4. N \in S
  <2> HIDE DEF S
  <2>1. S = 0 .. N
    BY <1>1, <1>2, <1>3, UpTo
  <2> QED
    BY <1>1, <2>1
<1>5. PICK f : Is(f, N)
  BY <1>4
<1> QED
  BY <1>5 DEF Longer

\* Without(list, T) has the members of list that are not in T, and each once when
\* list has them once.
LEMMA WithoutFacts ==
    ASSUME NEW list \in Seq(Id), NEW T,
           \A i, j \in 1 .. Len(list) : list[i] = list[j] => i = j
    PROVE  LET rest == Without(list, T)
           IN  /\ rest \in Seq(Id)
               /\ \A i \in 1 .. Len(rest) : \E j \in 1 .. Len(list) : rest[i] = list[j] /\ list[j] \notin T
               /\ \A j \in 1 .. Len(list) : list[j] \notin T => \E i \in 1 .. Len(rest) : rest[i] = list[j]
               /\ \A i, j \in 1 .. Len(rest) : rest[i] = rest[j] => i = j
<1> DEFINE N == Len(list)
           left == CHOOSE f : f = [n \in 0 .. Len(list) |->
                         IF n = 0 THEN <<>>
                         ELSE IF list[n] \in T THEN f[n - 1] ELSE Append(f[n - 1], list[n])]
<1>1. left = [n \in 0 .. N |-> IF n = 0 THEN <<>> ELSE Longer(list, T, left[n - 1], n)]
  <2> DEFINE Is(f) == f = [n \in 0 .. Len(list) |->
                         IF n = 0 THEN <<>>
                         ELSE IF list[n] \in T THEN f[n - 1] ELSE Append(f[n - 1], list[n])]
  <2>1. \E f : Is(f)
    BY WithoutExists
  <2>2. left = CHOOSE f : Is(f)
    OBVIOUS
  <2>3. Is(left)
    <3> HIDE DEF Is, left
    <3> QED
      BY <2>1, <2>2
  <2> HIDE DEF left
  <2> QED
    BY <2>3 DEF Longer
<1>2. Without(list, T) = left[N]
  BY DEF Without
<1> HIDE DEF left
<1> DEFINE Good(n) ==
             /\ left[n] \in Seq(Id)
             /\ \A i \in 1 .. Len(left[n]) : \E j \in 1 .. n : left[n][i] = list[j] /\ list[j] \notin T
             /\ \A j \in 1 .. n : list[j] \notin T => \E i \in 1 .. Len(left[n]) : left[n][i] = list[j]
             /\ \A i, j \in 1 .. Len(left[n]) : left[n][i] = left[n][j] => i = j
           S == {n \in 0 .. N : Good(n)}
<1>3. N \in Nat /\ S \in SUBSET (0 .. N)
  OBVIOUS
<1>4. 0 \in S
  <2>1. left[0] = <<>>
    BY <1>1, <1>3
  <2>2. Good(0)
    BY <2>1
  <2> QED
    BY <2>2, <1>3
<1>5. ASSUME NEW n \in 1 .. N, n - 1 \in S PROVE n \in S
  <2>1. Good(n - 1) /\ n \in 0 .. N /\ n - 1 \in Nat
    BY <1>5
  <2>2. left[n] = Longer(list, T, left[n - 1], n)
    BY <1>1, <2>1
  <2>3. CASE list[n] \in T
    <3>1. left[n] = left[n - 1]
      BY <2>2, <2>3 DEF Longer
    <3>2. Good(n)
      BY <2>1, <2>3, <3>1
    <3> QED
      BY <2>1, <3>2
  <2>4. CASE list[n] \notin T
    <3> DEFINE old == left[n - 1]
               new == left[n]
    <3>1. new = Append(old, list[n]) /\ list[n] \in Id
      BY <2>2, <2>4 DEF Longer
    <3>2. /\ old \in Seq(Id) /\ new \in Seq(Id)
          /\ Len(old) \in Nat /\ Len(new) = Len(old) + 1
          /\ \A i \in 1 .. Len(old) : new[i] = old[i]
          /\ new[Len(old) + 1] = list[n]
      BY <2>1, <3>1
    <3>3. \A i \in 1 .. Len(old) : \E j \in 1 .. n - 1 : old[i] = list[j] /\ list[j] \notin T
      BY <2>1
    <3>4. \A j \in 1 .. n - 1 : list[j] \notin T => \E i \in 1 .. Len(old) : old[i] = list[j]
      BY <2>1
    <3>5. \A i, j \in 1 .. Len(old) : old[i] = old[j] => i = j
      BY <2>1
    <3> HIDE DEF old, new
    <3>6. \A i \in 1 .. Len(old) : old[i] # list[n]
      BY <3>3
    <3>7. \A i \in 1 .. Len(new) : \E j \in 1 .. n : new[i] = list[j] /\ list[j] \notin T
      <4> TAKE i \in 1 .. Len(new)
      <4>1. CASE i = Len(old) + 1
        BY <2>4, <3>2, <4>1
      <4>2. CASE i # Len(old) + 1
        <5>1. i \in 1 .. Len(old)
          BY <3>2, <4>2
        <5> QED
          BY <3>2, <3>3, <5>1
      <4> QED
        BY <4>1, <4>2
    <3>8. \A j \in 1 .. n : list[j] \notin T => \E i \in 1 .. Len(new) : new[i] = list[j]
      <4> SUFFICES ASSUME NEW j \in 1 .. n, list[j] \notin T PROVE \E i \in 1 .. Len(new) : new[i] = list[j]
        OBVIOUS
      <4>1. CASE j = n
        BY <3>2, <4>1
      <4>2. CASE j # n
        <5>1. j \in 1 .. n - 1
          BY <4>2
        <5>2. PICK i \in 1 .. Len(old) : old[i] = list[j]
          BY <3>4, <5>1
        <5> QED
          BY <3>2, <5>2
      <4> QED
        BY <4>1, <4>2
    <3>9. \A i, j \in 1 .. Len(new) : new[i] = new[j] => i = j
      <4> SUFFICES ASSUME NEW i \in 1 .. Len(new), NEW j \in 1 .. Len(new), new[i] = new[j] PROVE i = j
        OBVIOUS
      <4>1. i \in 1 .. Len(old) \/ i = Len(old) + 1
        BY <3>2
      <4>2. j \in 1 .. Len(old) \/ j = Len(old) + 1
        BY <3>2
      <4> QED
        BY <3>2, <3>5, <3>6, <4>1, <4>2
    <3>10. Good(n)
      BY <3>2, <3>7, <3>8, <3>9 DEF new
    <3> QED
      BY <2>1, <3>10
  <2> QED
    BY <2>3, <2>4
<1>6. Good(N)
  <2> HIDE DEF S
  <2>1. S = 0 .. N
    BY <1>3, <1>4, <1>5, UpTo
  <2>2. N \in S
    BY <1>3, <2>1
  <2> QED
    BY <2>2 DEF S
<1> QED
  BY <1>2, <1>6

-----------------------------------------------------------------------------
(* Lists one after the other                                               *)

\* The recursion in FlattenSeq defines a function.
LEMMA FlattenExists ==
    ASSUME NEW seqs \in Seq(Seq(Id)), Len(seqs) # 0
    PROVE  \E f : f = [i \in 1 .. Len(seqs) |-> IF i = 1 THEN seqs[i] ELSE f[i - 1] \o seqs[i]]
<1> DEFINE N == Len(seqs)
           Is(f, m) == f = [i \in 1 .. m |-> IF i = 1 THEN seqs[i] ELSE f[i - 1] \o seqs[i]]
           S == {m \in 0 .. N : \E f : Is(f, m)}
<1> HIDE DEF Is
<1>1. N \in Nat /\ N # 0 /\ S \in SUBSET (0 .. N)
  OBVIOUS
<1>2. 0 \in S
  <2>1. \E f : Is(f, 0)
    <3> DEFINE g == [i \in 1 .. 0 |-> <<>>]
    <3>1. Is(g, 0)
      BY DEF Is
    <3> HIDE DEF g
    <3> QED
      BY <3>1
  <2> QED
    BY <1>1, <2>1
<1>3. ASSUME NEW m \in 1 .. N, m - 1 \in S PROVE m \in S
  <2>1. PICK f : Is(f, m - 1)
    BY <1>3
  <2> DEFINE last == IF m = 1 THEN seqs[m] ELSE f[m - 1] \o seqs[m]
             g == [i \in 1 .. m |-> IF i < m THEN f[i] ELSE last]
  <2>2. ASSUME NEW i \in 1 .. m
        PROVE  g[i] = IF i = 1 THEN seqs[i] ELSE g[i - 1] \o seqs[i]
    <3> HIDE DEF g
    <3>0. \A k \in 1 .. m : g[k] = IF k < m THEN f[k] ELSE last
      BY DEF g
    <3>1. CASE i = m
      <4>1. g[m] = last /\ (m # 1 => g[m - 1] = f[m - 1])
        BY <3>0
      <4> QED
        BY <3>1, <4>1
    <3>2. CASE i # m
      <4>1. i \in 1 .. m - 1 /\ g[i] = f[i] /\ (i # 1 => i - 1 \in 1 .. m /\ g[i - 1] = f[i - 1])
        BY <3>0, <3>2
      <4>2. f[i] = IF i = 1 THEN seqs[i] ELSE f[i - 1] \o seqs[i]
        BY <2>1, <4>1 DEF Is
      <4> QED
        BY <4>1, <4>2
    <3> QED
      BY <3>1, <3>2
  <2>3. g = [i \in 1 .. m |-> IF i = 1 THEN seqs[i] ELSE g[i - 1] \o seqs[i]]
    <3>1. g = [i \in 1 .. m |-> g[i]]
      OBVIOUS
    <3> HIDE DEF g
    <3> QED
      BY <2>2, <3>1
  <2>4. \E h : Is(h, m)
    <3>1. Is(g, m)
      BY <2>3 DEF Is
    <3> HIDE DEF g
    <3> QED
      BY <3>1
  <2> QED
    BY <2>4
<1>4. N \in S
  <2> HIDE DEF S
  <2>1. S = 0 .. N
    BY <1>1, <1>2, <1>3, UpTo
  <2> QED
    BY <1>1, <2>1
<1> QED
  BY <1>4 DEF Is

\* The members of FlattenSeq(seqs) are those of the lists, each once when no two
\* places of the lists hold the same.
LEMMA FlattenFacts ==
    ASSUME NEW seqs \in Seq(Seq(Id)), Len(seqs) # 0,
           \A c, d \in 1 .. Len(seqs) : \A i \in 1 .. Len(seqs[c]), j \in 1 .. Len(seqs[d]) :
               seqs[c][i] = seqs[d][j] => c = d /\ i = j
    PROVE  LET all == FlattenSeq(seqs)
           IN  /\ all \in Seq(Id)
               /\ \A k \in 1 .. Len(all) : \E c \in 1 .. Len(seqs) : \E i \in 1 .. Len(seqs[c]) :
                     all[k] = seqs[c][i]
               /\ \A k, l \in 1 .. Len(all) : all[k] = all[l] => k = l
<1> DEFINE N == Len(seqs)
           flat == CHOOSE f : f = [i \in 1 .. Len(seqs) |-> IF i = 1 THEN seqs[i] ELSE f[i - 1] \o seqs[i]]
<1>1. flat = [i \in 1 .. N |-> IF i = 1 THEN seqs[i] ELSE flat[i - 1] \o seqs[i]]
  <2> DEFINE Is(f) == f = [i \in 1 .. Len(seqs) |-> IF i = 1 THEN seqs[i] ELSE f[i - 1] \o seqs[i]]
  <2>1. \E f : Is(f)
    BY FlattenExists
  <2>2. flat = CHOOSE f : Is(f)
    OBVIOUS
  <2>3. Is(flat)
    <3> HIDE DEF Is, flat
    <3> QED
      BY <2>1, <2>2
  <2> HIDE DEF flat
  <2> QED
    BY <2>3
<1>2. FlattenSeq(seqs) = flat[N]
  BY DEF FlattenSeq
<1> HIDE DEF flat
<1> DEFINE Good(n) ==
             /\ flat[n] \in Seq(Id)
             /\ \A k \in 1 .. Len(flat[n]) : \E c \in 1 .. n : \E i \in 1 .. Len(seqs[c]) :
                   flat[n][k] = seqs[c][i]
             /\ \A k, l \in 1 .. Len(flat[n]) : flat[n][k] = flat[n][l] => k = l
           S == {n \in 0 .. N : n = 0 \/ Good(n)}
<1>3. N \in Nat /\ N # 0 /\ S \in SUBSET (0 .. N) /\ 0 \in S
  OBVIOUS
<1>4. ASSUME NEW n \in 1 .. N, n - 1 \in S PROVE n \in S
  <2> DEFINE new == flat[n]
             old == flat[n - 1]
             last == seqs[n]
  <2>0. last \in Seq(Id) /\ n \in 0 .. N /\ Len(last) \in Nat
    BY <1>3
  <2>1. CASE n = 1
    <3>1. new = last
      BY <1>1, <2>1
    <3>2. \A k, l \in 1 .. Len(last) : last[k] = last[l] => k = l
      BY <2>0
    <3>3. Good(n)
      BY <2>0, <2>1, <3>1, <3>2
    <3> QED
      BY <2>0, <3>3
  <2>2. CASE n # 1
    <3>1. Good(n - 1) /\ n - 1 \in 1 .. N
      BY <1>4, <2>2
    <3>2. new = old \o last
      BY <1>1, <2>2
    <3>3. /\ old \in Seq(Id) /\ new \in Seq(Id)
          /\ Len(old) \in Nat /\ Len(new) = Len(old) + Len(last)
          /\ \A k \in 1 .. Len(old) : new[k] = old[k]
          /\ \A k \in 1 .. Len(last) : new[Len(old) + k] = last[k]
      <4>1. old \in Seq(Id)
        BY <3>1
      <4> HIDE DEF old, new, last
      <4> QED
        BY <2>0, <3>2, <4>1
    <3>4. \A k \in 1 .. Len(old) : \E c \in 1 .. n - 1 : \E i \in 1 .. Len(seqs[c]) : old[k] = seqs[c][i]
      BY <3>1
    <3>5. \A k, l \in 1 .. Len(old) : old[k] = old[l] => k = l
      BY <3>1
    <3>6. \A k, l \in 1 .. Len(last) : last[k] = last[l] => k = l
      BY <2>0
    <3>7. \A k \in 1 .. Len(old), l \in 1 .. Len(last) : old[k] # last[l]
      <4> SUFFICES ASSUME NEW k \in 1 .. Len(old), NEW l \in 1 .. Len(last), old[k] = last[l] PROVE FALSE
        OBVIOUS
      <4>1. PICK c \in 1 .. n - 1 : \E i \in 1 .. Len(seqs[c]) : old[k] = seqs[c][i]
        BY <3>4
      <4>2. PICK i \in 1 .. Len(seqs[c]) : old[k] = seqs[c][i]
        BY <4>1
      <4>3. c \in 1 .. N /\ c # n
        BY <4>1
      <4> HIDE DEF old
      <4>4. seqs[c][i] = seqs[n][l]
        BY <4>2
      <4>5. c = n
        BY <4>3, <4>4
      <4> QED
        BY <4>3, <4>5
    <3> HIDE DEF old
    <3>8. \A k \in 1 .. Len(new) : k \in 1 .. Len(old) \/ \E l \in 1 .. Len(last) : k = Len(old) + l
      <4> SUFFICES ASSUME NEW k \in 1 .. Len(new), k \notin 1 .. Len(old)
                   PROVE  \E l \in 1 .. Len(last) : k = Len(old) + l
        OBVIOUS
      <4>1. k - Len(old) \in 1 .. Len(last) /\ k = Len(old) + (k - Len(old))
        BY <2>0, <3>3
      <4> QED
        BY <4>1
    <3>9. \A k \in 1 .. Len(new) : \E c \in 1 .. n : \E i \in 1 .. Len(seqs[c]) : new[k] = seqs[c][i]
      <4> TAKE k \in 1 .. Len(new)
      <4>1. CASE k \in 1 .. Len(old)
        <5>1. new[k] = old[k]
          BY <3>3, <4>1
        <5>2. PICK c \in 1 .. n - 1 : \E i \in 1 .. Len(seqs[c]) : old[k] = seqs[c][i]
          BY <3>4, <4>1
        <5>3. c \in 1 .. n
          BY <5>2
        <5> HIDE DEF new
        <5> QED
          BY <5>1, <5>2, <5>3
      <4>2. CASE k \notin 1 .. Len(old)
        <5>1. PICK l \in 1 .. Len(last) : k = Len(old) + l
          BY <3>8, <4>2
        <5>2. new[k] = last[l]
          BY <3>3, <5>1
        <5> HIDE DEF new
        <5> QED
          BY <5>2
      <4> QED
        BY <4>1, <4>2
    <3>10. \A k, l \in 1 .. Len(new) : new[k] = new[l] => k = l
      <4> SUFFICES ASSUME NEW k \in 1 .. Len(new), NEW l \in 1 .. Len(new), new[k] = new[l] PROVE k = l
        OBVIOUS
      <4>1. k \in 1 .. Len(old) \/ \E i \in 1 .. Len(last) : k = Len(old) + i
        BY <3>8
      <4>2. l \in 1 .. Len(old) \/ \E i \in 1 .. Len(last) : l = Len(old) + i
        BY <3>8
      <4> HIDE DEF new, last
      <4> QED
        BY <3>3, <3>5, <3>6, <3>7, <4>1, <4>2
    <3>11. Good(n)
      BY <3>3, <3>9, <3>10
    <3> QED
      BY <2>0, <3>11
  <2> QED
    BY <2>1, <2>2
<1>5. Good(N)
  <2> HIDE DEF S
  <2>1. S = 0 .. N
    BY <1>3, <1>4, UpTo
  <2>2. N \in S
    BY <1>3, <2>1
  <2> QED
    BY <1>3, <2>2 DEF S
<1> QED
  BY <1>2, <1>5

-----------------------------------------------------------------------------
(* Constants and finite sets                                               *)

LEMMA Numbers ==
    /\ NumCells \in Nat \ {0} /\ NumShards \in Nat \ {0} /\ Target \in Nat \ {0}
    /\ Divisor \in Nat \ {0} /\ RefillCap \in Nat \ {0} /\ RowsPerAttempt \in Nat \ {0}
    /\ BatchSize \in Nat \ {0} /\ Fallback \in Nat \ {0} /\ Fallback < BatchSize
    /\ MaxIndex \in Nat /\ MaxYield \in Nat /\ MaxRounds \in Nat /\ MaxPerShard \in Nat
    /\ MaxPerCell \in Nat /\ MaxTotal \in Nat /\ MaxRequested \in Nat
    /\ 2 * RefillCap <= NumShards + 1
    /\ NumCells * NumShards <= MaxTotal
    /\ NumCells * NumShards * RowsPerAttempt <= MaxRequested
    /\ NumShards <= MaxPerCell
    /\ MaxPerShard >= 1 /\ MaxPerShard <= MaxIndex + 1
  BY SizeAssumption

\* A set whose members are all among n is finite and has at most n members.
LEMMA Listed ==
    ASSUME NEW S, NEW n \in Nat, NEW q, \A x \in S : \E i \in 1 .. n : x = q[i]
    PROVE  IsFiniteSet(S) /\ Cardinality(S) <= n
<1> DEFINE T == {q[i] : i \in 1 .. n}
           f == [i \in 1 .. n |-> q[i]]
<1>1. f \in Surjection(1 .. n, T)
  BY DEF Surjection
<1>2. IsFiniteSet(1 .. n) /\ Cardinality(1 .. n) = n
  BY FS_Interval
<1>3. IsFiniteSet(T) /\ Cardinality(T) <= n
  <2> HIDE DEF T, f
  <2> QED
    BY <1>1, <1>2, FS_Surjection
<1>4. S \in SUBSET T
  OBVIOUS
<1>5. Cardinality(T) \in Nat
  <2> HIDE DEF T
  <2> QED
    BY <1>3, FS_CardinalityType
<1>6. IsFiniteSet(S) /\ Cardinality(S) <= Cardinality(T)
  <2> HIDE DEF T
  <2> QED
    BY <1>3, <1>4, FS_Subset
<1>7. Cardinality(S) \in Nat
  BY <1>6, FS_CardinalityType
<1> HIDE DEF T
<1> QED
  BY <1>3, <1>5, <1>6, <1>7

LEMMA IdFinite == IsFiniteSet(Id)
<1> DEFINE Index == 0 .. MaxIndex
           P == (Cell \X Shard) \X Index
           f == [p \in P |-> [cell |-> p[1][1], shard |-> p[1][2], index |-> p[2]]]
<1>1. IsFiniteSet(Cell) /\ IsFiniteSet(Shard) /\ IsFiniteSet(Index)
  BY Numbers, FS_Interval DEF Cell, Shard
<1>2. IsFiniteSet(P)
  <2>1. IsFiniteSet(Cell \X Shard)
    BY <1>1, FS_Product
  <2> QED
    BY <1>1, <2>1, FS_Product
<1>3. f \in Surjection(P, Id)
  <2>1. f \in [P -> Id]
    BY DEF Id
  <2>2. ASSUME NEW a \in Id PROVE \E p \in P : f[p] = a
    <3>1. << <<a.cell, a.shard>>, a.index >> \in P
      BY DEF Id
    <3>2. f[<< <<a.cell, a.shard>>, a.index >>] = a
      BY <3>1 DEF Id
    <3> QED
      BY <3>1, <3>2
  <2> QED
    BY <2>1, <2>2 DEF Surjection
<1> HIDE DEF P, f
<1> QED
  BY <1>2, <1>3, FS_Surjection

LEMMA SubsetOfId ==
    ASSUME NEW S \in SUBSET Id
    PROVE  IsFiniteSet(S) /\ Cardinality(S) \in Nat
  BY IdFinite, FS_Subset, FS_CardinalityType

LEMMA SmallerSet ==
    ASSUME NEW S \in SUBSET Id, NEW T \in SUBSET S
    PROVE  Cardinality(T) <= Cardinality(S)
  BY SubsetOfId, FS_Subset

LEMMA UnionOfSets ==
    ASSUME NEW S \in SUBSET Id, NEW T \in SUBSET Id
    PROVE  Cardinality(S \cup T) <= Cardinality(S) + Cardinality(T)
<1>1. /\ IsFiniteSet(S) /\ IsFiniteSet(T)
      /\ Cardinality(S) \in Nat /\ Cardinality(T) \in Nat /\ Cardinality(S \cap T) \in Nat
  BY SubsetOfId
<1>2. Cardinality(S \cup T) = Cardinality(S) + Cardinality(T) - Cardinality(S \cap T)
  BY <1>1, FS_Union
<1> QED
  BY <1>1, <1>2

-----------------------------------------------------------------------------
(* Budgets of a set of attempts                                            *)

InCell(S, c) == {a \in S : a.cell = c}
InShard(S, c, h) == {a \in S : a.cell = c /\ a.shard = h}

Budgeted(S) ==
    /\ Cardinality(S) <= MaxTotal
    /\ Cardinality(S) * RowsPerAttempt <= MaxRequested
    /\ \A c \in Cell : Cardinality(InCell(S, c)) <= MaxPerCell
    /\ \A c \in Cell, h \in Shard : Cardinality(InShard(S, c, h)) <= MaxPerShard

LEMMA BudgetedSubset ==
    ASSUME NEW S \in SUBSET Id, Budgeted(S), NEW T \in SUBSET S
    PROVE  Budgeted(T)
<1>1. Cardinality(S) \in Nat /\ Cardinality(T) \in Nat /\ Cardinality(T) <= Cardinality(S)
  BY SubsetOfId, SmallerSet
<1>2. Cardinality(T) * RowsPerAttempt <= Cardinality(S) * RowsPerAttempt
  <2> DEFINE m == Cardinality(S)
             n == Cardinality(T)
  <2>1. m - n \in Nat /\ m \in Nat /\ n \in Nat
    BY <1>1
  <2> HIDE DEF m, n
  <2>2. (m - n) * RowsPerAttempt \in Nat /\ m * RowsPerAttempt = n * RowsPerAttempt + (m - n) * RowsPerAttempt
    BY <2>1, Numbers
  <2>3. n * RowsPerAttempt \in Nat
    BY <2>1, Numbers
  <2>4. n * RowsPerAttempt <= m * RowsPerAttempt
    BY <2>2, <2>3
  <2> QED
    BY <2>4 DEF m, n
<1>3. Cardinality(S) * RowsPerAttempt \in Nat /\ Cardinality(T) * RowsPerAttempt \in Nat
  BY <1>1, Numbers
<1>4. ASSUME NEW c \in Cell PROVE Cardinality(InCell(T, c)) <= MaxPerCell
  <2>1. InCell(S, c) \in SUBSET Id /\ InCell(T, c) \in SUBSET InCell(S, c)
    BY DEF InCell
  <2>2. /\ Cardinality(InCell(T, c)) <= Cardinality(InCell(S, c))
        /\ Cardinality(InCell(T, c)) \in Nat /\ Cardinality(InCell(S, c)) \in Nat
    BY <2>1, SubsetOfId, SmallerSet
  <2> QED
    BY <2>2, Numbers DEF Budgeted
<1>5. ASSUME NEW c \in Cell, NEW h \in Shard PROVE Cardinality(InShard(T, c, h)) <= MaxPerShard
  <2>1. InShard(S, c, h) \in SUBSET Id /\ InShard(T, c, h) \in SUBSET InShard(S, c, h)
    BY DEF InShard
  <2>2. /\ Cardinality(InShard(T, c, h)) <= Cardinality(InShard(S, c, h))
        /\ Cardinality(InShard(T, c, h)) \in Nat /\ Cardinality(InShard(S, c, h)) \in Nat
    BY <2>1, SubsetOfId, SmallerSet
  <2> QED
    BY <2>2, Numbers DEF Budgeted
<1> QED
  BY <1>1, <1>2, <1>3, <1>4, <1>5, Numbers DEF Budgeted

-----------------------------------------------------------------------------
(* The planner                                                             *)

Statuses == {Absent, Failed} \cup Rows
States == [Id -> Statuses]

\* The attempt of the same shard before a.
Before(a) == [a EXCEPT !.index = @ - 1]

\* The attempts of a shard are numbered without a gap.
NoGap(s) == \A a \in Recorded(s) : a.index > 0 => Before(a) \in Recorded(s)

LEMMA NextIndexFacts ==
    ASSUME NEW s, NEW c \in Cell, NEW h \in Shard
    PROVE  /\ NextIndex(s, c, h) \in 0 .. MaxIndex + 1
           /\ \A a \in OfShard(s, c, h) : a.index < NextIndex(s, c, h)
           /\ NextIndex(s, c, h) > 0 =>
                 \E a \in OfShard(s, c, h) : a.index = NextIndex(s, c, h) - 1
<1> DEFINE used == {a.index : a \in OfShard(s, c, h)}
           Next1(i) == (\A j \in used : j < i) /\ (i = 0 \/ i - 1 \in used)
<1>1. used \in SUBSET (0 .. MaxIndex)
  BY DEF OfShard, OfCell, Recorded, Id
<1>2. NextIndex(s, c, h) = CHOOSE i \in 0 .. MaxIndex + 1 : Next1(i)
  BY DEF NextIndex
<1>3. \E i \in 0 .. MaxIndex + 1 : Next1(i)
  <2> HIDE DEF used
  <2>1. CASE used = {}
    <3>1. Next1(0) /\ 0 \in 0 .. MaxIndex + 1
      BY <2>1, Numbers
    <3> QED
      BY <3>1
  <2>2. CASE used # {}
    <3>1. used \in SUBSET Nat /\ MaxIndex \in Nat /\ \A x \in used : x <= MaxIndex
      BY <1>1, Numbers
    <3>2. PICK x \in used : \A y \in used : y <= x
      BY <2>2, <3>1, Largest
    <3>3. x + 1 \in 0 .. MaxIndex + 1 /\ Next1(x + 1)
      BY <1>1, <3>2, Numbers
    <3> QED
      BY <3>3
  <2> QED
    BY <2>1, <2>2
<1> HIDE DEF Next1
<1>4. NextIndex(s, c, h) \in 0 .. MaxIndex + 1 /\ Next1(NextIndex(s, c, h))
  BY <1>2, <1>3
<1> QED
  BY <1>4, Numbers DEF Next1

\* Without gaps, the next index is at most the number of attempts.
LEMMA NextIndexCounts ==
    ASSUME NEW s, NEW c \in Cell, NEW h \in Shard, NoGap(s)
    PROVE  NextIndex(s, c, h) <= Cardinality(OfShard(s, c, h))
<1> DEFINE n == NextIndex(s, c, h)
           Own(i) == [cell |-> c, shard |-> h, index |-> i]
           S == {m \in 0 .. n - 1 : Own(n - 1 - m) \in Recorded(s)}
           D == 0 .. n - 1
           f == [i \in D |-> Own(i)]
<1>0. n \in 0 .. MaxIndex + 1 /\ (n > 0 => \E a \in OfShard(s, c, h) : a.index = n - 1)
  BY NextIndexFacts
<1>1. OfShard(s, c, h) \in SUBSET Id
  BY DEF OfShard, OfCell, Recorded
<1>2. Cardinality(OfShard(s, c, h)) \in Nat /\ IsFiniteSet(OfShard(s, c, h))
  BY <1>1, SubsetOfId
<1> HIDE DEF n
<1>3. CASE n = 0
  BY <1>2, <1>3 DEF n
<1>4. CASE n # 0
  <2>1. n \in Nat /\ n - 1 \in Nat /\ n > 0
    BY <1>0, <1>4, Numbers
  <2>2. 0 \in S
    <3>1. PICK a \in OfShard(s, c, h) : a.index = n - 1
      BY <1>0, <2>1
    <3>2. a \in Recorded(s) /\ a = Own(n - 1 - 0)
      BY <2>1, <3>1 DEF OfShard, OfCell, Recorded, Id
    <3> QED
      BY <2>1, <3>2
  <2>3. ASSUME NEW m \in 1 .. n - 1, m - 1 \in S PROVE m \in S
    <3>1. n - 1 - (m - 1) = n - m /\ n - m \in Nat /\ n - m > 0 /\ n - m - 1 = n - 1 - m
      BY <2>1
    <3>2. Own(n - m) \in Recorded(s)
      BY <2>3, <3>1
    <3>3. Before(Own(n - m)) \in Recorded(s)
      BY <3>1, <3>2 DEF NoGap
    <3>4. Before(Own(n - m)) = Own(n - m - 1)
      BY DEF Before
    <3>5. m \in 0 .. n - 1
      BY <2>1
    <3>6. Own(n - 1 - m) \in Recorded(s)
      BY <3>1, <3>3, <3>4
    <3> HIDE DEF Own
    <3> QED
      BY <3>5, <3>6
  <2>4. S = 0 .. n - 1
    <3>1. S \in SUBSET (0 .. n - 1)
      OBVIOUS
    <3> HIDE DEF S
    <3> QED
      BY <2>1, <2>2, <2>3, <3>1, UpTo
  <2>5. \A i \in D : Own(i) \in OfShard(s, c, h)
    <3> TAKE i \in D
    <3>1. n - 1 - i \in 0 .. n - 1 /\ n - 1 - (n - 1 - i) = i
      BY <2>1
    <3>2. n - 1 - i \in S
      BY <2>4, <3>1
    <3>3. Own(n - 1 - (n - 1 - i)) \in Recorded(s)
      BY <3>2
    <3>4. Own(i) \in Recorded(s)
      BY <3>1, <3>3
    <3> QED
      BY <3>4 DEF OfShard, OfCell
  <2>6. f \in Injection(D, OfShard(s, c, h))
    <3>1. f \in [D -> OfShard(s, c, h)]
      BY <2>5
    <3>2. \A i, j \in D : f[i] = f[j] => i = j
      OBVIOUS
    <3> HIDE DEF f, D
    <3> QED
      BY <3>1, <3>2 DEF Injection, IsInjective
  <2>7. Cardinality(D) <= Cardinality(OfShard(s, c, h))
    <3> HIDE DEF f, D
    <3> QED
      BY <1>2, <2>6, FS_Injection
  <2>8. Cardinality(D) = n
    BY <2>1, FS_Interval
  <2> QED
    BY <2>7, <2>8 DEF n
<1> QED
  BY <1>3, <1>4

\* Two numbers that differ by less than m leave different remainders.
LEMMA Remainders ==
    ASSUME NEW m \in Nat \ {0}, NEW x \in Nat, NEW y \in Nat, x < y, y - x < m
    PROVE  x % m # y % m
<1> DEFINE p == x \div m
           q == y \div m
<1>1. p \in Int /\ q \in Int /\ x = m * p + (x % m) /\ y = m * q + (y % m)
  OBVIOUS
<1>2. SUFFICES ASSUME x % m = y % m PROVE FALSE
  OBVIOUS
<1>3. x % m \in Int
  OBVIOUS
<1> HIDE DEF p, q
<1>4. y - x = m * (q - p)
  BY <1>1, <1>2, <1>3
<1>5. q - p \in Int /\ q - p > 0
  BY <1>1, <1>4
<1>6. m * (q - p) >= m
  <2> DEFINE e == q - p - 1
  <2>1. e \in Nat /\ q - p = e + 1
    BY <1>1, <1>5
  <2> HIDE DEF e
  <2>2. m * (q - p) = m * e + m /\ m * e \in Nat
    BY <2>1
  <2> QED
    BY <2>2
<1> QED
  BY <1>4, <1>6

LEMMA RefillCountFacts ==
    ASSUME NEW s, NEW c \in Cell, NEW deficit \in Nat, ~ExhaustedBudgets(s)
    PROVE  /\ RefillCount(s, c, deficit) \in 0 .. RefillCap
           /\ Cardinality(OfCell(s, c)) \in Nat
           /\ Cardinality(OfCell(s, c)) + RefillCount(s, c, deficit) <= MaxPerCell
<1>1. OfCell(s, c) \in SUBSET Id
  BY DEF OfCell, Recorded
<1>2. Cardinality(OfCell(s, c)) \in Nat
  BY <1>1, SubsetOfId
<1>3. Cardinality(OfCell(s, c)) < MaxPerCell
  BY <1>2, Numbers DEF ExhaustedBudgets
<1>4. (deficit + Divisor - 1) \div Divisor \in Nat
  <2>1. deficit + Divisor - 1 \in Nat
    BY Numbers
  <2> QED
    BY <2>1, Numbers
<1> QED
  BY <1>2, <1>3, <1>4, Numbers DEF RefillCount, Least

\* The refills of a cell: new identities, one per shard, next in their shard.
LEMMA RefillTasksFacts ==
    ASSUME NEW s, NEW c \in Cell, NEW deficit \in Nat, ~ExhaustedBudgets(s), NoGap(s)
    PROVE  LET list == RefillTasks(s, c, deficit)
           IN  /\ list \in Seq(Id) /\ Len(list) = RefillCount(s, c, deficit)
               /\ \A k \in 1 .. Len(list) : \E h \in Shard :
                     list[k] = [cell |-> c, shard |-> h, index |-> NextIndex(s, c, h)]
               /\ \A k, l \in 1 .. Len(list) : list[k] = list[l] => k = l
<1> DEFINE n == RefillCount(s, c, deficit)
           used == Cardinality(OfCell(s, c))
           H(k) == ((used + 2 * (k - 1)) % NumShards) + 1
           Own(h) == [cell |-> c, shard |-> h, index |-> NextIndex(s, c, h)]
           list == [k \in 1 .. n |-> Own(H(k))]
<1>1. RefillTasks(s, c, deficit) = list
  BY DEF RefillTasks
<1>2. n \in 0 .. RefillCap /\ used \in Nat
  BY RefillCountFacts
<1> HIDE DEF n, used
<1>3. ASSUME NEW k \in 1 .. n PROVE H(k) \in Shard
  <2>1. used + 2 * (k - 1) \in Nat
    BY <1>2, Numbers
  <2>2. (used + 2 * (k - 1)) % NumShards \in 0 .. NumShards - 1
    BY <2>1, Numbers
  <2> QED
    BY <2>2, Numbers DEF Shard
<1>4. ASSUME NEW h \in Shard PROVE Own(h) \in Id
  <2>1. NextIndex(s, c, h) <= Cardinality(OfShard(s, c, h))
    BY NextIndexCounts
  <2>2. Cardinality(OfShard(s, c, h)) \in Nat
    <3>1. OfShard(s, c, h) \in SUBSET Id
      BY DEF OfShard, OfCell, Recorded
    <3> QED
      BY <3>1, SubsetOfId
  <2>3. Cardinality(OfShard(s, c, h)) < MaxPerShard
    BY <2>2, Numbers DEF ExhaustedBudgets
  <2>4. NextIndex(s, c, h) \in 0 .. MaxIndex + 1
    BY NextIndexFacts
  <2>5. NextIndex(s, c, h) \in 0 .. MaxIndex
    BY <2>1, <2>2, <2>3, <2>4, Numbers
  <2> QED
    BY <2>5 DEF Id
<1>5. n \in Nat
  BY <1>2, Numbers
<1>6. ASSUME NEW k \in 1 .. n, NEW l \in 1 .. n, k < l PROVE H(k) # H(l)
  <2> DEFINE x == used + 2 * (k - 1)
             y == used + 2 * (l - 1)
  <2>1. x \in Nat /\ y \in Nat /\ x < y
    BY <1>2, <1>5, <1>6
  <2>2. y - x < NumShards
    BY <1>2, <1>6, Numbers
  <2> HIDE DEF x, y
  <2>3. x % NumShards # y % NumShards
    BY <2>1, <2>2, Numbers, Remainders
  <2>4. x % NumShards \in Int /\ y % NumShards \in Int
    BY <2>1, Numbers
  <2>5. (x % NumShards) + 1 # (y % NumShards) + 1
    BY <2>3, <2>4
  <2> QED
    BY <2>5 DEF x, y
<1> HIDE DEF H, Own
<1>7. list \in Seq(Id) /\ Len(list) = n
  <2>1. \A k \in 1 .. n : Own(H(k)) \in Id
    BY <1>3, <1>4
  <2> QED
    BY <1>5, <2>1
<1>8. \A k \in 1 .. n : H(k) \in Shard /\ list[k] = Own(H(k))
  BY <1>3
<1>9. \A k, l \in 1 .. n : list[k] = list[l] => k = l
  <2> SUFFICES ASSUME NEW k \in 1 .. n, NEW l \in 1 .. n, list[k] = list[l] PROVE k = l
    OBVIOUS
  <2>1. Own(H(k)) = Own(H(l))
    OBVIOUS
  <2>2. H(k) = H(l)
    BY <2>1 DEF Own
  <2>3. ~(k < l) /\ ~(l < k)
    BY <1>6, <2>2
  <2> QED
    BY <1>5, <2>3
<1> HIDE DEF list
<1> QED
  BY <1>1, <1>7, <1>8, <1>9 DEF Own, n

Members(list) == {list[i] : i \in 1 .. Len(list)}

LEMMA PlanFacts ==
    ASSUME NEW s, NEW d \in [Cell -> Nat], ~ExhaustedBudgets(s), NoGap(s)
    PROVE  LET plan == Plan(s, d)
           IN  /\ plan \in Seq(Id)
               /\ \A k, l \in 1 .. Len(plan) : plan[k] = plan[l] => k = l
               /\ \A a \in Members(plan) : \E k \in 1 .. RefillCount(s, a.cell, d[a.cell]) :
                     a = RefillTasks(s, a.cell, d[a.cell])[k]
               /\ \A a \in Members(plan) : a.index = NextIndex(s, a.cell, a.shard)
<1> DEFINE seqs == [c \in Cell |-> RefillTasks(s, c, d[c])]
           plan == FlattenSeq(seqs)
<1>1. Plan(s, d) = plan
  BY DEF Plan
<1>2. ASSUME NEW c \in Cell
      PROVE  /\ seqs[c] \in Seq(Id) /\ Len(seqs[c]) = RefillCount(s, c, d[c])
             /\ seqs[c] = RefillTasks(s, c, d[c])
             /\ \A k \in 1 .. Len(seqs[c]) : \E h \in Shard :
                   seqs[c][k] = [cell |-> c, shard |-> h, index |-> NextIndex(s, c, h)]
             /\ \A k, l \in 1 .. Len(seqs[c]) : seqs[c][k] = seqs[c][l] => k = l
  <2>1. seqs[c] = RefillTasks(s, c, d[c]) /\ d[c] \in Nat
    OBVIOUS
  <2> HIDE DEF seqs
  <2> QED
    BY <2>1, RefillTasksFacts
<1>3. seqs \in Seq(Seq(Id)) /\ Len(seqs) = NumCells /\ NumCells # 0
  <2>1. seqs \in [1 .. NumCells -> Seq(Id)]
    BY <1>2 DEF Cell
  <2> HIDE DEF seqs
  <2> QED
    BY <2>1, Numbers
<1> HIDE DEF seqs
<1>4. ASSUME NEW c \in Cell, NEW k \in 1 .. Len(seqs[c])
      PROVE  seqs[c][k].cell = c /\ seqs[c][k].index = NextIndex(s, c, seqs[c][k].shard)
  <2>1. \E h \in Shard : seqs[c][k] = [cell |-> c, shard |-> h, index |-> NextIndex(s, c, h)]
    BY <1>2
  <2>2. PICK h \in Shard : seqs[c][k] = [cell |-> c, shard |-> h, index |-> NextIndex(s, c, h)]
    BY <2>1
  <2> QED
    BY <2>2
<1>5. \A c, e \in 1 .. Len(seqs) : \A i \in 1 .. Len(seqs[c]), j \in 1 .. Len(seqs[e]) :
          seqs[c][i] = seqs[e][j] => c = e /\ i = j
  <2> SUFFICES ASSUME NEW c \in 1 .. Len(seqs), NEW e \in 1 .. Len(seqs),
                      NEW i \in 1 .. Len(seqs[c]), NEW j \in 1 .. Len(seqs[e]),
                      seqs[c][i] = seqs[e][j]
               PROVE  c = e /\ i = j
    OBVIOUS
  <2>1. c \in Cell /\ e \in Cell
    BY <1>3 DEF Cell
  <2>2. c = e
    BY <1>4, <2>1
  <2>3. \A k, l \in 1 .. Len(seqs[c]) : seqs[c][k] = seqs[c][l] => k = l
    BY <1>2, <2>1
  <2> QED
    BY <2>2, <2>3
<1>6. /\ plan \in Seq(Id)
      /\ \A k \in 1 .. Len(plan) : \E c \in 1 .. Len(seqs) : \E i \in 1 .. Len(seqs[c]) :
            plan[k] = seqs[c][i]
      /\ \A k, l \in 1 .. Len(plan) : plan[k] = plan[l] => k = l
  BY <1>3, <1>5, FlattenFacts
<1> HIDE DEF plan
<1>7. ASSUME NEW a \in Members(plan)
      PROVE  /\ \E k \in 1 .. RefillCount(s, a.cell, d[a.cell]) :
                   a = RefillTasks(s, a.cell, d[a.cell])[k]
             /\ a.index = NextIndex(s, a.cell, a.shard)
  <2>1. PICK k \in 1 .. Len(plan) : a = plan[k]
    BY DEF Members
  <2>2. PICK c \in 1 .. Len(seqs) : \E i \in 1 .. Len(seqs[c]) : plan[k] = seqs[c][i]
    BY <1>6
  <2>3. PICK i \in 1 .. Len(seqs[c]) : plan[k] = seqs[c][i]
    BY <2>2
  <2>4. c \in Cell
    BY <1>3 DEF Cell
  <2>5. a = seqs[c][i]
    BY <2>1, <2>3
  <2>6. a.cell = c /\ a.index = NextIndex(s, c, a.shard)
    BY <1>4, <2>4, <2>5
  <2>7. Len(seqs[c]) = RefillCount(s, c, d[c]) /\ seqs[c] = RefillTasks(s, c, d[c])
    BY <1>2, <2>4
  <2> QED
    BY <2>5, <2>6, <2>7
<1> QED
  BY <1>1, <1>6, <1>7

\* No task of a plan is recorded, and what it follows is.
LEMMA PlanIsNew ==
    ASSUME NEW s, NEW d \in [Cell -> Nat], ~ExhaustedBudgets(s), NoGap(s),
           NEW a \in Members(Plan(s, d))
    PROVE  a \in Id /\ a \notin Recorded(s) /\ (a.index > 0 => Before(a) \in Recorded(s))
<1>1. Plan(s, d) \in Seq(Id) /\ a.index = NextIndex(s, a.cell, a.shard)
  BY PlanFacts
<1>2. a \in Id /\ a.cell \in Cell /\ a.shard \in Shard /\ a.index \in 0 .. MaxIndex
  <2>1. a \in Id
    BY <1>1 DEF Members
  <2> QED
    BY <2>1 DEF Id
<1>3. a \notin Recorded(s)
  <2>1. SUFFICES ASSUME a \in Recorded(s) PROVE FALSE
    OBVIOUS
  <2>2. a \in OfShard(s, a.cell, a.shard)
    BY <2>1 DEF OfShard, OfCell
  <2>3. a.index < a.index
    BY <1>1, <1>2, <2>2, NextIndexFacts
  <2> QED
    BY <1>2, <2>3, Numbers
<1>4. ASSUME a.index > 0 PROVE Before(a) \in Recorded(s)
  <2>1. PICK b \in OfShard(s, a.cell, a.shard) : b.index = a.index - 1
    BY <1>1, <1>2, <1>4, NextIndexFacts
  <2>2. b \in Recorded(s) /\ b \in Id /\ b.cell = a.cell /\ b.shard = a.shard
    BY DEF OfShard, OfCell, Recorded
  <2>3. Before(a) = b
    BY <1>2, <2>1, <2>2 DEF Before, Id
  <2> QED
    BY <2>2, <2>3
<1> QED
  BY <1>2, <1>3, <1>4

\* With its plan, the budgets hold of a state that had not used them up.
LEMMA PlanWithinBudgets ==
    ASSUME NEW s, NEW d \in [Cell -> Nat], ~ExhaustedBudgets(s), NoGap(s),
           ~WouldExceed(s, Plan(s, d))
    PROVE  Budgeted(Recorded(s) \cup Members(Plan(s, d)))
<1> DEFINE plan == Plan(s, d)
           old == Recorded(s)
           new == Members(plan)
           all == old \cup new
<1>1. plan \in Seq(Id) /\ Len(plan) \in Nat
  BY PlanFacts
<1> HIDE DEF plan
<1>2. new \in SUBSET Id /\ old \in SUBSET Id /\ all \in SUBSET Id
  BY <1>1 DEF Members, Recorded
<1>3. Cardinality(new) <= Len(plan)
  BY <1>1, Listed DEF Members
<1> HIDE DEF new, old
<1>4. Cardinality(old) \in Nat /\ Cardinality(new) \in Nat /\ Cardinality(all) \in Nat
  BY <1>2, SubsetOfId
<1>5. Cardinality(all) <= Cardinality(old) + Cardinality(new)
  BY <1>2, UnionOfSets
<1>6. LET n == Cardinality(old) + Len(plan) IN n <= MaxTotal /\ n * RowsPerAttempt <= MaxRequested
  BY <1>1, <1>4, Numbers DEF WouldExceed, plan, old
<1>7. Cardinality(all) <= MaxTotal /\ Cardinality(all) * RowsPerAttempt <= MaxRequested
  <2> DEFINE n == Cardinality(old) + Len(plan)
             m == Cardinality(all)
  <2>1. n \in Nat /\ m \in Nat /\ m <= n /\ n - m \in Nat
    BY <1>1, <1>3, <1>4, <1>5
  <2>2. n <= MaxTotal /\ n * RowsPerAttempt <= MaxRequested
    BY <1>6
  <2> HIDE DEF n, m
  <2>3. n * RowsPerAttempt = m * RowsPerAttempt + (n - m) * RowsPerAttempt
    BY <2>1, Numbers
  <2>4. m * RowsPerAttempt \in Nat /\ (n - m) * RowsPerAttempt \in Nat
    BY <2>1, Numbers
  <2>5. m <= MaxTotal /\ m * RowsPerAttempt <= MaxRequested
    BY <2>1, <2>2, <2>3, <2>4, Numbers
  <2> QED
    BY <2>5 DEF m
<1>8. ASSUME NEW c \in Cell PROVE Cardinality(InCell(all, c)) <= MaxPerCell
  <2> DEFINE n == RefillCount(s, c, d[c])
             q == RefillTasks(s, c, d[c])
  <2>0. d[c] \in Nat
    OBVIOUS
  <2>1. n \in 0 .. RefillCap /\ Cardinality(OfCell(s, c)) \in Nat /\ Cardinality(OfCell(s, c)) + n <= MaxPerCell
    BY <2>0, RefillCountFacts
  <2>2. \A a \in InCell(new, c) : \E k \in 1 .. n : a = q[k]
    BY PlanFacts DEF new, plan, InCell
  <2> HIDE DEF n, q
  <2>3. n \in Nat
    BY <2>1, Numbers
  <2>4. Cardinality(InCell(new, c)) <= n
    BY <2>2, <2>3, Listed
  <2>5. InCell(all, c) = OfCell(s, c) \cup InCell(new, c)
    BY DEF InCell, OfCell, old
  <2>6. OfCell(s, c) \in SUBSET Id /\ InCell(new, c) \in SUBSET Id
    BY <1>2 DEF InCell, OfCell, old
  <2>7. Cardinality(InCell(all, c)) <= Cardinality(OfCell(s, c)) + Cardinality(InCell(new, c))
    BY <2>5, <2>6, UnionOfSets
  <2>8. Cardinality(InCell(new, c)) \in Nat /\ Cardinality(InCell(all, c)) \in Nat
    BY <2>5, <2>6, SubsetOfId
  <2> QED
    BY <2>1, <2>3, <2>4, <2>7, <2>8, Numbers
<1>9. ASSUME NEW c \in Cell, NEW h \in Shard PROVE Cardinality(InShard(all, c, h)) <= MaxPerShard
  <2> DEFINE a == [cell |-> c, shard |-> h, index |-> NextIndex(s, c, h)]
  <2>1. \A b \in InShard(new, c, h) : b = a
    <3> TAKE b \in InShard(new, c, h)
    <3>1. b \in new /\ b.cell = c /\ b.shard = h /\ b \in Id
      BY <1>2 DEF InShard
    <3>2. b.index = NextIndex(s, c, h)
      BY <3>1, PlanFacts DEF new, plan
    <3> QED
      BY <3>1, <3>2 DEF Id
  <2>2. Cardinality(InShard(new, c, h)) <= 1
    <3> DEFINE q == <<a>>
    <3>1. \A b \in InShard(new, c, h) : \E i \in 1 .. 1 : b = q[i]
      BY <2>1
    <3> HIDE DEF q
    <3> QED
      BY <3>1, Listed
  <2>3. InShard(all, c, h) = OfShard(s, c, h) \cup InShard(new, c, h)
    BY DEF InShard, OfShard, OfCell, old
  <2>4. OfShard(s, c, h) \in SUBSET Id /\ InShard(new, c, h) \in SUBSET Id
    BY <1>2 DEF InShard, OfShard, OfCell, old
  <2>5. Cardinality(InShard(all, c, h)) <= Cardinality(OfShard(s, c, h)) + Cardinality(InShard(new, c, h))
    BY <2>3, <2>4, UnionOfSets
  <2>6. /\ Cardinality(OfShard(s, c, h)) \in Nat
        /\ Cardinality(InShard(new, c, h)) \in Nat /\ Cardinality(InShard(all, c, h)) \in Nat
    BY <2>3, <2>4, SubsetOfId
  <2>7. Cardinality(OfShard(s, c, h)) < MaxPerShard
    BY <2>6, Numbers DEF ExhaustedBudgets
  <2> QED
    BY <2>2, <2>5, <2>6, <2>7, Numbers
<1>10. Budgeted(all)
  BY <1>7, <1>8, <1>9 DEF Budgeted
<1> QED
  BY <1>10 DEF all, old, new, plan

-----------------------------------------------------------------------------
(* The initial attempts                                                    *)

Started == Members(InitialList)

LEMMA InitialListFacts ==
    /\ InitialList \in Seq(Id) /\ Len(InitialList) = NumCells * NumShards
    /\ NumCells * NumShards \in Nat
    /\ \A k, l \in 1 .. Len(InitialList) : InitialList[k] = InitialList[l] => k = l
    /\ \A a \in Started : a \in Id /\ a.index = 0
<1> DEFINE n == NumCells * NumShards
           Own(k) == [cell |-> ((k - 1) \div NumShards) + 1, shard |-> ((k - 1) % NumShards) + 1, index |-> 0]
<1>1. n \in Nat
  BY Numbers
<1>2. InitialList = [k \in 1 .. n |-> Own(k)]
  BY DEF InitialList
<1>3. ASSUME NEW k \in 1 .. n PROVE Own(k) \in Id
  <2> DEFINE q == (k - 1) \div NumShards
             r == (k - 1) % NumShards
  <2>1. k - 1 \in Nat /\ k - 1 < NumCells * NumShards
    BY <1>1
  <2>2. q \in Nat /\ r \in 0 .. NumShards - 1 /\ k - 1 = NumShards * q + r
    BY <2>1, Numbers
  <2> HIDE DEF q, r
  <2>3. q < NumCells
    <3>1. SUFFICES ASSUME q >= NumCells PROVE FALSE
      BY <2>2, Numbers
    <3> DEFINE e == q - NumCells
    <3>2. e \in Nat /\ q = NumCells + e
      BY <2>2, <3>1, Numbers
    <3> HIDE DEF e
    <3>3. NumShards * q = NumCells * NumShards + NumShards * e /\ NumShards * e \in Nat
      BY <3>2, Numbers
    <3> QED
      BY <1>1, <2>1, <2>2, <3>3, Numbers
  <2>4. q + 1 \in Cell /\ r + 1 \in Shard /\ 0 \in 0 .. MaxIndex
    BY <2>2, <2>3, Numbers DEF Cell, Shard
  <2> QED
    BY <2>4 DEF Id, q, r
<1>4. ASSUME NEW k \in 1 .. n, NEW l \in 1 .. n, Own(k) = Own(l) PROVE k = l
  <2>1. (k - 1) \div NumShards = (l - 1) \div NumShards /\ (k - 1) % NumShards = (l - 1) % NumShards
    <3>1. k - 1 \in Nat /\ l - 1 \in Nat
      BY <1>1
    <3>2. /\ (k - 1) \div NumShards \in Int /\ (l - 1) \div NumShards \in Int
          /\ (k - 1) % NumShards \in Int /\ (l - 1) % NumShards \in Int
      BY <3>1, Numbers
    <3>3. Own(k).cell = Own(l).cell /\ Own(k).shard = Own(l).shard
      BY <1>4
    <3> QED
      BY <3>2, <3>3
  <2>2. k - 1 \in Nat /\ l - 1 \in Nat
    BY <1>1
  <2>3. k - 1 = NumShards * ((k - 1) \div NumShards) + ((k - 1) % NumShards)
    BY <2>2, Numbers
  <2>4. l - 1 = NumShards * ((l - 1) \div NumShards) + ((l - 1) % NumShards)
    BY <2>2, Numbers
  <2>5. k - 1 = l - 1
    BY <2>1, <2>3, <2>4
  <2> QED
    BY <1>1, <2>5
<1>5. \A k \in 1 .. n : Own(k).index = 0
  OBVIOUS
<1> HIDE DEF n, Own
<1>6. InitialList \in Seq(Id) /\ Len(InitialList) = n
  <2>1. [k \in 1 .. n |-> Own(k)] \in [1 .. n -> Id]
    BY <1>3
  <2> QED
    BY <1>1, <1>2, <2>1
<1>7. \A k, l \in 1 .. Len(InitialList) : InitialList[k] = InitialList[l] => k = l
  BY <1>2, <1>4, <1>6
<1>8. \A a \in Started : a \in Id /\ a.index = 0
  BY <1>2, <1>3, <1>5, <1>6 DEF Started, Members
<1> QED
  BY <1>1, <1>6, <1>7, <1>8 DEF n

LEMMA StartedWithinBudgets == Started \in SUBSET Id /\ Budgeted(Started)
<1> DEFINE n == NumCells * NumShards
<1>1. n \in Nat /\ Started \in SUBSET Id
  BY InitialListFacts
<1>2. Cardinality(Started) <= n /\ Cardinality(Started) \in Nat
  <2>1. \A a \in Started : \E i \in 1 .. n : a = InitialList[i]
    BY InitialListFacts DEF Started, Members
  <2> HIDE DEF n
  <2> QED
    BY <1>1, <2>1, Listed, SubsetOfId
<1>3. Cardinality(Started) * RowsPerAttempt <= MaxRequested
  <2> DEFINE m == Cardinality(Started)
  <2>1. m \in Nat /\ n - m \in Nat
    BY <1>1, <1>2
  <2>2. n * RowsPerAttempt <= MaxRequested
    BY Numbers
  <2> HIDE DEF n, m
  <2>3. n * RowsPerAttempt = m * RowsPerAttempt + (n - m) * RowsPerAttempt
    BY <1>1, <2>1, Numbers
  <2>4. m * RowsPerAttempt \in Nat /\ (n - m) * RowsPerAttempt \in Nat
    BY <2>1, Numbers
  <2>5. m * RowsPerAttempt <= MaxRequested
    BY <2>2, <2>3, <2>4, Numbers
  <2> QED
    BY <2>5 DEF m
<1>4. ASSUME NEW c \in Cell PROVE Cardinality(InCell(Started, c)) <= MaxPerCell
  <2> DEFINE q == [h \in 1 .. NumShards |-> [cell |-> c, shard |-> h, index |-> 0]]
  <2>1. \A a \in InCell(Started, c) : \E h \in 1 .. NumShards : a = q[h]
    <3> TAKE a \in InCell(Started, c)
    <3>1. a \in Id /\ a.cell = c /\ a.index = 0
      BY InitialListFacts DEF InCell
    <3>2. a.shard \in 1 .. NumShards /\ a = q[a.shard]
      BY <3>1 DEF Id, Shard
    <3> QED
      BY <3>2
  <2> HIDE DEF q
  <2>2. Cardinality(InCell(Started, c)) <= NumShards
    BY <2>1, Numbers, Listed
  <2>3. Cardinality(InCell(Started, c)) \in Nat
    <3>1. InCell(Started, c) \in SUBSET Id
      BY <1>1 DEF InCell
    <3> QED
      BY <3>1, SubsetOfId
  <2> QED
    BY <2>2, <2>3, Numbers
<1>5. ASSUME NEW c \in Cell, NEW h \in Shard PROVE Cardinality(InShard(Started, c, h)) <= MaxPerShard
  <2> DEFINE q == << [cell |-> c, shard |-> h, index |-> 0] >>
  <2>1. \A a \in InShard(Started, c, h) : \E i \in 1 .. 1 : a = q[i]
    <3> TAKE a \in InShard(Started, c, h)
    <3>1. a \in Id /\ a.cell = c /\ a.shard = h /\ a.index = 0
      BY InitialListFacts DEF InShard
    <3>2. a = q[1]
      BY <3>1 DEF Id
    <3> QED
      BY <3>2
  <2> HIDE DEF q
  <2>2. Cardinality(InShard(Started, c, h)) <= 1
    BY <2>1, Listed
  <2>3. Cardinality(InShard(Started, c, h)) \in Nat
    <3>1. InShard(Started, c, h) \in SUBSET Id
      BY <1>1 DEF InShard
    <3> QED
      BY <3>1, SubsetOfId
  <2> QED
    BY <2>2, <2>3, Numbers
<1> QED
  BY <1>1, <1>2, <1>3, <1>4, <1>5, Numbers DEF Budgeted

\* What a start generates: the initial attempts that are not completed, each once.
LEMMA InitialTasksFacts ==
    ASSUME NEW s
    PROVE  LET list == InitialTasks(s)
           IN  /\ list \in Seq(Id)
               /\ \A i, j \in 1 .. Len(list) : list[i] = list[j] => i = j
               /\ Members(list) = Started \ Completed(s)
<1> DEFINE list == Without(InitialList, Completed(s))
<1>1. /\ list \in Seq(Id)
      /\ \A i \in 1 .. Len(list) : \E j \in 1 .. Len(InitialList) :
            list[i] = InitialList[j] /\ InitialList[j] \notin Completed(s)
      /\ \A j \in 1 .. Len(InitialList) : InitialList[j] \notin Completed(s) =>
            \E i \in 1 .. Len(list) : list[i] = InitialList[j]
      /\ \A i, j \in 1 .. Len(list) : list[i] = list[j] => i = j
  BY InitialListFacts, WithoutFacts
<1> HIDE DEF list
<1>2. Members(list) \subseteq Started \ Completed(s)
  BY <1>1 DEF Members, Started
<1>3. Started \ Completed(s) \subseteq Members(list)
  BY <1>1 DEF Members, Started
<1> QED
  BY <1>1, <1>2, <1>3 DEF InitialTasks, list

-----------------------------------------------------------------------------
(* The inductive invariant                                                 *)

\* What the running call has not saved, and all that will be recorded if it ends.
Remaining == {tasks[i] : i \in index .. Len(tasks)}
Needed == Recorded(disk) \cup Remaining \cup Started

Place ==
    /\ pc \in {"generate", "write", "filter"} => round <= MaxRounds
    /\ pc = "plan" => round > 0
    /\ pc = "write" => index <= Len(tasks) /\ wrote <= Len(Batch)
    /\ pc \in {"filter", "plan", "done"} => index = Len(tasks) + 1

\* Memory is ahead of the file by what the running batch has written.
Unsaved ==
    /\ \A a \in Id :
           \/ mem[a] = disk[a]
           \/ /\ pc = "write"
              /\ \E i \in 1 .. wrote : a = Batch[i]
              /\ mem[a] \in Rows /\ raw[a] = mem[a]
    /\ pc = "write" => \A i \in 1 .. wrote : mem[Batch[i]] \in Rows

Grounded ==
    /\ NoGap(disk)
    /\ \A a \in Remaining : a.index > 0 => Before(a) \in Recorded(disk)

\* Round 0 is the initial attempts, and no other round begins before they are recorded.
InitialFirst ==
    /\ pc \in {"generate", "write"} /\ round = 0 =>
           Remaining \subseteq Started /\ Started \subseteq Recorded(disk) \cup Remaining
    /\ pc = "filter" \/ round > 0 => Started \subseteq Recorded(disk)

IInv == /\ TypeOK /\ EvidenceAgrees /\ FreshTasks
        /\ Place /\ Unsaved /\ Grounded /\ InitialFirst
        /\ Budgeted(Needed)

LEMMA InitIInv == Init => IInv
<1> SUFFICES ASSUME Init PROVE IInv
  OBVIOUS
<1>1. TypeOK
  <2>1. disk \in [Id -> Statuses] /\ mem \in [Id -> Statuses] /\ raw \in [Id -> {Absent} \cup Rows]
    BY DEF Init, Statuses
  <2>2. short \in [Cell -> Nat] /\ tasks \in Seq(Id) /\ Len(tasks) = 0
    BY DEF Init
  <2>3. /\ pc = "off" /\ index \in 1 .. 1 /\ size = BatchSize
        /\ wrote \in 0 .. BatchSize /\ round \in 0 .. MaxRounds + 1
    BY Numbers DEF Init
  <2> QED
    BY <2>1, <2>2, <2>3 DEF TypeOK, Statuses
<1>2. Recorded(disk) = {} /\ Completed(disk) = {} /\ Remaining = {}
  BY DEF Init, Recorded, Completed, Remaining, Absent, Rows
<1>3. Budgeted(Needed)
  BY <1>2, StartedWithinBudgets DEF Needed
<1>4. EvidenceAgrees /\ FreshTasks /\ Unsaved
  BY <1>2 DEF EvidenceAgrees, FreshTasks, Unsaved, Init
<1>5. Place /\ Grounded /\ InitialFirst
  BY <1>2 DEF Place, Grounded, NoGap, InitialFirst, Init
<1> QED
  BY <1>1, <1>3, <1>4, <1>5 DEF IInv

-----------------------------------------------------------------------------
(* Facts of a state                                                        *)

\* Between batches memory is the file.
LEMMA MemoryIsFile ==
    ASSUME TypeOK, Unsaved, pc # "write"
    PROVE  mem = disk
<1>1. disk \in [Id -> Statuses] /\ mem \in [Id -> Statuses]
  BY DEF TypeOK, Statuses
<1>2. \A a \in Id : mem[a] = disk[a]
  BY DEF Unsaved
<1> QED
  BY <1>1, <1>2

LEMMA BatchFacts ==
    ASSUME TypeOK, index <= Len(tasks)
    PROVE  /\ Batch \in Seq(Id)
           /\ Len(Batch) \in 1 .. BatchSize /\ Len(Batch) <= size
           /\ index + Len(Batch) \in 1 .. Len(tasks) + 1
           /\ \A i \in 1 .. Len(Batch) : index + i - 1 \in index .. Len(tasks) /\ Batch[i] = tasks[index + i - 1]
<1> DEFINE last == Least(index + size - 1, Len(tasks))
<1>1. tasks \in Seq(Id) /\ Len(tasks) \in Nat /\ index \in Nat /\ index >= 1
  BY DEF TypeOK
<1>2. size \in Nat /\ size >= 1 /\ size <= BatchSize
  BY Numbers DEF TypeOK
<1>3. last \in Nat /\ last >= index /\ last <= Len(tasks) /\ last - index + 1 <= size
  BY <1>1, <1>2 DEF Least
<1> HIDE DEF last
<1>4. /\ SubSeq(tasks, index, last) \in Seq(Id)
      /\ Len(SubSeq(tasks, index, last)) = last - index + 1
      /\ \A i \in 1 .. last - index + 1 : SubSeq(tasks, index, last)[i] = tasks[index + i - 1]
  BY <1>1, <1>3
<1>5. Batch = SubSeq(tasks, index, last)
  BY DEF Batch, last
<1> HIDE DEF last
<1> QED
  BY <1>1, <1>2, <1>3, <1>4, <1>5, Numbers

\* The batch is part of what is left.
LEMMA BatchRemains ==
    ASSUME TypeOK, index <= Len(tasks)
    PROVE  ToSet(Batch) \subseteq Remaining /\ Remaining \subseteq Id
<1>1. Remaining \subseteq Id
  <2>1. tasks \in Seq(Id) /\ index \in Nat /\ index >= 1
    BY DEF TypeOK
  <2> QED
    BY <2>1 DEF Remaining
<1>2. ASSUME NEW a \in ToSet(Batch) PROVE a \in Remaining
  <2>1. Batch \in Seq(Id)
    BY BatchFacts
  <2>2. PICK i \in 1 .. Len(Batch) : a = Batch[i]
    BY <2>1 DEF ToSet
  <2> QED
    BY <2>2, BatchFacts DEF Remaining
<1> QED
  BY <1>1, <1>2

\* A record stays a record as long as statuses do not turn to absent.
LEMMA RecordedGrows ==
    ASSUME TypeOK, Unsaved, Place
    PROVE  /\ Recorded(disk) \subseteq Recorded(mem)
           /\ index <= Len(tasks) => Recorded(mem) \subseteq Recorded(disk) \cup ToSet(Batch)
<1>1. ASSUME NEW a \in Recorded(disk) PROVE a \in Recorded(mem)
  <2>1. mem[a] = disk[a] \/ mem[a] \in Rows
    BY <1>1 DEF Unsaved, Recorded
  <2> QED
    BY <2>1 DEF Recorded, Rows, Absent
<1>2. ASSUME index <= Len(tasks), NEW a \in Recorded(mem)
      PROVE  a \in Recorded(disk) \cup ToSet(Batch)
  <2>1. CASE mem[a] = disk[a]
    BY <1>2, <2>1 DEF Recorded
  <2>2. CASE mem[a] # disk[a]
    <3>1. a \in Id
      BY DEF Recorded
    <3>2. PICK i \in 1 .. wrote : a = Batch[i]
      BY <2>2, <3>1 DEF Unsaved
    <3>3. pc = "write" /\ wrote <= Len(Batch)
      BY <2>2, <3>1 DEF Unsaved, Place
    <3>4. Batch \in Seq(Id) /\ Len(Batch) \in Nat /\ wrote \in Nat
      BY <1>2, BatchFacts DEF TypeOK
    <3>5. i \in 1 .. Len(Batch)
      BY <3>3, <3>4
    <3>6. a \in ToSet(Batch)
      BY <3>2, <3>4, <3>5 DEF ToSet
    <3> QED
      BY <3>6
  <2> QED
    BY <2>1, <2>2
<1> QED
  BY <1>1, <1>2

-----------------------------------------------------------------------------
(* Steps                                                                   *)

\* What a step keeps that changes neither the file nor the call.
LEMMA Kept ==
    ASSUME IInv, UNCHANGED <<disk, tasks, index>>
    PROVE  Grounded' /\ Budgeted(Needed)' /\ Remaining' = Remaining /\ Recorded(disk)' = Recorded(disk)
<1>1. Remaining' = Remaining /\ Recorded(disk)' = Recorded(disk)
  BY DEF Remaining, Recorded
<1>2. Needed' = Needed
  BY <1>1 DEF Needed
<1>3. NoGap(disk)'
  BY DEF IInv, Grounded, NoGap, Recorded
<1>4. Budgeted(Needed)'
  BY <1>2 DEF IInv, Budgeted, InCell, InShard
<1> QED
  BY <1>1, <1>3, <1>4 DEF IInv, Grounded

LEMMA GenerateBatchStep ==
    ASSUME IInv, GenerateBatch
    PROVE  IInv'
<1>0. /\ pc = "generate" /\ index <= Len(tasks) /\ pc' = "write" /\ wrote' = 0
      /\ UNCHANGED <<disk, mem, raw, tasks, index, size, round, short>>
  BY DEF GenerateBatch
<1>1. TypeOK'
  BY <1>0, Numbers DEF IInv, TypeOK
<1>2. EvidenceAgrees' /\ FreshTasks'
  BY <1>0 DEF IInv, EvidenceAgrees, FreshTasks, Completed, Recorded
<1>3. mem = disk
  BY <1>0, MemoryIsFile DEF IInv
<1>4. Unsaved'
  BY <1>0, <1>3 DEF Unsaved
<1>5. Len(Batch) \in 1 .. BatchSize /\ Batch' = Batch
  BY <1>0, BatchFacts DEF IInv, Batch
<1>6. Place'
  BY <1>0, <1>5 DEF IInv, Place
<1>7. Grounded' /\ Budgeted(Needed)' /\ Remaining' = Remaining /\ Recorded(disk)' = Recorded(disk)
  BY <1>0, Kept
<1>8. InitialFirst'
  BY <1>0, <1>7 DEF IInv, InitialFirst
<1> QED
  BY <1>1, <1>2, <1>4, <1>6, <1>7, <1>8 DEF IInv

LEMMA OomFallbackStep ==
    ASSUME IInv, OomFallback
    PROVE  IInv'
<1>0. /\ pc = "generate" /\ size' = Fallback
      /\ UNCHANGED <<disk, mem, raw, pc, tasks, index, wrote, round, short>>
  BY DEF OomFallback
<1>1. TypeOK'
  BY <1>0 DEF IInv, TypeOK
<1>2. EvidenceAgrees' /\ FreshTasks'
  BY <1>0 DEF IInv, EvidenceAgrees, FreshTasks, Completed, Recorded
<1>3. mem = disk
  BY <1>0, MemoryIsFile DEF IInv
<1>4. Unsaved' /\ Place'
  BY <1>0, <1>3 DEF IInv, Unsaved, Place
<1>5. Grounded' /\ Budgeted(Needed)' /\ Remaining' = Remaining /\ Recorded(disk)' = Recorded(disk)
  BY <1>0, Kept
<1>6. InitialFirst'
  BY <1>0, <1>5 DEF IInv, InitialFirst
<1> QED
  BY <1>1, <1>2, <1>4, <1>5, <1>6 DEF IInv

\* Only the output of a task that is not completed is written.
LEMMA WriteTaskStep ==
    ASSUME IInv, WriteTask
    PROVE  IInv'
<1> DEFINE b == Batch[wrote + 1]
<1>0. PICK y \in Rows : /\ pc = "write" /\ wrote < Len(Batch) /\ wrote' = wrote + 1
                        /\ raw' = [raw EXCEPT ![b] = y] /\ mem' = [mem EXCEPT ![b] = y]
                        /\ UNCHANGED <<disk, pc, tasks, index, size, round, short>>
  BY DEF WriteTask
<1>1. /\ index <= Len(tasks) /\ wrote \in Nat
      /\ Batch \in Seq(Id) /\ Len(Batch) \in 1 .. BatchSize
      /\ \A i \in 1 .. Len(Batch) : index + i - 1 \in index .. Len(tasks) /\ Batch[i] = tasks[index + i - 1]
  BY <1>0, BatchFacts DEF IInv, Place, TypeOK
<1>2. wrote + 1 \in 1 .. Len(Batch)
  BY <1>0, <1>1
<1>3. b \in Id
  BY <1>1, <1>2
<1>4. TypeOK'
  <2>1. mem' \in [Id -> Statuses] /\ raw' \in [Id -> {Absent} \cup Rows]
    BY <1>0 DEF IInv, TypeOK, Statuses
  <2>2. wrote' \in 0 .. BatchSize
    BY <1>0, <1>1, Numbers
  <2> QED
    BY <1>0, <2>1, <2>2 DEF IInv, TypeOK, Statuses
<1>5. b \notin Completed(disk)
  <2>1. b \notin IF round = 0 THEN Completed(disk) ELSE Recorded(disk)
    BY <1>0, <1>1, <1>2 DEF IInv, FreshTasks
  <2>2. Completed(disk) \subseteq Recorded(disk)
    BY DEF Completed, Recorded, Rows, Absent
  <2> QED
    BY <2>1, <2>2
<1>6. EvidenceAgrees'
  <2> SUFFICES ASSUME NEW a \in Id, disk[a] \in Rows PROVE raw'[a] = disk[a]
    BY <1>0 DEF EvidenceAgrees, Completed
  <2>1. a # b /\ raw[a] = disk[a]
    BY <1>5 DEF Completed, IInv, EvidenceAgrees
  <2> QED
    BY <1>0, <2>1 DEF IInv, TypeOK
<1>7. FreshTasks'
  BY <1>0 DEF IInv, FreshTasks, Completed, Recorded
<1>8. Place'
  BY <1>0, <1>1 DEF IInv, Place, Batch
<1>9. Unsaved'
  <2>0. Batch' = Batch
    BY <1>0 DEF Batch
  <2>3. ASSUME NEW i \in 1 .. wrote' PROVE mem'[Batch[i]] \in Rows
    <3>1. i \in 1 .. Len(Batch) /\ Batch[i] \in Id
      BY <1>0, <1>1
    <3>2. CASE Batch[i] = b
      BY <1>0, <3>1, <3>2 DEF IInv, TypeOK
    <3>3. CASE Batch[i] # b
      <4>1. i \in 1 .. wrote
        BY <1>0, <1>1, <3>3
      <4>2. mem[Batch[i]] \in Rows
        BY <1>0, <4>1 DEF IInv, Unsaved
      <4> QED
        BY <1>0, <3>1, <3>3, <4>2 DEF IInv, TypeOK
    <3> QED
      BY <3>2, <3>3
  <2> SUFFICES ASSUME NEW a \in Id, mem'[a] # disk[a]
               PROVE  (\E i \in 1 .. wrote' : a = Batch[i]) /\ mem'[a] \in Rows /\ raw'[a] = mem'[a]
    BY <1>0, <2>0, <2>3 DEF Unsaved
  <2>1. CASE a = b
    <3>1. wrote + 1 \in 1 .. wrote'
      BY <1>0, <1>1
    <3>2. \E i \in 1 .. wrote' : a = Batch[i]
      BY <2>1, <3>1
    <3>3. mem'[a] = y /\ raw'[a] = y
      BY <1>0, <2>1 DEF IInv, TypeOK
    <3> QED
      BY <3>2, <3>3
  <2>2. CASE a # b
    <3>1. mem'[a] = mem[a] /\ raw'[a] = raw[a]
      BY <1>0, <2>2 DEF IInv, TypeOK
    <3>2. /\ \E i \in 1 .. wrote : a = Batch[i]
          /\ mem[a] \in Rows /\ raw[a] = mem[a]
      BY <3>1 DEF IInv, Unsaved
    <3>3. \A i \in 1 .. wrote : i \in 1 .. wrote'
      BY <1>0, <1>1
    <3> QED
      BY <3>1, <3>2, <3>3
  <2> QED
    BY <2>1, <2>2
<1>10. Grounded' /\ Budgeted(Needed)' /\ Remaining' = Remaining /\ Recorded(disk)' = Recorded(disk)
  BY <1>0, Kept
<1>11. InitialFirst'
  BY <1>0, <1>10 DEF IInv, InitialFirst
<1> QED
  BY <1>4, <1>6, <1>7, <1>8, <1>9, <1>10, <1>11 DEF IInv

\* A saved batch leaves the call with the rest of its tasks.
LEMMA SaveBatchStep ==
    ASSUME IInv, SaveBatch
    PROVE  IInv'
<1>0. /\ pc = "write" /\ wrote = Len(Batch) /\ disk' = mem /\ index' = index + Len(Batch)
      /\ wrote' = 0 /\ pc' = "generate"
      /\ UNCHANGED <<mem, raw, tasks, size, round, short>>
  BY DEF SaveBatch
<1>1. /\ index <= Len(tasks) /\ index \in Nat /\ index >= 1 /\ tasks \in Seq(Id) /\ Len(tasks) \in Nat
      /\ Batch \in Seq(Id) /\ Len(Batch) \in Nat /\ Len(Batch) >= 1
      /\ index + Len(Batch) \in 1 .. Len(tasks) + 1
      /\ \A i \in 1 .. Len(Batch) : index + i - 1 \in index .. Len(tasks) /\ Batch[i] = tasks[index + i - 1]
  BY <1>0, BatchFacts DEF IInv, Place, TypeOK
<1>2. TypeOK'
  BY <1>0, <1>1, Numbers DEF IInv, TypeOK
<1>3. \A i \in index' .. Len(tasks) : i \in index .. Len(tasks) /\ i \notin 1 .. index + Len(Batch) - 1
  BY <1>0, <1>1
\* A batch and what is left after it have no task in common.
<1>4. \A i \in index' .. Len(tasks) : \A j \in 1 .. Len(Batch) : tasks[i] # Batch[j]
  <2> SUFFICES ASSUME NEW i \in index' .. Len(tasks), NEW j \in 1 .. Len(Batch), tasks[i] = Batch[j]
               PROVE  FALSE
    OBVIOUS
  <2>1. i \in 1 .. Len(tasks) /\ index + j - 1 \in 1 .. Len(tasks) /\ i # index + j - 1
    BY <1>0, <1>1
  <2>2. tasks[i] = tasks[index + j - 1]
    BY <1>1
  <2> QED
    BY <2>1, <2>2 DEF IInv, FreshTasks
<1>5. \A i \in index' .. Len(tasks) : tasks[i] \in Id /\ mem[tasks[i]] = disk[tasks[i]]
  <2> TAKE i \in index' .. Len(tasks)
  <2>1. tasks[i] \in Id
    BY <1>1, <1>3
  <2>2. ~ \E j \in 1 .. wrote : tasks[i] = Batch[j]
    BY <1>0, <1>4
  <2> QED
    BY <2>1, <2>2 DEF IInv, Unsaved
<1>6. Recorded(disk) \subseteq Recorded(mem) /\ Recorded(mem) \subseteq Recorded(disk) \cup ToSet(Batch)
  BY <1>1, RecordedGrows DEF IInv
<1>7. Recorded(disk)' = Recorded(mem)
  BY <1>0 DEF Recorded
<1>8. Remaining' \subseteq Remaining
  BY <1>0, <1>3 DEF Remaining
<1>9. ToSet(Batch) \subseteq Remaining /\ Remaining \subseteq Id
  BY <1>1, BatchRemains DEF IInv
<1>10. Remaining \subseteq ToSet(Batch) \cup Remaining'
  <2> SUFFICES ASSUME NEW i \in index .. Len(tasks) PROVE tasks[i] \in ToSet(Batch) \cup Remaining'
    BY DEF Remaining
  <2>1. CASE i < index + Len(Batch)
    <3>1. i - index + 1 \in 1 .. Len(Batch) /\ index + (i - index + 1) - 1 = i
      BY <1>1, <2>1
    <3>2. tasks[i] = Batch[i - index + 1]
      BY <1>1, <3>1
    <3>3. tasks[i] \in ToSet(Batch)
      BY <1>1, <3>1, <3>2 DEF ToSet
    <3> QED
      BY <3>3
  <2>2. CASE ~(i < index + Len(Batch))
    <3>1. i \in index' .. Len(tasks)
      BY <1>0, <1>1, <2>2
    <3>2. tasks[i] \in Remaining'
      BY <1>0, <3>1 DEF Remaining
    <3> QED
      BY <3>2
  <2> QED
    BY <2>1, <2>2
\* Every task of the batch is recorded now.
<1>11. ToSet(Batch) \subseteq Recorded(mem)
  <2> SUFFICES ASSUME NEW j \in 1 .. Len(Batch) PROVE Batch[j] \in Recorded(mem)
    BY <1>1 DEF ToSet
  <2>1. Batch[j] \in Id
    BY <1>1
  <2>2. mem[Batch[j]] \in Rows
    BY <1>0 DEF IInv, Unsaved
  <2> QED
    BY <2>1, <2>2 DEF Recorded, Rows, Absent
<1>12. EvidenceAgrees'
  <2> SUFFICES ASSUME NEW a \in Id, mem[a] \in Rows PROVE raw[a] = mem[a]
    BY <1>0 DEF EvidenceAgrees, Completed
  <2>1. CASE mem[a] = disk[a]
    BY <2>1 DEF IInv, EvidenceAgrees, Completed
  <2>2. CASE mem[a] # disk[a]
    BY <2>2 DEF IInv, Unsaved
  <2> QED
    BY <2>1, <2>2
<1>13. FreshTasks'
  <2>1. \A i \in index' .. Len(tasks) :
            /\ tasks[i] \in Completed(mem) <=> tasks[i] \in Completed(disk)
            /\ tasks[i] \in Recorded(mem) <=> tasks[i] \in Recorded(disk)
    BY <1>5 DEF Completed, Recorded
  <2>2. \A i \in index .. Len(tasks) :
            tasks[i] \notin IF round = 0 THEN Completed(disk) ELSE Recorded(disk)
    BY <1>0 DEF IInv, FreshTasks
  <2>3. \A i \in index' .. Len(tasks) :
            tasks[i] \notin IF round = 0 THEN Completed(mem) ELSE Recorded(mem)
    BY <1>3, <2>1, <2>2
  <2>4. Completed(disk)' = Completed(mem)
    BY <1>0 DEF Completed
  <2> QED
    BY <1>0, <1>7, <2>3, <2>4 DEF IInv, FreshTasks
<1>14. Place' /\ Unsaved'
  BY <1>0 DEF IInv, Place, Unsaved
<1>15. Grounded'
  <2>1. \A a \in Recorded(mem) : a.index > 0 => Before(a) \in Recorded(mem)
    <3> SUFFICES ASSUME NEW a \in Recorded(mem), a.index > 0 PROVE Before(a) \in Recorded(disk)
      BY <1>6
    <3>1. a \in Recorded(disk) \/ a \in Remaining
      BY <1>6, <1>9
    <3> QED
      BY <3>1 DEF IInv, Grounded, NoGap
  <2>2. \A a \in Remaining' : a.index > 0 => Before(a) \in Recorded(mem)
    BY <1>6, <1>8 DEF IInv, Grounded
  <2>3. NoGap(disk)'
    BY <1>7, <2>1 DEF NoGap
  <2> QED
    BY <1>7, <2>2, <2>3 DEF Grounded
<1>16. InitialFirst'
  <2>1. CASE round = 0
    <3>1. Remaining' \subseteq Started
      BY <1>0, <1>8, <2>1 DEF IInv, InitialFirst
    <3>2. Started \subseteq Recorded(mem) \cup Remaining'
      BY <1>0, <1>6, <1>10, <1>11, <2>1 DEF IInv, InitialFirst
    <3> QED
      BY <1>0, <1>7, <2>1, <3>1, <3>2 DEF InitialFirst
  <2>2. CASE round # 0
    <3>1. round > 0
      BY <2>2 DEF IInv, TypeOK
    <3>2. Started \subseteq Recorded(mem)
      BY <1>6, <3>1 DEF IInv, InitialFirst
    <3> QED
      BY <1>0, <1>7, <2>2, <3>2 DEF InitialFirst
  <2> QED
    BY <2>1, <2>2
<1>17. Budgeted(Needed)'
  <2>1. Needed \in SUBSET Id
    BY <1>9, StartedWithinBudgets DEF Needed, Recorded
  <2>2. Needed' \in SUBSET Needed
    BY <1>6, <1>7, <1>8, <1>9 DEF Needed
  <2>3. Budgeted(Needed')
    BY <2>1, <2>2, BudgetedSubset DEF IInv
  <2> QED
    BY <2>3 DEF Budgeted, InCell, InShard
<1> QED
  BY <1>2, <1>12, <1>13, <1>14, <1>15, <1>16, <1>17 DEF IInv

\* A batch that fails is recorded as failed, and the call is over.
LEMMA BatchFailsStep ==
    ASSUME IInv, BatchFails
    PROVE  IInv'
<1>0. /\ pc = "generate" /\ index <= Len(tasks) /\ pc' = "raised"
      /\ mem' = [a \in Id |-> IF a \in ToSet(Batch) THEN Failed ELSE mem[a]]
      /\ disk' = mem'
      /\ UNCHANGED <<raw, tasks, index, size, wrote, round, short>>
  BY DEF BatchFails, call
<1>1. mem = disk
  BY <1>0, MemoryIsFile DEF IInv
<1>2. ToSet(Batch) \subseteq Remaining /\ Remaining \subseteq Id /\ Remaining' = Remaining
  BY <1>0, BatchRemains DEF IInv, Remaining
<1>3. TypeOK'
  <2>1. mem' \in [Id -> Statuses]
    BY <1>0 DEF IInv, TypeOK, Statuses
  <2> QED
    BY <1>0, <2>1 DEF IInv, TypeOK, Statuses
<1>4. Recorded(disk)' = Recorded(disk) \cup ToSet(Batch)
  <2>1. \A a \in Id : disk'[a] = IF a \in ToSet(Batch) THEN Failed ELSE disk[a]
    BY <1>0, <1>1
  <2> QED
    BY <1>2, <2>1 DEF Recorded, Failed, Absent
<1>5. EvidenceAgrees'
  <2> SUFFICES ASSUME NEW a \in Id, disk'[a] \in Rows PROVE raw'[a] = disk'[a]
    BY DEF EvidenceAgrees, Completed
  <2>1. a \notin ToSet(Batch) /\ disk'[a] = disk[a]
    BY <1>0, <1>1 DEF Rows, Failed
  <2> QED
    BY <1>0, <2>1 DEF IInv, EvidenceAgrees, Completed
<1>6. FreshTasks' /\ Place'
  BY <1>0 DEF IInv, FreshTasks, Place
<1>7. Unsaved'
  BY <1>0 DEF Unsaved
<1>8. Grounded'
  <2>1. \A a \in Recorded(disk) \cup Remaining : a.index > 0 => Before(a) \in Recorded(disk)
    BY DEF IInv, Grounded, NoGap
  <2>2. NoGap(disk)'
    BY <1>2, <1>4, <2>1 DEF NoGap
  <2>3. \A a \in Remaining' : a.index > 0 => Before(a) \in Recorded(disk)'
    BY <1>2, <1>4, <2>1
  <2> QED
    BY <2>2, <2>3 DEF Grounded
<1>9. InitialFirst'
  BY <1>0, <1>4 DEF IInv, InitialFirst
<1>10. Budgeted(Needed)'
  <2>1. Needed' = Needed
    BY <1>2, <1>4 DEF Needed
  <2> QED
    BY <2>1 DEF IInv, Budgeted, InCell, InShard
<1> QED
  BY <1>3, <1>5, <1>6, <1>7, <1>8, <1>9, <1>10 DEF IInv

LEMMA TasksDoneStep ==
    ASSUME IInv, TasksDone
    PROVE  IInv'
<1>0. /\ pc = "generate" /\ index = Len(tasks) + 1 /\ pc' = "filter"
      /\ UNCHANGED <<disk, mem, raw, tasks, index, size, wrote, round, short>>
  BY DEF TasksDone, call
<1>1. mem = disk
  BY <1>0, MemoryIsFile DEF IInv
<1>2. TypeOK' /\ EvidenceAgrees' /\ FreshTasks' /\ Place' /\ Unsaved'
  BY <1>0, <1>1 DEF IInv, TypeOK, EvidenceAgrees, FreshTasks, Place, Unsaved, Completed, Recorded
<1>3. Grounded' /\ Budgeted(Needed)' /\ Remaining' = Remaining /\ Recorded(disk)' = Recorded(disk)
  BY <1>0, Kept
<1>4. Remaining = {}
  BY <1>0 DEF Remaining, IInv, TypeOK
<1>5. round = 0 \/ round > 0
  BY DEF IInv, TypeOK
<1>6. InitialFirst'
  BY <1>0, <1>3, <1>4, <1>5 DEF IInv, InitialFirst
<1> QED
  BY <1>2, <1>3, <1>6 DEF IInv

LEMMA DeficitsType ==
    ASSUME NEW s
    PROVE  Deficits(s) \in [Cell -> Nat]
<1>1. ASSUME NEW c \in Cell PROVE Retained(s, c) \in Nat
  <2> DEFINE P == Id \X (1 .. MaxYield)
             R == {r \in P : r[1].cell = c /\ r[2] <= s[r[1]]}
  <2>1. IsFiniteSet(1 .. MaxYield)
    BY Numbers, FS_Interval
  <2>2. IsFiniteSet(P)
    BY <2>1, IdFinite, FS_Product
  <2>3. R \in SUBSET P /\ Retained(s, c) = Cardinality(R)
    BY DEF Retained
  <2> HIDE DEF P, R
  <2> QED
    BY <2>2, <2>3, FS_Subset, FS_CardinalityType
<1>2. \A c \in Cell : (IF Retained(s, c) < Target THEN Target - Retained(s, c) ELSE 0) \in Nat
  BY <1>1, Numbers
<1> QED
  BY <1>2 DEF Deficits

\* The next round: nothing is left of the last call.
LEMMA RoundStep ==
    ASSUME IInv, pc = "filter", pc' = "plan", round' = round + 1, short' \in [Cell -> Nat],
           UNCHANGED <<disk, mem, raw, call>>
    PROVE  IInv'
<1>0. UNCHANGED <<tasks, index, size, wrote>>
  BY DEF call
<1>1. mem = disk /\ index = Len(tasks) + 1 /\ round \in Nat /\ round <= MaxRounds
  BY MemoryIsFile DEF IInv, Place, TypeOK
<1>2. TypeOK'
  <2>1. round' \in 0 .. MaxRounds + 1
    BY <1>1, Numbers
  <2> QED
    BY <1>0, <2>1 DEF IInv, TypeOK
<1>3. EvidenceAgrees' /\ Unsaved'
  BY <1>0, <1>1 DEF IInv, EvidenceAgrees, Unsaved, Completed
<1>4. FreshTasks'
  BY <1>0, <1>1 DEF IInv, FreshTasks, TypeOK
<1>5. Place'
  BY <1>0, <1>1 DEF Place
<1>6. Grounded' /\ Budgeted(Needed)' /\ Remaining' = Remaining /\ Recorded(disk)' = Recorded(disk)
  BY <1>0, Kept
<1>7. InitialFirst'
  BY <1>6 DEF IInv, InitialFirst
<1> QED
  BY <1>2, <1>3, <1>4, <1>5, <1>6, <1>7 DEF IInv

LEMMA FilterStep ==
    ASSUME IInv, FilterShort \/ SelectionShort \/ Select
    PROVE  IInv'
<1>1. CASE FilterShort
  BY <1>1, DeficitsType, RoundStep DEF FilterShort
<1>2. CASE SelectionShort
  <2>1. short' \in [Cell -> Nat]
    BY <1>2 DEF SelectionShort
  <2> QED
    BY <1>2, <2>1, RoundStep DEF SelectionShort
<1>3. CASE Select
  <2>0. /\ pc = "filter" /\ pc' = "done" /\ short' = [c \in Cell |-> 0]
        /\ UNCHANGED <<disk, mem, raw, tasks, index, size, wrote, round>>
    BY <1>3 DEF Select, call
  <2>1. mem = disk
    BY <2>0, MemoryIsFile DEF IInv
  <2>2. TypeOK' /\ EvidenceAgrees' /\ FreshTasks' /\ Place' /\ Unsaved'
    BY <2>0, <2>1 DEF IInv, TypeOK, EvidenceAgrees, FreshTasks, Place, Unsaved, Completed, Recorded
  <2>3. Grounded' /\ Budgeted(Needed)' /\ Remaining' = Remaining /\ Recorded(disk)' = Recorded(disk)
    BY <2>0, Kept
  <2>4. InitialFirst'
    BY <2>0, <2>3 DEF IInv, InitialFirst
  <2> QED
    BY <2>2, <2>3, <2>4 DEF IInv
<1> QED
  BY <1>1, <1>2, <1>3

\* A plan is new, follows what is recorded, and fits into the budgets.
LEMMA PlanRefillStep ==
    ASSUME IInv, PlanRefill
    PROVE  IInv'
<1> DEFINE plan == Plan(mem, short)
<1>0. /\ pc = "plan" /\ round <= MaxRounds /\ pc' = "generate"
      /\ ~ExhaustedBudgets(mem) /\ ~WouldExceed(mem, plan)
      /\ tasks' = plan /\ index' = 1 /\ size' = BatchSize /\ wrote' = 0
      /\ UNCHANGED <<disk, mem, raw, round, short>>
  BY DEF PlanRefill, NewCall
<1>1. mem = disk /\ short \in [Cell -> Nat] /\ NoGap(mem) /\ round > 0
  BY <1>0, MemoryIsFile DEF IInv, TypeOK, Grounded, Place
<1>2. plan \in Seq(Id) /\ \A k, l \in 1 .. Len(plan) : plan[k] = plan[l] => k = l
  BY <1>0, <1>1, PlanFacts
<1>3. \A a \in Members(plan) :
          a \in Id /\ a \notin Recorded(disk) /\ (a.index > 0 => Before(a) \in Recorded(disk))
  BY <1>0, <1>1, PlanIsNew
<1>4. Budgeted(Recorded(disk) \cup Members(plan))
  BY <1>0, <1>1, PlanWithinBudgets
<1> HIDE DEF plan
<1>5. Remaining' = Members(plan) /\ Recorded(disk)' = Recorded(disk) /\ Started \subseteq Recorded(disk)
  BY <1>0, <1>1 DEF Remaining, Members, Recorded, IInv, InitialFirst
<1>6. TypeOK'
  <2>1. Len(plan) \in Nat
    BY <1>2
  <2> QED
    BY <1>0, <1>2, <2>1, Numbers DEF IInv, TypeOK
<1>7. EvidenceAgrees' /\ Unsaved' /\ Place'
  BY <1>0, <1>1 DEF IInv, EvidenceAgrees, Unsaved, Place, Completed
<1>8. FreshTasks'
  BY <1>0, <1>1, <1>2, <1>3, <1>5 DEF FreshTasks, Members
<1>9. Grounded'
  BY <1>0, <1>3, <1>5 DEF IInv, Grounded, NoGap
<1>10. InitialFirst'
  BY <1>0, <1>1, <1>5 DEF InitialFirst
<1>11. Budgeted(Needed)'
  <2>1. Needed' = Recorded(disk) \cup Members(plan)
    BY <1>5 DEF Needed
  <2> QED
    BY <1>4, <2>1 DEF Budgeted, InCell, InShard
<1> QED
  BY <1>6, <1>7, <1>8, <1>9, <1>10, <1>11 DEF IInv

LEMMA GiveUpStep ==
    ASSUME IInv, GiveUp
    PROVE  IInv'
<1>0. /\ pc = "plan" /\ pc' = "raised"
      /\ UNCHANGED <<disk, mem, raw, tasks, index, size, wrote, round, short>>
  BY DEF GiveUp, call
<1>1. mem = disk
  BY <1>0, MemoryIsFile DEF IInv
<1>2. TypeOK' /\ EvidenceAgrees' /\ FreshTasks' /\ Place' /\ Unsaved'
  BY <1>0, <1>1 DEF IInv, TypeOK, EvidenceAgrees, FreshTasks, Place, Unsaved, Completed, Recorded
<1>3. Grounded' /\ Budgeted(Needed)' /\ Remaining' = Remaining /\ Recorded(disk)' = Recorded(disk)
  BY <1>0, Kept
<1>4. InitialFirst'
  BY <1>0, <1>3 DEF IInv, InitialFirst
<1> QED
  BY <1>2, <1>3, <1>4 DEF IInv

\* A start: what is not completed of the initial attempts.
LEMMA LoadStep ==
    ASSUME IInv, Load
    PROVE  IInv'
<1> DEFINE list == InitialTasks(mem)
<1>0. /\ pc = "off" /\ pc' = "generate" /\ round' = 0
      /\ tasks' = list /\ index' = 1 /\ size' = BatchSize /\ wrote' = 0
      /\ UNCHANGED <<disk, mem, raw, short>>
  BY DEF Load, NewCall
<1>1. mem = disk
  BY <1>0, MemoryIsFile DEF IInv
<1>2. /\ list \in Seq(Id)
      /\ \A i, j \in 1 .. Len(list) : list[i] = list[j] => i = j
      /\ Members(list) = Started \ Completed(disk)
  BY <1>1, InitialTasksFacts
<1> HIDE DEF list
<1>3. Remaining' = Members(list) /\ Recorded(disk)' = Recorded(disk) /\ Completed(disk)' = Completed(disk)
  BY <1>0 DEF Remaining, Members, Recorded, Completed
<1>4. TypeOK'
  <2>1. Len(list) \in Nat
    BY <1>2
  <2> QED
    BY <1>0, <1>2, <2>1, Numbers DEF IInv, TypeOK
<1>5. EvidenceAgrees' /\ Unsaved' /\ Place'
  BY <1>0, <1>1, Numbers DEF IInv, EvidenceAgrees, Unsaved, Place, Completed
<1>6. FreshTasks'
  BY <1>0, <1>2, <1>3 DEF FreshTasks, Members
<1>7. Grounded'
  <2>1. \A a \in Members(list) : ~(a.index > 0)
    BY <1>2, InitialListFacts
  <2> QED
    BY <1>0, <1>3, <2>1 DEF IInv, Grounded, NoGap
<1>8. InitialFirst'
  <2>1. Completed(disk) \subseteq Recorded(disk)
    BY DEF Completed, Recorded, Rows, Absent
  <2> QED
    BY <1>0, <1>2, <1>3, <2>1 DEF InitialFirst
<1>9. Budgeted(Needed)'
  <2>1. Needed \in SUBSET Id
    <3>1. Remaining \subseteq Id
      BY DEF IInv, TypeOK, Remaining
    <3> QED
      BY <3>1, StartedWithinBudgets DEF Needed, Recorded
  <2>2. Needed' \in SUBSET Needed
    BY <1>2, <1>3 DEF Needed
  <2>3. Budgeted(Needed')
    BY <2>1, <2>2, BudgetedSubset DEF IInv
  <2> QED
    BY <2>3 DEF Budgeted, InCell, InShard
<1> QED
  BY <1>4, <1>5, <1>6, <1>7, <1>8, <1>9 DEF IInv

\* A process that dies, or a stage that is started again, keeps the file only.
LEMMA ForgetStep ==
    ASSUME IInv, Crash \/ Rerun
    PROVE  IInv'
<1>0. /\ mem' = disk /\ pc' = "off" /\ round' = 0 /\ short' = [c \in Cell |-> 0]
      /\ tasks' = <<>> /\ index' = 1 /\ size' = BatchSize /\ wrote' = 0
      /\ UNCHANGED <<disk, raw>>
  BY DEF Crash, Rerun, Forget, NewCall
<1>1. Remaining' = {} /\ Recorded(disk)' = Recorded(disk)
  BY <1>0 DEF Remaining, Recorded
<1>2. TypeOK'
  <2>1. tasks' \in Seq(Id) /\ Len(tasks') = 0 /\ short' \in [Cell -> Nat]
    BY <1>0
  <2>2. index' \in 1 .. 1 /\ wrote' \in 0 .. BatchSize /\ round' \in 0 .. MaxRounds + 1
    BY <1>0, Numbers
  <2> QED
    BY <1>0, <2>1, <2>2 DEF IInv, TypeOK
<1>3. EvidenceAgrees' /\ Unsaved' /\ Place' /\ FreshTasks'
  BY <1>0 DEF IInv, EvidenceAgrees, Unsaved, Place, FreshTasks, Completed
<1>4. Grounded' /\ InitialFirst'
  BY <1>0, <1>1 DEF IInv, Grounded, NoGap, InitialFirst
<1>5. Budgeted(Needed)'
  <2>1. Needed \in SUBSET Id
    <3>1. Remaining \subseteq Id
      BY DEF IInv, TypeOK, Remaining
    <3> QED
      BY <3>1, StartedWithinBudgets DEF Needed, Recorded
  <2>2. Needed' \in SUBSET Needed
    BY <1>1 DEF Needed
  <2>3. Budgeted(Needed')
    BY <2>1, <2>2, BudgetedSubset DEF IInv
  <2> QED
    BY <2>3 DEF Budgeted, InCell, InShard
<1> QED
  BY <1>2, <1>3, <1>4, <1>5 DEF IInv

LEMMA StutterStep ==
    ASSUME IInv, UNCHANGED vars
    PROVE  IInv'
<1>0. UNCHANGED <<disk, mem, raw, pc, tasks, index, size, wrote, round, short>>
  BY DEF vars, call
<1>1. TypeOK' /\ EvidenceAgrees' /\ FreshTasks' /\ Place'
  BY <1>0 DEF IInv, TypeOK, EvidenceAgrees, FreshTasks, Place, Completed, Recorded, Batch
<1>2. Unsaved'
  BY <1>0 DEF IInv, Unsaved, Batch
<1>3. Grounded' /\ Budgeted(Needed)' /\ Remaining' = Remaining /\ Recorded(disk)' = Recorded(disk)
  BY <1>0, Kept
<1>4. InitialFirst'
  BY <1>0, <1>3 DEF IInv, InitialFirst
<1> QED
  BY <1>1, <1>2, <1>3, <1>4 DEF IInv

-----------------------------------------------------------------------------
(* Theorems                                                                *)

\* The invariant holds in every execution.
THEOREM Invariant == Spec => []IInv
<1>1. IInv /\ [Next]_vars => IInv'
  BY LoadStep, GenerateBatchStep, WriteTaskStep, SaveBatchStep, TasksDoneStep, FilterStep,
     PlanRefillStep, GiveUpStep, OomFallbackStep, BatchFailsStep, ForgetStep, StutterStep
     DEF Next, Step, Fault, Stop
<1> QED
  BY InitIInv, <1>1, PTL DEF Spec

\* Every variable keeps its type; in particular no attempt has an index beyond
\* the bound of the model, and no more rounds are made than the limit.
THEOREM TypesCorrect == Spec => []TypeOK
<1>1. IInv => TypeOK
  BY DEF IInv
<1> QED
  BY Invariant, <1>1, PTL

\* A completed record describes the raw output that is on disk, after any crash
\* and repetition.
THEOREM EvidenceAgreesAlways == Spec => []EvidenceAgrees
<1>1. IInv => EvidenceAgrees
  BY DEF IInv
<1> QED
  BY Invariant, <1>1, PTL

\* No task of a call would overwrite the evidence of a recorded attempt.
THEOREM FreshTasksAlways == Spec => []FreshTasks
<1>1. IInv => FreshTasks
  BY DEF IInv
<1> QED
  BY Invariant, <1>1, PTL

LEMMA RecordedWithinBudgets == IInv => WithinBudgets
<1> SUFFICES ASSUME IInv PROVE WithinBudgets
  OBVIOUS
<1>1. Needed \in SUBSET Id
  <2>1. Remaining \subseteq Id
    BY DEF IInv, TypeOK, Remaining
  <2> QED
    BY <2>1, StartedWithinBudgets DEF Needed, Recorded
<1>2. Recorded(disk) \in SUBSET Needed
  BY DEF Needed
<1>3. Budgeted(Recorded(disk))
  BY <1>1, <1>2, BudgetedSubset DEF IInv
<1>4. \A c \in Cell : OfCell(disk, c) = InCell(Recorded(disk), c)
  BY DEF OfCell, InCell
<1>5. \A c \in Cell, h \in Shard : OfShard(disk, c, h) = InShard(Recorded(disk), c, h)
  BY DEF OfShard, OfCell, InShard
<1> QED
  BY <1>3, <1>4, <1>5 DEF Budgeted, WithinBudgets

\* The limits per shard, per cell, in total and of requested rows hold over all
\* processes together.
THEOREM WithinBudgetsAlways == Spec => []WithinBudgets
  BY Invariant, RecordedWithinBudgets, PTL

-----------------------------------------------------------------------------
(* The state file is an attempt ledger                                     *)

LEMMA LedgerStart == Init => Ledger!LedgerInit
  BY DEF Init, Ledger!LedgerInit, Ledger!Absent, Absent

\* The instance counts like this module.
LEMMA SameCardinality ==
    ASSUME NEW S
    PROVE  Ledger!Cardinality(S) = Cardinality(S)
  BY DEF Ledger!Cardinality, Cardinality

\* A step that changes the file changes records of the running batch only.
LEMMA LedgerStep ==
    ASSUME IInv, IInv', Next
    PROVE  Ledger!Record \/ UNCHANGED disk
<1>1. CASE SaveBatch \/ BatchFails
  <2>1. /\ pc \in {"generate", "write"} /\ index <= Len(tasks)
    BY <1>1 DEF SaveBatch, BatchFails, IInv, Place
  <2>2. ASSUME NEW a \in Id, disk'[a] # disk[a]
        PROVE  a \in ToSet(Batch) /\ disk'[a] # Absent
    <3>1. CASE SaveBatch
      <4>1. pc = "write" /\ disk' = mem /\ wrote = Len(Batch)
        BY <3>1 DEF SaveBatch
      <4>2. mem[a] \in Rows /\ \E i \in 1 .. wrote : a = Batch[i]
        BY <2>2, <4>1 DEF IInv, Unsaved
      <4>3. Batch \in Seq(Id)
        BY <2>1, BatchFacts DEF IInv
      <4>4. a \in ToSet(Batch)
        BY <4>1, <4>2, <4>3 DEF ToSet
      <4> QED
        BY <4>1, <4>2, <4>4 DEF Rows, Absent
    <3>2. CASE BatchFails
      <4>1. pc = "generate" /\ disk' = [b \in Id |-> IF b \in ToSet(Batch) THEN Failed ELSE mem[b]]
        BY <3>2 DEF BatchFails
      <4>2. mem = disk
        BY <4>1, MemoryIsFile DEF IInv
      <4> QED
        BY <2>2, <4>1, <4>2 DEF Failed, Absent
    <3> QED
      BY <1>1, <3>1, <3>2
  <2>3. ToSet(Batch) \subseteq Remaining /\ Remaining \subseteq Id
    BY <2>1, BatchRemains DEF IInv
  \* In round 0 a failed initial attempt is repeated, later nothing that is recorded.
  <2>4. ASSUME NEW a \in ToSet(Batch)
        PROVE  disk[a] = Absent \/ (disk[a] = Failed /\ a \in InitialIds)
    <3>1. PICK i \in index .. Len(tasks) : a = tasks[i]
      BY <2>3 DEF Remaining
    <3>2. a \notin IF round = 0 THEN Completed(disk) ELSE Recorded(disk)
      BY <2>1, <3>1 DEF IInv, FreshTasks
    <3>3. a \in Id /\ disk[a] \in Statuses
      BY <2>3 DEF IInv, TypeOK, Statuses
    <3>4. CASE round = 0
      <4>1. a \in Started
        BY <2>1, <2>3, <3>4 DEF IInv, InitialFirst
      <4>2. a \in InitialIds
        BY <4>1, InitialListFacts DEF InitialIds
      <4>3. disk[a] \notin Rows
        BY <3>2, <3>3, <3>4 DEF Completed
      <4> QED
        BY <3>3, <4>2, <4>3 DEF Statuses
    <3>5. CASE round # 0
      BY <3>2, <3>3, <3>5 DEF Recorded
    <3> QED
      BY <3>4, <3>5
  <2>5. Ledger!Changed \subseteq ToSet(Batch)
    BY <2>2 DEF Ledger!Changed
  <2>6. Cardinality(Ledger!Changed) <= BatchSize
    <3> DEFINE n == Len(Batch)
    <3>1. Batch \in Seq(Id) /\ n \in 1 .. BatchSize
      BY <2>1, BatchFacts DEF IInv
    <3>2. n \in Nat /\ n <= BatchSize
      BY <3>1, Numbers
    <3>3. \A a \in Ledger!Changed : \E i \in 1 .. n : a = Batch[i]
      BY <2>5, <3>1 DEF ToSet
    <3> HIDE DEF n
    <3>4. Cardinality(Ledger!Changed) <= n /\ IsFiniteSet(Ledger!Changed)
      BY <3>2, <3>3, Listed
    <3>5. Cardinality(Ledger!Changed) \in Nat
      BY <3>4, FS_CardinalityType
    <3> QED
      BY <3>2, <3>4, <3>5, Numbers
  <2>7. \A a \in Ledger!Changed :
            /\ disk[a] = Ledger!Absent \/ (disk[a] = Ledger!Failed /\ a \in InitialIds)
            /\ disk'[a] # Ledger!Absent
    BY <2>2, <2>4, <2>5 DEF Ledger!Changed, Ledger!Absent, Ledger!Failed, Absent, Failed
  <2>8. disk' \in [Id -> Rows \cup {Ledger!Absent, Ledger!Failed}]
    <3>1. disk' \in [Id -> {Absent, Failed} \cup Rows]
      BY DEF IInv, TypeOK
    <3> QED
      BY <3>1 DEF Ledger!Absent, Ledger!Failed, Absent, Failed
  <2>9. Cardinality(Ledger!Recorded') <= MaxTotal
    <3>1. Ledger!Recorded' = Recorded(disk)'
      BY DEF Ledger!Recorded, Recorded, Ledger!Absent, Absent
    <3>2. WithinBudgets'
      BY RecordedWithinBudgets, PTL
    <3> QED
      BY <3>1, <3>2 DEF WithinBudgets
  <2>10. CASE Ledger!Changed = {}
    <3>1. disk \in [Id -> {Absent, Failed} \cup Rows] /\ disk' \in [Id -> {Absent, Failed} \cup Rows]
      BY DEF IInv, TypeOK
    <3>2. \A a \in Id : disk'[a] = disk[a]
      BY <2>10 DEF Ledger!Changed
    <3> QED
      BY <3>1, <3>2
  <2>11. CASE Ledger!Changed # {}
    BY <2>6, <2>7, <2>8, <2>9, <2>11, SameCardinality DEF Ledger!Record
  <2> QED
    BY <2>10, <2>11
<1>2. CASE ~(SaveBatch \/ BatchFails)
  BY <1>2 DEF Next, Step, Fault, Stop, vars, Load, GenerateBatch, WriteTask, TasksDone, FilterShort,
     Select, PlanRefill, GiveUp, OomFallback, SelectionShort, Crash, Rerun
<1> QED
  BY <1>1, <1>2

\* The state file only grows, in small steps and within the budget; completed
\* attempts never change, and of the failed ones only initial attempts do.
THEOREM ImplementsLedgerAlways == Spec => ImplementsLedger
<1>1. IInv /\ IInv' /\ [Next]_vars => [Ledger!Record]_disk
  BY LedgerStep DEF vars
<1> QED
  BY LedgerStart, Invariant, <1>1, PTL DEF Spec, ImplementsLedger, Ledger!LedgerSpec

-----------------------------------------------------------------------------
(* A start of the stage ends                                               *)

\* The steps that a round takes at most: three for each task, and four of the call and
\* the stage.
RoundSteps == 3 * MaxTotal + 4

\* What is left of the round; a call can be set back by one out-of-memory error only.
TasksLeft == Len(tasks) + 1 - index
MayFallBack == IF size = BatchSize THEN 1 ELSE 0
RoundLeft ==
    CASE pc = "generate" -> 3 * TasksLeft + 2 + MayFallBack
      [] pc = "write" -> 3 * TasksLeft + 1 - wrote + MayFallBack
      [] pc = "filter" -> 1
      [] pc \in {"off", "plan"} -> RoundSteps
      [] OTHER -> 0
RoundsLeft == IF pc = "off" THEN MaxRounds + 1 ELSE MaxRounds + 1 - round

StepsLeft == RoundLeft + RoundSteps * RoundsLeft
StepsOfStart == RoundSteps * (MaxRounds + 2)

\* A call has no more tasks than the total budget.
CallFits == Len(tasks) <= MaxTotal

\* Nor has the list of a start.
LEMMA InitialTasksFit ==
    ASSUME NEW s
    PROVE  Len(InitialTasks(s)) <= MaxTotal
<1> DEFINE list == Without(InitialList, Completed(s))
           n == Len(InitialList)
           k == Len(list)
           f == [i \in 1 .. k |-> CHOOSE j \in 1 .. n : list[i] = InitialList[j]]
<1>1. /\ list \in Seq(Id)
      /\ \A i \in 1 .. k : \E j \in 1 .. n : list[i] = InitialList[j]
      /\ \A i, j \in 1 .. k : list[i] = list[j] => i = j
  BY InitialListFacts, WithoutFacts
<1>2. n \in Nat /\ n <= MaxTotal
  BY InitialListFacts, Numbers
<1>3. InitialTasks(s) = list
  BY DEF InitialTasks
<1>4. k \in Nat
  BY <1>1
<1> HIDE DEF list, n, k
<1>5. \A i \in 1 .. k : f[i] \in 1 .. n /\ list[i] = InitialList[f[i]]
  BY <1>1
<1>6. f \in [1 .. k -> 1 .. n]
  <2>1. f = [i \in 1 .. k |-> f[i]]
    OBVIOUS
  <2> HIDE DEF f
  <2> QED
    BY <1>5, <2>1
<1> HIDE DEF f
<1>7. f \in Injection(1 .. k, 1 .. n)
  BY <1>1, <1>5, <1>6 DEF Injection, IsInjective
<1>8. /\ IsFiniteSet(1 .. n) /\ Cardinality(1 .. n) = n
      /\ IsFiniteSet(1 .. k) /\ Cardinality(1 .. k) = k
  BY <1>2, <1>4, FS_Interval
<1>9. k <= n
  BY <1>7, <1>8, FS_Injection
<1> QED
  BY <1>2, <1>3, <1>4, <1>9, Numbers DEF k

LEMMA CallFitsStep ==
    ASSUME IInv, CallFits, [Next]_vars
    PROVE  CallFits'
<1>1. CASE Load
  <2>1. tasks' = InitialTasks(mem)
    BY <1>1 DEF Load, NewCall
  <2> QED
    BY <2>1, InitialTasksFit DEF CallFits
<1>2. CASE PlanRefill
  <2> DEFINE plan == Plan(mem, short)
             n == Cardinality(Recorded(mem))
  <2>1. tasks' = plan /\ ~WouldExceed(mem, plan) /\ pc = "plan" /\ ~ExhaustedBudgets(mem)
    BY <1>2 DEF PlanRefill, NewCall
  <2>2. mem = disk /\ short \in [Cell -> Nat] /\ NoGap(mem) /\ round > 0
    BY <2>1, MemoryIsFile DEF IInv, TypeOK, Grounded, Place
  <2>3. plan \in Seq(Id)
    BY <2>1, <2>2, PlanFacts
  <2>4. n \in Nat
    BY SubsetOfId, FS_CardinalityType DEF Recorded
  <2>5. ~(n + Len(plan) > MaxTotal)
    BY <2>1 DEF WouldExceed
  <2>6. Len(plan) \in Nat
    BY <2>3
  <2> HIDE DEF plan, n
  <2>7. Len(plan) <= MaxTotal
    BY <2>4, <2>5, <2>6, Numbers
  <2> QED
    BY <2>1, <2>7 DEF CallFits
<1>3. CASE Crash \/ Rerun
  <2>1. tasks' = <<>>
    BY <1>3 DEF Crash, Rerun, Forget, NewCall
  <2> QED
    BY <2>1, Numbers DEF CallFits
<1>4. CASE UNCHANGED tasks
  BY <1>4 DEF CallFits
<1>5. CASE ~(Load \/ PlanRefill \/ Crash \/ Rerun)
  <2>1. UNCHANGED tasks
    BY <1>5 DEF Next, Step, Fault, Stop, vars, call, GenerateBatch, WriteTask, SaveBatch, TasksDone,
       FilterShort, Select, GiveUp, OomFallback, BatchFails, SelectionShort
  <2> QED
    BY <1>4, <2>1
<1> QED
  BY <1>1, <1>2, <1>3, <1>5

LEMMA CallFitsAlways == Spec => []CallFits
<1>1. Init => CallFits
  <2>1. Init => tasks = <<>>
    BY DEF Init
  <2> QED
    BY <2>1, Numbers DEF CallFits
<1>2. IInv /\ CallFits /\ [Next]_vars => CallFits'
  BY CallFitsStep
<1> QED
  BY Invariant, <1>1, <1>2, PTL DEF Spec

CountsInRange ==
    /\ RoundSteps \in Nat /\ TasksLeft \in Nat /\ TasksLeft <= MaxTotal /\ MayFallBack \in {0, 1}
    /\ RoundLeft \in Nat /\ RoundLeft <= RoundSteps
    /\ RoundsLeft \in Nat /\ RoundsLeft <= MaxRounds + 1

LEMMA CountsAreInRange == IInv /\ CallFits => CountsInRange
<1> SUFFICES ASSUME IInv, CallFits PROVE CountsInRange
  OBVIOUS
<1>1. Len(tasks) \in Nat /\ index \in Nat /\ index >= 1 /\ index <= Len(tasks) + 1
  BY DEF IInv, TypeOK
<1>2. RoundSteps = 3 * MaxTotal + 4 /\ RoundSteps \in Nat
  BY Numbers DEF RoundSteps
<1>3. TasksLeft \in Nat /\ TasksLeft <= MaxTotal
  BY <1>1, Numbers DEF CallFits, TasksLeft
<1>4. MayFallBack \in {0, 1}
  BY DEF MayFallBack
<1>5. RoundsLeft \in Nat /\ RoundsLeft <= MaxRounds + 1
  <2>1. round \in Nat /\ round <= MaxRounds + 1
    BY Numbers DEF IInv, TypeOK
  <2> QED
    BY <2>1, Numbers DEF RoundsLeft
<1>6. RoundLeft \in Nat /\ RoundLeft <= RoundSteps
  <2>1. CASE pc = "write"
    <3>1. index <= Len(tasks)
      BY <2>1 DEF IInv, Place
    <3>2. /\ Len(Batch) \in Nat /\ Len(Batch) >= 1
          /\ index + Len(Batch) <= Len(tasks) + 1
      BY <3>1, BatchFacts, Numbers DEF IInv
    <3>3. wrote \in Nat /\ wrote <= Len(Batch)
      BY <2>1, Numbers DEF IInv, Place, TypeOK
    <3>4. wrote <= TasksLeft
      BY <1>1, <3>2, <3>3 DEF TasksLeft
    <3>5. RoundLeft = 3 * TasksLeft + 1 - wrote + MayFallBack
      BY <2>1 DEF RoundLeft
    <3> QED
      BY <1>2, <1>3, <1>4, <3>3, <3>4, <3>5, Numbers
  <2>2. CASE pc = "generate"
    <3>1. RoundLeft = 3 * TasksLeft + 2 + MayFallBack
      BY <2>2 DEF RoundLeft
    <3> QED
      BY <1>2, <1>3, <1>4, <3>1, Numbers
  <2>3. CASE pc \notin {"write", "generate"}
    <3>1. RoundLeft \in {0, 1, RoundSteps}
      BY <2>3 DEF RoundLeft
    <3> QED
      BY <1>2, <3>1, Numbers
  <2> QED
    BY <2>1, <2>2, <2>3
<1> QED
  BY <1>2, <1>3, <1>4, <1>5, <1>6 DEF CountsInRange

\* Every step of a start takes at least one of the steps that are left.
LEMMA StepCounts ==
    ASSUME IInv, CallFits, IInv', CallFits', Next, ~UNCHANGED vars
    PROVE  Crash \/ Rerun \/ StepsLeft' < StepsLeft
<1> DEFINE w == RoundSteps
           a == RoundLeft
           n == RoundsLeft
<1>1. /\ w \in Nat /\ a \in Nat /\ a <= w /\ n \in Nat
      /\ TasksLeft \in Nat /\ TasksLeft <= MaxTotal /\ MayFallBack \in {0, 1}
  BY CountsAreInRange DEF CountsInRange
<1>2. /\ a' \in Nat /\ a' <= w' /\ n' \in Nat
      /\ TasksLeft' \in Nat /\ TasksLeft' <= MaxTotal /\ MayFallBack' \in {0, 1}
  <2>1. CountsInRange'
    BY CountsAreInRange, PTL
  <2> QED
    BY <2>1 DEF CountsInRange
<1>3. w' = w /\ w = 3 * MaxTotal + 4
  BY DEF RoundSteps
<1>4. /\ StepsLeft = a + w * n
      /\ StepsLeft' = a' + w * n'
  BY <1>3 DEF StepsLeft
<1>5. Len(tasks) \in Nat /\ index \in Nat /\ index >= 1 /\ index <= Len(tasks) + 1 /\ round \in Nat
  BY Numbers DEF IInv, TypeOK
<1>6. ASSUME NEW a1 \in Nat, a' = a1, a1 < a, n' = n PROVE StepsLeft' < StepsLeft
  <2> HIDE DEF w, a, n
  <2>1. w * n \in Nat
    BY <1>1
  <2>2. StepsLeft' = a1 + w * n
    BY <1>4, <1>6
  <2> QED
    BY <1>1, <1>4, <1>6, <2>1, <2>2
<1>7. CASE Load
  <2>1. pc = "off" /\ pc' = "generate" /\ round' = 0
    BY <1>7 DEF Load
  <2>2. n = MaxRounds + 1 /\ n' = MaxRounds + 1 /\ a = w
    BY <2>1, Numbers DEF RoundsLeft, RoundLeft
  <2>3. a' = 3 * TasksLeft' + 2 + MayFallBack'
    BY <2>1 DEF RoundLeft
  <2>4. PICK t \in Nat, b \in {0, 1} : TasksLeft' = t /\ MayFallBack' = b /\ t <= MaxTotal
    BY <1>2
  <2>5. a' = 3 * t + 2 + b /\ 3 * t + 2 + b \in Nat /\ 3 * t + 2 + b < w
    BY <1>3, <2>3, <2>4, Numbers
  <2> QED
    BY <1>6, <2>2, <2>5
<1>8. CASE GenerateBatch
  <2>1. pc = "generate" /\ pc' = "write" /\ wrote' = 0 /\ UNCHANGED <<tasks, index, size, round>>
    BY <1>8 DEF GenerateBatch
  <2>2. n' = n /\ a = 3 * TasksLeft + 2 + MayFallBack
    BY <2>1 DEF RoundsLeft, RoundLeft
  <2>3. a' = 3 * TasksLeft + 1 - 0 + MayFallBack
    BY <2>1 DEF RoundLeft, TasksLeft, MayFallBack
  <2> DEFINE a1 == 3 * TasksLeft + 1 + MayFallBack
  <2>4. a' = a1 /\ a1 \in Nat /\ a1 < a
    BY <1>1, <2>2, <2>3
  <2> QED
    BY <1>6, <2>2, <2>4
<1>9. CASE WriteTask
  <2>1. pc = "write" /\ pc' = "write" /\ wrote' = wrote + 1 /\ UNCHANGED <<tasks, index, size, round>>
    BY <1>9 DEF WriteTask
  <2>2. n' = n /\ a = 3 * TasksLeft + 1 - wrote + MayFallBack /\ wrote \in Nat
    BY <2>1 DEF RoundsLeft, RoundLeft, IInv, TypeOK
  <2>3. a' = 3 * TasksLeft + 1 - (wrote + 1) + MayFallBack
    BY <2>1 DEF RoundLeft, TasksLeft, MayFallBack
  <2>4. PICK a1 \in Nat : a' = a1
    BY <1>2
  <2>5. a1 < a
    BY <1>1, <2>2, <2>3, <2>4
  <2> QED
    BY <1>6, <2>2, <2>4, <2>5
<1>10. CASE SaveBatch
  <2> DEFINE b == Len(Batch)
  <2>1. /\ pc = "write" /\ wrote = b /\ pc' = "generate" /\ wrote' = 0
        /\ index' = index + b /\ UNCHANGED <<tasks, size, round>>
    BY <1>10 DEF SaveBatch
  <2>2. index <= Len(tasks)
    BY <2>1 DEF IInv, Place
  <2>3. b \in Nat /\ b >= 1
    BY <2>2, BatchFacts, Numbers DEF IInv
  <2>4. n' = n /\ a = 3 * TasksLeft + 1 - b + MayFallBack
    BY <2>1 DEF RoundsLeft, RoundLeft
  <2>5. a' = 3 * (Len(tasks) + 1 - (index + b)) + 2 + MayFallBack
    BY <2>1 DEF RoundLeft, TasksLeft, MayFallBack
  <2>6. PICK a1 \in Nat : a' = a1
    BY <1>2
  <2>7. TasksLeft = Len(tasks) + 1 - index
    BY DEF TasksLeft
  <2> HIDE DEF b
  <2>8. a1 < a
    BY <1>1, <1>5, <2>3, <2>4, <2>5, <2>6, <2>7
  <2> QED
    BY <1>6, <2>4, <2>6, <2>8
<1>11. CASE OomFallback
  <2>1. /\ pc = "generate" /\ size = BatchSize /\ size' = Fallback /\ UNCHANGED <<pc, tasks, index, round>>
    BY <1>11 DEF OomFallback
  <2>2. n' = n /\ a = 3 * TasksLeft + 2 + 1
    BY <2>1 DEF RoundsLeft, RoundLeft, MayFallBack
  <2>3. Fallback # BatchSize
    BY Numbers
  <2>4. a' = 3 * TasksLeft + 2 + 0
    BY <2>1, <2>3 DEF RoundLeft, TasksLeft, MayFallBack
  <2> DEFINE a1 == 3 * TasksLeft + 2
  <2>5. a' = a1 /\ a1 \in Nat /\ a1 < a
    BY <1>1, <2>2, <2>4
  <2> QED
    BY <1>6, <2>2, <2>5
<1>12. CASE TasksDone
  <2>1. pc = "generate" /\ pc' = "filter" /\ round' = round
    BY <1>12 DEF TasksDone
  <2>2. n' = n /\ a = 3 * TasksLeft + 2 + MayFallBack /\ a' = 1
    BY <2>1 DEF RoundsLeft, RoundLeft
  <2>3. 1 < a /\ 1 \in Nat
    BY <1>1, <2>2
  <2> QED
    BY <1>6, <2>2, <2>3
<1>13. CASE Select \/ GiveUp \/ BatchFails
  <2>1. pc \in {"generate", "filter", "plan"} /\ pc' \in {"done", "raised"} /\ round' = round
    BY <1>13 DEF Select, GiveUp, BatchFails
  <2>2. n' = n /\ a' = 0
    BY <2>1 DEF RoundsLeft, RoundLeft
  <2>3. 0 < a /\ 0 \in Nat
    <3>1. CASE pc = "generate"
      <4>1. a = 3 * TasksLeft + 2 + MayFallBack
        BY <3>1 DEF RoundLeft
      <4> QED
        BY <1>1, <4>1
    <3>2. CASE pc \in {"filter", "plan"}
      <4>1. a \in {1, w}
        BY <3>2 DEF RoundLeft
      <4> QED
        BY <1>3, <4>1, Numbers
    <3> QED
      BY <2>1, <3>1, <3>2
  <2> QED
    BY <1>6, <2>2, <2>3
<1>14. CASE PlanRefill
  <2>1. pc = "plan" /\ pc' = "generate" /\ round' = round
    BY <1>14 DEF PlanRefill
  <2>2. n' = n /\ a = w
    BY <2>1 DEF RoundsLeft, RoundLeft
  <2>3. a' = 3 * TasksLeft' + 2 + MayFallBack'
    BY <2>1 DEF RoundLeft
  <2>4. PICK t \in Nat, b \in {0, 1} : TasksLeft' = t /\ MayFallBack' = b /\ t <= MaxTotal
    BY <1>2
  <2>5. a' = 3 * t + 2 + b /\ 3 * t + 2 + b \in Nat /\ 3 * t + 2 + b < w
    BY <1>3, <2>3, <2>4, Numbers
  <2> QED
    BY <1>6, <2>2, <2>5
<1>15. CASE FilterShort \/ SelectionShort
  <2>1. pc = "filter" /\ pc' = "plan" /\ round' = round + 1
    BY <1>15 DEF FilterShort, SelectionShort
  <2>2. n = MaxRounds + 1 - round /\ n' = MaxRounds + 1 - (round + 1) /\ a = 1 /\ a' = w
    BY <1>3, <2>1 DEF RoundsLeft, RoundLeft
  <2>3. PICK k \in Nat : n' = k
    BY <1>2
  <2>4. n = k + 1
    BY <1>5, <2>2, <2>3, Numbers
  <2> HIDE DEF w, a, n
  <2>5. w * (k + 1) = w * k + w /\ w * k \in Nat
    BY <1>1
  <2>6. StepsLeft' = w + w * k /\ StepsLeft = 1 + w * (k + 1)
    BY <1>4, <2>2, <2>3, <2>4
  <2> QED
    BY <1>1, <2>5, <2>6
<1> QED
  BY <1>7, <1>8, <1>9, <1>10, <1>11, <1>12, <1>13, <1>14, <1>15 DEF Next, Step, Fault, Stop

\* No start of the stage takes more than (3 * MaxTotal + 4) * (MaxRounds + 2) steps,
\* however many out-of-memory errors, failed batches and unbalanced selections there are:
\* every step but a crash or a new start comes nearer to the end, since the batches of a
\* call and the rounds of the retry controller are bounded (RetryLimits,
\* run_generation_tasks, stage_generate_text_until_valid).
THEOREM StageIsBounded ==
    Spec => /\ [](StepsLeft \in 0 .. StepsOfStart)
            /\ [][Crash \/ Rerun \/ StepsLeft' < StepsLeft]_vars
<1>1. IInv /\ CallFits => StepsLeft \in 0 .. StepsOfStart
  <2> SUFFICES ASSUME IInv, CallFits PROVE StepsLeft \in 0 .. StepsOfStart
    OBVIOUS
  <2> DEFINE w == RoundSteps
             a == RoundLeft
             n == RoundsLeft
  <2>1. w \in Nat /\ a \in Nat /\ a <= w /\ n \in Nat /\ n <= MaxRounds + 1
    BY CountsAreInRange DEF CountsInRange
  <2>2. StepsLeft = a + w * n /\ StepsOfStart = w * (MaxRounds + 2)
    BY DEF StepsLeft, StepsOfStart
  <2> HIDE DEF w, a, n
  <2>3. PICK d \in Nat : MaxRounds + 1 = n + d
    <3>1. MaxRounds + 1 - n \in Nat /\ MaxRounds + 1 = n + (MaxRounds + 1 - n)
      BY <2>1, Numbers
    <3> QED
      BY <3>1
  <2>4. w * (n + d + 1) = w * n + w * d + w /\ w * n \in Nat /\ w * d \in Nat
    BY <2>1
  <2>5. MaxRounds + 2 = n + d + 1
    BY <2>1, <2>3, Numbers
  <2> QED
    BY <2>1, <2>2, <2>4, <2>5
<1>2. IInv /\ CallFits /\ IInv' /\ CallFits' /\ [Next]_vars
          => [Crash \/ Rerun \/ StepsLeft' < StepsLeft]_vars
  BY StepCounts
<1> QED
  BY Invariant, CallFitsAlways, <1>1, <1>2, PTL DEF Spec
================================================================================
