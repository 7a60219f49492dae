----------------------- MODULE DualGpuGeneration_proofs ------------------------
(***************************************************************************)
(* Proofs about DualGpuGeneration for any number of cells, shards, plans   *)
(* and faults and any batch sizes.                                         *)
(*                                                                         *)
(* Evidence is kept since a worker only touches attempts of its list, and  *)
(* no member of a list is completed.  Identities are unique since the      *)
(* initial attempts are shared once and for all, and a refill is in the    *)
(* records or the plan of one worker only.  For the latter, the numbers of *)
(* the refills dealt have no gap: then their count, from which plan-refill *)
(* goes on, is the last number.                                            *)
(***************************************************************************)
EXTENDS DualGpuGeneration, FiniteSetTheorems, WellFoundedInduction, TLAPS

-----------------------------------------------------------------------------
(* Numbers                                                                 *)

\* A set of numbers that is not empty has a smallest member.
LEMMA Smallest ==
    ASSUME NEW S \in SUBSET Nat, S # {}
    PROVE  \E x \in S : \A y \in S : x <= y
<1>1. PICK x \in S : \A y \in S : <<y, x>> \notin OpToRel(<, Nat)
  BY NatLessThanWellFounded, WFMin
<1>2. ASSUME NEW y \in S PROVE x <= y
  <2>1. <<y, x>> \in Nat \X Nat /\ ~(y < x)
    BY <1>1 DEF OpToRel
  <2> QED
    BY <2>1
<1> QED
  BY <1>2

\* Induction: what holds of 0, and of a number when it holds of the one before.
LEMMA UpTo ==
    ASSUME NEW n \in Nat, NEW S \in SUBSET (0 .. n), 0 \in S,
           \A m \in 1 .. n : m - 1 \in S => m \in S
    PROVE  S = 0 .. n
<1> DEFINE Missing == {m \in 0 .. n : m \notin S}
<1>1. SUFFICES ASSUME Missing # {} PROVE FALSE
  OBVIOUS
<1>2. PICK m \in Missing : \A k \in Missing : m <= k
  <2>1. Missing \in SUBSET Nat
    OBVIOUS
  <2> HIDE DEF Missing
  <2> QED
    BY <1>1, <2>1, Smallest
<1>3. m \in 1 .. n /\ m - 1 \in 0 .. n /\ m - 1 \notin Missing
  BY <1>2
<1>4. m - 1 \in S
  BY <1>3
<1> QED
  BY <1>2, <1>3, <1>4

-----------------------------------------------------------------------------
(* What is left of a list                                                  *)

\* The step of the recursion in Without.
Longer(list, T, shorter, n) ==
    IF list[n] \in T THEN shorter ELSE Append(shorter, list[n])

\* The recursion defines a function.
LEMMA WithoutExists ==
    ASSUME NEW list \in Seq(Id), NEW T
    PROVE  \E f : f = [n \in 0 .. Len(list) |->
                         IF n = 0 THEN <<>>
                         ELSE IF list[n] \in T THEN f[n - 1] ELSE Append(f[n - 1], list[n])]
<1> DEFINE N == Len(list)
           Is(f, m) == f = [n \in 0 .. m |-> IF n = 0 THEN <<>> ELSE Longer(list, T, f[n - 1], n)]
           S == {m \in 0 .. N : \E f : Is(f, m)}
<1> HIDE DEF Is
<1>1. N \in Nat /\ S \in SUBSET (0 .. N)
  OBVIOUS
<1>2. 0 \in S
  <2>1. \E f : Is(f, 0)
    <3> DEFINE g == [n \in 0 .. 0 |-> <<>>]
    <3>1. Is(g, 0)
      BY DEF Is
    <3> HIDE DEF g
    <3> QED
      BY <3>1
  <2> QED
    BY <1>1, <2>1
<1>3. ASSUME NEW m \in 1 .. N, m - 1 \in S PROVE m \in S
  <2>1. PICK f : Is(f, m - 1)
    BY <1>3
  <2> DEFINE g == [n \in 0 .. m |-> IF n < m THEN f[n] ELSE Longer(list, T, f[m - 1], m)]
  <2>2. ASSUME NEW n \in 0 .. m
        PROVE  g[n] = IF n = 0 THEN <<>> ELSE Longer(list, T, g[n - 1], n)
    <3> HIDE DEF g
    <3>0. \A k \in 0 .. m : g[k] = IF k < m THEN f[k] ELSE Longer(list, T, f[m - 1], m)
      BY DEF g
    <3>1. CASE n = m
      <4>1. g[m - 1] = f[m - 1] /\ g[m] = Longer(list, T, f[m - 1], m)
        BY <3>0
      <4> QED
        BY <3>1, <4>1
    <3>2. CASE n # m
      <4>1. n \in 0 .. m - 1 /\ g[n] = f[n] /\ (n # 0 => n - 1 \in 0 .. m /\ g[n - 1] = f[n - 1])
        BY <3>0, <3>2
      <4>2. f[n] = IF n = 0 THEN <<>> ELSE Longer(list, T, f[n - 1], n)
        BY <2>1, <4>1 DEF Is
      <4> QED
        BY <4>1, <4>2
    <3> QED
      BY <3>1, <3>2
  <2>3. g = [n \in 0 .. m |-> IF n = 0 THEN <<>> ELSE Longer(list, T, g[n - 1], n)]
    <3>1. g = [n \in 0 .. m |-> g[n]]
      OBVIOUS
    <3> HIDE DEF g
    <3> QED
      BY <2>2, <3>1
  <2>4. \E h : Is(h, m)
    <3>1. Is(g, m)
      BY <2>3 DEF Is
    <3> HIDE DEF g
    <3> QED
      BY <3>1
  <2> QED
    BY <2>4
<1>4. N \in S
  <2> HIDE DEF S
  <2>1. S = 0 .. N
    BY <1>1, <1>2, <1>3, UpTo
  <2> QED
    BY <1>1, <2>1
<1>5. PICK f : Is(f, N)
  BY <1>4
<1> QED
  BY <1>5 DEF Longer, Is

\* Without(list, T) has the members of list that are not in T, and each once when
\* list has them once.
LEMMA WithoutFacts ==
    ASSUME NEW list \in Seq(Id), NEW T,
           \A i, j \in 1 .. Len(list) : list[i] = list[j] => i = j
    PROVE  LET rest == Without(list, T)
           IN  /\ rest \in Seq(Id)
               /\ \A i \in 1 .. Len(rest) : \E j \in 1 .. Len(list) : rest[i] = list[j] /\ list[j] \notin T
               /\ \A j \in 1 .. Len(list) : list[j] \notin T => \E i \in 1 .. Len(rest) : rest[i] = list[j]
               /\ \A i, j \in 1 .. Len(rest) : rest[i] = rest[j] => i = j
<1> DEFINE N == Len(list)
           left == CHOOSE f : f = [n \in 0 .. Len(list) |->
                         IF n = 0 THEN <<>>
                         ELSE IF list[n] \in T THEN f[n - 1] ELSE Append(f[n - 1], list[n])]
<1>1. left = [n \in 0 .. N |-> IF n = 0 THEN <<>> ELSE Longer(list, T, left[n - 1], n)]
  <2> DEFINE Is(f) == f = [n \in 0 .. Len(list) |->
                         IF n = 0 THEN <<>>
                         ELSE IF list[n] \in T THEN f[n - 1] ELSE Append(f[n - 1], list[n])]
  <2>1. \E f : Is(f)
    BY WithoutExists
  <2>2. left = CHOOSE f : Is(f)
    OBVIOUS
  <2>3. Is(left)
    <3> HIDE DEF Is, left
    <3> QED
      BY <2>1, <2>2
  <2> HIDE DEF left
  <2> QED
    BY <2>3 DEF Longer
<1>2. Without(list, T) = left[N]
  BY DEF Without
<1> HIDE DEF left
<1> DEFINE Good(n) ==
             /\ left[n] \in Seq(Id)
             /\ \A i \in 1 .. Len(left[n]) : \E j \in 1 .. n : left[n][i] = list[j] /\ list[j] \notin T
             /\ \A j \in 1 .. n : list[j] \notin T => \E i \in 1 .. Len(left[n]) : left[n][i] = list[j]
             /\ \A i, j \in 1 .. Len(left[n]) : left[n][i] = left[n][j] => i = j
           S == {n \in 0 .. N : Good(n)}
<1>3. N \in Nat /\ S \in SUBSET (0 .. N)
  OBVIOUS
<1>4. 0 \in S
  <2>1. left[0] = <<>>
    BY <1>1, <1>3
  <2>2. Good(0)
    BY <2>1
  <2> QED
    BY <2>2, <1>3
<1>5. ASSUME NEW n \in 1 .. N, n - 1 \in S PROVE n \in S
  <2>1. Good(n - 1) /\ n \in 0 .. N /\ n - 1 \in Nat
    BY <1>5
  <2>2. left[n] = Longer(list, T, left[n - 1], n)
    BY <1>1, <2>1
  <2>3. CASE list[n] \in T
    <3>1. left[n] = left[n - 1]
      BY <2>2, <2>3 DEF Longer
    <3>2. Good(n)
      BY <2>1, <2>3, <3>1
    <3> QED
      BY <2>1, <3>2
  <2>4. CASE list[n] \notin T
    <3> DEFINE old == left[n - 1]
               new == left[n]
    <3>1. new = Append(old, list[n]) /\ list[n] \in Id
      BY <2>2, <2>4 DEF Longer
    <3>2. /\ old \in Seq(Id) /\ new \in Seq(Id)
          /\ Len(old) \in Nat /\ Len(new) = Len(old) + 1
          /\ \A i \in 1 .. Len(old) : new[i] = old[i]
          /\ new[Len(old) + 1] = list[n]
      BY <2>1, <3>1
    <3>3. \A i \in 1 .. Len(old) : \E j \in 1 .. n - 1 : old[i] = list[j] /\ list[j] \notin T
      BY <2>1
    <3>4. \A j \in 1 .. n - 1 : list[j] \notin T => \E i \in 1 .. Len(old) : old[i] = list[j]
      BY <2>1
    <3>5. \A i, j \in 1 .. Len(old) : old[i] = old[j] => i = j
      BY <2>1
    <3> HIDE DEF old, new
    <3>6. \A i \in 1 .. Len(old) : old[i] # list[n]
      BY <3>3
    <3>7. \A i \in 1 .. Len(new) : \E j \in 1 .. n : new[i] = list[j] /\ list[j] \notin T
      <4> TAKE i \in 1 .. Len(new)
      <4>1. CASE i = Len(old) + 1
        BY <2>4, <3>2, <4>1
      <4>2. CASE i # Len(old) + 1
        <5>1. i \in 1 .. Len(old)
          BY <3>2, <4>2
        <5> QED
          BY <3>2, <3>3, <5>1
      <4> QED
        BY <4>1, <4>2
    <3>8. \A j \in 1 .. n : list[j] \notin T => \E i \in 1 .. Len(new) : new[i] = list[j]
      <4> SUFFICES ASSUME NEW j \in 1 .. n, list[j] \notin T PROVE \E i \in 1 .. Len(new) : new[i] = list[j]
        OBVIOUS
      <4>1. CASE j = n
        BY <3>2, <4>1
      <4>2. CASE j # n
        <5>1. j \in 1 .. n - 1
          BY <4>2
        <5>2. PICK i \in 1 .. Len(old) : old[i] = list[j]
          BY <3>4, <5>1
        <5> QED
          BY <3>2, <5>2
      <4> QED
        BY <4>1, <4>2
    <3>9. \A i, j \in 1 .. Len(new) : new[i] = new[j] => i = j
      <4> SUFFICES ASSUME NEW i \in 1 .. Len(new), NEW j \in 1 .. Len(new), new[i] = new[j] PROVE i = j
        OBVIOUS
      <4>1. i \in 1 .. Len(old) \/ i = Len(old) + 1
        BY <3>2
      <4>2. j \in 1 .. Len(old) \/ j = Len(old) + 1
        BY <3>2
      <4> QED
        BY <3>2, <3>5, <3>6, <4>1, <4>2
    <3>10. Good(n)
      BY <3>2, <3>7, <3>8, <3>9 DEF new
    <3> QED
      BY <2>1, <3>10
  <2> QED
    BY <2>3, <2>4
<1>6. Good(N)
  <2> HIDE DEF S
  <2>1. S = 0 .. N
    BY <1>3, <1>4, <1>5, UpTo
  <2>2. N \in S
    BY <1>3, <2>1
  <2> QED
    BY <2>2 DEF S
<1> QED
  BY <1>2, <1>6

-----------------------------------------------------------------------------
(* Lists one after the other                                               *)

\* The recursion in FlattenSeq defines a function.
LEMMA FlattenExists ==
    ASSUME NEW seqs \in Seq(Seq(Id)), Len(seqs) # 0
    PROVE  \E f : f = [i \in 1 .. Len(seqs) |-> IF i = 1 THEN seqs[i] ELSE f[i - 1] \o seqs[i]]
<1> DEFINE N == Len(seqs)
           Is(f, m) == f = [i \in 1 .. m |-> IF i = 1 THEN seqs[i] ELSE f[i - 1] \o seqs[i]]
           S == {m \in 0 .. N : \E f : Is(f, m)}
<1> HIDE DEF Is
<1>1. N \in Nat /\ N # 0 /\ S \in SUBSET (0 .. N)
  OBVIOUS
<1>2. 0 \in S
  <2>1. \E f : Is(f, 0)
    <3> DEFINE g == [i \in 1 .. 0 |-> <<>>]
    <3>1. Is(g, 0)
      BY DEF Is
    <3> HIDE DEF g
    <3> QED
      BY <3>1
  <2> QED
    BY <1>1, <2>1
<1>3. ASSUME NEW m \in 1 .. N, m - 1 \in S PROVE m \in S
  <2>1. PICK f : Is(f, m - 1)
    BY <1>3
  <2> DEFINE last == IF m = 1 THEN seqs[m] ELSE f[m - 1] \o seqs[m]
             g == [i \in 1 .. m |-> IF i < m THEN f[i] ELSE last]
  <2>2. ASSUME NEW i \in 1 .. m
        PROVE  g[i] = IF i = 1 THEN seqs[i] ELSE g[i - 1] \o seqs[i]
    <3> HIDE DEF g
    <3>0. \A k \in 1 .. m : g[k] = IF k < m THEN f[k] ELSE last
      BY DEF g
    <3>1. CASE i = m
      <4>1. g[m] = last /\ (m # 1 => g[m - 1] = f[m - 1])
        BY <3>0
      <4> QED
        BY <3>1, <4>1
    <3>2. CASE i # m
      <4>1. i \in 1 .. m - 1 /\ g[i] = f[i] /\ (i # 1 => i - 1 \in 1 .. m /\ g[i - 1] = f[i - 1])
        BY <3>0, <3>2
      <4>2. f[i] = IF i = 1 THEN seqs[i] ELSE f[i - 1] \o seqs[i]
        BY <2>1, <4>1 DEF Is
      <4> QED
        BY <4>1, <4>2
    <3> QED
      BY <3>1, <3>2
  <2>3. g = [i \in 1 .. m |-> IF i = 1 THEN seqs[i] ELSE g[i - 1] \o seqs[i]]
    <3>1. g = [i \in 1 .. m |-> g[i]]
      OBVIOUS
    <3> HIDE DEF g
    <3> QED
      BY <2>2, <3>1
  <2>4. \E h : Is(h, m)
    <3>1. Is(g, m)
      BY <2>3 DEF Is
    <3> HIDE DEF g
    <3> QED
      BY <3>1
  <2> QED
    BY <2>4
<1>4. N \in S
  <2> HIDE DEF S
  <2>1. S = 0 .. N
    BY <1>1, <1>2, <1>3, UpTo
  <2> QED
    BY <1>1, <2>1
<1> QED
  BY <1>4 DEF Is

\* The members of FlattenSeq(seqs) are exactly those of the lists, each once when no two
\* places of the lists hold the same.
LEMMA FlattenFacts ==
    ASSUME NEW seqs \in Seq(Seq(Id)), Len(seqs) # 0,
           \A c, d \in 1 .. Len(seqs) : \A i \in 1 .. Len(seqs[c]), j \in 1 .. Len(seqs[d]) :
               seqs[c][i] = seqs[d][j] => c = d /\ i = j
    PROVE  LET all == FlattenSeq(seqs)
           IN  /\ all \in Seq(Id)
               /\ \A k \in 1 .. Len(all) : \E c \in 1 .. Len(seqs) : \E i \in 1 .. Len(seqs[c]) :
                     all[k] = seqs[c][i]
               /\ \A c \in 1 .. Len(seqs) : \A i \in 1 .. Len(seqs[c]) : \E k \in 1 .. Len(all) :
                     all[k] = seqs[c][i]
               /\ \A k, l \in 1 .. Len(all) : all[k] = all[l] => k = l
<1> DEFINE N == Len(seqs)
           flat == CHOOSE f : f = [i \in 1 .. Len(seqs) |-> IF i = 1 THEN seqs[i] ELSE f[i - 1] \o seqs[i]]
<1>1. flat = [i \in 1 .. N |-> IF i = 1 THEN seqs[i] ELSE flat[i - 1] \o seqs[i]]
  <2> DEFINE Is(f) == f = [i \in 1 .. Len(seqs) |-> IF i = 1 THEN seqs[i] ELSE f[i - 1] \o seqs[i]]
  <2>1. \E f : Is(f)
    BY FlattenExists
  <2>2. flat = CHOOSE f : Is(f)
    OBVIOUS
  <2>3. Is(flat)
    <3> HIDE DEF Is, flat
    <3> QED
      BY <2>1, <2>2
  <2> HIDE DEF flat
  <2> QED
    BY <2>3
<1>2. FlattenSeq(seqs) = flat[N]
  BY DEF FlattenSeq
<1> HIDE DEF flat
<1> DEFINE Good(n) ==
             /\ flat[n] \in Seq(Id)
             /\ \A k \in 1 .. Len(flat[n]) : \E c \in 1 .. n : \E i \in 1 .. Len(seqs[c]) :
                   flat[n][k] = seqs[c][i]
             /\ \A c \in 1 .. n : \A i \in 1 .. Len(seqs[c]) : \E k \in 1 .. Len(flat[n]) :
                   flat[n][k] = seqs[c][i]
             /\ \A k, l \in 1 .. Len(flat[n]) : flat[n][k] = flat[n][l] => k = l
           S == {n \in 0 .. N : n = 0 \/ Good(n)}
<1>3. N \in Nat /\ N # 0 /\ S \in SUBSET (0 .. N) /\ 0 \in S
  OBVIOUS
<1>4. ASSUME NEW n \in 1 .. N, n - 1 \in S PROVE n \in S
  <2> DEFINE new == flat[n]
             old == flat[n - 1]
             last == seqs[n]
  <2>0. last \in Seq(Id) /\ n \in 0 .. N /\ Len(last) \in Nat
    BY <1>3
  <2>1. CASE n = 1
    <3>1. new = last
      BY <1>1, <2>1
    <3>2. \A k, l \in 1 .. Len(last) : last[k] = last[l] => k = l
      BY <2>0
    <3>3. Good(n)
      BY <2>0, <2>1, <3>1, <3>2
    <3> QED
      BY <2>0, <3>3
  <2>2. CASE n # 1
    <3>1. Good(n - 1) /\ n - 1 \in 1 .. N
      BY <1>4, <2>2
    <3>2. new = old \o last
      BY <1>1, <2>2
    <3>3. /\ old \in Seq(Id) /\ new \in Seq(Id)
          /\ Len(old) \in Nat /\ Len(new) = Len(old) + Len(last)
          /\ \A k \in 1 .. Len(old) : new[k] = old[k]
          /\ \A k \in 1 .. Len(last) : new[Len(old) + k] = last[k]
      <4>1. old \in Seq(Id)
        BY <3>1
      <4> HIDE DEF old, new, last
      <4> QED
        BY <2>0, <3>2, <4>1
    <3>4. \A k \in 1 .. Len(old) : \E c \in 1 .. n - 1 : \E i \in 1 .. Len(seqs[c]) : old[k] = seqs[c][i]
      BY <3>1
    <3>5. \A k, l \in 1 .. Len(old) : old[k] = old[l] => k = l
      BY <3>1
    <3>6. \A k, l \in 1 .. Len(last) : last[k] = last[l] => k = l
      BY <2>0
    <3>7. \A k \in 1 .. Len(old), l \in 1 .. Len(last) : old[k] # last[l]
      <4> SUFFICES ASSUME NEW k \in 1 .. Len(old), NEW l \in 1 .. Len(last), old[k] = last[l] PROVE FALSE
        OBVIOUS
      <4>1. PICK c \in 1 .. n - 1 : \E i \in 1 .. Len(seqs[c]) : old[k] = seqs[c][i]
        BY <3>4
      <4>2. PICK i \in 1 .. Len(seqs[c]) : old[k] = seqs[c][i]
        BY <4>1
      <4>3. c \in 1 .. N /\ c # n
        BY <4>1
      <4> HIDE DEF old
      <4>4. seqs[c][i] = seqs[n][l]
        BY <4>2
      <4>5. c = n
        BY <4>3, <4>4
      <4> QED
        BY <4>3, <4>5
    <3>12. \A c \in 1 .. n - 1 : \A i \in 1 .. Len(seqs[c]) : \E k \in 1 .. Len(old) : old[k] = seqs[c][i]
      BY <3>1
    <3> HIDE DEF old
    <3>13. \A c \in 1 .. n : \A i \in 1 .. Len(seqs[c]) : \E k \in 1 .. Len(new) : new[k] = seqs[c][i]
      <4> SUFFICES ASSUME NEW c \in 1 .. n, NEW i \in 1 .. Len(seqs[c])
                   PROVE  \E k \in 1 .. Len(new) : new[k] = seqs[c][i]
        OBVIOUS
      <4>1. CASE c = n
        <5>1. Len(old) + i \in 1 .. Len(new) /\ new[Len(old) + i] = seqs[c][i]
          BY <2>0, <3>3, <4>1
        <5> HIDE DEF new
        <5> QED
          BY <5>1
      <4>2. CASE c # n
        <5>1. c \in 1 .. n - 1
          BY <4>2
        <5>2. PICK k \in 1 .. Len(old) : old[k] = seqs[c][i]
          BY <3>12, <5>1
        <5>3. k \in 1 .. Len(new) /\ new[k] = old[k]
          BY <2>0, <3>3
        <5> HIDE DEF new
        <5> QED
          BY <5>2, <5>3
      <4> QED
        BY <4>1, <4>2
    <3>8. \A k \in 1 .. Len(new) : k \in 1 .. Len(old) \/ \E l \in 1 .. Len(last) : k = Len(old) + l
      <4> SUFFICES ASSUME NEW k \in 1 .. Len(new), k \notin 1 .. Len(old)
                   PROVE  \E l \in 1 .. Len(last) : k = Len(old) + l
        OBVIOUS
      <4>1. k - Len(old) \in 1 .. Len(last) /\ k = Len(old) + (k - Len(old))
        BY <2>0, <3>3
      <4> QED
        BY <4>1
    <3>9. \A k \in 1 .. Len(new) : \E c \in 1 .. n : \E i \in 1 .. Len(seqs[c]) : new[k] = seqs[c][i]
      <4> TAKE k \in 1 .. Len(new)
      <4>1. CASE k \in 1 .. Len(old)
        <5>1. new[k] = old[k]
          BY <3>3, <4>1
        <5>2. PICK c \in 1 .. n - 1 : \E i \in 1 .. Len(seqs[c]) : old[k] = seqs[c][i]
          BY <3>4, <4>1
        <5>3. c \in 1 .. n
          BY <5>2
        <5> HIDE DEF new
        <5> QED
          BY <5>1, <5>2, <5>3
      <4>2. CASE k \notin 1 .. Len(old)
        <5>1. PICK l \in 1 .. Len(last) : k = Len(old) + l
          BY <3>8, <4>2
        <5>2. new[k] = seqs[n][l] /\ l \in 1 .. Len(seqs[n])
          BY <3>3, <5>1
        <5>3. n \in 1 .. n
          OBVIOUS
        <5> HIDE DEF new
        <5> QED
          BY <5>2, <5>3
      <4> QED
        BY <4>1, <4>2
    <3>10. \A k, l \in 1 .. Len(new) : new[k] = new[l] => k = l
      <4> SUFFICES ASSUME NEW k \in 1 .. Len(new), NEW l \in 1 .. Len(new), new[k] = new[l] PROVE k = l
        OBVIOUS
      <4>1. k \in 1 .. Len(old) \/ \E i \in 1 .. Len(last) : k = Len(old) + i
        BY <3>8
      <4>2. l \in 1 .. Len(old) \/ \E i \in 1 .. Len(last) : l = Len(old) + i
        BY <3>8
      <4> HIDE DEF new, last
      <4> QED
        BY <3>3, <3>5, <3>6, <3>7, <4>1, <4>2
    <3>11. Good(n)
      BY <3>3, <3>9, <3>10, <3>13
    <3> QED
      BY <2>0, <3>11
  <2> QED
    BY <2>1, <2>2
<1>5. Good(N)
  <2> HIDE DEF S
  <2>1. S = 0 .. N
    BY <1>3, <1>4, UpTo
  <2>2. N \in S
    BY <1>3, <2>1
  <2> QED
    BY <1>3, <2>2 DEF S
<1> QED
  BY <1>2, <1>5

-----------------------------------------------------------------------------
(* Shares                                                                  *)

Members(list) == {list[i] : i \in 1 .. Len(list)}
Distinct(list) == \A i, j \in 1 .. Len(list) : list[i] = list[j] => i = j

\* The two shares of a list have all of it, and nothing in common.
LEMMA ShareFacts ==
    ASSUME NEW list \in Seq(Id), Distinct(list)
    PROVE  /\ \A w \in Worker : /\ Share(list, w) \in Seq(Id)
                                /\ Distinct(Share(list, w))
           /\ Members(Share(list, 0)) \cap Members(Share(list, 1)) = {}
           /\ Members(Share(list, 0)) \cup Members(Share(list, 1)) = Members(list)
<1> DEFINE n == Len(list)
           m(w) == (n + 1 - w) \div 2
<1>1. n \in Nat /\ \A i \in 1 .. n : list[i] \in Id
  OBVIOUS
<1>2. \A w \in Worker : m(w) \in Nat /\ \A i \in 1 .. m(w) : 2 * i - 1 + w \in 1 .. n
  <2> SUFFICES ASSUME NEW w \in {0, 1} PROVE m(w) \in Nat /\ \A i \in 1 .. m(w) : 2 * i - 1 + w \in 1 .. n
    BY DEF Worker
  <2> HIDE DEF n
  <2> QED
    BY <1>1
<1>3. ASSUME NEW w \in Worker
      PROVE  /\ Share(list, w) \in Seq(Id) /\ Len(Share(list, w)) = m(w)
             /\ \A i \in 1 .. m(w) : Share(list, w)[i] = list[2 * i - 1 + w]
  <2>1. Share(list, w) = [i \in 1 .. m(w) |-> list[2 * i - 1 + w]]
    BY DEF Share
  <2>2. m(w) \in Nat /\ \A i \in 1 .. m(w) : list[2 * i - 1 + w] \in Id
    BY <1>1, <1>2
  <2> HIDE DEF m
  <2> QED
    BY <2>1, <2>2
<1>4. ASSUME NEW w \in Worker PROVE Distinct(Share(list, w))
  <2> SUFFICES ASSUME NEW i \in 1 .. m(w), NEW j \in 1 .. m(w), Share(list, w)[i] = Share(list, w)[j]
               PROVE  i = j
    BY <1>3 DEF Distinct
  <2>1. 2 * i - 1 + w \in 1 .. n /\ 2 * j - 1 + w \in 1 .. n /\ list[2 * i - 1 + w] = list[2 * j - 1 + w]
    BY <1>2, <1>3
  <2>2. 2 * i - 1 + w = 2 * j - 1 + w
    BY <2>1 DEF Distinct
  <2>3. m(w) \in Nat /\ w \in Int
    BY <1>2 DEF Worker
  <2> HIDE DEF m
  <2> QED
    BY <2>2, <2>3
<1>5. 0 \in Worker /\ 1 \in Worker
  BY DEF Worker
<1>6. ASSUME NEW i \in 1 .. m(0), NEW j \in 1 .. m(1) PROVE list[2 * i - 1 + 0] # list[2 * j - 1 + 1]
  <2>1. 2 * i - 1 + 0 \in 1 .. n /\ 2 * j - 1 + 1 \in 1 .. n /\ m(0) \in Nat /\ m(1) \in Nat
    BY <1>2, <1>5
  <2>2. 2 * i - 1 + 0 # 2 * j - 1 + 1
    <3> HIDE DEF m
    <3> QED
      BY <2>1
  <2> QED
    BY <2>1, <2>2 DEF Distinct
<1>7. Members(Share(list, 0)) \cap Members(Share(list, 1)) = {}
  <2> HIDE DEF m
  <2> QED
    BY <1>3, <1>5, <1>6 DEF Members
<1>8. ASSUME NEW w \in Worker PROVE Members(Share(list, w)) \subseteq Members(list)
  <2> HIDE DEF m
  <2> QED
    BY <1>2, <1>3 DEF Members
<1>9. ASSUME NEW k \in 1 .. n
      PROVE  list[k] \in Members(Share(list, 0)) \cup Members(Share(list, 1))
  <2>1. PICK i \in Int, w \in {0, 1} : k = 2 * i - 1 + w
    <3>1. k \in Int
      BY <1>1
    <3>2. (k = 2 * (k \div 2) /\ k \div 2 \in Int) \/ (k = 2 * (k \div 2) + 1 /\ k \div 2 \in Int)
      BY <3>1
    <3>3. CASE k = 2 * (k \div 2) /\ k \div 2 \in Int
      <4>1. k = 2 * (k \div 2) - 1 + 1
        BY <3>3
      <4> QED
        BY <3>3, <4>1
    <3>4. CASE k = 2 * (k \div 2) + 1 /\ k \div 2 \in Int
      <4>1. k = 2 * ((k \div 2) + 1) - 1 + 0 /\ (k \div 2) + 1 \in Int
        BY <3>4
      <4> QED
        BY <4>1
    <3> QED
      BY <3>2, <3>3, <3>4
  <2>2. i \in 1 .. m(w)
    <3> HIDE DEF n
    <3> QED
      BY <1>1, <2>1
  <2>3. Share(list, w)[i] = list[k] /\ Len(Share(list, w)) = m(w)
    BY <1>3, <2>1, <2>2 DEF Worker
  <2>4. list[k] \in Members(Share(list, w))
    <3> HIDE DEF m
    <3> QED
      BY <2>2, <2>3 DEF Members
  <2> QED
    BY <2>1, <2>4
<1>10. Members(list) \subseteq Members(Share(list, 0)) \cup Members(Share(list, 1))
  BY <1>9 DEF Members
<1> QED
  BY <1>3, <1>4, <1>5, <1>7, <1>8, <1>10

-----------------------------------------------------------------------------
(* Constants and finite sets                                               *)

LEMMA Numbers ==
    /\ NumCells \in Nat \ {0} /\ NumShards \in Nat \ {0} /\ Needed \in Nat \ {0}
    /\ YieldFloor \in Nat \ {0} /\ MaxYield \in Nat \ {0}
    /\ BatchSize \in Nat \ {0} /\ Fallback \in Nat \ {0} /\ Fallback < BatchSize
    /\ Extra \in Nat /\ Surplus \in Nat /\ MaxRefill \in Nat
  BY SizeAssumption

LEMMA OffIsNoList == Off \notin Seq(Id) /\ Off # <<>>
<1>1. Off[1].cell = 0 /\ Len(Off) = 1
  BY DEF Off
<1>2. Off \notin Seq(Id)
  <2>1. SUFFICES ASSUME Off \in Seq(Id) PROVE FALSE
    OBVIOUS
  <2>2. Off[1] \in Id
    BY <1>1, <2>1
  <2> QED
    BY <1>1, <2>2, Numbers DEF Id, Cell
<1>3. Off # <<>>
  <2>1. Len(<<>>) = 0
    OBVIOUS
  <2> QED
    BY <1>1, <2>1
<1> QED
  BY <1>2, <1>3

LEMMA IdFinite == IsFiniteSet(Id) /\ IsFiniteSet(Worker \X Id) /\ IsFiniteSet((Worker \X Id) \X (1 .. MaxYield))
<1> DEFINE Shards == 1 .. NumShards + MaxRefill
           P == Cell \X Shards
           f == [p \in P |-> [cell |-> p[1], shard |-> p[2]]]
<1>1. IsFiniteSet(Cell) /\ IsFiniteSet(Shards) /\ IsFiniteSet(Worker) /\ IsFiniteSet(1 .. MaxYield)
  <2>1. Worker = 0 .. 1
    BY DEF Worker
  <2>2. NumCells \in Int /\ NumShards + MaxRefill \in Int /\ MaxYield \in Int
    BY Numbers
  <2>3. ASSUME NEW i \in Int, NEW j \in Int PROVE IsFiniteSet(i .. j)
    BY FS_Interval
  <2>4. IsFiniteSet(0 .. 1) /\ IsFiniteSet(1 .. NumCells)
    <3>1. 0 \in Int /\ 1 \in Int
      OBVIOUS
    <3>2. IsFiniteSet(0 .. 1)
      BY <2>3, <3>1, Zenon
    <3>3. IsFiniteSet(1 .. NumCells)
      BY <2>2, <2>3, <3>1, Zenon
    <3> QED
      BY <3>2, <3>3
  <2>5. IsFiniteSet(1 .. NumShards + MaxRefill) /\ IsFiniteSet(1 .. MaxYield)
    BY <2>2, <2>3
  <2> QED
    BY <2>1, <2>4, <2>5 DEF Cell
<1>2. IsFiniteSet(P)
  BY <1>1, FS_Product
<1>3. f \in Surjection(P, Id)
  <2>1. f \in [P -> Id]
    BY DEF Id
  <2>2. ASSUME NEW a \in Id PROVE \E p \in P : f[p] = a
    <3>1. <<a.cell, a.shard>> \in P
      BY DEF Id
    <3>2. f[<<a.cell, a.shard>>] = a
      BY <3>1 DEF Id
    <3> QED
      BY <3>1, <3>2
  <2> QED
    BY <2>1, <2>2 DEF Surjection
<1> HIDE DEF P, f
<1>4. IsFiniteSet(Id)
  BY <1>2, <1>3, FS_Surjection
<1>5. IsFiniteSet(Worker \X Id)
  BY <1>1, <1>4, FS_Product
<1> QED
  BY <1>1, <1>4, <1>5, FS_Product

-----------------------------------------------------------------------------
(* The initial attempts                                                    *)

LEMMA InitialListFacts ==
    /\ InitialList \in Seq(Id) /\ Distinct(InitialList)
    /\ \A a \in Members(InitialList) : ~IsRefill(a)
<1> DEFINE n == NumCells * NumShards
           Own(k) == [cell |-> ((k - 1) \div NumShards) + 1, shard |-> ((k - 1) % NumShards) + 1]
<1>1. n \in Nat
  BY Numbers
<1>2. InitialList = [k \in 1 .. n |-> Own(k)]
  BY DEF InitialList
<1>3. ASSUME NEW k \in 1 .. n PROVE Own(k) \in Id /\ ~IsRefill(Own(k))
  <2> DEFINE q == (k - 1) \div NumShards
             r == (k - 1) % NumShards
  <2>1. k - 1 \in Nat /\ k - 1 < NumCells * NumShards
    BY <1>1
  <2>2. q \in Nat /\ r \in 0 .. NumShards - 1 /\ k - 1 = NumShards * q + r
    BY <2>1, Numbers
  <2> HIDE DEF q, r
  <2>3. q < NumCells
    <3>1. SUFFICES ASSUME q >= NumCells PROVE FALSE
      BY <2>2, Numbers
    <3> DEFINE e == q - NumCells
    <3>2. e \in Nat /\ q = NumCells + e
      BY <2>2, <3>1, Numbers
    <3> HIDE DEF e
    <3>3. NumShards * q = NumCells * NumShards + NumShards * e /\ NumShards * e \in Nat
      BY <3>2, Numbers
    <3> QED
      BY <1>1, <2>1, <2>2, <3>3, Numbers
  <2>4. q + 1 \in Cell /\ r + 1 \in 1 .. NumShards + MaxRefill /\ ~(r + 1 > NumShards)
    BY <2>2, <2>3, Numbers DEF Cell
  <2> QED
    BY <2>4 DEF Id, IsRefill, q, r
<1>4. ASSUME NEW k \in 1 .. n, NEW l \in 1 .. n, Own(k) = Own(l) PROVE k = l
  <2>1. (k - 1) \div NumShards = (l - 1) \div NumShards /\ (k - 1) % NumShards = (l - 1) % NumShards
    <3>1. k - 1 \in Nat /\ l - 1 \in Nat
      BY <1>1
    <3>2. /\ (k - 1) \div NumShards \in Int /\ (l - 1) \div NumShards \in Int
          /\ (k - 1) % NumShards \in Int /\ (l - 1) % NumShards \in Int
      BY <3>1, Numbers
    <3>3. Own(k).cell = Own(l).cell /\ Own(k).shard = Own(l).shard
      BY <1>4
    <3> QED
      BY <3>2, <3>3
  <2>2. k - 1 \in Nat /\ l - 1 \in Nat
    BY <1>1
  <2>3. k - 1 = NumShards * ((k - 1) \div NumShards) + ((k - 1) % NumShards)
    BY <2>2, Numbers
  <2>4. l - 1 = NumShards * ((l - 1) \div NumShards) + ((l - 1) % NumShards)
    BY <2>2, Numbers
  <2>5. k - 1 = l - 1
    BY <2>1, <2>3, <2>4
  <2> QED
    BY <1>1, <2>5
<1> HIDE DEF n, Own
<1>5. InitialList \in Seq(Id) /\ Len(InitialList) = n
  <2>1. [k \in 1 .. n |-> Own(k)] \in [1 .. n -> Id]
    BY <1>3
  <2> QED
    BY <1>1, <1>2, <2>1
<1>6. Distinct(InitialList)
  BY <1>2, <1>4, <1>5 DEF Distinct
<1>7. \A a \in Members(InitialList) : ~IsRefill(a)
  BY <1>2, <1>3, <1>5 DEF Members
<1> QED
  BY <1>5, <1>6, <1>7

\* The initial attempts of the two workers.
LEMMA InitialTasksFacts ==
    /\ \A w \in Worker : /\ InitialTasks(w) \in Seq(Id) /\ Distinct(InitialTasks(w))
                         /\ \A a \in Members(InitialTasks(w)) : ~IsRefill(a)
    /\ Members(InitialTasks(0)) \cap Members(InitialTasks(1)) = {}
<1>1. /\ \A w \in Worker : /\ Share(InitialList, w) \in Seq(Id)
                           /\ Distinct(Share(InitialList, w))
      /\ Members(Share(InitialList, 0)) \cap Members(Share(InitialList, 1)) = {}
      /\ Members(Share(InitialList, 0)) \cup Members(Share(InitialList, 1)) = Members(InitialList)
  BY InitialListFacts, ShareFacts
<1>2. \A w \in Worker : Members(Share(InitialList, w)) \subseteq Members(InitialList)
  BY <1>1 DEF Worker
<1> QED
  BY <1>1, <1>2, InitialListFacts DEF InitialTasks

-----------------------------------------------------------------------------
(* The planner                                                             *)

LEMMA CeilDivType ==
    ASSUME NEW x \in Nat, NEW y \in Nat \ {0}
    PROVE  CeilDiv(x, y) \in Nat
<1> DEFINE z == x + y - 1
           q == z \div y
<1>1. z \in Nat
  OBVIOUS
<1> HIDE DEF z
<1>2. q \in Int /\ y * q <= z /\ z < y * (q + 1)
  BY <1>1
<1> HIDE DEF q
<1>3. q \in Nat
  <2>1. SUFFICES ASSUME ~(q >= 0) PROVE FALSE
    BY <1>2
  <2> DEFINE e == 0 - (q + 1)
  <2>2. e \in Nat /\ q + 1 = 0 - e
    BY <1>2, <2>1
  <2> HIDE DEF e
  <2>3. y * (q + 1) = 0 - y * e /\ y * e \in Nat
    BY <2>2
  <2> QED
    BY <1>1, <1>2, <2>3
<1> QED
  BY <1>3 DEF CeilDiv, z, q

LEMMA Counts ==
    ASSUME NEW c \in Cell
    PROVE  /\ Retained(c) \in Nat /\ Attempts(c) \in Nat /\ ExistingRefills(c) \in Nat
           /\ IsFiniteSet(Refills(c)) /\ IsFiniteSet(Generated(c))
<1>1. IsFiniteSet(Refills(c))
  <2>1. Refills(c) \in SUBSET (Worker \X Id)
    BY DEF Refills
  <2> QED
    BY <2>1, IdFinite, FS_Subset
<1>2. IsFiniteSet({e \in Worker \X Id : e[2].cell = c /\ e[2] \in Completed(e[1])})
  <2>1. {e \in Worker \X Id : e[2].cell = c /\ e[2] \in Completed(e[1])} \in SUBSET (Worker \X Id)
    OBVIOUS
  <2> QED
    BY <2>1, IdFinite, FS_Subset
<1>3. IsFiniteSet(Generated(c))
  <2> DEFINE P == (Worker \X Id) \X (1 .. MaxYield)
             R == Worker \X Id \X (1 .. MaxYield)
             f == [p \in P |-> <<p[1][1], p[1][2], p[2]>>]
  <2>1. f \in Surjection(P, R)
    <3>1. f \in [P -> R]
      OBVIOUS
    <3>2. ASSUME NEW r \in R PROVE \E p \in P : f[p] = r
      <4>1. << <<r[1], r[2]>>, r[3] >> \in P /\ r = <<r[1], r[2], r[3]>>
        OBVIOUS
      <4>2. f[<< <<r[1], r[2]>>, r[3] >>] = r
        BY <4>1
      <4> QED
        BY <4>1, <4>2
    <3> QED
      BY <3>1, <3>2 DEF Surjection
  <2>2. Generated(c) \in SUBSET R
    BY DEF Generated
  <2>3. IsFiniteSet(P)
    BY IdFinite
  <2> HIDE DEF P, R, f
  <2>4. IsFiniteSet(R)
    BY <2>1, <2>3, FS_Surjection
  <2> QED
    BY <2>2, <2>4, FS_Subset
<1> QED
  BY <1>1, <1>2, <1>3, FS_CardinalityType DEF Retained, Attempts, ExistingRefills

LEMMA RefillCountType ==
    ASSUME NEW c \in Cell
    PROVE  RefillCount(c) \in Nat
<1> DEFINE kept == Retained(c)
           tried == Attempts(c)
           done == IF tried = 0 THEN 1 ELSE tried
<1>1. kept \in Nat /\ tried \in Nat /\ done \in Nat
  BY Counts
<1>2. Shortfall(c) \in Nat
  BY <1>1, Numbers DEF Shortfall
<1> HIDE DEF kept, tried, done
<1>3. done * YieldFloor \in Nat /\ 4 * done * Shortfall(c) \in Nat /\ 4 * done * YieldFloor \in Nat
  <2>1. done * YieldFloor \in Nat /\ (4 * done) \in Nat
    BY <1>1, Numbers
  <2>2. (4 * done) * Shortfall(c) \in Nat /\ (4 * done) * YieldFloor \in Nat
    BY <1>2, <2>1, Numbers
  <2> QED
    BY <2>1, <2>2
<1>4. CeilDiv(Shortfall(c), YieldFloor) \in Nat
  BY <1>2, Numbers, CeilDivType
<1>5. 3 * kept > 4 * done * YieldFloor => CeilDiv(4 * done * Shortfall(c), 3 * kept) \in Nat
  <2>1. SUFFICES ASSUME 3 * kept > 4 * done * YieldFloor
                 PROVE  CeilDiv(4 * done * Shortfall(c), 3 * kept) \in Nat
    OBVIOUS
  <2>2. 3 * kept \in Nat \ {0}
    BY <1>1, <1>3, <2>1
  <2> QED
    BY <1>3, <2>2, CeilDivType
<1>6. RefillCount(c) = IF Shortfall(c) = 0 THEN 0
                       ELSE Extra + IF 3 * kept > 4 * done * YieldFloor
                                    THEN CeilDiv(4 * done * Shortfall(c), 3 * kept)
                                    ELSE CeilDiv(Shortfall(c), YieldFloor)
  BY DEF RefillCount, kept, tried, done
<1> QED
  BY <1>2, <1>4, <1>5, <1>6, Numbers

\* The refills of a cell: the next numbers after those recorded.
LEMMA RefillTasksFacts ==
    ASSUME Numbered, NEW c \in Cell
    PROVE  LET list == RefillTasks(c)
           IN  /\ list \in Seq(Id) /\ Len(list) = RefillCount(c)
               /\ \A k \in 1 .. Len(list) :
                     list[k] = [cell |-> c, shard |-> NumShards + ExistingRefills(c) + k]
<1> DEFINE n == RefillCount(c)
           m == ExistingRefills(c)
<1>1. n \in Nat /\ m \in Nat
  BY Counts, RefillCountType
<1>2. m + n <= MaxRefill
  BY DEF Numbered
<1>3. RefillTasks(c) = [k \in 1 .. n |-> [cell |-> c, shard |-> NumShards + m + k]]
  BY DEF RefillTasks
<1> HIDE DEF n, m
<1>4. ASSUME NEW k \in 1 .. n PROVE [cell |-> c, shard |-> NumShards + m + k] \in Id
  BY <1>1, <1>2, Numbers DEF Id
<1> QED
  BY <1>1, <1>3, <1>4 DEF n, m

\* A refill that the new plan contains.
Fresh(a) ==
    /\ a \in Id
    /\ a.shard > NumShards + ExistingRefills(a.cell)
    /\ a.shard <= NumShards + ExistingRefills(a.cell) + RefillCount(a.cell)

\* The new plan: the workers share the new refills, and nothing else.
LEMMA PlanFacts ==
    ASSUME Numbered
    PROVE  /\ \A w \in Worker : /\ NewPlan(w) \in Seq(Id) /\ Distinct(NewPlan(w))
                                /\ \A a \in Members(NewPlan(w)) : Fresh(a) /\ IsRefill(a)
           /\ Members(NewPlan(0)) \cap Members(NewPlan(1)) = {}
           /\ \A a : Fresh(a) => a \in Members(NewPlan(0)) \cup Members(NewPlan(1))
<1> DEFINE seqs == [c \in Cell |-> RefillTasks(c)]
           all == FlattenSeq(seqs)
<1>1. ASSUME NEW c \in Cell
      PROVE  /\ seqs[c] \in Seq(Id) /\ Len(seqs[c]) = RefillCount(c) /\ RefillCount(c) \in Nat
             /\ ExistingRefills(c) \in Nat
             /\ \A k \in 1 .. Len(seqs[c]) :
                   seqs[c][k] = [cell |-> c, shard |-> NumShards + ExistingRefills(c) + k]
  <2>1. seqs[c] = RefillTasks(c)
    OBVIOUS
  <2> HIDE DEF seqs
  <2> QED
    BY <2>1, RefillTasksFacts, RefillCountType, Counts
<1>2. seqs \in Seq(Seq(Id)) /\ Len(seqs) = NumCells /\ NumCells # 0
  <2>1. seqs \in [1 .. NumCells -> Seq(Id)]
    BY <1>1 DEF Cell
  <2> HIDE DEF seqs
  <2> QED
    BY <2>1, Numbers
<1> HIDE DEF seqs
<1>3. \A c, d \in 1 .. Len(seqs) : \A i \in 1 .. Len(seqs[c]), j \in 1 .. Len(seqs[d]) :
          seqs[c][i] = seqs[d][j] => c = d /\ i = j
  <2> SUFFICES ASSUME NEW c \in 1 .. Len(seqs), NEW d \in 1 .. Len(seqs),
                      NEW i \in 1 .. Len(seqs[c]), NEW j \in 1 .. Len(seqs[d]),
                      seqs[c][i] = seqs[d][j]
               PROVE  c = d /\ i = j
    OBVIOUS
  <2>1. c \in Cell /\ d \in Cell
    BY <1>2 DEF Cell
  <2>2. /\ seqs[c][i] = [cell |-> c, shard |-> NumShards + ExistingRefills(c) + i]
        /\ seqs[d][j] = [cell |-> d, shard |-> NumShards + ExistingRefills(d) + j]
    BY <1>1, <2>1
  <2>3. [cell |-> c, shard |-> NumShards + ExistingRefills(c) + i].cell
          = [cell |-> d, shard |-> NumShards + ExistingRefills(d) + j].cell
    BY <2>2
  <2>4. [cell |-> c, shard |-> NumShards + ExistingRefills(c) + i].shard
          = [cell |-> d, shard |-> NumShards + ExistingRefills(d) + j].shard
    BY <2>2
  <2>5. c = d
    BY <2>3
  <2>6. NumShards + ExistingRefills(c) + i = NumShards + ExistingRefills(c) + j
    BY <2>4, <2>5
  <2>7. i \in Int /\ j \in Int /\ ExistingRefills(c) \in Nat
    BY <1>1, <2>1
  <2> QED
    BY <2>5, <2>6, <2>7, Numbers
<1>4. /\ all \in Seq(Id)
      /\ \A k \in 1 .. Len(all) : \E c \in 1 .. Len(seqs) : \E i \in 1 .. Len(seqs[c]) :
            all[k] = seqs[c][i]
      /\ \A c \in 1 .. Len(seqs) : \A i \in 1 .. Len(seqs[c]) : \E k \in 1 .. Len(all) :
            all[k] = seqs[c][i]
      /\ \A k, l \in 1 .. Len(all) : all[k] = all[l] => k = l
  BY <1>2, <1>3, FlattenFacts
<1>5. \A w : NewPlan(w) = Share(all, w)
  BY DEF NewPlan, seqs
<1> HIDE DEF all
<1>6. Distinct(all)
  BY <1>4 DEF Distinct
<1>7. /\ \A w \in Worker : NewPlan(w) \in Seq(Id) /\ Distinct(NewPlan(w))
      /\ Members(NewPlan(0)) \cap Members(NewPlan(1)) = {}
      /\ Members(NewPlan(0)) \cup Members(NewPlan(1)) = Members(all)
  BY <1>4, <1>5, <1>6, ShareFacts
<1>8. ASSUME NEW a \in Members(all) PROVE Fresh(a) /\ IsRefill(a)
  <2>1. PICK k \in 1 .. Len(all) : a = all[k]
    BY DEF Members
  <2>2. PICK c \in 1 .. Len(seqs) : \E i \in 1 .. Len(seqs[c]) : all[k] = seqs[c][i]
    BY <1>4
  <2>3. PICK i \in 1 .. Len(seqs[c]) : all[k] = seqs[c][i]
    BY <2>2
  <2>4. c \in Cell
    BY <1>2 DEF Cell
  <2>5. a = [cell |-> c, shard |-> NumShards + ExistingRefills(c) + i] /\ i \in 1 .. RefillCount(c)
    BY <1>1, <2>1, <2>3, <2>4
  <2>6. a \in Id
    BY <1>4, <2>1
  <2>7. a.cell = c /\ a.shard = NumShards + ExistingRefills(c) + i
    BY <2>5
  <2> QED
    BY <1>1, <2>4, <2>5, <2>6, <2>7, Numbers DEF Fresh, IsRefill
<1>9. ASSUME NEW a, Fresh(a) PROVE a \in Members(all)
  <2> DEFINE c == a.cell
             i == a.shard - NumShards - ExistingRefills(c)
  <2>1. a \in Id /\ c \in Cell /\ a.shard \in Nat
    BY <1>9, Numbers DEF Fresh, Id
  <2>2. ExistingRefills(c) \in Nat /\ RefillCount(c) \in Nat /\ Len(seqs[c]) = RefillCount(c)
    BY <1>1, <2>1
  <2>3. i \in 1 .. Len(seqs[c]) /\ a.shard = NumShards + ExistingRefills(c) + i
    BY <1>9, <2>1, <2>2, Numbers DEF Fresh
  <2> HIDE DEF i
  <2>4. a = seqs[c][i]
    <3>1. seqs[c][i] = [cell |-> c, shard |-> NumShards + ExistingRefills(c) + i]
      BY <1>1, <2>1, <2>3
    <3> QED
      BY <2>1, <2>3, <3>1 DEF Id
  <2>5. c \in 1 .. Len(seqs)
    BY <1>2, <2>1 DEF Cell
  <2>6. PICK k \in 1 .. Len(all) : all[k] = seqs[c][i]
    BY <1>4, <2>3, <2>5
  <2> QED
    BY <2>4, <2>6 DEF Members
<1>10. \A w \in Worker : Members(NewPlan(w)) \subseteq Members(all)
  BY <1>7 DEF Worker
<1> QED
  BY <1>7, <1>8, <1>9, <1>10

-----------------------------------------------------------------------------
(* The inductive invariant                                                 *)

Listed(list) == IF list = Off THEN {} ELSE Members(list)
Recorded(w) == {a \in Id : disk[w][a] # Absent}

\* The refills that workers may have in hand: no worker has seen a pending plan.
Live(w) == IF pending = "none" THEN Listed(plan[w]) ELSE {}

\* A record of a completed attempt says what its raw output says.
Evidence == \A w \in Worker : \A a \in Completed(w) : raw[w][a] = disk[w][a]

\* What a worker has still to save is its own and not completed.
Running ==
    \A w \in Worker : run[w] # Off =>
        /\ Distinct(run[w])
        /\ Members(run[w]) \cap Completed(w) = {}
        /\ Members(run[w]) \subseteq Members(InitialTasks(w)) \cup Live(w)

Planned ==
    \A w \in Worker : plan[w] # Off => Distinct(plan[w]) /\ \A a \in Members(plan[w]) : IsRefill(a)

\* A worker has its own initial attempts and no other.
OwnInitial ==
    \A w \in Worker : \A a \in Recorded(w) : IsRefill(a) \/ a \in Members(InitialTasks(w))

\* What is written but not saved is the batch.
Written == \A w \in Worker : out[w] # <<>> => run[w] # Off /\ Len(out[w]) = Len(Batch(w))

\* The refills a worker has recorded or has in hand, and those it has recorded or
\* finds in its plan file.
Dealt(w) == {a \in Recorded(w) \cup Live(w) : IsRefill(a)}
Due(w) == {a \in Recorded(w) \cup Listed(plan[w]) : IsRefill(a)}
UpToNumber(c, n) == {a \in Id : a.cell = c /\ IsRefill(a) /\ a.shard <= NumShards + n}

\* Two sets share the refills of each cell, and they have the numbers from 1 on.
Shared(S, T) ==
    /\ S \cap T = {}
    /\ \A c \in Cell : \E n \in Nat : {a \in S \cup T : a.cell = c} = UpToNumber(c, n)

\* As long as whole plans are launched and carried out, the workers share the
\* refills; a whole plan that is pending keeps it so when it is launched.
Numbering ==
    orderly => /\ Shared(Dealt(0), Dealt(1))
               /\ pending = "whole" => Shared(Due(0), Due(1))

IInv == TypeOK /\ MergedBacked /\ Evidence /\ Running /\ Planned /\ OwnInitial /\ Written /\ Numbering

LEMMA InitIInv == Init => IInv
<1> SUFFICES ASSUME Init PROVE IInv
  OBVIOUS
<1>1. /\ disk \in [Worker -> [Id -> {Absent, Failed} \cup Rows]]
      /\ raw \in [Worker -> [Id -> {Absent} \cup Rows]]
      /\ size \in [Worker -> {BatchSize, Fallback}]
  BY DEF Init
<1>2. \A w \in Worker : run[w] = Off /\ plan[w] = Off /\ out[w] = <<>>
  BY DEF Init
<1>3. \A w \in Worker : out[w] \in Seq(Rows) /\ Len(out[w]) <= BatchSize
  <2>1. <<>> \in Seq(Rows) /\ Len(<<>>) = 0 /\ 0 <= BatchSize
    BY Numbers
  <2> QED
    BY <1>2, <2>1
<1>4. TypeOK
  BY <1>1, <1>2, <1>3 DEF TypeOK, Init
<1>5. \A w \in Worker : Recorded(w) = {} /\ Completed(w) = {} /\ Listed(plan[w]) = {}
  BY <1>2 DEF Init, Recorded, Completed, Listed, Rows, Absent
<1>10. pending = "none"
  BY DEF Init
<1>6. MergedBacked /\ Evidence /\ Running /\ Planned /\ OwnInitial /\ Written
  BY <1>2, <1>5 DEF Init, MergedBacked, Evidence, Running, Planned, OwnInitial, Written
<1>7. Dealt(0) = {} /\ Dealt(1) = {}
  BY <1>5 DEF Dealt, Live, Worker
<1>8. ASSUME NEW c \in Cell PROVE \E n \in Nat : {a \in Dealt(0) \cup Dealt(1) : a.cell = c} = UpToNumber(c, n)
  <2>1. UpToNumber(c, 0) = {}
    BY Numbers DEF UpToNumber, IsRefill, Id
  <2>2. {a \in Dealt(0) \cup Dealt(1) : a.cell = c} = UpToNumber(c, 0)
    BY <1>7, <2>1
  <2> QED
    BY <2>2
<1>9. Numbering
  BY <1>7, <1>8, <1>10 DEF Numbering, Shared
<1> QED
  BY <1>4, <1>6, <1>9 DEF IInv

-----------------------------------------------------------------------------
(* Facts of a state                                                        *)

\* A completed attempt is recorded, with what it contributes.
LEMMA RecordFacts ==
    ASSUME TypeOK, NEW w \in Worker
    PROVE  /\ Completed(w) \subseteq Recorded(w) /\ Recorded(w) \subseteq Id
           /\ \A a \in Id : disk[w][a] \in {Absent, Failed} \cup Rows
           /\ \A a \in Id : raw[w][a] \in {Absent} \cup Rows
           /\ \A a \in Id, y \in Nat : disk[w][a] >= y => a \in Completed(w)
<1>1. \A a \in Id : disk[w][a] \in {Absent, Failed} \cup Rows /\ raw[w][a] \in {Absent} \cup Rows
  BY DEF TypeOK
<1>2. ASSUME NEW a \in Completed(w) PROVE a \in Recorded(w)
  BY DEF Completed, Recorded, Rows, Absent
<1>3. ASSUME NEW a \in Id, NEW y \in Nat, disk[w][a] >= y PROVE a \in Completed(w)
  <2>1. disk[w][a] # -2 /\ disk[w][a] # -1
    BY <1>3
  <2> QED
    BY <1>1, <2>1 DEF Absent, Failed, Completed
<1> QED
  BY <1>1, <1>2, <1>3 DEF Recorded

\* The next batch is the beginning of the list, and not empty if the list is not.
LEMMA BatchFacts ==
    ASSUME TypeOK, NEW w \in Worker, run[w] # Off
    PROVE  /\ run[w] \in Seq(Id) /\ Batch(w) \in Seq(Id)
           /\ Len(Batch(w)) \in 0 .. Len(run[w]) /\ Len(Batch(w)) <= BatchSize
           /\ \A i \in 1 .. Len(Batch(w)) : Batch(w)[i] = run[w][i]
           /\ ToSet(Batch(w)) \subseteq Members(run[w])
           /\ Members(run[w]) \subseteq Id
<1> DEFINE last == Least(size[w], Len(run[w]))
<1>1. run[w] \in Seq(Id) /\ Len(run[w]) \in Nat
  BY DEF TypeOK
<1>2. size[w] \in {BatchSize, Fallback}
  BY DEF TypeOK
<1>3. size[w] \in Nat /\ size[w] >= 1 /\ size[w] <= BatchSize
  BY <1>2, Numbers
<1>4. last \in 0 .. Len(run[w]) /\ last <= BatchSize
  BY <1>1, <1>3, Numbers DEF Least
<1> HIDE DEF last
<1>5. /\ SubSeq(run[w], 1, last) \in Seq(Id)
      /\ Len(SubSeq(run[w], 1, last)) = last
      /\ \A i \in 1 .. last : SubSeq(run[w], 1, last)[i] = run[w][i]
  BY <1>1, <1>4
<1>6. Batch(w) = SubSeq(run[w], 1, last)
  BY DEF Batch, last
<1>7. ToSet(Batch(w)) \subseteq Members(run[w])
  BY <1>1, <1>4, <1>5, <1>6 DEF ToSet, Members
<1>8. Members(run[w]) \subseteq Id
  BY <1>1 DEF Members
<1> QED
  BY <1>1, <1>4, <1>5, <1>6, <1>7, <1>8

\* What a worker has to do: those of its list that are not completed.
LEMMA ToDoFacts ==
    ASSUME NEW w \in Worker, NEW list \in Seq(Id), Distinct(list)
    PROVE  /\ ToDo(w, list) \in Seq(Id) /\ Distinct(ToDo(w, list))
           /\ Members(ToDo(w, list)) \subseteq Members(list)
           /\ Members(ToDo(w, list)) \cap Completed(w) = {}
<1> DEFINE rest == Without(list, Completed(w))
<1>1. \A i, j \in 1 .. Len(list) : list[i] = list[j] => i = j
  BY DEF Distinct
<1>2. /\ rest \in Seq(Id)
      /\ \A i \in 1 .. Len(rest) : \E j \in 1 .. Len(list) : rest[i] = list[j] /\ list[j] \notin Completed(w)
      /\ \A i, j \in 1 .. Len(rest) : rest[i] = rest[j] => i = j
  BY <1>1, WithoutFacts
<1>3. ToDo(w, list) = rest
  BY DEF ToDo
<1> HIDE DEF rest
<1> QED
  BY <1>2, <1>3 DEF Members, Distinct

-----------------------------------------------------------------------------
(* The planner commands                                                    *)

\* When the plans may be replaced, all refills dealt are recorded.
LEMMA DealtIsRecorded ==
    ASSUME TypeOK, MayReplace, NEW w \in Worker
    PROVE  Dealt(w) = {a \in Recorded(w) : IsRefill(a)}
<1>1. Live(w) \subseteq Recorded(w)
  <2>1. CASE pending # "none" \/ plan[w] = Off
    BY <2>1 DEF Live, Listed
  <2>2. CASE pending = "none" /\ plan[w] # Off
    <3>1. plan[w] \in Seq(Id) /\ ToSet(plan[w]) \subseteq Completed(w)
      BY <2>2 DEF TypeOK, MayReplace, CarriedOut
    <3>2. Members(plan[w]) = ToSet(plan[w])
      BY <3>1 DEF Members, ToSet
    <3> QED
      BY <2>2, <3>1, <3>2, RecordFacts DEF Live, Listed
  <2> QED
    BY <2>1, <2>2
<1> QED
  BY <1>1 DEF Dealt

\* When the plans may be replaced, the number of refills recorded is the number of the last.
LEMMA LastNumber ==
    ASSUME TypeOK, Numbering, orderly, MayReplace, NEW c \in Cell
    PROVE  {a \in Dealt(0) \cup Dealt(1) : a.cell = c} = UpToNumber(c, ExistingRefills(c))
<1>1. PICK n \in Nat : {a \in Dealt(0) \cup Dealt(1) : a.cell = c} = UpToNumber(c, n)
  BY DEF Numbering, Shared
<1> DEFINE m == IF n <= MaxRefill THEN n ELSE MaxRefill
           Number == [e \in Refills(c) |-> e[2].shard - NumShards]
<1>2. m \in Nat /\ m <= MaxRefill
  BY Numbers
<1>3. UpToNumber(c, m) = UpToNumber(c, n)
  BY Numbers DEF UpToNumber, Id
<1>4. \A w \in Worker : Dealt(w) = {a \in Recorded(w) : IsRefill(a)}
  BY DealtIsRecorded
<1>5. \A e : e \in Refills(c) <=> e \in Worker \X Id /\ e[2] \in Dealt(e[1]) /\ e[2].cell = c
  BY <1>4 DEF Refills, Recorded
<1>6. ASSUME NEW e \in Refills(c) PROVE e[2] \in UpToNumber(c, m) /\ Number[e] \in 1 .. m /\ e[1] \in Worker
  <2>1. e[1] \in Worker /\ e[2] \in Dealt(e[1]) /\ e[2].cell = c
    BY <1>5
  <2>2. e[2] \in {a \in Dealt(0) \cup Dealt(1) : a.cell = c}
    BY <2>1 DEF Worker
  <2>3. e[2] \in UpToNumber(c, m)
    BY <1>1, <1>3, <2>2
  <2>4. e[2].shard \in Nat /\ e[2].shard > NumShards /\ e[2].shard <= NumShards + m
    BY <2>3, Numbers DEF UpToNumber, Id, IsRefill
  <2>5. e[2].shard - NumShards \in 1 .. m
    BY <1>2, <2>4, Numbers
  <2> QED
    BY <2>1, <2>3, <2>5
<1>7. ASSUME NEW d \in Refills(c), NEW e \in Refills(c), Number[d] = Number[e] PROVE d = e
  <2>1. d \in Worker \X Id /\ e \in Worker \X Id /\ d[2] \in Dealt(d[1]) /\ e[2] \in Dealt(e[1])
    BY <1>5
  <2>2. d[2].shard - NumShards = e[2].shard - NumShards
    BY <1>7
  <2>3. d[2].shard \in Int /\ e[2].shard \in Int
    BY <2>1, Numbers DEF Id
  <2>4. d[2].shard = e[2].shard /\ d[2].cell = e[2].cell
    BY <1>5, <2>2, <2>3, Numbers
  <2>5. d[2] = e[2]
    BY <2>1, <2>4 DEF Id
  <2>6. d[1] = e[1]
    BY <2>1, <2>5 DEF Worker, Numbering, Shared
  <2> QED
    BY <2>1, <2>5, <2>6
<1>8. ASSUME NEW k \in 1 .. m PROVE \E e \in Refills(c) : Number[e] = k
  <2> DEFINE a == [cell |-> c, shard |-> NumShards + k]
  <2>1. a \in UpToNumber(c, m) /\ a.shard - NumShards = k /\ a.cell = c /\ a \in Id
    BY <1>2, Numbers DEF UpToNumber, Id, IsRefill
  <2> HIDE DEF a
  <2>2. a \in Dealt(0) \cup Dealt(1)
    BY <1>1, <1>3, <2>1
  <2>3. PICK w \in Worker : a \in Dealt(w)
    BY <2>2 DEF Worker
  <2>4. <<w, a>> \in Refills(c) /\ <<w, a>>[2] = a
    BY <1>5, <2>1, <2>3
  <2>5. Number[<<w, a>>] = k
    BY <2>1, <2>4
  <2> QED
    BY <2>4, <2>5
<1>9. Number \in Bijection(Refills(c), 1 .. m)
  <2>1. Number \in [Refills(c) -> 1 .. m]
    BY <1>6
  <2>2. Number \in Injection(Refills(c), 1 .. m)
    BY <1>7, <2>1 DEF Injection, IsInjective
  <2>3. Number \in Surjection(Refills(c), 1 .. m)
    BY <1>8, <2>1 DEF Surjection
  <2> QED
    BY <2>2, <2>3 DEF Bijection
<1>10. ExistingRefills(c) = m
  <2>1. IsFiniteSet(Refills(c)) /\ IsFiniteSet(1 .. m) /\ Cardinality(1 .. m) = m
    <3>1. IsFiniteSet(1 .. m) /\ Cardinality(1 .. m) = m
      BY <1>2, FS_Interval
    <3> QED
      BY <3>1, Counts
  <2>2. ExistsBijection(Refills(c), 1 .. m)
    BY <1>9 DEF ExistsBijection
  <2>3. Cardinality(Refills(c)) = Cardinality(1 .. m)
    BY <2>1, <2>2, FS_Bijection
  <2> QED
    BY <2>1, <2>3 DEF ExistingRefills
<1> QED
  BY <1>1, <1>3, <1>10

LEMMA PlanRefillStep ==
    ASSUME IInv, PlanRefill
    PROVE  IInv'
<1>1. /\ \A w \in Worker : /\ NewPlan(w) \in Seq(Id) /\ Distinct(NewPlan(w))
                           /\ \A a \in Members(NewPlan(w)) : Fresh(a) /\ IsRefill(a)
      /\ Members(NewPlan(0)) \cap Members(NewPlan(1)) = {}
      /\ \A a : Fresh(a) => a \in Members(NewPlan(0)) \cup Members(NewPlan(1))
  BY PlanFacts DEF PlanRefill
<1>2. \A w \in Worker : plan'[w] = NewPlan(w) /\ plan'[w] # Off /\ run'[w] = Off
  BY <1>1, OffIsNoList DEF PlanRefill
<1>3. \A w \in Worker : Completed(w)' = Completed(w) /\ Recorded(w)' = Recorded(w) /\ Batch(w)' = Batch(w)
  BY DEF PlanRefill, Completed, Recorded, Batch
<1>4. TypeOK'
  <2>1. orderly' \in BOOLEAN /\ pending' = "whole"
    BY DEF PlanRefill
  <2>2. \A w \in Worker : plan'[w] = Off \/ plan'[w] \in Seq(Id)
    BY <1>1, <1>2
  <2> QED
    BY <2>1, <2>2 DEF IInv, TypeOK, PlanRefill
<1>5. MergedBacked' /\ Evidence' /\ OwnInitial' /\ Written'
  BY <1>3 DEF IInv, MergedBacked, Evidence, OwnInitial, Written, PlanRefill
<1>6. Running'
  BY <1>2 DEF Running
<1>7. Planned'
  BY <1>1, <1>2 DEF Planned
<1>8. Numbering'
  <2> SUFFICES ASSUME orderly'
               PROVE  Shared(Dealt(0)', Dealt(1)') /\ Shared(Due(0)', Due(1)')
    BY DEF Numbering, Shared, UpToNumber
  <2>1. orderly /\ MayReplace /\ pending' = "whole"
    BY DEF PlanRefill, IInv, TypeOK
  <2>2. 0 \in Worker /\ 1 \in Worker
    BY DEF Worker
  <2>3. \A w \in Worker : Due(w)' = Dealt(w) \cup Members(NewPlan(w))
    <3> TAKE w \in Worker
    <3>1. Dealt(w) = {a \in Recorded(w) : IsRefill(a)}
      BY <2>1, DealtIsRecorded DEF IInv
    <3>2. Listed(plan[w])' = Members(NewPlan(w))
      BY <1>2 DEF Listed
    <3>3. Due(w)' = {a \in Recorded(w) \cup Members(NewPlan(w)) : IsRefill(a)}
      BY <1>3, <3>2 DEF Due
    <3> QED
      BY <1>1, <3>1, <3>3
  <2>4. \A c \in Cell : {a \in Dealt(0) \cup Dealt(1) : a.cell = c} = UpToNumber(c, ExistingRefills(c))
    BY <2>1, LastNumber DEF IInv
  <2>5. Dealt(0) \cap Dealt(1) = {}
    BY <2>1 DEF IInv, Numbering, Shared
  <2>6. \A w \in Worker : Dealt(w) \subseteq Id
    <3> TAKE w \in Worker
    <3>1. Dealt(w) = {a \in Recorded(w) : IsRefill(a)}
      BY <2>1, DealtIsRecorded DEF IInv
    <3> QED
      BY <3>1 DEF Recorded
  <2>7. \A v, w \in Worker : Dealt(v) \cap Members(NewPlan(w)) = {}
    <3> SUFFICES ASSUME NEW v \in Worker, NEW w \in Worker, NEW a \in Dealt(v), a \in Members(NewPlan(w))
                 PROVE  FALSE
      OBVIOUS
    <3>1. Fresh(a)
      BY <1>1
    <3>2. a \in Id /\ a.cell \in Cell /\ a.shard \in Nat
      BY <3>1, Numbers DEF Fresh, Id
    <3>3. a \in Dealt(0) \cup Dealt(1)
      BY DEF Worker
    <3>4. a \in UpToNumber(a.cell, ExistingRefills(a.cell))
      BY <2>4, <3>2, <3>3
    <3>5. ExistingRefills(a.cell) \in Nat
      BY <3>2, Counts
    <3> QED
      BY <3>1, <3>2, <3>4, <3>5, Numbers DEF Fresh, UpToNumber
  <2>8. Due(0)' \cap Due(1)' = {}
    BY <1>1, <2>2, <2>3, <2>5, <2>7
  <2>9. ASSUME NEW c \in Cell
        PROVE  \E n \in Nat : {a \in Due(0)' \cup Due(1)' : a.cell = c} = UpToNumber(c, n)
    <3> DEFINE e == ExistingRefills(c)
               k == RefillCount(c)
               old == Dealt(0) \cup Dealt(1)
               new == Members(NewPlan(0)) \cup Members(NewPlan(1))
    <3>1. e \in Nat /\ k \in Nat /\ e + k \in Nat
      BY Counts, RefillCountType
    <3>2. Due(0)' \cup Due(1)' = old \cup new
      BY <2>2, <2>3
    <3>3. \A a \in Id : a.cell = c => (a \in new <=> a.shard > NumShards + e /\ a.shard <= NumShards + e + k)
      <4>1. \A a : a \in new <=> Fresh(a)
        BY <1>1, <2>2
      <4> QED
        BY <4>1 DEF Fresh
    <3>4. new \subseteq Id /\ old \subseteq Id
      <4>1. new \subseteq Id
        BY <1>1, <2>2 DEF Fresh
      <4> QED
        BY <2>2, <2>6, <4>1
    <3>5. \A a \in Id : a.cell = c => (a \in old <=> a.shard > NumShards /\ a.shard <= NumShards + e)
      <4>1. {a \in old : a.cell = c} = UpToNumber(c, e)
        BY <2>4
      <4> QED
        BY <4>1 DEF UpToNumber, IsRefill
    <3> HIDE DEF e, k, old, new
    <3>6. \A a \in Id : a.shard \in Nat
      BY Numbers DEF Id
    <3>7. \A a \in Id : a.cell = c =>
             (a \in old \cup new <=> a.shard > NumShards /\ a.shard <= NumShards + (e + k))
      BY <3>1, <3>3, <3>5, <3>6, Numbers
    <3>8. {a \in old \cup new : a.cell = c} = UpToNumber(c, e + k)
      BY <3>4, <3>7 DEF UpToNumber, IsRefill
    <3> QED
      BY <3>1, <3>2, <3>8
  <2>10. Shared(Due(0)', Due(1)')
    BY <2>8, <2>9 DEF Shared
  <2>11. \A w \in Worker : Dealt(w)' = Dealt(w)
    <3> TAKE w \in Worker
    <3>1. Dealt(w) = {a \in Recorded(w) : IsRefill(a)}
      BY <2>1, DealtIsRecorded DEF IInv
    <3>2. Live(w)' = {}
      BY <2>1 DEF Live
    <3> QED
      BY <1>3, <3>1, <3>2 DEF Dealt
  <2>12. Shared(Dealt(0)', Dealt(1)')
    BY <2>1, <2>2, <2>11 DEF IInv, Numbering
  <2> QED
    BY <2>10, <2>12
<1> QED
  BY <1>4, <1>5, <1>6, <1>7, <1>8 DEF IInv

LEMMA PlanRefillDiesStep ==
    ASSUME IInv, PlanRefillDies
    PROVE  IInv'
<1>0. 0 \in Worker
  BY DEF Worker
<1>1. /\ NewPlan(0) \in Seq(Id) /\ Distinct(NewPlan(0))
      /\ \A a \in Members(NewPlan(0)) : IsRefill(a)
  BY <1>0, PlanFacts DEF PlanRefillDies
<1>2. \A w \in Worker : plan'[w] = plan[w] \/ plan'[w] = NewPlan(0)
  BY DEF PlanRefillDies, Worker
<1>3. \A w \in Worker : run'[w] = Off /\ Completed(w)' = Completed(w) /\ Recorded(w)' = Recorded(w) /\ Batch(w)' = Batch(w)
  BY DEF PlanRefillDies, Completed, Recorded, Batch
<1>4. TypeOK'
  <2>1. orderly' \in BOOLEAN /\ pending' = "half"
    BY DEF PlanRefillDies
  <2>2. \A w \in Worker : plan'[w] = Off \/ plan'[w] \in Seq(Id)
    BY <1>1, <1>2 DEF IInv, TypeOK
  <2> QED
    BY <2>1, <2>2 DEF IInv, TypeOK, PlanRefillDies
<1>5. MergedBacked' /\ Evidence' /\ OwnInitial' /\ Written'
  BY <1>3 DEF IInv, MergedBacked, Evidence, OwnInitial, Written, PlanRefillDies
<1>6. Running'
  BY <1>3 DEF Running
<1>7. Planned'
  BY <1>1, <1>2 DEF IInv, Planned
<1>8. Numbering'
  <2> SUFFICES ASSUME orderly' PROVE Shared(Dealt(0)', Dealt(1)')
    BY DEF Numbering, PlanRefillDies, Shared, UpToNumber
  <2>1. orderly /\ MayReplace /\ pending' = "half"
    BY DEF PlanRefillDies, IInv, TypeOK
  <2>2. \A w \in Worker : Dealt(w)' = Dealt(w)
    <3> TAKE w \in Worker
    <3>1. Dealt(w) = {a \in Recorded(w) : IsRefill(a)}
      BY <2>1, DealtIsRecorded DEF IInv
    <3>2. Live(w)' = {}
      BY <2>1 DEF Live
    <3> QED
      BY <1>3, <3>1, <3>2 DEF Dealt
  <2> QED
    BY <2>1, <2>2 DEF IInv, Numbering, Worker
<1> QED
  BY <1>4, <1>5, <1>6, <1>7, <1>8 DEF IInv

-----------------------------------------------------------------------------
(* Launching the workers                                                   *)

\* Workers may be given any lists of their own attempts that are not completed.
LEMMA Launched ==
    ASSUME IInv, \A w \in Worker : run[w] = Off,
           size' = [w \in Worker |-> BatchSize], run' = [w \in Worker |-> run'[w]],
           UNCHANGED <<disk, raw, out, plan, merged, counters>>,
           pending' \in {pending, "none"}, orderly' \in {orderly, orderly /\ pending # "half"},
           pending' # pending => orderly' = (orderly /\ pending # "half"),
           \A w \in Worker :
              \/ run'[w] = Off
              \/ /\ run'[w] \in Seq(Id) /\ Distinct(run'[w])
                 /\ Members(run'[w]) \cap Completed(w) = {}
                 /\ Members(run'[w]) \subseteq Members(InitialTasks(w)) \cup Live(w)'
    PROVE  IInv'
<1>1. \A w \in Worker : Completed(w)' = Completed(w) /\ Recorded(w)' = Recorded(w) /\ out'[w] = <<>>
  BY DEF Completed, Recorded, IInv, Written
<1>2. TypeOK'
  <2>1. \A w \in Worker : run'[w] \in Seq(Id) \cup {Off}
    OBVIOUS
  <2>2. run' \in [Worker -> Seq(Id) \cup {Off}] /\ size' \in [Worker -> {BatchSize, Fallback}]
    BY <2>1
  <2>3. pending' \in {"none", "half", "whole"} /\ orderly' \in BOOLEAN
    BY DEF IInv, TypeOK
  <2> QED
    BY <2>2, <2>3 DEF IInv, TypeOK
<1>3. MergedBacked' /\ Evidence' /\ OwnInitial' /\ Planned'
  BY <1>1 DEF IInv, MergedBacked, Evidence, OwnInitial, Planned
<1>4. Written'
  BY <1>1 DEF Written
<1>5. Running'
  BY <1>1 DEF Running
<1>6. \A w \in Worker : Recorded(w)' = Recorded(w) /\ Due(w)' = Due(w)
  BY <1>1 DEF Due, Listed
<1>7. pending' = pending => \A w \in Worker : Dealt(w)' = Dealt(w)
  BY <1>1 DEF Dealt, Live, Listed
<1>8. pending' = "none" => \A w \in Worker : Dealt(w)' = Due(w)
  BY <1>6 DEF Dealt, Due, Live
<1>9. Numbering'
  <2> SUFFICES ASSUME orderly'
               PROVE  /\ Shared(Dealt(0)', Dealt(1)')
                      /\ pending' = "whole" => Shared(Due(0)', Due(1)')
    BY DEF Numbering, Shared, UpToNumber
  <2>1. orderly
    BY DEF IInv, TypeOK
  <2>2. CASE pending' = pending
    BY <1>6, <1>7, <2>1, <2>2 DEF IInv, Numbering, Worker
  <2>3. CASE pending' # pending
    <3>1. pending = "whole" /\ pending' = "none"
      BY <2>3 DEF IInv, TypeOK
    <3> QED
      BY <1>8, <2>1, <3>1 DEF IInv, Numbering, Worker
  <2> QED
    BY <2>2, <2>3
<1> QED
  BY <1>2, <1>3, <1>4, <1>5, <1>9 DEF IInv

LEMMA LaunchInitialStep ==
    ASSUME IInv, LaunchInitial
    PROVE  IInv'
<1>1. \A w \in Worker : run'[w] = ToDo(w, InitialTasks(w))
  BY DEF LaunchInitial
<1>2. \A w \in Worker : InitialTasks(w) \in Seq(Id) /\ Distinct(InitialTasks(w))
  BY InitialTasksFacts
<1>3. \A w \in Worker : /\ run'[w] \in Seq(Id) /\ Distinct(run'[w])
                        /\ Members(run'[w]) \cap Completed(w) = {}
                        /\ Members(run'[w]) \subseteq Members(InitialTasks(w))
  BY <1>1, <1>2, ToDoFacts
<1> QED
  BY <1>3, Launched DEF LaunchInitial

LEMMA LaunchRefillStep ==
    ASSUME IInv, LaunchRefill
    PROVE  IInv'
<1>1. ASSUME NEW w \in Worker, run'[w] # Off
      PROVE  /\ run'[w] \in Seq(Id) /\ Distinct(run'[w])
             /\ Members(run'[w]) \cap Completed(w) = {}
             /\ Members(run'[w]) \subseteq Listed(plan[w])
  <2>1. run'[w] = ToDo(w, plan[w]) /\ plan[w] # Off
    BY <1>1 DEF LaunchRefill
  <2>2. plan[w] \in Seq(Id) /\ Distinct(plan[w])
    BY <2>1 DEF IInv, TypeOK, Planned
  <2> QED
    BY <2>1, <2>2, ToDoFacts DEF Listed
<1>2. \A w \in Worker : Live(w)' = Listed(plan[w])
  BY DEF LaunchRefill, Live, Listed
<1> QED
  BY <1>1, <1>2, Launched DEF LaunchRefill

-----------------------------------------------------------------------------
(* The steps of a worker                                                   *)

\* What a worker records of its list disturbs neither its share nor the numbering.
LEMMA RecordStep ==
    ASSUME IInv, NEW w \in Worker, run[w] # Off,
           \A v \in Worker : v # w => disk'[v] = disk[v],
           \A a \in Id : a \notin Members(run[w]) => disk'[w][a] = disk[w][a],
           UNCHANGED <<plan, pending, orderly>>
    PROVE  OwnInitial' /\ Numbering'
<1>1. \A a \in Members(run[w]) : a \in Members(InitialTasks(w)) \/ a \in Live(w)
  BY DEF IInv, Running
<1>2. \A v \in Worker : v # w => Recorded(v)' = Recorded(v)
  BY DEF Recorded
<1>3. \A a \in Id : a \notin Members(run[w]) => (a \in Recorded(w)' <=> a \in Recorded(w))
  BY DEF Recorded
<1>4. \A v \in Worker : Live(v) \subseteq Listed(plan[v]) /\ \A a \in Listed(plan[v]) : IsRefill(a)
  BY DEF IInv, Planned, Listed, Live
<1>5. \A v \in Worker : \A a \in Members(InitialTasks(v)) : ~IsRefill(a)
  BY InitialTasksFacts
<1>6. \A v \in Worker : Listed(plan[v])' = Listed(plan[v]) /\ Live(v)' = Live(v)
  BY DEF Listed, Live
<1>7. Recorded(w) \subseteq Id /\ Recorded(w)' \subseteq Id
  BY DEF Recorded
<1>8. OwnInitial'
  <2> SUFFICES ASSUME NEW v \in Worker, NEW a \in Recorded(v)', ~IsRefill(a)
               PROVE  a \in Members(InitialTasks(v))
    BY DEF OwnInitial
  <2>1. CASE v = w /\ a \in Members(run[w])
    BY <1>1, <1>4, <2>1
  <2>2. CASE v # w \/ a \notin Members(run[w])
    <3>1. a \in Recorded(v)
      BY <1>2, <1>3, <1>7, <2>2
    <3> QED
      BY <3>1 DEF IInv, OwnInitial
  <2> QED
    BY <2>1, <2>2
<1>9. ASSUME NEW v \in Worker PROVE Dealt(v)' = Dealt(v) /\ Due(v)' = Due(v)
  <2>1. CASE v # w
    BY <1>2, <1>6, <2>1 DEF Dealt, Due
  <2>2. CASE v = w
    <3>1. \A a : IsRefill(a) /\ a \in Members(run[w]) => a \in Live(w) /\ a \in Listed(plan[w])
      BY <1>1, <1>4, <1>5
    <3>2. \A a : IsRefill(a) => (a \in Recorded(w)' \cup Live(w) <=> a \in Recorded(w) \cup Live(w))
      BY <1>3, <1>7, <3>1
    <3>3. \A a : IsRefill(a) => (a \in Recorded(w)' \cup Listed(plan[w]) <=> a \in Recorded(w) \cup Listed(plan[w]))
      BY <1>3, <1>7, <3>1
    <3>4. Dealt(w)' = {a \in Recorded(w)' \cup Live(w) : IsRefill(a)}
      BY <1>6 DEF Dealt
    <3>5. Due(w)' = {a \in Recorded(w)' \cup Listed(plan[w]) : IsRefill(a)}
      BY <1>6 DEF Due
    <3> QED
      BY <2>2, <3>2, <3>3, <3>4, <3>5 DEF Dealt, Due
  <2> QED
    BY <2>1, <2>2
<1>10. Numbering'
  <2>1. Dealt(0)' = Dealt(0) /\ Dealt(1)' = Dealt(1) /\ Due(0)' = Due(0) /\ Due(1)' = Due(1)
    BY <1>9 DEF Worker
  <2> QED
    BY <2>1 DEF IInv, Numbering, Shared, UpToNumber
<1> QED
  BY <1>8, <1>10

\* Where records, plans and history stay, so does the numbering.
LEMMA NumberingStays ==
    ASSUME IInv, UNCHANGED <<disk, plan, pending, orderly>>
    PROVE  Numbering' /\ \A w \in Worker : Live(w)' = Live(w)
<1>1. \A w \in Worker : Live(w)' = Live(w) /\ Dealt(w)' = Dealt(w) /\ Due(w)' = Due(w)
  BY DEF Dealt, Due, Live, Recorded, Listed
<1> QED
  BY <1>1 DEF IInv, Numbering, Shared, UpToNumber, Worker

\* Rows of the combined corpus are of attempts that are completed.
LEMMA MergedAreCompleted ==
    ASSUME IInv, NEW r \in merged
    PROVE  /\ r \in Worker \X Id \X (1 .. MaxYield)
           /\ r[2] \in Completed(r[1]) /\ r[2] \in Recorded(r[1])
<1>1. r \in Worker \X Id \X (1 .. MaxYield)
  BY DEF IInv, TypeOK
<1>2. r[1] \in Worker /\ r[2] \in Id /\ r[3] \in Nat /\ disk[r[1]][r[2]] >= r[3]
  BY <1>1, Numbers DEF IInv, MergedBacked
<1> QED
  BY <1>1, <1>2, RecordFacts DEF IInv

\* Where the records and raw outputs of what is completed stay, so does the evidence.
LEMMA EvidenceStep ==
    ASSUME IInv, UNCHANGED merged,
           \A w \in Worker : \A a \in Completed(w) :
               disk'[w][a] = disk[w][a] /\ raw'[w][a] = raw[w][a]
    PROVE  MergedBacked'
<1> SUFFICES ASSUME NEW r \in merged
             PROVE  disk'[r[1]][r[2]] >= r[3] /\ raw'[r[1]][r[2]] = disk'[r[1]][r[2]]
  BY DEF MergedBacked
<1>1. r[1] \in Worker /\ r[2] \in Completed(r[1])
  BY MergedAreCompleted
<1>2. disk[r[1]][r[2]] >= r[3] /\ raw[r[1]][r[2]] = disk[r[1]][r[2]]
  BY DEF IInv, MergedBacked
<1> QED
  BY <1>1, <1>2

LEMMA WriteBatchStep ==
    ASSUME IInv, NEW w \in Worker, WriteBatch(w)
    PROVE  IInv'
<1>1. PICK ys \in [1 .. Len(Batch(w)) -> Rows] :
          /\ out' = [out EXCEPT ![w] = ys]
          /\ raw' = [raw EXCEPT ![w] =
                [a \in Id |-> IF \E i \in DOMAIN ys : Batch(w)[i] = a
                              THEN ys[CHOOSE i \in DOMAIN ys : Batch(w)[i] = a]
                              ELSE raw[w][a]]]
  BY DEF WriteBatch
<1>2. run[w] # Off /\ UNCHANGED <<disk, run, size, plan, merged, pending, orderly>>
  BY DEF WriteBatch
<1>3. /\ Batch(w) \in Seq(Id) /\ Len(Batch(w)) \in Nat /\ Len(Batch(w)) <= BatchSize
      /\ ToSet(Batch(w)) \subseteq Members(run[w])
  BY <1>2, BatchFacts DEF IInv
<1>4. ys \in Seq(Rows) /\ Len(ys) = Len(Batch(w)) /\ DOMAIN ys = 1 .. Len(Batch(w))
  BY <1>3
<1>5. \A v \in Worker : out'[v] = IF v = w THEN ys ELSE out[v]
  BY <1>1 DEF IInv, TypeOK
<1>6. \A v \in Worker : raw[v] \in [Id -> {Absent} \cup Rows]
  BY DEF IInv, TypeOK
<1>7. \A a \in Id : /\ raw'[w][a] \in {Absent} \cup Rows
                    /\ a \notin Members(run[w]) => raw'[w][a] = raw[w][a]
  <2> TAKE a \in Id
  <2> DEFINE wrote == \E i \in DOMAIN ys : Batch(w)[i] = a
             j == CHOOSE i \in DOMAIN ys : Batch(w)[i] = a
  <2>1. raw'[w][a] = IF wrote THEN ys[j] ELSE raw[w][a]
    BY <1>1 DEF IInv, TypeOK
  <2>2. CASE wrote
    <3>1. j \in DOMAIN ys /\ Batch(w)[j] = a
      BY <2>2
    <3> HIDE DEF j
    <3>2. ys[j] \in Rows /\ a \in ToSet(Batch(w))
      BY <1>3, <1>4, <3>1 DEF ToSet
    <3> QED
      BY <1>3, <2>1, <2>2, <3>2
  <2>3. CASE ~wrote
    BY <1>6, <2>1, <2>3
  <2> QED
    BY <2>2, <2>3
<1>8. \A v \in Worker : v # w => raw'[v] = raw[v]
  BY <1>1 DEF IInv, TypeOK
<1>9. \A v \in Worker : Completed(v)' = Completed(v) /\ Recorded(v)' = Recorded(v) /\ Batch(v)' = Batch(v)
  BY <1>2 DEF Completed, Recorded, Batch
<1>10. \A v \in Worker : \A a \in Completed(v) : raw'[v][a] = raw[v][a]
  <2> SUFFICES ASSUME NEW v \in Worker, NEW a \in Completed(v) PROVE raw'[v][a] = raw[v][a]
    OBVIOUS
  <2>1. CASE v = w
    <3>1. a \notin Members(run[w]) /\ a \in Id
      BY <1>2, <2>1 DEF IInv, Running, Completed
    <3> QED
      BY <1>7, <2>1, <3>1
  <2> QED
    BY <1>8, <2>1
<1>11. TypeOK'
  <2>1. raw' \in [Worker -> [Id -> {Absent} \cup Rows]]
    <3> DEFINE new == [a \in Id |-> IF \E i \in DOMAIN ys : Batch(w)[i] = a
                              THEN ys[CHOOSE i \in DOMAIN ys : Batch(w)[i] = a]
                              ELSE raw[w][a]]
    <3>1. raw' = [raw EXCEPT ![w] = new]
      BY <1>1
    <3>2. raw \in [Worker -> [Id -> {Absent} \cup Rows]]
      BY DEF IInv, TypeOK
    <3>3. new = raw'[w]
      <4> HIDE DEF new
      <4> QED
        BY <3>1, <3>2
    <3>4. new \in [Id -> {Absent} \cup Rows]
      <4>1. \A a \in Id : new[a] \in {Absent} \cup Rows
        <5> HIDE DEF new
        <5> QED
          BY <1>7, <3>3
      <4>2. new = [a \in Id |-> new[a]]
        OBVIOUS
      <4> HIDE DEF new
      <4> QED
        BY <4>1, <4>2
    <3> HIDE DEF new
    <3> QED
      BY <3>1, <3>2, <3>4
  <2>2. out' \in [Worker -> Seq(Rows)]
    BY <1>1, <1>4 DEF IInv, TypeOK
  <2>3. \A v \in Worker : Len(out'[v]) <= BatchSize
    BY <1>3, <1>4, <1>5 DEF IInv, TypeOK
  <2> QED
    BY <1>2, <2>1, <2>2, <2>3 DEF IInv, TypeOK
<1>12. MergedBacked'
  BY <1>2, <1>10, EvidenceStep
<1>13. Evidence'
  BY <1>2, <1>9, <1>10 DEF IInv, Evidence
<1>14. Running' /\ Planned' /\ OwnInitial'
  BY <1>2, <1>9 DEF IInv, Running, Planned, OwnInitial, Listed, Live
<1>15. Written'
  BY <1>2, <1>4, <1>5, <1>9 DEF IInv, Written
<1>16. Numbering'
  BY <1>2, NumberingStays
<1> QED
  BY <1>11, <1>12, <1>13, <1>14, <1>15, <1>16 DEF IInv

LEMMA OomFallbackStep ==
    ASSUME IInv, NEW w \in Worker, OomFallback(w)
    PROVE  IInv'
<1>1. /\ out[w] = <<>> /\ size' = [size EXCEPT ![w] = Fallback]
      /\ UNCHANGED <<disk, raw, run, out, plan, merged, pending, orderly>>
  BY DEF OomFallback
<1>2. \A v \in Worker : Completed(v)' = Completed(v) /\ Recorded(v)' = Recorded(v) /\ (v # w => Batch(v)' = Batch(v))
  BY <1>1 DEF Completed, Recorded, Batch, IInv, TypeOK
<1>3. TypeOK'
  BY <1>1 DEF IInv, TypeOK
<1>4. MergedBacked' /\ Evidence' /\ Running' /\ Planned' /\ OwnInitial'
  BY <1>1, <1>2 DEF IInv, MergedBacked, Evidence, Running, Planned, OwnInitial, Listed, Live
<1>5. Written'
  BY <1>1, <1>2 DEF IInv, Written
<1>6. Numbering'
  BY <1>1, NumberingStays
<1> QED
  BY <1>3, <1>4, <1>5, <1>6 DEF IInv

\* A worker that ends, in whatever way, leaves its files.
LEMMA EndStep ==
    ASSUME IInv, NEW w \in Worker, WorkerEnds(w) \/ WorkerDies(w)
    PROVE  IInv'
<1>1. /\ run' = [run EXCEPT ![w] = Off] /\ out' = [out EXCEPT ![w] = <<>>]
      /\ UNCHANGED <<disk, raw, size, plan, merged, pending, orderly>>
  <2>1. CASE WorkerEnds(w)
    <3>1. out[w] = <<>> /\ out' = out
      BY <2>1 DEF WorkerEnds
    <3>2. out = [out EXCEPT ![w] = <<>>]
      BY <3>1 DEF IInv, TypeOK
    <3> QED
      BY <2>1, <3>1, <3>2 DEF WorkerEnds
  <2>2. CASE WorkerDies(w)
    BY <2>2 DEF WorkerDies
  <2> QED
    BY <2>1, <2>2
<1>2. /\ run'[w] = Off /\ out'[w] = <<>>
      /\ \A v \in Worker : v # w => run'[v] = run[v] /\ out'[v] = out[v]
  BY <1>1 DEF IInv, TypeOK
<1>3. \A v \in Worker : Completed(v)' = Completed(v) /\ Recorded(v)' = Recorded(v) /\ (v # w => Batch(v)' = Batch(v))
  BY <1>1, <1>2 DEF Completed, Recorded, Batch
<1>4. TypeOK'
  <2>1. run' \in [Worker -> Seq(Id) \cup {Off}]
    BY <1>1 DEF IInv, TypeOK
  <2>2. <<>> \in Seq(Rows) /\ Len(<<>>) = 0 /\ 0 <= BatchSize
    BY Numbers
  <2>3. out' \in [Worker -> Seq(Rows)]
    BY <1>1, <2>2 DEF IInv, TypeOK
  <2>4. \A v \in Worker : Len(out'[v]) <= BatchSize
    BY <1>2, <2>2 DEF IInv, TypeOK
  <2> QED
    BY <1>1, <2>1, <2>3, <2>4 DEF IInv, TypeOK
<1>5. MergedBacked' /\ Evidence' /\ Planned' /\ OwnInitial'
  BY <1>1, <1>3 DEF IInv, MergedBacked, Evidence, Planned, OwnInitial
<1>6. Running'
  BY <1>1, <1>2, <1>3 DEF IInv, Running, Listed, Live
<1>7. Written'
  BY <1>2, <1>3 DEF IInv, Written
<1>8. Numbering'
  BY <1>1, NumberingStays
<1> QED
  BY <1>4, <1>5, <1>6, <1>7, <1>8 DEF IInv

LEMMA BatchFailsStep ==
    ASSUME IInv, NEW w \in Worker, BatchFails(w)
    PROVE  IInv'
<1> DEFINE new == [a \in Id |-> IF a \in ToSet(Batch(w)) THEN Failed ELSE disk[w][a]]
<1>1. /\ run[w] # Off /\ out[w] = <<>>
      /\ disk' = [disk EXCEPT ![w] = new] /\ run' = [run EXCEPT ![w] = Off]
      /\ UNCHANGED <<raw, size, out, plan, merged, pending, orderly>>
  BY DEF BatchFails
<1>2. ToSet(Batch(w)) \subseteq Members(run[w]) /\ Members(run[w]) \cap Completed(w) = {}
  BY <1>1, BatchFacts DEF IInv, Running
<1>3. \A a \in Id : /\ new[a] = IF a \in ToSet(Batch(w)) THEN Failed ELSE disk[w][a]
                    /\ new[a] \in {Absent, Failed} \cup Rows
  BY DEF IInv, TypeOK
<1>4. new \in [Id -> {Absent, Failed} \cup Rows]
  <2>1. new = [a \in Id |-> new[a]]
    OBVIOUS
  <2> HIDE DEF new
  <2> QED
    BY <1>3, <2>1
<1> HIDE DEF new
<1>5. /\ disk'[w] = new /\ run'[w] = Off
      /\ \A v \in Worker : v # w => disk'[v] = disk[v] /\ run'[v] = run[v]
  BY <1>1 DEF IInv, TypeOK
<1>6. TypeOK'
  <2>1. disk' \in [Worker -> [Id -> {Absent, Failed} \cup Rows]]
    BY <1>1, <1>4 DEF IInv, TypeOK
  <2>2. run' \in [Worker -> Seq(Id) \cup {Off}]
    BY <1>1 DEF IInv, TypeOK
  <2> QED
    BY <1>1, <2>1, <2>2 DEF IInv, TypeOK
<1>7. \A v \in Worker : \A a \in Completed(v) : disk'[v][a] = disk[v][a]
  <2> SUFFICES ASSUME NEW v \in Worker, NEW a \in Completed(v) PROVE disk'[v][a] = disk[v][a]
    OBVIOUS
  <2>1. CASE v = w
    <3>1. a \in Id /\ a \notin ToSet(Batch(w))
      BY <1>2, <2>1 DEF Completed
    <3> QED
      BY <1>3, <1>5, <2>1, <3>1
  <2> QED
    BY <1>5, <2>1
<1>8. MergedBacked'
  BY <1>1, <1>7, EvidenceStep
<1>9. \A v \in Worker : Completed(v)' \subseteq Completed(v)
  <2> SUFFICES ASSUME NEW v \in Worker, NEW a \in Completed(v)' PROVE a \in Completed(v)
    OBVIOUS
  <2>1. a \in Id /\ disk'[v][a] \in Rows
    BY DEF Completed
  <2>2. CASE v = w
    <3>1. new[a] \in Rows
      BY <1>5, <2>1, <2>2
    <3>2. Failed \notin Rows
      BY DEF Failed, Rows
    <3>3. new[a] = disk[w][a]
      BY <1>3, <2>1, <3>1, <3>2
    <3> QED
      BY <2>1, <2>2, <3>1, <3>3 DEF Completed
  <2> QED
    BY <1>5, <2>1, <2>2 DEF Completed
<1>10. Evidence'
  <2> SUFFICES ASSUME NEW v \in Worker, NEW a \in Completed(v)' PROVE raw'[v][a] = disk'[v][a]
    BY DEF Evidence
  <2>1. a \in Completed(v)
    BY <1>9
  <2> QED
    BY <1>1, <1>7, <2>1 DEF IInv, Evidence
<1>11. Running'
  <2> SUFFICES ASSUME NEW v \in Worker, run'[v] # Off
               PROVE  /\ Distinct(run'[v])
                      /\ Members(run'[v]) \cap Completed(v)' = {}
                      /\ Members(run'[v]) \subseteq Members(InitialTasks(v)) \cup Live(v)
    BY <1>1 DEF Running, Listed, Live
  <2>1. run'[v] = run[v]
    BY <1>5
  <2> QED
    BY <1>9, <2>1 DEF IInv, Running
<1>12. Planned'
  BY <1>1 DEF IInv, Planned
<1>13. OwnInitial' /\ Numbering'
  <2>1. \A a \in Id : a \notin Members(run[w]) => disk'[w][a] = disk[w][a]
    BY <1>2, <1>3, <1>5
  <2> QED
    BY <1>1, <1>5, <2>1, RecordStep
<1>14. Written'
  <2>1. \A v \in Worker : v # w => Batch(v)' = Batch(v)
    BY <1>1, <1>5 DEF Batch
  <2> QED
    BY <1>1, <1>5, <2>1 DEF IInv, Written
<1> QED
  BY <1>6, <1>8, <1>10, <1>11, <1>12, <1>13, <1>14 DEF IInv

LEMMA SaveBatchStep ==
    ASSUME IInv, NEW w \in Worker, SaveBatch(w)
    PROVE  IInv'
<1> DEFINE new == [a \in Id |-> IF a \in ToSet(Batch(w)) THEN raw[w][a] ELSE disk[w][a]]
           n == Len(out[w])
           list == run[w]
           rest == SubSeq(list, n + 1, Len(list))
<1>1. /\ out[w] # <<>>
      /\ disk' = [disk EXCEPT ![w] = new] /\ run' = [run EXCEPT ![w] = rest]
      /\ out' = [out EXCEPT ![w] = <<>>]
      /\ UNCHANGED <<raw, size, plan, merged, pending, orderly>>
  BY DEF SaveBatch
<1>2. run[w] # Off /\ n = Len(Batch(w))
  BY <1>1 DEF IInv, Written
<1>3. /\ ToSet(Batch(w)) \subseteq Members(run[w]) /\ Members(run[w]) \cap Completed(w) = {}
      /\ Distinct(list) /\ list \in Seq(Id) /\ Len(list) \in Nat /\ n \in 0 .. Len(list)
      /\ Batch(w) \in Seq(Id) /\ \A i \in 1 .. n : Batch(w)[i] = list[i]
  BY <1>2, BatchFacts DEF IInv, Running
<1>4. \A a \in Id : /\ new[a] = IF a \in ToSet(Batch(w)) THEN raw[w][a] ELSE disk[w][a]
                    /\ new[a] \in {Absent, Failed} \cup Rows
  BY DEF IInv, TypeOK
<1>5. new \in [Id -> {Absent, Failed} \cup Rows]
  <2>1. new = [a \in Id |-> new[a]]
    OBVIOUS
  <2> HIDE DEF new
  <2> QED
    BY <1>4, <2>1
<1> HIDE DEF new, n, list
<1>6. /\ rest \in Seq(Id) /\ Len(rest) \in Nat
      /\ \A i \in 1 .. Len(rest) : n + i \in 1 .. Len(list) /\ rest[i] = list[n + i]
  BY <1>3
<1> HIDE DEF rest
<1>7. /\ disk'[w] = new /\ run'[w] = rest /\ out'[w] = <<>>
      /\ \A v \in Worker : v # w => disk'[v] = disk[v] /\ run'[v] = run[v] /\ out'[v] = out[v]
  BY <1>1 DEF IInv, TypeOK
<1>8. Distinct(rest)
  <2> SUFFICES ASSUME NEW i \in 1 .. Len(rest), NEW j \in 1 .. Len(rest), rest[i] = rest[j] PROVE i = j
    BY DEF Distinct
  <2>1. n + i \in 1 .. Len(list) /\ n + j \in 1 .. Len(list) /\ list[n + i] = list[n + j]
    BY <1>6
  <2>2. n + i = n + j
    BY <1>3, <2>1 DEF Distinct
  <2> QED
    BY <1>3, <1>6, <2>2
<1>9. Members(rest) \subseteq Members(list) /\ Members(rest) \cap ToSet(Batch(w)) = {}
  <2>1. Members(rest) \subseteq Members(list)
    BY <1>6 DEF Members
  <2>2. ASSUME NEW a \in Members(rest), a \in ToSet(Batch(w)) PROVE FALSE
    <3>1. PICK i \in 1 .. Len(rest) : a = rest[i]
      BY DEF Members
    <3> DEFINE batch == Batch(w)
    <3>2. batch \in Seq(Id) /\ a \in ToSet(batch) /\ Len(batch) = n
      BY <1>2, <1>3, <2>2
    <3>3. \A j \in 1 .. n : batch[j] = list[j]
      BY <1>3
    <3> HIDE DEF batch
    <3>4. PICK j \in 1 .. n : a = batch[j]
      BY <3>2 DEF ToSet
    <3>5. n + i \in 1 .. Len(list) /\ rest[i] = list[n + i]
      BY <1>6
    <3>6. list[n + i] = list[j]
      BY <3>1, <3>3, <3>4, <3>5
    <3>7. j \in 1 .. Len(list)
      BY <1>3
    <3>8. n + i = j
      BY <1>3, <3>5, <3>6, <3>7 DEF Distinct
    <3> QED
      BY <1>3, <1>6, <3>8
  <2> QED
    BY <2>1, <2>2
<1>10. TypeOK'
  <2>1. disk' \in [Worker -> [Id -> {Absent, Failed} \cup Rows]]
    BY <1>1, <1>5 DEF IInv, TypeOK
  <2>2. run' \in [Worker -> Seq(Id) \cup {Off}]
    BY <1>1, <1>6 DEF IInv, TypeOK
  <2>3. <<>> \in Seq(Rows) /\ Len(<<>>) = 0 /\ 0 <= BatchSize
    BY Numbers
  <2>4. out' \in [Worker -> Seq(Rows)]
    BY <1>1, <2>3 DEF IInv, TypeOK
  <2>5. \A v \in Worker : Len(out'[v]) <= BatchSize
    BY <1>7, <2>3 DEF IInv, TypeOK
  <2> QED
    BY <1>1, <2>1, <2>2, <2>4, <2>5 DEF IInv, TypeOK
<1>11. \A v \in Worker : \A a \in Completed(v) : disk'[v][a] = disk[v][a]
  <2> SUFFICES ASSUME NEW v \in Worker, NEW a \in Completed(v) PROVE disk'[v][a] = disk[v][a]
    OBVIOUS
  <2>1. CASE v = w
    <3>1. a \in Id /\ a \notin ToSet(Batch(w))
      BY <1>3, <2>1 DEF Completed
    <3> QED
      BY <1>4, <1>7, <2>1, <3>1
  <2> QED
    BY <1>7, <2>1
<1>12. MergedBacked'
  BY <1>1, <1>11, EvidenceStep
<1>13. \A v \in Worker : \A a \in Completed(v)' : a \in Completed(v) \/ (v = w /\ a \in ToSet(Batch(w)) /\ disk'[v][a] = raw[v][a])
  <2> SUFFICES ASSUME NEW v \in Worker, NEW a \in Completed(v)', ~(v = w /\ a \in ToSet(Batch(w)) /\ disk'[v][a] = raw[v][a])
               PROVE  a \in Completed(v)
    OBVIOUS
  <2>1. a \in Id /\ disk'[v][a] \in Rows
    BY DEF Completed
  <2>2. disk'[v][a] = disk[v][a]
    BY <1>4, <1>7, <2>1
  <2> QED
    BY <2>1, <2>2 DEF Completed
<1>14. Evidence'
  <2> SUFFICES ASSUME NEW v \in Worker, NEW a \in Completed(v)' PROVE raw'[v][a] = disk'[v][a]
    BY DEF Evidence
  <2> QED
    BY <1>1, <1>11, <1>13 DEF IInv, Evidence
<1>15. Running'
  <2> SUFFICES ASSUME NEW v \in Worker, run'[v] # Off
               PROVE  /\ Distinct(run'[v])
                      /\ Members(run'[v]) \cap Completed(v)' = {}
                      /\ Members(run'[v]) \subseteq Members(InitialTasks(v)) \cup Live(v)
    BY <1>1 DEF Running, Listed, Live
  <2>1. CASE v # w
    <3>1. run'[v] = run[v] /\ Completed(v)' \subseteq Completed(v)
      BY <1>7, <1>13, <2>1
    <3> QED
      BY <3>1 DEF IInv, Running
  <2>2. CASE v = w
    <3>1. Members(list) \subseteq Members(InitialTasks(w)) \cup Live(w)
      BY <1>2 DEF IInv, Running, list
    <3>2. Members(rest) \cap Completed(w)' = {}
      <4>1. Members(rest) \cap Completed(w) = {}
        BY <1>3, <1>9 DEF list
      <4> QED
        BY <1>9, <1>13, <4>1
    <3> QED
      BY <1>7, <1>8, <1>9, <2>2, <3>1, <3>2
  <2> QED
    BY <2>1, <2>2
<1>16. Planned'
  BY <1>1 DEF IInv, Planned
<1>17. OwnInitial' /\ Numbering'
  <2>1. \A a \in Id : a \notin Members(run[w]) => disk'[w][a] = disk[w][a]
    BY <1>3, <1>4, <1>7
  <2> QED
    BY <1>1, <1>2, <1>7, <2>1, RecordStep
<1>18. Written'
  <2>1. \A v \in Worker : v # w => Batch(v)' = Batch(v)
    BY <1>1, <1>7 DEF Batch
  <2> QED
    BY <1>7, <2>1 DEF IInv, Written
<1> QED
  BY <1>10, <1>12, <1>14, <1>15, <1>16, <1>17, <1>18 DEF IInv

-----------------------------------------------------------------------------
(* The merge                                                               *)

LEMMA MergeTextStep ==
    ASSUME IInv, MergeText
    PROVE  IInv'
<1>1. UNCHANGED <<disk, raw, run, size, out, plan, pending, orderly>>
  BY DEF MergeText
<1>2. ASSUME NEW r \in merged'
      PROVE  /\ r \in Worker \X Id \X (1 .. MaxYield)
             /\ disk[r[1]][r[2]] >= r[3] /\ raw[r[1]][r[2]] = disk[r[1]][r[2]]
  <2>1. PICK f \in [Cell -> SUBSET UNION {Generated(c) : c \in Cell}] :
               /\ \A c \in Cell : f[c] \in Selections(c)
               /\ merged' = UNION {f[c] : c \in Cell}
    BY DEF MergeText
  <2>2. PICK c \in Cell : r \in f[c]
    BY <2>1
  <2>3. r \in Generated(c)
    BY <2>1, <2>2 DEF Selections
  <2>4. r \in Worker \X Id \X (1 .. MaxYield) /\ disk[r[1]][r[2]] >= r[3]
    BY <2>3 DEF Generated
  <2>5. r[1] \in Worker /\ r[2] \in Id /\ r[3] \in Nat
    BY <2>4, Numbers
  <2>6. r[2] \in Completed(r[1])
    BY <2>4, <2>5, RecordFacts DEF IInv
  <2> QED
    BY <2>4, <2>5, <2>6 DEF IInv, Evidence
<1>3. TypeOK'
  <2>1. merged' \subseteq Worker \X Id \X (1 .. MaxYield)
    BY <1>2
  <2> QED
    BY <1>1, <2>1 DEF IInv, TypeOK
<1>4. MergedBacked'
  BY <1>1, <1>2 DEF MergedBacked
<1>5. \A v \in Worker : Completed(v)' = Completed(v) /\ Recorded(v)' = Recorded(v) /\ Batch(v)' = Batch(v)
  BY <1>1 DEF Completed, Recorded, Batch
<1>6. Evidence' /\ Running' /\ Planned' /\ OwnInitial' /\ Written'
  BY <1>1, <1>5 DEF IInv, Evidence, Running, Planned, OwnInitial, Written, Listed, Live
<1>7. Numbering'
  BY <1>1, NumberingStays
<1> QED
  BY <1>3, <1>4, <1>6, <1>7 DEF IInv

LEMMA StutterStep ==
    ASSUME IInv, UNCHANGED vars
    PROVE  IInv'
<1>1. UNCHANGED <<disk, raw, run, size, out, plan, merged, pending, orderly>>
  BY DEF vars
<1>2. TypeOK'
  BY <1>1 DEF IInv, TypeOK
<1>3. \A v \in Worker : Completed(v)' = Completed(v) /\ Recorded(v)' = Recorded(v) /\ Batch(v)' = Batch(v)
  BY <1>1 DEF Completed, Recorded, Batch
<1>4. MergedBacked' /\ Evidence' /\ Running' /\ Planned' /\ OwnInitial' /\ Written'
  BY <1>1, <1>3 DEF IInv, MergedBacked, Evidence, Running, Planned, OwnInitial, Written, Listed, Live
<1>5. Numbering'
  BY <1>1, NumberingStays
<1> QED
  BY <1>2, <1>4, <1>5 DEF IInv

-----------------------------------------------------------------------------
(* Theorems                                                                *)

\* The inductive invariant holds in every reachable state: through commands in any
\* order, out-of-memory retries, errors and crashes.
THEOREM Invariant == Spec => []IInv
<1>1. IInv /\ [Next]_vars => IInv'
  <2> SUFFICES ASSUME IInv, [Next]_vars PROVE IInv'
    OBVIOUS
  <2>1. CASE Command
    BY <2>1, PlanRefillStep, PlanRefillDiesStep, LaunchInitialStep, LaunchRefillStep, MergeTextStep DEF Command
  <2>2. ASSUME NEW w \in Worker, Work(w) PROVE IInv'
    BY <2>2, WriteBatchStep, SaveBatchStep, EndStep, OomFallbackStep, BatchFailsStep DEF Work
  <2>3. CASE UNCHANGED vars
    BY <2>3, StutterStep
  <2> QED
    BY <2>1, <2>2, <2>3 DEF Next
<1> QED
  BY InitIInv, <1>1, PTL DEF Spec

\* The state files, raw outputs, lists and plans have their types (TypeOK).
THEOREM TypesCorrect == Spec => []TypeOK
<1>1. IInv => TypeOK
  BY DEF IInv
<1> QED
  BY Invariant, <1>1, PTL

\* Each row of the combined corpus keeps its raw output and its record, whatever is
\* generated, planned or merged afterwards (save_state and write_raw in
\* _run_generation_task_list, merge_text).
THEOREM MergedBackedAlways == Spec => []MergedBacked
<1>1. IInv => MergedBacked
  BY DEF IInv
<1> QED
  BY Invariant, <1>1, PTL

\* Without overlapping plans no attempt is in both state files, so that no two rows of
\* the combined corpus have the same candidate_id (plan_refill, merge_text).
THEOREM UniqueIdsWhenOrderlyAlways == Spec => []UniqueIdsWhenOrderly
<1>1. IInv => UniqueIdsWhenOrderly
  <2> SUFFICES ASSUME IInv, orderly, NEW r \in merged, NEW s \in merged, CandidateId(r) = CandidateId(s)
               PROVE  r = s
    BY DEF UniqueIdsWhenOrderly
  <2>1. /\ r \in Worker \X Id \X (1 .. MaxYield) /\ r[2] \in Recorded(r[1])
        /\ s \in Worker \X Id \X (1 .. MaxYield) /\ s[2] \in Recorded(s[1])
    BY MergedAreCompleted
  <2>2. r[2] = s[2] /\ r[3] = s[3] /\ r[1] \in Worker /\ s[1] \in Worker
    BY <2>1 DEF CandidateId
  <2>3. r[1] = s[1]
    <3>1. CASE IsRefill(r[2])
      <4>1. r[2] \in Dealt(r[1]) /\ r[2] \in Dealt(s[1])
        BY <2>1, <2>2, <3>1 DEF Dealt
      <4> QED
        BY <2>2, <4>1 DEF IInv, Numbering, Shared, Worker
    <3>2. CASE ~IsRefill(r[2])
      <4>1. r[2] \in Members(InitialTasks(r[1])) /\ r[2] \in Members(InitialTasks(s[1]))
        BY <2>1, <2>2, <3>2 DEF IInv, OwnInitial
      <4> QED
        BY <2>2, <4>1, InitialTasksFacts DEF Worker
    <3> QED
      BY <3>1, <3>2
  <2> QED
    BY <2>1, <2>2, <2>3
<1> QED
  BY Invariant, <1>1, PTL

-----------------------------------------------------------------------------
(* The size of a plan                                                      *)

\* CeilDiv rounds up.
LEMMA CeilDivRoundsUp ==
    ASSUME NEW x \in Nat, NEW y \in Nat \ {0}
    PROVE  CeilDiv(x, y) \in Nat /\ x <= y * CeilDiv(x, y)
<1> DEFINE z == x + y - 1
           q == z \div y
           p == y * q
<1>1. z \in Nat /\ z = x + y - 1
  OBVIOUS
<1> HIDE DEF z
<1>2. q \in Int /\ p <= z /\ z < y * (q + 1)
  BY <1>1
<1>3. y * (q + 1) = p + y /\ p \in Int
  BY <1>2
<1>4. CeilDiv(x, y) = q
  BY DEF CeilDiv, z
<1> HIDE DEF q, p
<1>5. x <= p
  BY <1>1, <1>2, <1>3
<1> QED
  BY <1>4, <1>5, CeilDivType DEF p

\* A refill plan suffices: if each attempt that is planned for a cell contributes y rows,
\* where y is at least the floor of conservative_yield and at least three quarters of what
\* the attempts of the cell have contributed on average, then all but Extra of them already
\* make up the shortfall (plan_refill).
THEOREM PlanSuffices ==
    ASSUME NEW c \in Cell, Shortfall(c) # 0,
           NEW y \in Nat, YieldFloor <= y, 3 * Retained(c) <= 4 * Attempts(c) * y
    PROVE  RefillCount(c) - Extra \in Nat /\ Shortfall(c) <= (RefillCount(c) - Extra) * y
<1> DEFINE kept == Retained(c)
           tried == Attempts(c)
           done == IF tried = 0 THEN 1 ELSE tried
           missing == Shortfall(c)
           n == RefillCount(c) - Extra
<1>1. kept \in Nat /\ tried \in Nat /\ done \in Nat \ {0} /\ missing \in Nat
  BY Counts, Numbers DEF Shortfall
<1>2. RefillCount(c) = Extra + IF 3 * kept > 4 * done * YieldFloor
                               THEN CeilDiv(4 * done * missing, 3 * kept)
                               ELSE CeilDiv(missing, YieldFloor)
  BY DEF RefillCount
<1>3. 3 * kept <= 4 * tried * y
  OBVIOUS
<1> HIDE DEF kept, tried, missing
<1>4. CASE ~(3 * kept > 4 * done * YieldFloor)
  <2> DEFINE k == CeilDiv(missing, YieldFloor)
  <2>1. k \in Nat /\ missing <= YieldFloor * k
    BY <1>1, Numbers, CeilDivRoundsUp
  <2>2. n = k
    <3> HIDE DEF k
    <3>1. RefillCount(c) = Extra + k
      BY <1>2, <1>4 DEF k
    <3> QED
      BY <2>1, <3>1, Numbers
  <2> HIDE DEF k
  <2>3. YieldFloor * k <= y * k /\ y * k = k * y /\ YieldFloor * k \in Nat /\ k * y \in Nat
    <3>1. PICK d \in Nat : y = YieldFloor + d
      <4>1. y - YieldFloor \in Nat /\ y = YieldFloor + (y - YieldFloor)
        BY Numbers
      <4> QED
        BY <4>1
    <3>2. y * k = YieldFloor * k + d * k /\ d * k \in Nat /\ YieldFloor * k \in Nat
      BY <2>1, <3>1, Numbers
    <3> QED
      BY <2>1, <3>2
  <2>4. missing <= k * y
    BY <1>1, <2>1, <2>3
  <2> QED
    BY <2>1, <2>2, <2>4 DEF missing
<1>5. CASE 3 * kept > 4 * done * YieldFloor
  <2> DEFINE k == CeilDiv(4 * done * missing, 3 * kept)
             e == 4 * done
             r == 3 * kept
  <2>1. e \in Nat \ {0} /\ r \in Nat /\ e * missing \in Nat /\ e * YieldFloor \in Nat
    BY <1>1, Numbers
  <2>2. r \in Nat \ {0}
    BY <1>5, <2>1
  <2>3. k \in Nat /\ e * missing <= r * k
    BY <2>1, <2>2, CeilDivRoundsUp
  <2>4. n = k
    <3> HIDE DEF k
    <3>1. RefillCount(c) = Extra + k
      BY <1>2, <1>5 DEF k
    <3> QED
      BY <2>3, <3>1, Numbers
  <2>5. done = tried
    BY <1>1, <1>3, <2>2
  <2>6. r <= e * y /\ e * y \in Nat
    BY <1>1, <1>3, <2>1, <2>5
  <2> HIDE DEF k, e, r, done
  <2>7. r * k <= (e * y) * k
    <3>1. PICK d \in Nat : e * y = r + d
      <4>1. e * y - r \in Nat /\ e * y = r + (e * y - r)
        BY <2>1, <2>6
      <4> QED
        BY <4>1
    <3>2. (r + d) * k = r * k + d * k /\ d * k \in Nat /\ r * k \in Nat
      BY <2>1, <2>3, <3>1
    <3> QED
      BY <3>1, <3>2
  <2>8. (e * y) * k = e * (k * y) /\ k * y \in Nat
    BY <2>1, <2>3
  <2> DEFINE rows == k * y
  <2>9. e * missing <= e * rows
    <3>1. r * k \in Nat
      BY <2>1, <2>3
    <3>2. e * rows \in Nat
      BY <2>1, <2>8
    <3> DEFINE a == e * missing
               b == r * k
               x == e * rows
    <3>3. a <= b /\ b <= x /\ a \in Nat /\ b \in Nat /\ x \in Nat
      BY <2>1, <2>3, <2>7, <2>8, <3>1, <3>2
    <3> HIDE DEF a, b, x
    <3>4. a <= x
      BY <3>3
    <3> QED
      BY <3>4 DEF a, x
  <2> HIDE DEF rows
  <2>10. missing <= rows
    <3>1. SUFFICES ASSUME rows < missing PROVE FALSE
      BY <1>1, <2>8 DEF rows
    <3>2. rows \in Nat
      BY <2>8 DEF rows
    <3>3. PICK d \in Nat \ {0} : missing = rows + d
      <4>1. missing - rows \in Nat \ {0} /\ missing = rows + (missing - rows)
        BY <1>1, <3>1, <3>2
      <4> QED
        BY <4>1
    <3>4. e * missing = e * rows + e * d /\ e * d \in Nat \ {0} /\ e * rows \in Nat
      BY <2>1, <3>2, <3>3
    <3> QED
      BY <2>9, <3>4
  <2> QED
    BY <2>3, <2>4, <2>10 DEF rows, missing
<1> QED
  BY <1>4, <1>5

-----------------------------------------------------------------------------
(* Each state file is an attempt ledger                                    *)

\* What a state file promises is that of AttemptLedger, without its budget: any failed
\* attempt may be completed by a later launch, and any number of attempts is recorded.
Ledger0 == INSTANCE AttemptLedger WITH
    Attempt <- Id, Initial <- Id, Yield <- Rows, Budget <- Cardinality(Id), ledger <- disk[0]
Ledger1 == INSTANCE AttemptLedger WITH
    Attempt <- Id, Initial <- Id, Yield <- Rows, Budget <- Cardinality(Id), ledger <- disk[1]
ImplementLedgers == Ledger0!LedgerSpec /\ Ledger1!LedgerSpec

\* What is written and not saved yet has its raw output.
BatchWritten ==
    \A w \in Worker : out[w] # <<>> => \A a \in ToSet(Batch(w)) : raw[w][a] \in Rows

LEMMA BatchWrittenStep ==
    ASSUME IInv, BatchWritten, [Next]_vars
    PROVE  BatchWritten'
<1> SUFFICES ASSUME NEW v \in Worker, out'[v] # <<>>, NEW a \in ToSet(Batch(v))'
             PROVE  raw'[v][a] \in Rows
  BY DEF BatchWritten
<1>1. CASE UNCHANGED <<out, raw, run, size>>
  BY <1>1 DEF BatchWritten, Batch
<1>2. CASE LaunchInitial \/ LaunchRefill
  <2>1. run[v] = Off /\ out'[v] = out[v]
    BY <1>2 DEF LaunchInitial, LaunchRefill
  <2> QED
    BY <2>1 DEF IInv, Written
<1>3. ASSUME NEW w \in Worker, Work(w) PROVE raw'[v][a] \in Rows
  <2>1. CASE v # w
    <3>1. raw'[v] = raw[v] /\ out'[v] = out[v] /\ run'[v] = run[v] /\ size'[v] = size[v]
      BY <1>3, <2>1 DEF Work, WriteBatch, SaveBatch, WorkerEnds, OomFallback, BatchFails, WorkerDies, IInv, TypeOK
    <3> QED
      BY <3>1 DEF BatchWritten, Batch
  <2>2. CASE v = w /\ WriteBatch(w)
    <3>1. PICK ys \in [1 .. Len(Batch(w)) -> Rows] :
              raw' = [raw EXCEPT ![w] =
                [b \in Id |-> IF \E i \in DOMAIN ys : Batch(w)[i] = b
                              THEN ys[CHOOSE i \in DOMAIN ys : Batch(w)[i] = b]
                              ELSE raw[w][b]]]
      BY <2>2 DEF WriteBatch
    <3>2. run[w] # Off /\ run' = run /\ size' = size
      BY <2>2 DEF WriteBatch
    <3>3. Batch(w) \in Seq(Id) /\ Batch(w)' = Batch(w)
      BY <3>2, BatchFacts DEF IInv, Batch
    <3> DEFINE batch == Batch(w)
               j == CHOOSE i \in DOMAIN ys : batch[i] = a
    <3>4. a \in ToSet(batch)
      BY <2>2, <3>3
    <3>5. raw'[w][a] = IF \E i \in DOMAIN ys : batch[i] = a THEN ys[j] ELSE raw[w][a]
      <4>1. a \in Id
        <5> HIDE DEF batch
        <5> QED
          BY <3>3, <3>4 DEF ToSet, batch
      <4> QED
        BY <3>1, <4>1 DEF IInv, TypeOK
    <3>6. batch \in Seq(Id) /\ DOMAIN ys = 1 .. Len(batch)
      BY <3>3
    <3> HIDE DEF batch, j
    <3>7. \E i \in DOMAIN ys : batch[i] = a
      BY <3>4, <3>6 DEF ToSet
    <3>8. j \in DOMAIN ys
      BY <3>7 DEF j
    <3>9. ys[j] \in Rows
      BY <3>8
    <3> QED
      BY <2>2, <3>5, <3>7, <3>9
  <2>3. CASE v = w /\ ~WriteBatch(w)
    <3>1. out'[w] = <<>>
      <4>1. CASE SaveBatch(w) \/ WorkerDies(w)
        BY <4>1 DEF SaveBatch, WorkerDies, IInv, TypeOK
      <4>2. CASE WorkerEnds(w) \/ OomFallback(w) \/ BatchFails(w)
        BY <4>2 DEF WorkerEnds, OomFallback, BatchFails
      <4> QED
        BY <1>3, <2>3, <4>1, <4>2 DEF Work
    <3> QED
      BY <2>3, <3>1
  <2> QED
    BY <2>1, <2>2, <2>3
<1>4. CASE PlanRefill \/ PlanRefillDies \/ MergeText \/ UNCHANGED vars
  BY <1>1, <1>4 DEF PlanRefill, PlanRefillDies, MergeText, vars
<1> QED
  BY <1>2, <1>3, <1>4 DEF Next, Command

LEMMA BatchWrittenAlways == Spec => []BatchWritten
<1>1. Init => BatchWritten
  BY DEF Init, BatchWritten
<1>2. IInv /\ BatchWritten /\ [Next]_vars => BatchWritten'
  BY BatchWrittenStep
<1> QED
  BY Invariant, <1>1, <1>2, PTL DEF Spec

\* The records of a worker that a step changes.
ChangedRecords(w) == {a \in Id : disk'[w][a] # disk[w][a]}

\* A step changes only records of the batch of one worker; none was completed, and
\* none is taken back.
LEMMA RecordsChange ==
    ASSUME IInv, BatchWritten, [Next]_vars, NEW w \in Worker
    PROVE  /\ IsFiniteSet(ChangedRecords(w)) /\ Cardinality(ChangedRecords(w)) <= BatchSize
           /\ \A a \in ChangedRecords(w) : disk[w][a] \in {Absent, Failed} /\ disk'[w][a] # Absent
<1>1. CASE SaveBatch(w) \/ BatchFails(w)
  <2>1. run[w] # Off
    BY <1>1 DEF SaveBatch, BatchFails, IInv, Written
  <2>2. /\ Batch(w) \in Seq(Id) /\ Len(Batch(w)) \in Nat /\ Len(Batch(w)) <= BatchSize
        /\ ToSet(Batch(w)) \subseteq Members(run[w]) /\ Members(run[w]) \cap Completed(w) = {}
    BY <2>1, BatchFacts DEF IInv, Running
  <2>3. ASSUME NEW a \in ChangedRecords(w)
        PROVE  a \in ToSet(Batch(w)) /\ disk'[w][a] # Absent
    <3>1. a \in Id /\ disk'[w][a] # disk[w][a]
      BY DEF ChangedRecords
    <3>2. CASE SaveBatch(w)
      <4>1. out[w] # <<>> /\ disk'[w][a] = IF a \in ToSet(Batch(w)) THEN raw[w][a] ELSE disk[w][a]
        BY <3>1, <3>2 DEF SaveBatch, IInv, TypeOK
      <4>2. a \in ToSet(Batch(w)) /\ raw[w][a] \in Rows
        BY <3>1, <4>1 DEF BatchWritten
      <4> QED
        BY <4>1, <4>2 DEF Rows, Absent
    <3>3. CASE BatchFails(w)
      <4>1. disk'[w][a] = IF a \in ToSet(Batch(w)) THEN Failed ELSE disk[w][a]
        BY <3>1, <3>3 DEF BatchFails, IInv, TypeOK
      <4> QED
        BY <3>1, <4>1 DEF Failed, Absent
    <3> QED
      BY <1>1, <3>2, <3>3
  <2>4. ASSUME NEW a \in ChangedRecords(w) PROVE disk[w][a] \in {Absent, Failed}
    <3>1. a \in Id /\ a \notin Completed(w)
      BY <2>2, <2>3 DEF ChangedRecords
    <3> QED
      BY <3>1 DEF Completed, IInv, TypeOK
  <2>5. IsFiniteSet(ChangedRecords(w)) /\ Cardinality(ChangedRecords(w)) <= BatchSize
    <3> DEFINE batch == Batch(w)
               n == Len(batch)
               b == [i \in 1 .. n |-> batch[i]]
    <3>1. batch \in Seq(Id) /\ n \in Nat /\ n <= BatchSize
      BY <2>2
    <3>2. ChangedRecords(w) \subseteq ToSet(batch)
      BY <2>3
    <3> HIDE DEF batch
    <3>3. b \in Surjection(1 .. n, ToSet(batch))
      <4>1. b \in [1 .. n -> ToSet(batch)]
        BY <3>1 DEF ToSet
      <4>2. \A a \in ToSet(batch) : \E i \in 1 .. n : b[i] = a
        BY <3>1 DEF ToSet
      <4> QED
        BY <4>1, <4>2 DEF Surjection
    <3>4. IsFiniteSet(1 .. n) /\ Cardinality(1 .. n) = n
      BY <3>1, FS_Interval
    <3>5. IsFiniteSet(ToSet(batch)) /\ Cardinality(ToSet(batch)) <= n
      BY <3>3, <3>4, FS_Surjection
    <3>6. /\ IsFiniteSet(ChangedRecords(w)) /\ Cardinality(ChangedRecords(w)) <= Cardinality(ToSet(batch))
          /\ Cardinality(ChangedRecords(w)) \in Nat /\ Cardinality(ToSet(batch)) \in Nat
      BY <3>2, <3>5, FS_Subset, FS_CardinalityType
    <3> QED
      BY <3>1, <3>5, <3>6, Numbers
  <2> QED
    BY <2>3, <2>4, <2>5
<1>2. CASE ~(SaveBatch(w) \/ BatchFails(w))
  <2>1. disk'[w] = disk[w]
    <3>1. ASSUME NEW v \in Worker, Work(v) PROVE disk'[w] = disk[w]
      <4>1. CASE v = w
        BY <1>2, <3>1, <4>1 DEF Work, WriteBatch, WorkerEnds, OomFallback, WorkerDies
      <4>2. CASE v # w
        BY <3>1, <4>2 DEF Work, WriteBatch, SaveBatch, WorkerEnds, OomFallback, BatchFails, WorkerDies, IInv, TypeOK
      <4> QED
        BY <4>1, <4>2
    <3>2. CASE Command \/ UNCHANGED vars
      BY <3>2 DEF Command, PlanRefill, PlanRefillDies, LaunchInitial, LaunchRefill, MergeText, vars
    <3> QED
      BY <3>1, <3>2 DEF Next
  <2>2. ChangedRecords(w) = {}
    BY <2>1 DEF ChangedRecords
  <2> QED
    BY <2>2, FS_EmptySet, Numbers
<1> QED
  BY <1>1, <1>2

\* The instances count like this module.
LEMMA SameCardinality ==
    ASSUME NEW S
    PROVE  Ledger0!Cardinality(S) = Cardinality(S) /\ Ledger1!Cardinality(S) = Cardinality(S)
  BY DEF Ledger0!Cardinality, Ledger1!Cardinality, Cardinality

LEMMA LedgerStart == Init => Ledger0!LedgerInit /\ Ledger1!LedgerInit
  BY DEF Init, Worker, Ledger0!LedgerInit, Ledger0!Absent, Ledger1!LedgerInit, Ledger1!Absent, Absent

LEMMA LedgerStep ==
    ASSUME IInv, IInv', BatchWritten, [Next]_vars
    PROVE  [Ledger0!Record]_(disk[0]) /\ [Ledger1!Record]_(disk[1])
<1>1. \A w \in Worker : /\ disk[w] \in [Id -> {Absent, Failed} \cup Rows]
                        /\ disk'[w] \in [Id -> {Absent, Failed} \cup Rows]
  BY DEF IInv, TypeOK
<1>2. \A w \in Worker : Cardinality(Recorded(w)') <= Cardinality(Id)
  <2> SUFFICES ASSUME NEW w \in Worker PROVE Cardinality(Recorded(w)') <= Cardinality(Id)
    OBVIOUS
  <2>1. Recorded(w)' \subseteq Id
    BY DEF Recorded
  <2> QED
    BY <2>1, IdFinite, FS_Subset
<1>3. \A w \in Worker : ChangedRecords(w) = {} => disk'[w] = disk[w]
  <2> SUFFICES ASSUME NEW w \in Worker, ChangedRecords(w) = {} PROVE disk'[w] = disk[w]
    OBVIOUS
  <2>1. \A a \in Id : disk'[w][a] = disk[w][a]
    BY DEF ChangedRecords
  <2> QED
    BY <1>1, <2>1
<1>4. [Ledger0!Record]_(disk[0])
  <2>1. 0 \in Worker
    BY DEF Worker
  <2>2. Ledger0!Changed = ChangedRecords(0) /\ Ledger0!Recorded' = Recorded(0)'
    BY DEF Ledger0!Changed, ChangedRecords, Ledger0!Recorded, Recorded, Ledger0!Absent, Absent
  <2>3. /\ Cardinality(ChangedRecords(0)) <= BatchSize
        /\ \A a \in ChangedRecords(0) : disk[0][a] \in {Absent, Failed} /\ disk'[0][a] # Absent
    BY <2>1, RecordsChange
  <2>4. ChangedRecords(0) \subseteq Id
    BY DEF ChangedRecords
  <2>5. CASE ChangedRecords(0) # {}
    <3>1. Ledger0!Cardinality(Ledger0!Changed) <= BatchSize
      BY <2>2, <2>3, SameCardinality
    <3>2. Ledger0!Cardinality(Ledger0!Recorded') <= Cardinality(Id)
      BY <1>2, <2>1, <2>2, SameCardinality
    <3>3. disk'[0] \in [Id -> Rows \cup {Ledger0!Absent, Ledger0!Failed}]
      <4>1. {Absent, Failed} \cup Rows = Rows \cup {Ledger0!Absent, Ledger0!Failed}
        BY DEF Ledger0!Absent, Ledger0!Failed, Absent, Failed
      <4> QED
        BY <1>1, <2>1, <4>1
    <3>4. \A a \in Ledger0!Changed :
              /\ disk[0][a] = Ledger0!Absent \/ (disk[0][a] = Ledger0!Failed /\ a \in Id)
              /\ disk'[0][a] # Ledger0!Absent
      BY <2>2, <2>3, <2>4 DEF Ledger0!Absent, Ledger0!Failed, Absent, Failed
    <3> QED
      BY <2>2, <2>5, <3>1, <3>2, <3>3, <3>4, SameCardinality DEF Ledger0!Record
  <2> QED
    BY <1>3, <2>1, <2>5
<1>5. [Ledger1!Record]_(disk[1])
  <2>1. 1 \in Worker
    BY DEF Worker
  <2>2. Ledger1!Changed = ChangedRecords(1) /\ Ledger1!Recorded' = Recorded(1)'
    BY DEF Ledger1!Changed, ChangedRecords, Ledger1!Recorded, Recorded, Ledger1!Absent, Absent
  <2>3. /\ Cardinality(ChangedRecords(1)) <= BatchSize
        /\ \A a \in ChangedRecords(1) : disk[1][a] \in {Absent, Failed} /\ disk'[1][a] # Absent
    BY <2>1, RecordsChange
  <2>4. ChangedRecords(1) \subseteq Id
    BY DEF ChangedRecords
  <2>5. CASE ChangedRecords(1) # {}
    <3>1. Ledger1!Cardinality(Ledger1!Changed) <= BatchSize
      BY <2>2, <2>3, SameCardinality
    <3>2. Ledger1!Cardinality(Ledger1!Recorded') <= Cardinality(Id)
      BY <1>2, <2>1, <2>2, SameCardinality
    <3>3. disk'[1] \in [Id -> Rows \cup {Ledger1!Absent, Ledger1!Failed}]
      <4>1. {Absent, Failed} \cup Rows = Rows \cup {Ledger1!Absent, Ledger1!Failed}
        BY DEF Ledger1!Absent, Ledger1!Failed, Absent, Failed
      <4> QED
        BY <1>1, <2>1, <4>1
    <3>4. \A a \in Ledger1!Changed :
              /\ disk[1][a] = Ledger1!Absent \/ (disk[1][a] = Ledger1!Failed /\ a \in Id)
              /\ disk'[1][a] # Ledger1!Absent
      BY <2>2, <2>3, <2>4 DEF Ledger1!Absent, Ledger1!Failed, Absent, Failed
    <3> QED
      BY <2>2, <2>5, <3>1, <3>2, <3>3, <3>4, SameCardinality DEF Ledger1!Record
  <2> QED
    BY <1>3, <2>1, <2>5
<1> QED
  BY <1>4, <1>5

\* Through launches, errors, crashes and refills, each worker's state file only grows,
\* one batch at a time, and a completed attempt never changes (save_state).
THEOREM ImplementLedgersAlways == Spec => ImplementLedgers
<1>1. IInv /\ IInv' /\ BatchWritten /\ [Next]_vars => [Ledger0!Record]_(disk[0]) /\ [Ledger1!Record]_(disk[1])
  BY LedgerStep
<1> QED
  BY LedgerStart, Invariant, BatchWrittenAlways, <1>1, PTL
  DEF Spec, ImplementLedgers, Ledger0!LedgerSpec, Ledger1!LedgerSpec

================================================================================
